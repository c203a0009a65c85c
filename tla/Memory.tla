------------------------------- MODULE Memory -------------------------------
(***************************************************************************)
(* The memory of one event manager: Arena (core/arena.hpp), the FrameCache *)
(* of its coroutine frames (coro/frame_cache.hpp, coro/task.hpp) and the   *)
(* Pool of its connections (core/pool.hpp), which both carve the arena.    *)
(*                                                                         *)
(* m is the memory:                                                        *)
(*   off              off_ of the arena                                    *)
(*   free[c]          free_ of the size class c: addresses of blocks       *)
(*   frames           live frames in blocks: the address at of the block,  *)
(*                    its class, and the bytes that are used of it         *)
(*   onheap           live frames that came from operator new              *)
(*   objs, pfree      live objects of the pool, and its free_: addresses   *)
(*   chunks, heap     arena_chunks_ and heap_chunk_count_                  *)
(*   carved[c], peak[c]  history: the chunks carved for the class, and the *)
(*                    most frames that were live in its blocks             *)
(* The arena starts at address 0; the pool's heap chunks lie beyond it.    *)
(***************************************************************************)
EXTENDS Integers, Sequences, FiniteSets

CONSTANTS ArenaBytes,    \* memory.arena_bytes
          Gran, kBuckets, \* kGranularity, kBuckets
          HeaderBytes,   \* sizeof(BlockHeader)
          ChunkBytes,    \* kChunkBytes
          FrameSizes,    \* the sizes of the program's frames
          SlotBytes, SlotAlign, ChunkHead, PerChunk,  \* Pool: a slot, alignof(T), the header of
                                               \* a chunk, objs_per_chunk
          MaxFrames, MaxObjs   \* bounds: live frames, live objects

ASSUME MemoryAssumption ==
  /\ {ArenaBytes, ChunkHead} \subseteq Nat
  /\ {Gran, kBuckets, HeaderBytes, SlotBytes, SlotAlign, PerChunk} \subseteq Nat \ {0}
  /\ FrameSizes \subseteq Nat \ {0} /\ ChunkBytes \in Nat /\ ChunkBytes >= kBuckets * Gran

VARIABLE m

Classes == 1 .. kBuckets
Null == -1

MemoryInit ==
  m = [off |-> 0, free |-> [c \in Classes |-> << >>], frames |-> {}, onheap |-> 0,
       objs |-> {}, pfree |-> << >>, chunks |-> 0, heap |-> 0,
       carved |-> [c \in Classes |-> 0], peak |-> [c \in Classes |-> 0]]

UpTo(n, unit) == ((n + unit - 1) \div unit) * unit

\* Arena::alloc(n, align) when off_ is off
ArenaAlloc(off, n, align) ==
  IF UpTo(off, align) + n > ArenaBytes THEN Null ELSE UpTo(off, align)

-----------------------------------------------------------------------------
(* FrameCache *)

BlocksOf(c) == ChunkBytes \div (c * Gran)

\* What carve() would be if the last slice could reach past the chunk.
carveOver(r, c) ==
  LET at == ArenaAlloc(r.off, ChunkBytes, Gran)
      n == (ChunkBytes + c * Gran - 1) \div (c * Gran)
  IN IF at = Null THEN r
     ELSE [r EXCEPT !.off = at + ChunkBytes,
                    !.free[c] = [i \in 1 .. n |-> at + (n - i) * c * Gran] \o @,
                    !.carved[c] = @ + 1]

\* carve(): a chunk of the arena in slices, the last of them first
carve(r, c) ==
  LET at == ArenaAlloc(r.off, ChunkBytes, Gran)
      n == BlocksOf(c)
  IN IF at = Null THEN r
     ELSE [r EXCEPT !.off = at + ChunkBytes,
                    !.free[c] = [i \in 1 .. n |-> at + (n - i) * c * Gran] \o @,
                    !.carved[c] = @ + 1]

InClass(fs, c) == Cardinality({f \in fs : f.cls = c})

\* the first block of the class, for a frame that needs so many bytes
TakeBlock(r, c, need) ==
  LET fs == r.frames \cup {[at |-> Head(r.free[c]), cls |-> c, used |-> need]}
  IN [r EXCEPT !.frames = fs, !.free[c] = Tail(@),
               !.peak[c] = IF InClass(fs, c) > @ THEN InClass(fs, c) ELSE @]

HeapBlock(r) == [r EXCEPT !.onheap = @ + 1]

\* alloc(n)
FrameAlloc(n) ==
  LET need == n + HeaderBytes
      c == UpTo(need, Gran) \div Gran
      r == IF c > kBuckets \/ m.free[c] # << >> THEN m ELSE carve(m, c)
  IN m' = IF c > kBuckets \/ r.free[c] = << >> THEN HeapBlock(r) ELSE TakeBlock(r, c, need)

\* free(p): the header says where the block belongs
FrameFree(f) == m' = [m EXCEPT !.frames = @ \ {f}, !.free[f.cls] = <<f.at>> \o @]

HeapFrameFree == m.onheap > 0 /\ m' = [m EXCEPT !.onheap = @ - 1]

-----------------------------------------------------------------------------
(* Pool *)

\* grow(): from the arena, else from the heap; the last slot comes first
PoolGrow(r) ==
  LET bytes == ChunkHead + PerChunk * SlotBytes
      at == ArenaAlloc(r.off, bytes, SlotAlign)
      base == IF at = Null THEN ArenaBytes + r.heap * bytes ELSE at
      t == [r EXCEPT !.pfree = [i \in 1 .. PerChunk |-> base + ChunkHead + (PerChunk - i) * SlotBytes] \o @]
  IN IF at = Null THEN [t EXCEPT !.heap = @ + 1]
     ELSE [t EXCEPT !.chunks = @ + 1, !.off = at + bytes]

PoolConstruct ==
  LET r == IF m.pfree = << >> THEN PoolGrow(m) ELSE m
  IN m' = [r EXCEPT !.objs = @ \cup {Head(r.pfree)}, !.pfree = Tail(@)]

PoolDestroy(o) == m' = [m EXCEPT !.objs = @ \ {o}, !.pfree = <<o>> \o @]

\* ~Pool(), and the pool of the next server: chunks of the arena are not returned
PoolEnd ==
  /\ m.objs = {} /\ m.pfree # << >>
  /\ m' = [m EXCEPT !.pfree = << >>, !.heap = 0, !.chunks = 0]

MemoryNext ==
  \/ /\ Cardinality(m.frames) + m.onheap < MaxFrames
     /\ \E n \in FrameSizes : FrameAlloc(n)
  \/ \E f \in m.frames : FrameFree(f)
  \/ HeapFrameFree
  \/ Cardinality(m.objs) < MaxObjs /\ PoolConstruct
  \/ \E o \in m.objs : PoolDestroy(o)
  \/ PoolEnd

MemorySpec == MemoryInit /\ [][MemoryNext]_m

-----------------------------------------------------------------------------
(* Properties *)

\* the memory in use and the memory on offer: first and last address, and holder
Extents ==
  {<<f.at, f.at + f.used - 1, "frame", 0>> : f \in m.frames}
  \cup UNION {{<<m.free[c][i], m.free[c][i] + c * Gran - 1, "free", i>> : i \in DOMAIN m.free[c]} : c \in Classes}
  \cup {<<o, o + SlotBytes - 1, "object", 0>> : o \in m.objs}
  \cup {<<m.pfree[i], m.pfree[i] + SlotBytes - 1, "slot", i>> : i \in DOMAIN m.pfree}

\* Through every recycling of frames and connections, no byte belongs to two
\* of them or to one of them and a free list, no block ends beyond the arena's
\* cursor, and no block is lost: what a class carved, and what the pool's
\* capacity() counts, is live or free.
\* A class is given another chunk only when all its blocks are live, so that
\* the arena follows the peak of the live frames and not their churn.
MemoryOwned ==
  /\ \A x, y \in Extents : x # y => x[2] < y[1] \/ y[2] < x[1]
  /\ \A x \in Extents : x[1] < ArenaBytes => x[2] < m.off
  /\ \A c \in Classes : Len(m.free[c]) + InClass(m.frames, c) = m.carved[c] * BlocksOf(c)
  /\ Len(m.pfree) + Cardinality(m.objs) = (m.chunks + m.heap) * PerChunk
  /\ \A c \in Classes : m.carved[c] > 0 => (m.carved[c] - 1) * BlocksOf(c) < m.peak[c]
=============================================================================
