----------------------------- MODULE HandleTable -----------------------------
(***************************************************************************)
(* HandleTable<T, HandleT> of include/afx/core/handle_table.hpp, the slab  *)
(* behind timers, timer groups and completion sinks, and the UserData tag  *)
(* (include/afx/backend/backend.hpp) that carries a sink's handle through  *)
(* the kernel.  Objects come and go; every handle ever returned is kept in *)
(* issued, as a stale TimerId or an in-flight completion would keep it.    *)
(***************************************************************************)
EXTENDS Naturals, Sequences, FiniteSets

CONSTANTS GenMod,    \* 2^32: generations are counted modulo GenMod, 0 is never used
          SlotMod,   \* 2^24: slots a UserData tag can name
          FirstGen,  \* first_gen_
          MaxSlots,  \* bound: slots_.size()
          MaxRel     \* bound: releases of one slot

ASSUME HandleAssumption ==
  /\ GenMod \in Nat /\ GenMod > 2
  /\ FirstGen \in 1 .. GenMod - 1
  /\ MaxSlots \in Nat /\ MaxRel \in Nat
  /\ SlotMod \in Nat /\ MaxSlots <= SlotMod /\ SlotMod > 0

VARIABLES size,            \* slots_.size()
          gen, alive,      \* slots_[i].gen and .alive
          free, deferred,  \* free_ and deferred_
          live,            \* live_
          rel,             \* history: how often slot i was released
          issued,          \* history: handles returned by emplace, with rel at the time
          fresh            \* history: slots released since the last reclaim()

tableVars == <<size, gen, alive, free, deferred, live, rel, issued, fresh>>

Idx == 0 .. MaxSlots - 1

TableInit ==
  /\ size = 0
  /\ gen = [i \in Idx |-> FirstGen]
  /\ alive = [i \in Idx |-> FALSE]
  /\ free = << >> /\ deferred = << >> /\ live = 0
  /\ rel = [i \in Idx |-> 0]
  /\ issued = {} /\ fresh = {}

Place(i) ==
  /\ alive' = [alive EXCEPT ![i] = TRUE]
  /\ live' = live + 1
  /\ issued' = issued \cup {[idx |-> i, gen |-> gen[i], rel |-> rel[i]]}

\* emplace, from the free list ...
EmplaceReuse ==
  /\ free # << >>
  /\ Place(free[Len(free)])
  /\ free' = SubSeq(free, 1, Len(free) - 1)
  /\ UNCHANGED <<size, gen, deferred, rel, fresh>>

\* ... or in a new slot
EmplaceGrow ==
  /\ free = << >>
  /\ size < MaxSlots
  /\ Place(size)
  /\ size' = size + 1
  /\ UNCHANGED <<gen, free, deferred, rel, fresh>>

\* get(h) != nullptr
Resolves(idx, g) == idx < size /\ alive[idx] /\ gen[idx] = g

\* Mutant of Bump: a slot keeps its generation.
BumpNot(g) == g

\* ++s.gen; if (s.gen == 0) s.gen = 1
Bump(g) == IF (g + 1) % GenMod = 0 THEN 1 ELSE (g + 1) % GenMod

\* release(h); a stale handle is left alone
Release(h) ==
  /\ Resolves(h.idx, h.gen)
  /\ rel[h.idx] < MaxRel
  /\ alive' = [alive EXCEPT ![h.idx] = FALSE]
  /\ live' = live - 1
  /\ gen' = [gen EXCEPT ![h.idx] = Bump(@)]
  /\ rel' = [rel EXCEPT ![h.idx] = @ + 1]
  /\ deferred' = Append(deferred, h.idx)
  /\ fresh' = fresh \cup {h.idx}
  /\ UNCHANGED <<size, free, issued>>

\* reclaim(), at the end of an iteration
Reclaim ==
  /\ free' = free \o deferred
  /\ deferred' = << >>
  /\ fresh' = {}
  /\ UNCHANGED <<size, gen, alive, live, rel, issued>>

TableNext == EmplaceReuse \/ EmplaceGrow \/ (\E h \in issued : Release(h)) \/ Reclaim

TableSpec == TableInit /\ [][TableNext]_tableVars

-----------------------------------------------------------------------------
\* UserData::make and slot(): the low 24 bits of the index survive
TagSlot(idx) == idx % SlotMod

(* Properties *)

Handles == [idx : Idx, gen : 1 .. GenMod - 1, rel : Nat]
\* Generations stay off 0, the invalid one, through every wrap (release).
TableTypeOK ==
  /\ size \in 0 .. MaxSlots
  /\ gen \in [Idx -> 1 .. GenMod - 1]
  /\ alive \in [Idx -> BOOLEAN]
  /\ free \in Seq(Idx) /\ deferred \in Seq(Idx)
  /\ live \in Nat
  /\ rel \in [Idx -> Nat]
  /\ issued \subseteq Handles
  /\ fresh \subseteq Idx

\* A handle reaches its own object, through get() and as the tag of a completion,
\* for as long as that object lives, and nothing afterwards, unless its slot has
\* been released GenMod - 1 times since (2^32 - 1 in the program).
HandleExact ==
  \A h \in issued : rel[h.idx] - h.rel < GenMod - 1 =>
    (Resolves(TagSlot(h.idx), h.gen) <=> alive[h.idx] /\ rel[h.idx] = h.rel)

\* Each slot is in one place: an object lives in it, or it is once in free_ or
\* once in deferred_; emplace never builds over a live object, and live_ counts.
Occurs(s, i) == \E a \in 1 .. Len(s) : s[a] = i
Distinct(s) == \A a, b \in 1 .. Len(s) : s[a] = s[b] => a = b
SlotsPartition ==
  /\ Distinct(free) /\ Distinct(deferred)
  /\ \A i \in Idx :
       /\ i < size <=> alive[i] \/ Occurs(free, i) \/ Occurs(deferred, i)
       /\ ~(alive[i] /\ Occurs(free, i)) /\ ~(alive[i] /\ Occurs(deferred, i))
       /\ ~(Occurs(free, i) /\ Occurs(deferred, i))
  /\ live = Cardinality({i \in Idx : alive[i]})

\* A slot released in this iteration is not handed out again before reclaim(): a
\* callback cannot have its own object's memory reused under it.
NoReuseBeforeReclaim == \A i \in fresh : ~alive[i]

\* A handle is exact, a slot is in one place, and a released one rests until reclaim()
\* (emplace, get, release, reclaim).
TableSound == TableTypeOK /\ HandleExact /\ SlotsPartition /\ NoReuseBeforeReclaim
=============================================================================
