------------------------------ MODULE MpscRing ------------------------------
(***************************************************************************)
(* MpscRing<T> of include/afx/itc/mpsc_ring.hpp: the bounded ring of cells *)
(* with sequence numbers behind every mailbox and every MPSC channel.  One *)
(* action is one atomic access of push_impl, try_pop or empty.             *)
(*                                                                         *)
(* A cell's release store by a producer is not visible to other threads at *)
(* once: it sits in pbuf until Commit, and only a fence waits for it (this *)
(* is the StoreLoad delay mailbox.hpp and event_manager.hpp fence against).*)
(* The consumer's release of a cell is visible at once: delaying it would  *)
(* only make a producer see a full ring for longer.                        *)
(***************************************************************************)
EXTENDS Naturals, Sequences

CONSTANTS Producers,
          Items,      \* the values of T that are pushed
          NoTask,     \* T{}: what a cell holds before a push and after a move
          Cap,        \* cap_
          MaxPush     \* bound: no push begins once MaxPush positions are claimed

\* The constructor takes any capacity; the documentation asks for a power of
\* two, for which pos & mask_ is pos % Cap.
ASSUME CapAssumption == Cap \in Nat \ {0}
ASSUME NoTaskAssumption == NoTask \in Items
ASSUME MaxPushAssumption == MaxPush \in Nat

VARIABLES enq, deq,   \* enq_pos_ and deq_pos_
          seq, data,  \* cells_[s].seq as other threads see it, cells_[s].data
          pbuf,       \* per producer: positions published, not yet visible
          rpc,        \* per producer: the next access of push_impl
          rpos, ritem,\* per producer: the locals pos and v
          cst,        \* the next access of try_pop
          cpos, cout, \* the consumer's pos and out
          log, outs   \* history: tasks by claimed position; tasks moved out

prodVars == <<pbuf, rpc, rpos, ritem>>
consVars == <<cst, cpos, cout, outs>>
ringVars == <<enq, deq, seq, data, log, prodVars, consVars>>

Slots == 0 .. Cap - 1
Slot(i) == i % Cap

RingInit ==
  /\ enq = 0 /\ deq = 0
  /\ seq = [s \in Slots |-> s]
  /\ data = [s \in Slots |-> NoTask]
  /\ pbuf = [p \in Producers |-> {}]
  /\ rpc = [p \in Producers |-> "out"]
  /\ rpos = [p \in Producers |-> 0]
  /\ ritem = [p \in Producers |-> NoTask]
  /\ cst = "out" /\ cpos = 0 /\ cout = NoTask
  /\ log = << >> /\ outs = << >>

-----------------------------------------------------------------------------
(* push_impl *)

\* pos = enq_pos_.load(relaxed), on entry
PushBegin(p, v) ==
  /\ rpc[p] = "out"
  /\ rpc' = [rpc EXCEPT ![p] = "seq"]
  /\ rpos' = [rpos EXCEPT ![p] = enq]
  /\ ritem' = [ritem EXCEPT ![p] = v]
  /\ UNCHANGED <<enq, deq, seq, data, pbuf, log, consVars>>

\* Mutant of PushLoadSeq: any mismatch is taken for a full ring.
PushLoadSeqNoReload(p) ==
  /\ rpc[p] = "seq"
  /\ rpc' = [rpc EXCEPT ![p] = IF seq[Slot(rpos[p])] = rpos[p] THEN "cas" ELSE "full"]
  /\ UNCHANGED <<enq, deq, seq, data, pbuf, rpos, ritem, log, consVars>>

\* seq = cell->seq.load(acquire): the cell is free for pos, still in use by the
\* previous lap, or already claimed by another producer.
PushLoadSeq(p) ==
  /\ rpc[p] = "seq"
  /\ LET s == seq[Slot(rpos[p])]
     IN  rpc' = [rpc EXCEPT ![p] = IF s = rpos[p] THEN "cas"
                                   ELSE IF s < rpos[p] THEN "full"
                                   ELSE "reload"]
  /\ UNCHANGED <<enq, deq, seq, data, pbuf, rpos, ritem, log, consVars>>

\* dif > 0: pos = enq_pos_.load(relaxed)
PushReload(p) ==
  /\ rpc[p] = "reload"
  /\ rpos' = [rpos EXCEPT ![p] = enq]
  /\ rpc' = [rpc EXCEPT ![p] = "seq"]
  /\ UNCHANGED <<enq, deq, seq, data, pbuf, ritem, log, consVars>>

\* Mutant of PushClaim: a plain store instead of the compare-and-swap.
PushClaimStore(p) ==
  /\ rpc[p] = "cas"
  /\ enq' = rpos[p] + 1
  /\ log' = Append(log, ritem[p])
  /\ rpc' = [rpc EXCEPT ![p] = "write"]
  /\ UNCHANGED <<deq, seq, data, pbuf, rpos, ritem, consVars>>

\* compare_exchange_weak succeeds: position rpos[p] now belongs to p
PushClaim(p) ==
  /\ rpc[p] = "cas"
  /\ enq = rpos[p]
  /\ enq' = enq + 1
  /\ log' = Append(log, ritem[p])
  /\ rpc' = [rpc EXCEPT ![p] = "write"]
  /\ UNCHANGED <<deq, seq, data, pbuf, rpos, ritem, consVars>>

\* ... or fails, spuriously or because enq_pos_ moved, and reloads pos
PushLose(p) ==
  /\ rpc[p] = "cas"
  /\ rpos' = [rpos EXCEPT ![p] = enq]
  /\ rpc' = [rpc EXCEPT ![p] = "seq"]
  /\ UNCHANGED <<enq, deq, seq, data, pbuf, ritem, log, consVars>>

\* cell->data = std::forward<V>(v)
PushWrite(p) ==
  /\ rpc[p] = "write"
  /\ data' = [data EXCEPT ![Slot(rpos[p])] = ritem[p]]
  /\ rpc' = [rpc EXCEPT ![p] = "publish"]
  /\ UNCHANGED <<enq, deq, seq, pbuf, rpos, ritem, log, consVars>>

\* cell->seq.store(pos + 1, release), into p's store buffer
PushPublish(p) ==
  /\ rpc[p] = "publish"
  /\ pbuf' = [pbuf EXCEPT ![p] = @ \cup {rpos[p]}]
  /\ rpc' = [rpc EXCEPT ![p] = "ok"]
  /\ UNCHANGED <<enq, deq, seq, data, rpos, ritem, log, consVars>>

\* one buffered store of p reaches memory
Commit(p) ==
  \E i \in pbuf[p] :
    /\ seq' = [seq EXCEPT ![Slot(i)] = i + 1]
    /\ pbuf' = [pbuf EXCEPT ![p] = @ \ {i}]
    /\ UNCHANGED <<enq, deq, data, rpc, rpos, ritem, log, consVars>>

\* push_impl returns true from "ok", false from "full"
PushReturn(p) ==
  /\ rpc[p] \in {"ok", "full"}
  /\ rpc' = [rpc EXCEPT ![p] = "out"]
  /\ UNCHANGED <<enq, deq, seq, data, pbuf, rpos, ritem, log, consVars>>

PushStep(p) == PushLoadSeq(p) \/ PushReload(p) \/ PushClaim(p) \/ PushLose(p)
                 \/ PushWrite(p) \/ PushPublish(p)

-----------------------------------------------------------------------------
(* try_pop and empty, on the consumer's thread *)

\* empty(): the cell at deq_pos_ is not published
RingEmpty == seq[Slot(deq)] # deq + 1

\* the cell is published: deq_pos_.store(pos + 1)
PopHit ==
  /\ cst = "out"
  /\ ~RingEmpty
  /\ cpos' = deq
  /\ deq' = deq + 1
  /\ cst' = "move"
  /\ UNCHANGED <<enq, seq, data, log, prodVars, cout, outs>>

\* Mutant of PopMove: reads the cell at deq_pos_, which has moved on already.
PopMoveNext ==
  /\ cst = "move"
  /\ cout' = data[Slot(deq)]
  /\ data' = [data EXCEPT ![Slot(deq)] = NoTask]
  /\ outs' = Append(outs, cout')
  /\ cst' = "free"
  /\ UNCHANGED <<enq, deq, seq, log, prodVars, cpos>>

\* out = std::move(cell->data)
PopMove ==
  /\ cst = "move"
  /\ cout' = data[Slot(cpos)]
  /\ data' = [data EXCEPT ![Slot(cpos)] = NoTask]
  /\ outs' = Append(outs, cout')
  /\ cst' = "free"
  /\ UNCHANGED <<enq, deq, seq, log, prodVars, cpos>>

\* Mutant of PopFree: the cell is not given back.
PopFreeNot ==
  /\ cst = "free"
  /\ cst' = "got"
  /\ UNCHANGED <<enq, deq, seq, data, log, prodVars, cpos, cout, outs>>

\* cell->seq.store(pos + cap_, release): the cell is free for the next lap
PopFree ==
  /\ cst = "free"
  /\ seq' = [seq EXCEPT ![Slot(cpos)] = cpos + Cap]
  /\ cst' = "got"
  /\ UNCHANGED <<enq, deq, data, log, prodVars, cpos, cout, outs>>

\* try_pop returns true
PopReturn ==
  /\ cst = "got"
  /\ cst' = "out"
  /\ UNCHANGED <<enq, deq, seq, data, log, prodVars, cpos, cout, outs>>

PopStep == PopHit \/ PopMove \/ PopFree

-----------------------------------------------------------------------------
(* The ring on its own: producers that push whatever they like, whenever    *)
(* they like, and a consumer that keeps popping.                            *)

RingNext ==
  \/ \E p \in Producers :
       \/ \E v \in Items \ {NoTask} : enq < MaxPush /\ PushBegin(p, v)
       \/ PushStep(p)
       \/ Commit(p)
       \/ PushReturn(p)
  \/ PopStep
  \/ PopReturn

RingSpec == RingInit /\ [][RingNext]_ringVars

-----------------------------------------------------------------------------
(* Properties *)

\* Positions whose cell the consumer has given back.
Freed == IF cst \in {"move", "free"} THEN cpos ELSE deq

\* The positions, cells and locals of push_impl and try_pop have their types.
RingTypeOK ==
  /\ enq \in Nat /\ deq \in Nat
  /\ seq \in [Slots -> Nat]
  /\ data \in [Slots -> Items]
  /\ pbuf \in [Producers -> SUBSET Nat]
  /\ rpc \in [Producers -> {"out", "seq", "reload", "cas", "write", "publish",
                            "ok", "full"}]
  /\ rpos \in [Producers -> Nat]
  /\ ritem \in [Producers -> Items]
  /\ cst \in {"out", "move", "free", "got"}
  /\ cpos \in Nat /\ cout \in Items
  /\ log \in Seq(Items) /\ outs \in Seq(Items)

\* Bounded by construction: the cells claimed and not yet given back never
\* exceed the capacity, whatever the producers race on (push_impl, try_pop).
Bounded == deq <= enq /\ enq - Freed <= Cap

\* The plain accesses to cell->data never race: a cell being written by a
\* producer is written by no other and is not the one try_pop is moving out of.
CellExclusive ==
  \A p \in Producers : rpc[p] \in {"write", "publish"} =>
    /\ \A q \in Producers \ {p} :
         rpc[q] \in {"write", "publish"} => Slot(rpos[q]) # Slot(rpos[p])
    /\ cst = "move" => Slot(cpos) # Slot(rpos[p])

\* The ring is a bounded FIFO queue: tasks are accepted at the claim, and
\* try_pop hands out exactly the claimed tasks, in claim order.
TQ == INSTANCE TaskQueue WITH
        queue <- SubSeq(log, Len(outs) + 1, Len(log)), outs <- outs
RefinesTaskQueue == TQ!QSpec

\* try_push reports full only while all Cap cells are claimed and not yet given
\* back, although the pos it compares with may be stale by then.
FullIsHonest ==
  [][\A p \in Producers :
       rpc[p] # "full" /\ rpc'[p] = "full" => enq - Freed = Cap]_ringVars
=============================================================================
