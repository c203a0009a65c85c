------------------------------ MODULE SpscRing ------------------------------
(***************************************************************************)
(* SpscRing<T> of include/afx/itc/spsc_ring.hpp: one producer thread, one  *)
(* consumer thread, batches on both sides.  One action is one atomic       *)
(* access, with the plain accesses to buf_ that follow it in program order *)
(* in a step of their own.  A late view of the other side's index only     *)
(* makes the ring look fuller or emptier, so stores are visible at once.   *)
(***************************************************************************)
EXTENDS Integers, Sequences

CONSTANTS Vals,      \* the values of T that are pushed
          NoVal,     \* T{}
          Size,      \* cap_
          MaxBulk,   \* bound: values passed to one try_push_bulk
          MaxTail    \* bound: no push begins once tail_ is here

ASSUME SizeAssumption == Size \in Nat \ {0}
ASSUME ValsAssumption == NoVal \notin Vals /\ MaxBulk \in Nat /\ MaxTail \in Nat

VARIABLES head, tail,  \* head_ and tail_
          buf,         \* buf_
          ppc, pvals,  \* the producer: next access; the values it has room for
          dpc, dn,     \* the consumer: in a drain or not; items it claimed
          pushed,      \* history: values published, in order
          outs         \* history: values handed to the drain's callback, in order

spscVars == <<head, tail, buf, ppc, pvals, dpc, dn, pushed, outs>>

Cells == 0 .. Size - 1
Cell(i) == i % Size
Least(a, b) == IF a < b THEN a ELSE b

SpscInit ==
  /\ head = 0 /\ tail = 0
  /\ buf = [c \in Cells |-> NoVal]
  /\ ppc = "out" /\ pvals = << >>
  /\ dpc = "out" /\ dn = 0
  /\ pushed = << >> /\ outs = << >>

-----------------------------------------------------------------------------
(* try_push(v), which is try_push_bulk(<<v>>), and try_push_bulk(vs) *)

Room == Size - (tail - head)

\* head_.load(acquire): nothing is pushed when there is no room
PushLoad(vs) ==
  /\ ppc = "out"
  /\ Room > 0
  /\ pvals' = SubSeq(vs, 1, Least(Len(vs), Room))
  /\ ppc' = "write"
  /\ UNCHANGED <<head, tail, buf, dpc, dn, pushed, outs>>

\* buf_[(t + i) & mask_] = vs[i]
SpscWrite ==
  /\ ppc = "write"
  /\ buf' = [c \in Cells |-> LET i == Cell(c - tail)
                             IN  IF i < Len(pvals) THEN pvals[i + 1] ELSE buf[c]]
  /\ ppc' = "publish"
  /\ UNCHANGED <<head, tail, pvals, dpc, dn, pushed, outs>>

\* tail_.store(t + n, release)
SpscPublish ==
  /\ ppc = "publish"
  /\ tail' = tail + Len(pvals)
  /\ pushed' = pushed \o pvals
  /\ ppc' = "out" /\ pvals' = << >>
  /\ UNCHANGED <<head, buf, dpc, dn, outs>>

-----------------------------------------------------------------------------
(* drain_contiguous, around the call of f *)

DrainBegin(n) ==
  /\ dpc = "out"
  /\ n > 0
  /\ dn' = n
  /\ dpc' = "batch"
  /\ UNCHANGED <<head, tail, buf, ppc, pvals, pushed, outs>>

\* tail_.load(acquire): what there is, up to the wrap and to max
ContiguousLen(max) == Least(Least(tail - head, Size - Cell(head)), max)
drain_contiguous(max) == DrainBegin(ContiguousLen(max))

\* Mutant of DrainEnd: what was drained is not given back.
DrainEndAgain ==
  /\ dpc = "batch"
  /\ outs' = outs \o [i \in 1 .. dn |-> buf[Cell(head + i - 1)]]
  /\ dpc' = "out" /\ dn' = 0
  /\ UNCHANGED <<head, tail, buf, ppc, pvals, pushed>>

\* f has read the batch; head_.store(h + n, release)
DrainEnd ==
  /\ dpc = "batch"
  /\ outs' = outs \o [i \in 1 .. dn |-> buf[Cell(head + i - 1)]]
  /\ head' = head + dn
  /\ dpc' = "out" /\ dn' = 0
  /\ UNCHANGED <<tail, buf, ppc, pvals, pushed>>

Bulks == UNION {[1 .. n -> Vals] : n \in 1 .. MaxBulk}

-----------------------------------------------------------------------------
(* Properties *)

\* The indices never pass each other, by way of a bulk either: a drain claims only
\* what is published, a push only what head_ has passed.
SpscTypeOK ==
  /\ head \in Nat /\ tail \in Nat
  /\ buf \in [Cells -> Vals \cup {NoVal}]
  /\ ppc \in {"out", "write", "publish"} /\ dpc \in {"out", "batch"}
  /\ pvals \in Seq(Vals) /\ Len(pvals) <= Size - (tail - head)
  /\ dn \in 0 .. tail - head
  /\ pushed \in Seq(Vals) /\ Len(pushed) = tail
  /\ outs \in Seq(Vals \cup {NoVal})

\* What is in the ring is what was pushed: through wraps and bulks no value that
\* was published is overwritten before head_ passes it, least of all under the
\* span a callback is reading.
BatchStable == \A i \in head .. tail - 1 : buf[Cell(i)] = pushed[i + 1]

\* The consumer is handed the values pushed, all, once and in order.
SpscFifo == Len(outs) = head /\ \A i \in 1 .. head : outs[i] = pushed[i]

\* Values stay in the ring as they were pushed and leave it once and in order, while a
\* batch of them is still in the callback's hands (try_push, push_bulk, drain).
SpscOrdered == SpscTypeOK /\ BatchStable /\ SpscFifo
=============================================================================
