----------------------------- MODULE TaskQueue -----------------------------
(***************************************************************************)
(* What a bounded MPSC queue of tasks promises, with no cells, sequence    *)
(* numbers or threads: at most Cap tasks wait, and they leave in the order *)
(* in which they entered, each exactly once.  MpscRing implements it.      *)
(***************************************************************************)
EXTENDS Naturals, Sequences

CONSTANTS Items, Cap

VARIABLES queue,   \* the tasks accepted and not yet handed to the consumer
          outs     \* every task handed to the consumer, oldest first

QInit == queue = << >> /\ outs = << >>

Enqueue(v) == /\ Len(queue) < Cap
              /\ queue' = Append(queue, v)
              /\ UNCHANGED outs

Dequeue == /\ queue # << >>
           /\ outs' = Append(outs, Head(queue))
           /\ queue' = Tail(queue)

QNext == (\E v \in Items : Enqueue(v)) \/ Dequeue

QSpec == QInit /\ [][QNext]_<<queue, outs>>
=============================================================================
