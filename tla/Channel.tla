------------------------------- MODULE Channel -------------------------------
(***************************************************************************)
(* ChannelState<T> of include/afx/itc/channel.hpp, apart from its ring:    *)
(* the drain_posted flag, through which at most one drain task is queued,  *)
(* and the mailbox of the EventManager the receiver is attached to.        *)
(* SpscChannel and MpscChannel put a ring under it.  Mailbox shows that    *)
(* the loop wakes up for a queued task; here it is a bounded queue that    *)
(* the loop takes tasks from in order.  A task carries the Context of the  *)
(* work its poster was in, and the loop drops it unrun, sheds it, when the *)
(* deadline of that Context is over; whether it is, is left open.          *)
(*                                                                         *)
(* drain() resets the flag with a release store and then loads from the    *)
(* ring.  Nothing keeps the store from becoming visible after the loads:   *)
(* it waits in fbuf for CommitFlag.                                        *)
(***************************************************************************)
EXTENDS Naturals, Sequences

CONSTANTS MboxCap,   \* capacity of the mailbox
          MaxOther   \* bound: other tasks in the mailbox at a time

ASSUME ChannelAssumption == MboxCap \in Nat \ {0} /\ MaxOther \in Nat

VARIABLES attached,  \* target.valid(), and cb
          dposted,   \* drain_posted as other threads see it
          fbuf,      \* a reset of drain_posted waits in the loop's store buffer
          mbox,      \* the tasks in the mailbox: "drain" and "other"
          missed     \* history: why values may be left behind, since the last post

chanVars == <<attached, dposted, fbuf, mbox, missed>>

Queued(t) == \E i \in DOMAIN mbox : mbox[i] = t

\* the drain that drain_posted was set for will not come
DrainLost == missed \cap {"full_mailbox", "shed"} # {}

ChanInit ==
  attached = FALSE /\ dposted = FALSE /\ fbuf = FALSE /\ mbox = << >> /\ missed = {}

-----------------------------------------------------------------------------
(* poke(), on a producer's thread, in two steps *)

\* A poke that trusts the flag although its reset is on the way and no drain is
\* queued, or that has nobody to post to.
Misses == IF ~attached THEN {"unattached"}
          ELSE IF dposted /\ fbuf /\ ~Queued("drain") THEN {"late_reset"} ELSE {}

\* drain_posted.exchange(true, acq_rel), if the receiver is attached
PokeExchange ==
  /\ dposted' = (dposted \/ attached)
  /\ missed' = missed \cup Misses
  /\ UNCHANGED <<attached, fbuf, mbox>>

\* the exchange found false: this producer posts the drain
PokePosts == attached /\ ~dposted

\* target.post(...), whose result is not looked at: a full mailbox drops the task
PokePost ==
  /\ IF Len(mbox) < MboxCap
       THEN mbox' = Append(mbox, "drain") /\ missed' = {}
       ELSE missed' = missed \cup {"full_mailbox"} /\ UNCHANGED mbox
  /\ UNCHANGED <<attached, dposted, fbuf>>

-----------------------------------------------------------------------------
(* The loop's thread *)

attach ==
  /\ ~attached
  /\ attached' = TRUE
  /\ UNCHANGED <<dposted, fbuf, mbox, missed>>

\* other tasks come, and go: run or shed, they leave the channel alone
OtherPost ==
  /\ Len(SelectSeq(mbox, LAMBDA t : t = "other")) < MaxOther
  /\ Len(mbox) < MboxCap
  /\ mbox' = Append(mbox, "other")
  /\ UNCHANGED <<attached, dposted, fbuf, missed>>
OtherLeaves ==
  /\ mbox # << >> /\ Head(mbox) = "other"
  /\ mbox' = Tail(mbox)
  /\ UNCHANGED <<attached, dposted, fbuf, missed>>

\* the deadline of the producer that posted the drain is over: the task is dropped, and
\* drain_posted stays as it is
DrainShed ==
  /\ mbox # << >> /\ Head(mbox) = "drain"
  /\ mbox' = Tail(mbox)
  /\ missed' = missed \cup {"shed"}
  /\ UNCHANGED <<attached, dposted, fbuf>>

\* the queued drain task starts, or poll() does: drain_posted.store(false, release)
\* comes first; bound: one reset waits at a time
DrainRun ==
  /\ mbox # << >> /\ Head(mbox) = "drain"
  /\ mbox' = Tail(mbox)
  /\ ~fbuf /\ fbuf' = TRUE
  /\ UNCHANGED <<attached, dposted, missed>>
poll ==
  /\ ~fbuf /\ fbuf' = TRUE
  /\ UNCHANGED <<attached, dposted, mbox, missed>>

\* the reset becomes visible
CommitFlag ==
  /\ fbuf
  /\ fbuf' = FALSE /\ dposted' = FALSE
  /\ UNCHANGED <<attached, mbox, missed>>

\* The channel's own state has its shape; the mailbox is bounded (poke, drain).
ChanTypeOK ==
  /\ attached \in BOOLEAN /\ dposted \in BOOLEAN /\ fbuf \in BOOLEAN
  /\ mbox \in Seq({"drain", "other"}) /\ Len(mbox) <= MboxCap
  /\ missed \subseteq {"unattached", "late_reset", "full_mailbox", "shed", "short_drain"}
=============================================================================
