----------------------------- MODULE MCBackends -----------------------------
(***************************************************************************)
(* The io_uring and the kqueue backends on small instances.  They share no *)
(* state, so a behaviour moves one of them, its part, while the other      *)
(* rests.  The uring part has an instance each for receives with provided  *)
(* buffers and sends, accepts, connects, watches, wakes of other rings,    *)
(* and SQPOLL.                                                             *)
(***************************************************************************)
EXTENDS UringBackend, KqueueBackend

VARIABLE part

Setup(bufs, multishot, sqpoll, calls) ==
  [bufs |-> bufs, multishot |-> multishot, sqpoll |-> sqpoll, calls |-> calls]

MCSetups ==
  {Setup({"b1", "b2"}, FALSE, FALSE, {"recv", "cancel", "send"}),
   Setup({}, TRUE, FALSE, {"accept", "cancel"}),
   Setup({}, FALSE, FALSE, {"connect", "cancel"}),
   Setup({}, FALSE, FALSE, {"watch", "modify", "detach"}),
   Setup({}, FALSE, FALSE, {"msg"}),
   Setup({}, FALSE, TRUE, {"recv", "cancel"})}

BackendsInit ==
  \/ part = "uring" /\ UringInit /\ KqInit /\ kq.link = "new"
  \/ part = "kqueue" /\ UringInit /\ KqInit /\ setup.calls = {"msg"}

BackendsNext ==
  /\ UNCHANGED part
  /\ \/ part = "uring" /\ UringNext /\ UNCHANGED kqVars
     \/ part = "kqueue" /\ KqNext /\ UNCHANGED uringVars

BackendsSpec == BackendsInit /\ [][BackendsNext]_<<part, uringVars, kqVars>>
=============================================================================
