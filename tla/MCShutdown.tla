----------------------------- MODULE MCShutdown -----------------------------
(***************************************************************************)
(* The lifecycles on small instances: the runtime with its shards, servers *)
(* and signal thread, and the admin server beside it.  A behaviour moves   *)
(* one of the two, its part, while the other rests.  The fairness of the   *)
(* runtime is that of its threads; in the behaviours of the admin server   *)
(* it plays no role, since only JoinReturns needs it.                      *)
(***************************************************************************)
EXTENDS Runtime, AdminServer

VARIABLE part

\* two shards with signals; one shard with a server, on epoll or kqueue and on io_uring
MCLayouts ==
  {[shards |-> {1, 2}, serving |-> {}, signals |-> TRUE, uring |-> FALSE],
   [shards |-> {1}, serving |-> {1}, signals |-> FALSE, uring |-> FALSE],
   [shards |-> {1}, serving |-> {1}, signals |-> FALSE, uring |-> TRUE]}

ShutdownInit ==
  /\ part \in {"runtime", "admin"} /\ RtInit /\ AdmInit
  /\ part = "admin" => lay.signals

ShutdownNext ==
  /\ UNCHANGED part
  /\ \/ part = "runtime" /\ RtNext /\ UNCHANGED admVars
     \/ part = "admin" /\ AdmNext /\ UNCHANGED rtVars

ShutdownSpec == ShutdownInit /\ [][ShutdownNext]_<<part, rtVars, admVars>> /\ RtFairness
=============================================================================
