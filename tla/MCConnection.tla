---------------------------- MODULE MCConnection ----------------------------
(* A connection small enough for TLC: what the writes do, under each overflow *)
(* policy, and what the reads do, are looked at with bounds of their own.     *)
EXTENDS Connection

Cfg(client, coro, policy, idle, refusals, out, in) ==
  [client |-> client, coro |-> coro, policy |-> policy, pause |-> TRUE, idle |-> idle,
   refusals |-> refusals, out |-> out, in |-> in]

MCConfigs ==
  {Cfg(TRUE, FALSE, "Disconnect", FALSE, 0, 3, 1),
   Cfg(FALSE, FALSE, "DropOldest", FALSE, 0, 4, 0),
   Cfg(FALSE, FALSE, "StopReading", TRUE, 0, 3, 1),
   Cfg(FALSE, FALSE, "StopReading", FALSE, 0, 1, 4),
   Cfg(FALSE, TRUE, "StopReading", FALSE, 0, 4, 0),
   Cfg(FALSE, TRUE, "DropNewest", FALSE, 0, 2, 3),
   Cfg(TRUE, FALSE, "DropNewest", FALSE, 1, 2, 1)}
=============================================================================
