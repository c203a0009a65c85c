------------------------------- MODULE MCTasks -------------------------------
(***************************************************************************)
(* The work a loop is given: the loop itself with its deferred tasks and   *)
(* its sinks, coroutines on every program of a small grammar, and the      *)
(* cross-shard tools (map_reduce, arrive_all, fan-out).  They share no     *)
(* state, so a behaviour moves one of them, its part, while the others     *)
(* rest.  The fairness of each asks nothing of it while it rests.          *)
(***************************************************************************)
EXTENDS Coroutines, ShardTools, EventLoop

VARIABLE part

Sleep == [op |-> "sleep"]
Post == [op |-> "post"]
Stop == [op |-> "stop"]
Join == [op |-> "join"]
Await(k) == [op |-> "await", kids |-> <<k>>]
Timeout(k) == [op |-> "timeout", kids |-> <<k>>]
SpawnChild(k) == [op |-> "spawn", kids |-> <<k>>]
WhenAll(a, b) == [op |-> "all", kids |-> <<a, b>>]
WhenAny(a, b) == [op |-> "any", kids |-> <<a, b>>]

MCTaskIds == 1 .. 5

RootPrograms ==
  {<<WhenAll(2, 3)>>, <<WhenAny(2, 3), Sleep>>, <<Timeout(2), Sleep>>, <<Await(2)>>,
   <<SpawnChild(2), SpawnChild(3), Join>>}

ChildPrograms ==
  {<<Sleep, Sleep>>, <<Post>>, <<WhenAll(4, 5)>>, <<WhenAny(4, 5)>>, <<Timeout(4), Sleep>>, <<Await(4), Sleep>>}

MCPrograms ==
  {[t \in MCTaskIds |-> CASE t = 1 -> r [] t = 2 -> c [] t = 3 -> d [] t = 4 -> e [] t = 5 -> <<Sleep>>] :
     r \in RootPrograms, c \in ChildPrograms, d \in {<<Sleep>>, <<Sleep, Stop>>, << >>},
     e \in {<<Sleep>>, <<Post>>, << >>}}

TasksInit ==
  /\ part \in {"coroutines", "tools", "loop"} /\ CoroInit /\ ToolInit
  /\ IF part = "loop" THEN LoopInit ELSE loop = [NewLoop EXCEPT !.at = "over"]
  /\ part # "coroutines" => prog = CHOOSE p \in Programs : TRUE

TasksNext ==
  /\ UNCHANGED part
  /\ \/ part = "coroutines" /\ CoroNext /\ UNCHANGED <<tool, loop>>
     \/ part = "tools" /\ ToolNext /\ UNCHANGED <<coroVars, loop>>
     \/ part = "loop" /\ LoopNext /\ UNCHANGED <<coroVars, tool>>

TasksSpec ==
  TasksInit /\ [][TasksNext]_<<part, coroVars, tool, loop>> /\ CoroFairness /\ LoopFairness
=============================================================================
