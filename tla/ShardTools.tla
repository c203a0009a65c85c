------------------------------ MODULE ShardTools ------------------------------
(***************************************************************************)
(* The tools over a set of mailboxes: Fan (include/afx/itc/fan.hpp),       *)
(* Sharded (sharded.hpp) and Barrier (barrier.hpp).  One thread calls      *)
(* them; its loops over the mailboxes post one task at a time, and the     *)
(* shards run what they have meanwhile.                                    *)
(*                                                                         *)
(* tool is the state of the caller, the shards and the shared States:      *)
(*   call          the call under way: its kind, its operation, the next   *)
(*                 mailbox; kind "none" between calls                      *)
(*   mail          per shard: the tasks in its mailbox, in order           *)
(*   run           per shard: the task it is in, where, and the value of   *)
(*                 acc it has read                                         *)
(*   value         per shard: Slot::value is there                         *)
(*   rr, items     rr_ of the Fan; items dispatched                        *)
(*   op            per operation: remaining, acc (the shards whose values  *)
(*                 are in it), the shards that ran, what done was called   *)
(*                 with, and whether a task of it was dropped              *)
(***************************************************************************)
EXTENDS Integers, Sequences, FiniteSets

CONSTANTS ToolShards,   \* the shards, numbered from 0
          ToolCap,      \* capacity of a mailbox
          FanKeys,      \* hashes of keys
          FanHash,      \* the Fan has a key function
          MaxOps,       \* bound: barriers and reductions
          MaxItems      \* bound: items dispatched

VARIABLE tool

toolVars == <<tool>>

Size == Cardinality(ToolShards)

ASSUME ToolAssumption ==
  /\ Size \in Nat \ {0} /\ ToolShards = 0 .. Size - 1
  /\ FanKeys \subseteq Nat /\ MaxOps \in Nat

Calling(kind, o) == [kind |-> kind, op |-> o, next |-> 0]

Task(kind, o) == [kind |-> kind, op |-> o]

Resting == [task |-> Task("none", 0), pc |-> "idle", cur |-> {}]

ToolInit ==
  tool = [call |-> Calling("new", 0), mail |-> [s \in ToolShards |-> << >>],
          run |-> [s \in ToolShards |-> Resting],
          value |-> [s \in ToolShards |-> FALSE], rr |-> 0, items |-> 0,
          op |-> [o \in 1 .. MaxOps |-> [kind |-> "none", remaining |-> Size, acc |-> {}, ran |-> {},
                                         done |-> << >>, dropped |-> FALSE]]]

Fits(s) == Len(tool.mail[s]) < ToolCap

-----------------------------------------------------------------------------
(* The caller *)

\* Sharded(), arrive_all(), map_reduce() and broadcast(): a post to each mailbox in turn; its result is ignored
PostNext ==
  /\ tool.call.kind # "none" /\ tool.call.next < Size
  /\ LET s == tool.call.next
         o == tool.call.op
         t == [tool EXCEPT !.call.next = @ + 1]
     IN tool' = IF Fits(s) THEN [t EXCEPT !.mail[s] = Append(@, Task(tool.call.kind, o))]
                ELSE IF o = 0 THEN t ELSE [t EXCEPT !.op[o].dropped = TRUE]

PostsDone ==
  /\ tool.call.kind # "none" /\ tool.call.next = Size
  /\ tool' = [tool EXCEPT !.call = Calling("none", 0)]

\* a barrier or a reduction begins
Begin(kind) ==
  /\ tool.call.kind = "none"
  /\ \E o \in 1 .. MaxOps :
       /\ tool.op[o].kind = "none" /\ \A p \in 1 .. o - 1 : tool.op[p].kind # "none"
       /\ tool' = [tool EXCEPT !.call = Calling(kind, o), !.op[o].kind = kind]

Pick(key) == IF FanHash THEN key % Size ELSE tool.rr % Size

\* Fan::dispatch() and Sharded::invoke_on(): the caller sees a refusal
Dispatch(key) ==
  /\ tool.call.kind = "none" /\ tool.items < MaxItems
  /\ LET t == [tool EXCEPT !.items = @ + 1, !.rr = IF FanHash THEN @ ELSE @ + 1]
     IN tool' = IF Fits(Pick(key)) THEN [t EXCEPT !.mail[Pick(key)] = Append(@, Task("item", 0))] ELSE t

\* Fan::broadcast(): a loop of posts, whose results are ignored
Broadcast ==
  /\ tool.call.kind = "none" /\ tool.items < MaxItems
  /\ tool' = [tool EXCEPT !.call = Calling("item", 0), !.items = @ + 1]

-----------------------------------------------------------------------------
(* The shards *)

\* the caller's Context has a deadline, and it is over: the task is dropped unrun
Shed(s) ==
  /\ tool.run[s].pc = "idle" /\ tool.mail[s] # << >>
  /\ LET o == Head(tool.mail[s]).op
         t == [tool EXCEPT !.mail[s] = Tail(@)]
     IN tool' = IF o = 0 THEN t ELSE [t EXCEPT !.op[o].dropped = TRUE]

\* the next task; the parts of a reduction are steps of their own
RunTask(s) ==
  /\ tool.run[s].pc = "idle" /\ tool.mail[s] # << >>
  /\ LET k == Head(tool.mail[s])
         t == [tool EXCEPT !.mail[s] = Tail(@)]
         at(pc) == [task |-> k, pc |-> pc, cur |-> {}]
     IN tool' = CASE k.kind = "new" -> [t EXCEPT !.value[s] = TRUE]
                  [] k.kind = "item" -> t
                  [] k.kind = "barrier" -> [t EXCEPT !.op[k.op].ran = @ \cup {s}, !.run[s] = at("count")]
                  [] k.kind = "reduce" ->
                       IF tool.value[s] THEN [t EXCEPT !.op[k.op].ran = @ \cup {s}, !.run[s] = at("load")]
                       ELSE [t EXCEPT !.run[s] = at("count")]

LoadAcc(s) ==
  /\ tool.run[s].pc = "load"
  /\ tool' = [tool EXCEPT !.run[s] = [@ EXCEPT !.pc = "fold", !.cur = tool.op[tool.run[s].task.op].acc]]

\* what the code would be with a store in place of the exchange
FoldAccStored(s) ==
  /\ tool.run[s].pc = "fold"
  /\ LET o == tool.run[s].task.op
     IN tool' = [tool EXCEPT !.op[o].acc = tool.run[s].cur \cup {s}, !.run[s].pc = "count"]

\* compare_exchange_weak: on failure cur is what is there now
FoldAcc(s) ==
  /\ tool.run[s].pc = "fold"
  /\ LET o == tool.run[s].task.op
         cur == tool.run[s].cur
     IN tool' = IF tool.op[o].acc = cur
                THEN [tool EXCEPT !.op[o].acc = cur \cup {s}, !.run[s].pc = "count"]
                ELSE [tool EXCEPT !.run[s].cur = tool.op[o].acc]

\* remaining.fetch_sub(): the last one calls done
Count(s) ==
  /\ tool.run[s].pc = "count"
  /\ LET o == tool.run[s].task.op
         last == tool.op[o].remaining = 1
     IN tool' = [tool EXCEPT !.op[o].remaining = @ - 1, !.run[s] = Resting,
                             !.op[o].done = IF last THEN Append(@, tool.op[o].acc) ELSE @]

ToolNext ==
  \/ PostNext \/ PostsDone
  \/ \E kind \in {"barrier", "reduce"} : Begin(kind)
  \/ Broadcast \/ \E key \in FanKeys : Dispatch(key)
  \/ \E s \in ToolShards : RunTask(s) \/ Shed(s) \/ LoadAcc(s) \/ FoldAcc(s) \/ Count(s)

ToolSpec == ToolInit /\ [][ToolNext]_toolVars

-----------------------------------------------------------------------------
(* Properties *)

Settles(o) ==
  \/ tool.call.op = o
  \/ \E s \in ToolShards : tool.run[s].task.op = o \/ \E k \in DOMAIN tool.mail[s] : tool.mail[s][k].op = o

\* done of a barrier or of a reduction is called at most once, after every shard has run,
\* a reduction's with the value of every shard that has one, however the shards' folds
\* interleave; and it is called, unless a mailbox refused one of its tasks or a loop shed
\* it with the caller's deadline, which nobody notices (Barrier::arrive_all,
\* Sharded::map_reduce, drain_mailbox).
ReducesOnce ==
  \A o \in 1 .. MaxOps :
    LET p == tool.op[o]
        all == IF p.kind = "barrier" THEN ToolShards ELSE {s \in ToolShards : tool.value[s]}
    IN /\ Len(p.done) <= 1
       /\ p.done # << >> => p.ran = all /\ (p.kind = "reduce" => p.done[1] = all)
       /\ p.kind # "none" /\ p.done = << >> => Settles(o) \/ p.dropped
=============================================================================
