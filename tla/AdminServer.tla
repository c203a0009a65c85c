----------------------------- MODULE AdminServer -----------------------------
(***************************************************************************)
(* AdminServer of include/afx/admin/server.hpp and src/admin/server.cpp:   *)
(* the thread with its own event manager, the requests of its connections, *)
(* and the gathers that collect a snapshot from every shard.               *)
(*                                                                         *)
(* adm is the state:                                                       *)
(*   owner        where the owner's thread is: "out", or in start() or     *)
(*                stop()                                                   *)
(*   starts, work  calls of start(), and these with the requests           *)
(*   said         what start() returned: "none", "ok", "error", "expired"  *)
(*   th           the admin thread: "none", "begun", "built" (its event    *)
(*                manager is), "run" (in run()), "exited"                  *)
(*   em, ready    em_ is not null; ready_                                  *)
(*   stopReq, emStop   stop_req_; stop_ of the event manager               *)
(*   conn         per connection: requests it sent, and the answer it got, *)
(*                0 if none: which request's it is; the answer ends it     *)
(*   g            per request that gathers: "none", "open", "done", or     *)
(*                "ended" with its event manager; the shards that arrived, *)
(*                the deadline; history: whether the deadline ended it     *)
(*                (late), whether it finished before it had one (early),   *)
(*                how often it answered; and the snapshots: "no",          *)
(*                "queued", "writing", "ok", or "passed" over              *)
(*   mail, run    per shard: its mailbox, and the snapshot it writes       *)
(*   fan          the gather whose tasks gather_start() posts, and the     *)
(*                shards that are left                                     *)
(*   inbox        arrivals in the mailbox of the admin event manager       *)
(*   up           per shard: Runtime::em(i) is not null                    *)
(*   exc          history of what may excuse a property                    *)
(***************************************************************************)
EXTENDS Integers, Sequences, FiniteSets

CONSTANTS AdmShards, AdmConns,
          AdmRequests,   \* bound: requests on a connection
          AdmCap,        \* capacity of the mailboxes
          AdmWork        \* bound: calls of start() and requests

VARIABLE adm

admVars == <<adm>>

Gathers == AdmConns \X (1 .. AdmRequests)

NoRequest == <<"none", 0>>

NoGather == [st |-> "none", arrived |-> 0, deadline |-> FALSE, late |-> FALSE, early |-> FALSE, answers |-> 0,
             snap |-> [s \in AdmShards |-> "no"]]

AdmInit ==
  adm = [owner |-> "out", starts |-> 0, work |-> 0, said |-> "none", th |-> "none", em |-> FALSE, ready |-> FALSE,
         stopReq |-> FALSE, emStop |-> FALSE,
         conn |-> [c \in AdmConns |-> [sent |-> 0, got |-> 0]],
         g |-> [q \in Gathers |-> NoGather],
         mail |-> [s \in AdmShards |-> << >>], run |-> [s \in AdmShards |-> NoRequest],
         inbox |-> << >>, fan |-> [q |-> NoRequest, left |-> {}],
         up |-> [s \in AdmShards |-> TRUE], exc |-> {}]

AdmExcuse(a, e) == [a EXCEPT !.exc = @ \cup {e}]

-----------------------------------------------------------------------------
(* start(), stop() and thread_main() *)

\* a thread that is still joinable makes start() fail
Start ==
  /\ adm.owner = "out" /\ adm.work < AdmWork /\ adm.th = "none"
  /\ adm' = [adm EXCEPT !.owner = "wait", !.starts = @ + 1, !.work = @ + 1, !.th = "begun",
                        !.exc = IF adm.starts > 0 THEN @ \cup {"restarted"} ELSE @]

\* ready_ is seen: the answer depends on em_
StartReady ==
  /\ adm.owner = "wait" /\ adm.ready
  /\ adm' = [adm EXCEPT !.owner = "out", !.said = IF adm.em THEN "ok" ELSE "error"]

\* two seconds pass
StartExpires ==
  /\ adm.owner = "wait" /\ ~adm.ready
  /\ adm' = AdmExcuse([adm EXCEPT !.owner = "flag", !.said = "expired"], "slow_start")

Stop ==
  /\ adm.owner = "out" /\ adm.starts > 0
  /\ adm' = [adm EXCEPT !.owner = "flag"]

StopFlag ==
  /\ adm.owner = "flag"
  /\ adm' = [adm EXCEPT !.owner = "load", !.stopReq = TRUE]

StopLoad ==
  /\ adm.owner = "load"
  /\ adm' = [adm EXCEPT !.owner = IF adm.em THEN "use" ELSE "join"]

\* the event manager may be gone by now
StopUse ==
  /\ adm.owner = "use"
  /\ adm' = IF adm.th \in {"built", "run"} THEN [adm EXCEPT !.owner = "join", !.emStop = TRUE]
            ELSE AdmExcuse([adm EXCEPT !.owner = "join"], "stale_em")

StopJoin ==
  /\ adm.owner = "join" /\ adm.th \in {"none", "exited"}
  /\ adm' = [adm EXCEPT !.owner = "out", !.em = FALSE, !.th = "none"]

ThreadBuilds ==
  /\ adm.th = "begun"
  /\ adm' = [adm EXCEPT !.th = "built", !.em = TRUE, !.emStop = FALSE]

\* the event manager goes with its connections and what was posted to it
Gone(a) ==
  [a EXCEPT !.th = "exited", !.em = FALSE, !.inbox = << >>,
            !.conn = [c \in AdmConns |-> [sent |-> AdmRequests, got |-> IF @[c].got = 0 THEN AdmRequests + 1 ELSE @[c].got]],
            !.g = [q \in Gathers |-> IF @[q].st = "open" THEN [@[q] EXCEPT !.st = "ended", !.deadline = FALSE] ELSE @[q]]]


\* make_server() succeeds, then stop_req_ is looked at, or it fails
ThreadServes(ok) ==
  /\ adm.th = "built"
  /\ adm' = IF ok THEN [adm EXCEPT !.th = "run", !.ready = TRUE, !.emStop = @ \/ adm.stopReq]
            ELSE [Gone(adm) EXCEPT !.ready = TRUE]

ThreadEnds ==
  /\ adm.th = "run" /\ adm.fan.q = NoRequest /\ adm.emStop
  /\ adm' = Gone(adm)

-----------------------------------------------------------------------------
(* Requests *)

\* respond_text() and respond_bin(): the first answer half-closes the connection
Respond(a, q) == [a EXCEPT !.conn[q[1]].got = IF @ = 0 THEN q[2] ELSE @]

\* gather_finish(): without a deadline it takes itself for finished
GatherFinish(a, q, timedOut) ==
  IF ~a.g[q].deadline /\ ~timedOut THEN [a EXCEPT !.g[q].early = (a.g[q].st = "open")]
  ELSE Respond([a EXCEPT !.g[q].deadline = FALSE, !.g[q].st = "done", !.g[q].late = timedOut,
                         !.g[q].answers = @ + 1], q)

AdmServing == adm.th = "run" /\ adm.fan.q = NoRequest

Take(q) == [adm EXCEPT !.conn[q[1]].sent = q[2], !.work = @ + 1]

\* a request is routed while its connection has no answer
Routable(q) == AdmServing /\ adm.work < AdmWork /\ adm.conn[q[1]].sent = q[2] - 1 /\ adm.conn[q[1]].got = 0

\* /healthz, /version, /placement, the toggles, and what is not found: answered at once
RoutePlain(q) ==
  /\ Routable(q)
  /\ adm' = Respond(Take(q), q)

\* gather_start(): the loop over the shards, which run meanwhile
GatherStart(q) ==
  /\ Routable(q)
  /\ adm' = [Take(q) EXCEPT !.g[q].st = "open", !.fan = [q |-> q, left |-> AdmShards]]

\* a shard that is not there or refuses the task counts as arrived
FanOut(s, refused) ==
  /\ adm.fan.q # NoRequest /\ adm.fan.left # {} /\ s = CHOOSE r \in adm.fan.left : TRUE
  /\ refused \/ (adm.up[s] /\ Len(adm.mail[s]) < AdmCap)
  /\ LET q == adm.fan.q
         a == [adm EXCEPT !.fan.left = @ \ {s}]
     IN adm' = IF refused THEN [a EXCEPT !.g[q].arrived = @ + 1, !.g[q].snap[s] = "passed"]
               ELSE [a EXCEPT !.g[q].snap[s] = "queued", !.mail[s] = Append(@, q)]

\* the end of gather_start(): all arrived already, or the deadline is armed
FanDone ==
  /\ adm.fan.q # NoRequest /\ adm.fan.left = {}
  /\ LET q == adm.fan.q
         a == [adm EXCEPT !.fan.q = NoRequest]
     IN adm' = IF a.g[q].arrived = Cardinality(AdmShards) THEN GatherFinish(a, q, FALSE)
               ELSE [a EXCEPT !.g[q].deadline = TRUE]

\* gather_arrive(), from the mailbox of the admin event manager
GatherArrive ==
  /\ AdmServing /\ adm.inbox # << >>
  /\ LET q == Head(adm.inbox)
         a == [adm EXCEPT !.inbox = Tail(@), !.g[q].arrived = @ + 1]
     IN adm' = IF a.g[q].arrived = Cardinality(AdmShards) THEN GatherFinish(a, q, FALSE) ELSE a

GatherExpires(q) ==
  /\ AdmServing /\ adm.g[q].deadline
  /\ adm' = GatherFinish(adm, q, TRUE)

-----------------------------------------------------------------------------
(* The shards *)

ShardSnaps(s) ==
  /\ adm.run[s] = NoRequest /\ adm.mail[s] # << >>
  /\ LET q == Head(adm.mail[s])
     IN adm' = [adm EXCEPT !.mail[s] = Tail(@), !.run[s] = q, !.g[q].snap[s] = "writing"]

\* the arrival is posted; one that is refused is counted here, and looked at by nobody
ShardReports(s, room) ==
  /\ adm.run[s] # NoRequest
  /\ room => adm.th = "run" /\ adm.g[adm.run[s]].st # "ended" /\ Len(adm.inbox) < AdmCap
  /\ LET q == adm.run[s]
         a == [adm EXCEPT !.run[s] = NoRequest, !.g[q].snap[s] = "ok"]
     IN adm' = IF room THEN [a EXCEPT !.inbox = Append(@, q)] ELSE [a EXCEPT !.g[q].arrived = @ + 1]

\* a shard ends, and drops what was posted to it
ShardEnds(s) ==
  /\ adm.up[s] /\ adm.run[s] = NoRequest
  /\ adm' = [adm EXCEPT !.up[s] = FALSE, !.mail[s] = << >>,
                        !.g = [q \in Gathers |-> IF @[q].snap[s] = "queued" THEN [@[q] EXCEPT !.snap[s] = "passed"] ELSE @[q]]]

AdmNext ==
  \/ Start \/ StartReady \/ StartExpires \/ Stop \/ StopFlag \/ StopLoad \/ StopUse \/ StopJoin
  \/ ThreadBuilds \/ ThreadEnds \/ GatherArrive \/ FanDone
  \/ \E ok \in BOOLEAN : ThreadServes(ok)
  \/ \E q \in Gathers : RoutePlain(q) \/ GatherExpires(q) \/ GatherStart(q)
  \/ \E s \in AdmShards : ShardSnaps(s) \/ ShardEnds(s) \/ \E b \in BOOLEAN : (ShardReports(s, b) \/ FanOut(s, b))

AdmSpec == AdmInit /\ [][AdmNext]_admVars

-----------------------------------------------------------------------------
(* Properties *)

\* A gather that no answer ended has its deadline armed once it has been started, so a shard
\* that is gone, stuck or full cannot keep it open, but for one all of whose shards arrived
\* before the deadline was there; it answers at most once, although the last arrival and
\* the deadline race; and an answer that is not a timeout was made when no shard had a
\* snapshot left to write (gather_start, gather_arrive, gather_finish).
GatherAnswers ==
  \A q \in Gathers :
    LET g == adm.g[q] IN
    /\ g.st = "open" => g.deadline \/ adm.fan.q = q \/ g.early
    /\ g.answers <= 1
    /\ g.st = "done" /\ adm.th = "run" /\ ~g.late => \A s \in AdmShards : g.snap[s] \in {"ok", "passed"}

\* start() says ok while the server is up, and stop() reaches a running event manager and
\* never one that is gone, wherever it meets the thread; but for a second start(), and for
\* a start() that gave up on a thread that was failing (start, stop, thread_main).
AdminStartStop ==
  /\ adm.owner = "join" /\ adm.th = "run" => adm.emStop
  /\ "stale_em" \in adm.exc => "slow_start" \in adm.exc \/ "restarted" \in adm.exc
  /\ adm.owner = "out" /\ adm.said = "ok" /\ adm.th # "none" =>
       (adm.th = "run" /\ ~adm.emStop) \/ "restarted" \in adm.exc

=============================================================================
