----------------------------- MODULE Coroutines -----------------------------
(***************************************************************************)
(* The coroutine layer of include/afx/coro: Task and its promise           *)
(* (task.hpp), sleep and post_and_reply (ops.hpp), when_all, when_any and  *)
(* with_timeout (combine.hpp), TaskScope (scope.hpp), and the root list of *)
(* the event manager.  A coroutine's body is a program: the sequence of    *)
(* what it awaits or calls.  Everything a resumption runs inline, down to  *)
(* the next suspension of every coroutine it reaches, is one step, as it   *)
(* is one call on the loop's thread.  Task 1 is the root; its frame holds  *)
(* a TaskScope.                                                            *)
(*                                                                         *)
(* w is the state:                                                         *)
(*   st, pc            "new", "running", "parked", "final" or "freed"      *)
(*   stopped, cancel   the promise's stopped_, and whether cancel_fn is set*)
(*   owner, done       who awaits the task, and its done_fn                *)
(*   op                the flags of the combinator a task awaits           *)
(*   timers, tmo       sleeps and with_timeouts whose timer is armed       *)
(*   posts             PostReplyState nodes                                *)
(*   kids, join        the scope's children_, and who is parked in join()  *)
(*   token             the Context's StopToken                             *)
(*   remote            the target mailbox: "open", "full" or "gone"        *)
(*   root, dead        the root is in coro_roots_; the EM is destroyed     *)
(*   exc               dead memory touched, and replies lost               *)
(***************************************************************************)
EXTENDS Integers, Sequences, FiniteSets

CONSTANTS Tasks,      \* the coroutines; 1 is the root
          Programs    \* what each of them awaits, in order

VARIABLES prog, w

coroVars == <<prog, w>>

Root == 1

NoOp == [remaining |-> 0, suspended |-> FALSE, wake |-> FALSE, won |-> FALSE, kid_done |-> FALSE,
         timed_out |-> FALSE, resumed |-> FALSE, dead |-> FALSE]

\* em.spawn() has not run yet
NewWorld ==
  [st |-> [t \in Tasks |-> "new"], pc |-> [t \in Tasks |-> 1],
   stopped |-> [t \in Tasks |-> FALSE], cancel |-> [t \in Tasks |-> FALSE],
   owner |-> [t \in Tasks |-> 0], done |-> [t \in Tasks |-> "none"], op |-> [t \in Tasks |-> NoOp],
   timers |-> {}, tmo |-> {}, posts |-> {}, kids |-> << >>, join |-> 0, token |-> FALSE,
   remote |-> "open", root |-> FALSE, dead |-> FALSE, exc |-> {}]

Op(v, t) == prog[t][v.pc[t]]

AtOp(v, t, o) == v.pc[t] \in DOMAIN prog[t] /\ Op(v, t).op = o

StopRequested(v, t) == v.stopped[t] \/ v.token

\* memory that is gone is read, at this place
Touch(v, site) == [v EXCEPT !.exc = @ \cup {site}]

\* the awaiter t is in at v is still the one it was in at u
SameOp(u, v, t) == v.pc[t] = u.pc[t] /\ v.st[t] # "freed"

Park(v, t) == [v EXCEPT !.st[t] = "parked"]

Without(s, x) == SelectSeq(s, LAMBDA y : y # x)

\* what the code would be if a node were not told that its waiter is gone
OrphanedNot(v, t) == v

\* a node without its waiter: the reply drops
Orphaned(v, t) ==
  [v EXCEPT !.posts = {IF n.task = t /\ n.pc = v.pc[t] THEN [n EXCEPT !.alive = FALSE] ELSE n : n \in @}]

RECURSIVE Run(_, _), RequestStop(_, _), Destroy(_, _), CancelKids(_, _, _), StartKids(_, _, _),
          ScopeLoop(_, _), DestroyAll(_, _), Final(_, _), EndOp(_, _), Resume(_, _)

-----------------------------------------------------------------------------
(* Resumption and completion *)

\* await_resume(): the awaiter dies with its co_await expression, and the body goes on
Continue(v, t) ==
  LET u == EndOp([v EXCEPT !.cancel[t] = FALSE, !.st[t] = "running"], t)
  IN Run([u EXCEPT !.pc[t] = @ + 1, !.op[t] = NoOp], t)

\* resume_under_ctx(): only a parked frame may be resumed
Resume(v, t) == IF v.st[t] = "parked" THEN Continue(v, t) ELSE Touch(v, "resumed_unparked")

\* the children of when_all and when_any wake p, if it is suspended by now
Wake(v, p) == IF v.op[p].suspended THEN Resume(v, p) ELSE [v EXCEPT !.op[p].wake = TRUE]

AllDone(v, p) ==
  IF v.op[p].dead THEN v
  ELSE LET u == [v EXCEPT !.op[p].remaining = @ - 1] IN IF u.op[p].remaining = 0 THEN Wake(u, p) ELSE u

AnyDone(v, p, t) ==
  IF v.op[p].dead \/ v.op[p].won THEN v
  ELSE Wake(CancelKids([v EXCEPT !.op[p].won = TRUE], p, Without(Op(v, p).kids, t)), p)

\* resume_parent(): once, whoever comes first
ResumeParent(v, p) ==
  LET o == v.op[p]
      u == [v EXCEPT !.op[p].resumed = TRUE]
  IN IF o.resumed \/ o.dead THEN v ELSE IF o.suspended THEN Resume(u, p) ELSE u

TimeoutDone(v, p) ==
  LET u == [v EXCEPT !.op[p].kid_done = TRUE]
  IN IF u.op[p].timed_out THEN u ELSE ResumeParent([u EXCEPT !.tmo = @ \ {p}], p)

ScopeDone(v, t) ==
  LET u == [v EXCEPT !.kids = Without(@, t)]
  IN IF u.kids = << >> /\ u.join # 0 THEN Resume([u EXCEPT !.join = 0], u.join) ELSE u

\* final_suspend of a child: its done_fn, or symmetric transfer to the awaiting task
ChildDone(v, t) ==
  LET p == v.owner[t]
  IN CASE v.done[t] = "all" -> AllDone(v, p)
       [] v.done[t] = "any" -> AnyDone(v, p, t)
       [] v.done[t] = "timeout" -> TimeoutDone(v, p)
       [] v.done[t] = "scope" -> ScopeDone(v, t)
       [] v.done[t] = "none" -> Resume(v, p)

\* a root unlinks and destroys itself, a scope's child destroys itself after its done_fn
Final(v, t) ==
  LET u == [v EXCEPT !.st[t] = "final"]
  IN IF t = Root THEN Destroy([u EXCEPT !.root = FALSE], t)
     ELSE IF v.done[t] = "scope" THEN Destroy(ChildDone(u, t), t)
     ELSE ChildDone(u, t)

-----------------------------------------------------------------------------
(* The destructors of frames and awaiters *)

\* the awaiter of t dies: a combinator cancels its children without resuming its parent,
\* and their frames go with it
EndOp(v, t) ==
  IF v.pc[t] \notin DOMAIN prog[t] THEN v
  ELSE LET o == Op(v, t)
           Dead == [v EXCEPT !.op[t].dead = TRUE]
           Kid == Head(o.kids)
       IN CASE o.op = "sleep" -> [v EXCEPT !.timers = @ \ {t}]
            [] o.op = "post" -> Orphaned(v, t)
            [] o.op = "await" -> Destroy(v, Kid)
            [] o.op \in {"all", "any"} -> DestroyAll(CancelKids(Dead, t, o.kids), o.kids)
            [] o.op = "timeout" ->
                 LET u == [Dead EXCEPT !.tmo = @ \ {t}]
                 IN Destroy(IF u.op[t].kid_done THEN u ELSE RequestStop(u, Kid), Kid)
            [] OTHER -> v

\* a coroutine frame is destroyed: its awaiter, and the scope in the root's frame
Destroy(v, t) ==
  CASE v.st[t] = "freed" -> v
    [] v.st[t] = "running" -> Touch(v, "destroyed_running")
    [] OTHER ->
         LET u == IF v.st[t] = "parked" THEN EndOp([v EXCEPT !.cancel[t] = FALSE], t) ELSE v
             s == IF t = Root THEN DestroyAll([u EXCEPT !.kids = << >>, !.join = 0], u.kids) ELSE u
         IN [s EXCEPT !.st[t] = "freed", !.cancel[t] = FALSE]

DestroyAll(v, ts) == IF ts = << >> THEN v ELSE DestroyAll(Destroy(v, Head(ts)), Tail(ts))

-----------------------------------------------------------------------------
(* Cancellation *)

\* cancel_children() and cancel_others(): a child that ends may end the awaiter with it
CancelKids(v, p, ks) ==
  IF ks = << >> THEN v
  ELSE LET u == RequestStop(v, Head(ks))
       IN IF SameOp(v, u, p) THEN CancelKids(u, p, Tail(ks))
          ELSE IF Tail(ks) = << >> THEN u ELSE Touch(u, "cancel_children")

\* with_timeout's cancel_thunk: the child unwinds and resumes the parent, which is tried again
CancelTimeout(v, t) ==
  LET u == RequestStop([v EXCEPT !.tmo = @ \ {t}], Head(Op(v, t).kids))
  IN IF ~SameOp(v, u, t) THEN Touch(u, "cancel_timeout")
     ELSE ResumeParent(u, t)

\* PromiseBase::request_stop(): the flag, and the thunk of the awaiter it is parked in
RequestStop(v, t) ==
  LET u == [v EXCEPT !.stopped[t] = TRUE, !.cancel[t] = FALSE]
  IN CASE v.st[t] = "freed" -> Touch(v, "stop_freed")
       [] ~v.cancel[t] -> u
       [] AtOp(v, t, "sleep") -> Resume([u EXCEPT !.timers = @ \ {t}], t)
       [] AtOp(v, t, "post") ->
            [u EXCEPT !.posts = {IF n.task = t /\ n.pc = v.pc[t] THEN [n EXCEPT !.cancelled = TRUE] ELSE n : n \in @}]
       [] AtOp(v, t, "timeout") -> CancelTimeout(u, t)
       [] OTHER -> CancelKids(u, t, Op(v, t).kids)

\* TaskScope::request_stop() from child t on; coro_next is read after the child was stopped
ScopeLoop(v, t) ==
  LET u == RequestStop(v, t)
      at == {i \in DOMAIN u.kids : u.kids[i] = t}
      next == {u.kids[i + 1] : i \in {j \in at : j < Len(u.kids)}}
  IN IF at = {} THEN Touch(u, "scope_stop")
     ELSE IF next = {} THEN u ELSE ScopeLoop(u, CHOOSE k \in next : TRUE)

ScopeStop(v) == IF v.kids = << >> THEN v ELSE ScopeLoop(v, Head(v.kids))

-----------------------------------------------------------------------------
(* What a coroutine does until it suspends *)

\* start_one(): a child inherits the stop flag, and runs inline
StartKids(v, p, ks) ==
  IF ks = << >> THEN v
  ELSE LET k == Head(ks)
           u == [v EXCEPT !.stopped[k] = @ \/ v.stopped[p], !.owner[k] = p, !.st[k] = "running",
                          !.done[k] = Op(v, p).op]
       IN StartKids(Run(u, k), p, Tail(ks))

\* what the code would be if it suspended although the children ended inline
StartAllParks(v, t) ==
  LET ks == Op(v, t).kids
      u == StartKids([v EXCEPT !.cancel[t] = TRUE, !.op[t].remaining = Len(ks)], t, ks)
  IN Park([u EXCEPT !.op[t].suspended = TRUE], t)

StartAll(v, t) ==
  LET ks == Op(v, t).kids
      u == StartKids([v EXCEPT !.cancel[t] = TRUE, !.op[t].remaining = Len(ks)], t, ks)
  IN IF u.op[t].wake THEN Continue(u, t) ELSE Park([u EXCEPT !.op[t].suspended = TRUE], t)

StartTimeout(v, t) ==
  LET k == Head(Op(v, t).kids)
      u == Run([v EXCEPT !.cancel[t] = TRUE, !.tmo = @ \cup {t}, !.owner[k] = t, !.st[k] = "running",
                         !.done[k] = "timeout"], k)
  IN IF u.op[t].kid_done THEN Continue(u, t) ELSE Park([u EXCEPT !.op[t].suspended = TRUE], t)

\* co_await task: symmetric transfer to the child; the parent gets no cancel thunk
StartAwait(v, t) ==
  LET k == Head(Op(v, t).kids)
  IN Run([Park(v, t) EXCEPT !.stopped[k] = @ \/ v.stopped[t], !.owner[k] = t, !.st[k] = "running"], k)

StartSleep(v, t) == Park([v EXCEPT !.cancel[t] = TRUE, !.timers = @ \cup {t}], t)

StartPost(v, t) ==
  Park([v EXCEPT !.cancel[t] = TRUE,
                 !.posts = @ \cup {[task |-> t, pc |-> v.pc[t], phase |-> "sent",
                                    alive |-> TRUE, cancelled |-> FALSE]}], t)

ScopeSpawn(v, t) ==
  LET k == Head(Op(v, t).kids)
  IN Run([v EXCEPT !.owner[k] = Root, !.done[k] = "scope", !.st[k] = "running", !.kids = <<k>> \o @], k)

Run(v, t) ==
  LET Next1(u) == Run([u EXCEPT !.pc[t] = @ + 1], t)
  IN CASE v.pc[t] \notin DOMAIN prog[t] -> Final(v, t)
       [] AtOp(v, t, "sleep") -> IF StopRequested(v, t) THEN Next1(v) ELSE StartSleep(v, t)
       [] AtOp(v, t, "post") ->
            IF StopRequested(v, t) \/ v.remote # "open" THEN Next1(v) ELSE StartPost(v, t)
       [] AtOp(v, t, "await") -> StartAwait(v, t)
       [] AtOp(v, t, "timeout") -> IF StopRequested(v, t) THEN Next1(v) ELSE StartTimeout(v, t)
       [] AtOp(v, t, "spawn") -> Next1(ScopeSpawn(v, t))
       [] AtOp(v, t, "join") -> IF v.kids = << >> THEN Next1(v) ELSE Park([v EXCEPT !.join = t], t)
       [] AtOp(v, t, "stop") -> Next1(ScopeStop(v))
       [] OTHER -> StartAll(v, t)

-----------------------------------------------------------------------------
(* The event loop, the other event manager and the user *)

Becomes(v) == w' = v /\ UNCHANGED prog

\* spawn() links the root and starts it
Spawn ==
  /\ w.st[Root] = "new" /\ ~w.dead
  /\ Becomes(Run([w EXCEPT !.st[Root] = "running", !.root = TRUE], Root))

\* a sleep's timer fires
SleepFires(t) ==
  /\ t \in w.timers
  /\ Becomes(Resume([w EXCEPT !.timers = @ \ {t}, !.cancel[t] = FALSE], t))

\* with_timeout's timer_thunk: the child unwinds first, then the parent goes on
TimeoutFires(t) ==
  /\ t \in w.tmo
  /\ LET u == RequestStop([w EXCEPT !.tmo = @ \ {t}, !.op[t].timed_out = TRUE], Head(Op(w, t).kids))
     IN Becomes(ResumeParent(u, t))

\* run_remote(): the reply is posted home, where there may be no room or nobody; a request
\* or a reply that its loop sheds is lost like one without room
RemoteRuns(n, room) ==
  /\ n \in w.posts /\ n.phase = "sent" /\ w.remote # "gone"
  /\ room => ~w.dead
  /\ Becomes([w EXCEPT !.posts = (@ \ {n}) \cup (IF room THEN {[n EXCEPT !.phase = "reply"]} ELSE {}),
                       !.exc = @ \cup (IF room \/ w.dead THEN {} ELSE {"reply_lost"})])

\* what the code would be if the reply to a cancelled request were dropped
ReplyLandsUncancelled(n) ==
  /\ n \in w.posts /\ n.phase = "reply" /\ ~w.dead
  /\ LET u == [w EXCEPT !.posts = @ \ {n}]
     IN Becomes(IF n.alive /\ ~n.cancelled THEN Resume([u EXCEPT !.cancel[n.task] = FALSE], n.task) ELSE u)

\* reply(): only a waiter that is still there is resumed
ReplyLands(n) ==
  /\ n \in w.posts /\ n.phase = "reply" /\ ~w.dead
  /\ LET u == [w EXCEPT !.posts = @ \ {n}]
     IN Becomes(IF n.alive THEN Resume([u EXCEPT !.cancel[n.task] = FALSE], n.task) ELSE u)

\* the target mailbox fills up or drains; its event manager dies with what is queued there
RemoteChanges(s) ==
  /\ w.remote # "gone" /\ s # w.remote
  /\ LET lost == {n \in w.posts : n.phase = "sent"}
     IN Becomes(IF s # "gone" THEN [w EXCEPT !.remote = s]
                ELSE [w EXCEPT !.remote = s, !.posts = @ \ lost,
                               !.exc = @ \cup (IF lost = {} THEN {} ELSE {"reply_lost"})])

\* a callback holding the scope calls its request_stop()
StopScope ==
  /\ w.st[Root] = "parked" /\ w.kids # << >>
  /\ Becomes(ScopeStop(w))

StopToken ==
  /\ ~w.token /\ ~w.dead
  /\ Becomes([w EXCEPT !.token = TRUE])

\* ~BasicEventManager(): a root is stopped if it can be, else destroyed as it is
Teardown ==
  /\ ~w.dead
  /\ LET v == [w EXCEPT !.dead = TRUE]
         u == IF v.cancel[Root] THEN RequestStop(v, Root) ELSE v
     IN Becomes(IF u.root THEN Destroy([u EXCEPT !.root = FALSE], Root) ELSE u)

CoroInit == prog \in Programs /\ w = NewWorld

CoroNext ==
  \/ Spawn \/ StopScope \/ StopToken \/ Teardown
  \/ \E t \in Tasks : SleepFires(t) \/ TimeoutFires(t)
  \/ \E n \in w.posts : ReplyLands(n) \/ \E room \in BOOLEAN : RemoteRuns(n, room)
  \/ \E s \in {"open", "full", "gone"} : RemoteChanges(s)

\* Weak fairness of the timers and the mailboxes, as programs are finite: no timer
\* stays armed, no request or reply stays queued at an event manager that is there.
CoroFairness ==
  /\ \A t \in Tasks : []<>(t \notin w.timers \cup w.tmo)
  /\ []<>(w.remote = "gone" \/ \A n \in w.posts : n.phase # "sent")
  /\ []<>(w.dead \/ \A n \in w.posts : n.phase # "reply")

CoroSpec == CoroInit /\ [][CoroNext]_coroVars /\ CoroFairness

-----------------------------------------------------------------------------
(* Properties *)

\* The code read memory that was gone: what follows is undefined.
Undefined == w.exc \cap {"cancel_children", "cancel_timeout", "scope_stop"} # {}

Live(t) == w.st[t] \notin {"new", "freed"}

\* A frame is destroyed or resumed only while it is suspended, and whatever will call back
\* into one finds it: a timer its sleeping or waiting task, a reply its waiter, a
\* completing child the task that owns it (the destructors of the awaiters and of
\* TaskScope, done_fn, waiter_alive).
NoDanglingCallback ==
  Undefined \/
  /\ w.exc \subseteq {"reply_lost"}
  /\ \A t \in w.timers : w.st[t] = "parked" /\ AtOp(w, t, "sleep")
  /\ \A t \in w.tmo : w.st[t] = "parked" /\ AtOp(w, t, "timeout") /\ w.st[Head(Op(w, t).kids)] = "parked"
  /\ \A n \in w.posts : n.alive => w.st[n.task] = "parked" /\ w.pc[n.task] = n.pc
  /\ \A t \in Tasks \ {Root} : Live(t) => w.st[w.owner[t]] = "parked"

\* A task that was asked to stop is not left asleep: what keeps it parked is a reply that
\* cannot be retracted, a join, a child it awaits directly, or a child of a combinator
\* that is stopping as well (request_stop and the cancel thunks).
StopReaches ==
  Undefined \/
  \A t \in Tasks :
    w.st[t] = "parked" /\ w.stopped[t] =>
      \/ \E o \in {"post", "join", "await"} : AtOp(w, t, o)
      \/ Op(w, t).op \in {"all", "any"}
         /\ \E i \in DOMAIN Op(w, t).kids : LET k == Op(w, t).kids[i] IN w.st[k] = "parked" /\ w.stopped[k]

\* The scope knows exactly the children that live, and none outlives the task whose frame
\* holds the scope: join() returns, and the root ends, with all of them gone.
ScopeOwnsChildren ==
  Undefined \/
  /\ \A t \in Tasks : w.done[t] = "scope" => (Live(t) <=> \E i \in DOMAIN w.kids : w.kids[i] = t)
  /\ w.st[Root] = "freed" => \A t \in Tasks : ~Live(t)
  /\ w.join # 0 => w.kids # << >> /\ w.st[w.join] = "parked"

\* A spawned root ends: every sleep fires, every request is answered, the last child
\* resumes whoever joins, unless a reply was lost on its way home or dead memory was read.
RootEnds == w.st[Root] # "new" ~> (w.st[Root] = "freed" \/ w.dead \/ w.exc # {})

\* No frame is gone while something can still call into it, and none is left over.
FramesOwned == NoDanglingCallback /\ ScopeOwnsChildren
=============================================================================
