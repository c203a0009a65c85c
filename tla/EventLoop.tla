------------------------------ MODULE EventLoop ------------------------------
(***************************************************************************)
(* The iteration of BasicEventManager (include/afx/core/event_manager.hpp) *)
(* and what its callbacks do to it: deferred tasks, completion sinks, raw  *)
(* watches and the set of sinks with bytes to write.                       *)
(*                                                                         *)
(* loop is the event manager:                                              *)
(*   at          the test of stop_ ("run"), the stage of poll_once() that  *)
(*               is running, or "over"                                     *)
(*   cb          the callback that is running: of a sink, other "work", or *)
(*               "none"                                                    *)
(*   n           what the running stage has done of its batch              *)
(*   posts       tasks in the mailbox and timers that are due              *)
(*   comps       what dispatch_completions() has left of comp_buf_         *)
(*   kind, st    what a sink is for; whether sinks_ has it                 *)
(*   fds         watch_fds_                                                *)
(*   box         the IoFns of watches that are on the heap                 *)
(*   pend        pending_writes_                                           *)
(*   dirty       the sinks with write_pending set                          *)
(*   next, run   defer_next_, and what is left of defer_run_               *)
(*   stop        stop_                                                     *)
(*   blocked     the wait has a timeout, nothing but an event ends it      *)
(*   own         history: the running callback released its own sink       *)
(*   leaked      history: IoFns of watches whose attach failed             *)
(*   owed        history: tasks deferred that have not been run            *)
(*   passed      history: tasks of a remainder put behind later ones       *)
(* A sink is used once: that a handle reaches its own entry or none is     *)
(* proved of HandleTable.  A callback that throws returns (run_guarded).   *)
(***************************************************************************)
EXTENDS Naturals, SequencesExt

CONSTANTS Deferrable,   \* tasks that callbacks defer, each again once it has begun
          LoopSinks,    \* sinks that are registered in the life of the event manager
          DeferBatch,   \* max_defer_batch
          ItcBatch,     \* max_itc_batch
          IoBatch,      \* max_io_events
          MaxPosts      \* bound: tasks posted and timers due that wait

ASSUME LoopSinksAssumption == {"work", "none"} \cap LoopSinks = {}
ASSUME BatchAssumption == DeferBatch \in Nat /\ ItcBatch \in Nat /\ IoBatch \in Nat /\ MaxPosts \in Nat

VARIABLE loop

NewLoop ==
  [at |-> "run", cb |-> "none", n |-> 0, posts |-> 0, comps |-> << >>,
   kind |-> [s \in LoopSinks |-> "none"], st |-> [s \in LoopSinks |-> "none"],
   fds |-> {}, box |-> {}, pend |-> << >>, dirty |-> {}, next |-> << >>, run |-> << >>,
   stop |-> FALSE, blocked |-> FALSE, own |-> FALSE, leaked |-> {}, owed |-> {}, passed |-> {}]

LoopInit == loop = NewLoop

HasSink(s) == loop.st[s] = "live"
Queued == ToSet(loop.run \o loop.next)

-----------------------------------------------------------------------------
(* What the thread of the loop calls, in a callback or between two iterations *)

Mine == loop.cb # "none" \/ loop.at = "run"

Defer(t) ==
  /\ Mine /\ t \notin Queued
  /\ loop' = [loop EXCEPT !.next = Append(@, t), !.owed = @ \cup {t}]

\* register_sink(), of a connection, a listener or a connect
RegisterSink(s) ==
  /\ Mine /\ loop.st[s] = "none"
  /\ loop' = [loop EXCEPT !.st[s] = "live", !.kind[s] = "sink"]

\* watch(): the closure goes to the heap; if attach fails, the entry is released without its teardown
WatchFd(s, ok) ==
  /\ Mine /\ loop.st[s] = "none"
  /\ loop' = [loop EXCEPT !.kind[s] = "watch", !.box = @ \cup {s},
                          !.st[s] = IF ok THEN "live" ELSE "gone",
                          !.fds = IF ok THEN @ \cup {s} ELSE @,
                          !.leaked = IF ok THEN @ ELSE @ \cup {s}]

\* unwatch() and release_sink(): detach, tear down, release; nothing for a stale handle
ReleaseSink(s) ==
  /\ Mine /\ HasSink(s)
  /\ loop' = [loop EXCEPT !.fds = @ \ {s}, !.box = @ \ {s}, !.st[s] = "gone", !.dirty = @ \ {s},
                          !.own = @ \/ loop.cb = s]

\* note_write_pending(), of a connection with bytes to send; nothing for one that is noted or gone
NoteWritePending(s) ==
  /\ Mine /\ loop.kind[s] = "sink"
  /\ HasSink(s) /\ s \notin loop.dirty
  /\ loop' = [loop EXCEPT !.dirty = @ \cup {s}, !.pend = Append(@, s)]

CallbackReturns ==
  /\ loop.cb # "none"
  /\ loop' = [loop EXCEPT !.cb = "none"]

\* stop(), from any thread
StopLoop ==
  /\ loop.at # "over" /\ ~loop.stop
  /\ loop' = [loop EXCEPT !.stop = TRUE]

\* a task is posted, or a timer becomes due
WorkArrives ==
  /\ loop.at # "over" /\ loop.posts < MaxPosts
  /\ loop' = [loop EXCEPT !.posts = @ + 1]

-----------------------------------------------------------------------------
(* The stages of poll_once() *)

At(stage) == loop.at = stage /\ loop.cb = "none"

PollOnce ==
  /\ At("run") /\ ~loop.stop
  /\ loop' = [loop EXCEPT !.at = "mailbox", !.n = 0]

\* stages 1 and 2: drain_mailbox() and expire_timers()
RunPosted ==
  /\ At("mailbox") /\ loop.posts > 0 /\ loop.n < ItcBatch
  /\ loop' = [loop EXCEPT !.posts = @ - 1, !.n = @ + 1, !.cb = "work", !.own = FALSE]

\* what the code would be if it slept over bytes that a task has queued
MayBlockUnflushed == loop.next = << >> /\ loop.posts = 0

\* wait_timeout() sleeps only if nothing is left to do
MayBlock == loop.next = << >> /\ loop.posts = 0 /\ loop.pend = << >>

\* stage 3 begins; a strategy that spins does not block
PlanWait(blocks) ==
  /\ At("mailbox") /\ (loop.posts = 0 \/ loop.n >= ItcBatch)
  /\ blocks => MayBlock
  /\ loop' = [loop EXCEPT !.at = "wait", !.blocked = blocks]

\* stage 3 ends: completions, some perhaps of sinks that are gone, a wake or the timeout
WaitEnds(cs) ==
  /\ At("wait")
  /\ \A k \in DOMAIN cs : loop.st[cs[k]] # "none"
  /\ loop.blocked => cs # << >> \/ loop.posts > 0 \/ loop.stop
  /\ loop' = [loop EXCEPT !.at = "dispatch", !.comps = cs, !.blocked = FALSE]

\* stage 4, dispatch_completions(): the handle of each is looked up in its turn
DispatchOne ==
  /\ At("dispatch") /\ loop.comps # << >>
  /\ LET s == Head(loop.comps)
     IN loop' = [loop EXCEPT !.comps = Tail(@), !.cb = IF HasSink(s) THEN s ELSE "none", !.own = FALSE]

\* stage 5, run_deferred(), begins
DispatchEnds ==
  /\ At("dispatch") /\ loop.comps = << >>
  /\ loop' = [loop EXCEPT !.at = "defer", !.n = 0, !.run = loop.next, !.next = << >>]

RunDeferred ==
  /\ At("defer") /\ loop.run # << >> /\ loop.n < DeferBatch
  /\ loop' = [loop EXCEPT !.run = Tail(@), !.n = @ + 1, !.cb = "work", !.own = FALSE,
                          !.owed = @ \ {Head(loop.run)}, !.passed = @ \ {Head(loop.run)}]

\* the batch is done: the remainder goes behind what its tasks have deferred
DeferRest ==
  /\ At("defer") /\ loop.run # << >> /\ loop.n >= DeferBatch
  /\ loop' = [loop EXCEPT !.next = @ \o loop.run, !.run = << >>,
                          !.passed = IF loop.next = << >> THEN @ ELSE @ \cup ToSet(loop.run)]

\* what the code would be if it dropped the remainder
DeferRestLost ==
  /\ At("defer") /\ loop.run # << >> /\ loop.n >= DeferBatch
  /\ loop' = [loop EXCEPT !.run = << >>]

\* what the code would be if the flag outlived the flush
FlushWritesMarked ==
  /\ At("defer") /\ loop.run = << >>
  /\ loop' = [loop EXCEPT !.at = "book", !.cb = "work", !.own = FALSE, !.pend = << >>]

\* stage 6, flush_writes(): each sink that is still there submits one send; then the hooks of
\* stage 7 run
FlushWrites ==
  /\ At("defer") /\ loop.run = << >>
  /\ loop' = [loop EXCEPT !.at = "book", !.cb = "work", !.own = FALSE,
                          !.pend = << >>, !.dirty = @ \ ToSet(loop.pend)]

\* stage 7, bookkeeping(), ends
Bookkeeping ==
  /\ At("book")
  /\ loop' = [loop EXCEPT !.at = "run"]

\* ~BasicEventManager(): the sinks that are left are torn down
DestroyLoop ==
  /\ At("run") /\ loop.stop
  /\ loop' = [loop EXCEPT !.at = "over", !.box = @ \ {s \in LoopSinks : HasSink(s)}, !.dirty = {}, !.fds = {},
                          !.st = [s \in LoopSinks |-> IF HasSink(s) THEN "gone" ELSE @[s]],
                          !.next = << >>, !.owed = {}, !.pend = << >>, !.posts = 0]

Batches == UNION {[1 .. k -> LoopSinks] : k \in 0 .. IoBatch}

LoopStep ==
  \/ PollOnce \/ RunPosted \/ DispatchOne \/ DispatchEnds \/ RunDeferred \/ DeferRest \/ FlushWrites \/ Bookkeeping
  \/ \E blocks \in BOOLEAN : PlanWait(blocks)
  \/ WaitEnds(<< >>)
  \/ CallbackReturns

LoopCalls ==
  \/ \E t \in Deferrable : Defer(t)
  \/ \E s \in LoopSinks : RegisterSink(s) \/ ReleaseSink(s) \/ NoteWritePending(s)
  \/ \E s \in LoopSinks, ok \in BOOLEAN : WatchFd(s, ok)

LoopNext ==
  \/ LoopStep \/ LoopCalls \/ StopLoop \/ WorkArrives \/ DestroyLoop
  \/ \E cs \in Batches : WaitEnds(cs)

\* The thread that called run() goes on while it has something to do, and callbacks return.
LoopFairness == WF_loop(LoopStep)

LoopSpec == LoopInit /\ [][LoopNext]_loop /\ LoopFairness

-----------------------------------------------------------------------------
(* Properties *)

\* The flag of a sink says whether the write set has it, and the set has it once: bytes
\* queued at any point of an iteration, by any callback, are flushed once and never
\* forgotten (note_write_pending, flush_writes); a task that is
\* deferred is queued once until it is run (defer, run_deferred).  A completion is delivered to an object that is there, and the closure of
\* a watch goes away under a call only by the callback's own unwatch() (dispatch_completions,
\* unwatch).  The closures on the heap are those of the watches, but for the ones whose
\* attach failed (watch, ~BasicEventManager).
LoopSound ==
  /\ IsInjective(loop.pend) /\ IsInjective(loop.run \o loop.next) /\ Queued = loop.owed
  /\ loop.dirty = {s \in ToSet(loop.pend) : HasSink(s)}
  /\ loop.cb \in LoopSinks =>
       \/ HasSink(loop.cb) /\ (loop.kind[loop.cb] = "watch" => loop.cb \in loop.box)
       \/ loop.own
  /\ loop.fds = {s \in LoopSinks : HasSink(s) /\ loop.kind[s] = "watch"}
  /\ loop.box = loop.fds \cup loop.leaked

\* Until the event manager is stopped, a deferred task is run, although the batch is limited,
\* unless a remainder was put behind tasks deferred later; and bytes that are noted are
\* flushed or their connection is closed: the loop does not sleep over either
\* (run_deferred, flush_writes, wait_timeout).
LoopGoesOn ==
  /\ \A t \in Deferrable : t \in loop.owed ~> (t \notin loop.owed \/ t \in loop.passed \/ loop.stop)
  /\ \A s \in LoopSinks : s \in loop.dirty ~> (s \notin loop.dirty \/ loop.stop)
=============================================================================
