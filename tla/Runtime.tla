------------------------------- MODULE Runtime -------------------------------
(***************************************************************************)
(* The runtime of src/runtime.cpp: shard threads that each build, run and  *)
(* destroy an event manager, the signal thread with its self-pipe, start,  *)
(* shutdown and join; and the shutdown sequence every event manager goes   *)
(* through on its own thread (begin_shutdown and drain_step of             *)
(* core/event_manager.hpp) with the server it owns (module TcpServer).     *)
(*                                                                         *)
(* sh[i] is a shard:                                                       *)
(*   th            its thread: "unborn", "starting", "setup", "loop",      *)
(*                 "left" (run() returned), "exited"                       *)
(*   at            the stage of poll_once the loop is in: "mail" or "io"   *)
(*   em            the pointer is published                                *)
(*   running, stop running_ and stop_                                      *)
(*   mail          posted work: "task", "shutdown", or "shed" (a shutdown  *)
(*                 whose Context's deadline is over when it is drained)    *)
(*   popped        how many of them this iteration has drained             *)
(*   down, drain   shutting_down_; the timer of drain_step is armed        *)
(*   batch         accept completions of this iteration to dispatch        *)
(*   srv           the server the event manager owns                       *)
(* rt is what the threads share:                                           *)
(*   main, i       what the main thread does, and for which shard          *)
(*   stopping      stopping_; call: the shutdown() that is under way       *)
(*   late          the deadline of the shutdown has passed                 *)
(*   sig, pend     the signal thread, and a signal it has not read         *)
(*   sigstop       signal_stop_                                            *)
(*   pipe, rung    the self-pipe: "none", "open" or "closed"; a byte in it *)
(*   exc           history of what may excuse a property                   *)
(***************************************************************************)
EXTENDS TcpServer

CONSTANTS Layouts,     \* the runtimes: shards (1 .. n); those that serve, have callbacks and get
                       \* posted other work; whether there are signal handlers; whether
                       \* the backend is io_uring
          MailCap,     \* mailbox_capacity
          MaxItcBatch, \* max_itc_batch
          MaxAccepts   \* bound: connections ever accepted by a server

VARIABLES lay, sh, rt

rtVars == <<lay, sh, rt>>

Shards == lay.shards

Serving == lay.serving

N == Cardinality(Shards)

NewShard ==
  [th |-> "unborn", at |-> "none", em |-> FALSE,
   running |-> FALSE, stop |-> FALSE, mail |-> << >>, popped |-> 0, down |-> FALSE, drain |-> FALSE,
   batch |-> 0, srv |-> NewServer(lay.uring)]

NoCall == [who |-> "nobody", i |-> 0, at |-> "none", aged |-> FALSE]

RtInit ==
  /\ lay \in Layouts
  /\ sh = [i \in Shards |-> NewShard]
  /\ rt = [main |-> "start", i |-> 1, stopping |-> FALSE, call |-> NoCall, late |-> FALSE,
           sig |-> "none", pend |-> FALSE, sigstop |-> FALSE, pipe |-> "none", rung |-> FALSE, exc |-> {}]

Excuse(r, e) == [r EXCEPT !.exc = @ \cup {e}]

Shard(i, s) == sh' = [sh EXCEPT ![i] = s] /\ UNCHANGED <<lay, rt>>

Shared(r) == rt' = r /\ UNCHANGED <<lay, sh>>

Both(i, s, r) == sh' = [sh EXCEPT ![i] = s] /\ rt' = r /\ UNCHANGED lay

\* shard i calls rt.shutdown() from a callback: its thread is in there
InCallback(i) == rt.call.who = "em" /\ rt.call.at # "none" /\ i = 1

-----------------------------------------------------------------------------
(* start() *)

StartShard ==
  /\ rt.main = "start" /\ rt.i <= N
  /\ Both(rt.i, [sh[rt.i] EXCEPT !.th = "starting"], [rt EXCEPT !.i = @ + 1])

\* the self-pipe and the signal thread, if there are handlers; without a pipe there is no thread
StartSignals(p) ==
  /\ rt.main = "start" /\ rt.i > N
  /\ p = "open" => lay.signals
  /\ Shared([rt EXCEPT !.main = "started", !.pipe = p, !.sig = IF p = "open" THEN "begin" ELSE "none"])

-----------------------------------------------------------------------------
(* thread_main() *)

\* pinning or the scheduling policy fails
ShardFails(i) ==
  /\ sh[i].th = "starting"
  /\ Shard(i, [sh[i] EXCEPT !.th = "exited"])

\* the event manager is built and published
Publish(i) ==
  /\ sh[i].th = "starting"
  /\ Shard(i, [sh[i] EXCEPT !.th = "setup", !.em = TRUE])

\* while (!stop_) poll_once(); running_ is false when it returns
Top(s) ==
  IF s.stop THEN [s EXCEPT !.th = "left", !.at = "none", !.running = FALSE] ELSE [s EXCEPT !.at = "mail", !.popped = 0]

\* the setup functions make a server (or fail to), then run() begins
Setup(i, ok) ==
  /\ sh[i].th = "setup" /\ (ok => i \in Serving)
  /\ Shard(i, Top([sh[i] EXCEPT !.th = "loop", !.running = TRUE, !.srv = Open(@, ok)]))

\* the pointer is withdrawn
Withdraw(i) ==
  /\ sh[i].th = "left" /\ sh[i].em
  /\ Shard(i, [sh[i] EXCEPT !.em = FALSE])

\* ~BasicEventManager(): what it owns is deleted, and posted work is dropped
Exit(i) ==
  /\ sh[i].th = "left" /\ ~sh[i].em
  /\ Shard(i, [sh[i] EXCEPT !.th = "exited", !.mail = << >>, !.drain = FALSE, !.srv = DestroyServer(@)])

-----------------------------------------------------------------------------
(* The event manager's shutdown sequence *)

\* what the code would be if the sequence stopped the loop at once
DrainStepAtOnce(s, late) == [s EXCEPT !.srv = HalfCloseAll(@), !.stop = TRUE, !.drain = FALSE]

\* drain_step(): stop when every queue is empty or the deadline is over, else look again later
DrainStep(s, late) ==
  IF Drained(s.srv) \/ late THEN [s EXCEPT !.srv = HalfCloseAll(@), !.stop = TRUE, !.drain = FALSE]
  ELSE [s EXCEPT !.drain = TRUE]

BeginShutdown(s, talk, late) ==
  IF s.down THEN s
  ELSE DrainStep([s EXCEPT !.down = TRUE, !.srv = NotifyShutdown(StopAccepting(@), talk)], late)

\* stage 1: one posted item; a shed one is dropped unread
DrainMail(i, talk) ==
  /\ sh[i].at = "mail" /\ sh[i].mail # << >> /\ sh[i].popped < MaxItcBatch
  /\ LET it == Head(sh[i].mail)
         s == [sh[i] EXCEPT !.mail = Tail(@), !.popped = @ + 1]
     IN Shard(i, IF it = "shutdown" THEN BeginShutdown(s, talk, rt.late) ELSE s)

\* stages 2 and 3, once the mailbox is empty or the batch is full: the timer of drain_step, then a wait that
\* returns n accepted sockets among its completions
Wait(i, n) ==
  /\ sh[i].at = "mail" /\ (sh[i].mail = << >> \/ sh[i].popped = MaxItcBatch)
  /\ LET s == IF sh[i].drain THEN DrainStep([sh[i] EXCEPT !.drain = FALSE], rt.late) ELSE sh[i]
     IN /\ n > 0 => s.srv.acc \in {"armed", "staged"} /\ Len(s.srv.conns) + n <= MaxAccepts
        /\ Shard(i, [s EXCEPT !.at = "io", !.batch = n, !.popped = 0])

\* stage 4: completions, in any order, but nothing comes of an accept after the one that ends it
Accept(i, ok, queued, more) ==
  /\ sh[i].at = "io" /\ sh[i].batch > 0 /\ ~InCallback(i)
  /\ IF sh[i].srv.uring THEN sh[i].batch > 1 => more ELSE ~more
  /\ Shard(i, [sh[i] EXCEPT !.batch = @ - 1, !.srv = OnAccept(@, ok, queued, more)])

\* the cancel staged by stop_accepting is answered, or the accept failed before
AcceptOver(i, cancelled) ==
  /\ sh[i].at = "io" /\ sh[i].batch = 0 /\ ~InCallback(i)
  /\ sh[i].srv.acc = "staged"
  /\ Shard(i, [sh[i] EXCEPT !.srv = AcceptEnds(@, cancelled)])

SendDone(i, k) ==
  /\ sh[i].at = "io" /\ ~InCallback(i)
  /\ k \in Held(sh[i].srv) /\ sh[i].srv.conns[k].q = 2 /\ sh[i].srv.conns[k].st # "closed"
  /\ Shard(i, [sh[i] EXCEPT !.srv = Written(@, k)])

Handler(i, k, closes) ==
  /\ sh[i].at = "io" /\ ~InCallback(i)
  /\ k \in Held(sh[i].srv) /\ sh[i].srv.conns[k].st \in {"open", "half"}
  /\ Shard(i, [sh[i] EXCEPT !.srv = IF closes THEN CloseConn(@, k) ELSE Queue(@, k)])

\* a callback starts the sequence of its own event manager, or stops its loop
CallsBegin(i, talk) ==
  /\ sh[i].at = "io" /\ ~InCallback(i) /\ ~sh[i].down
  /\ Both(i, BeginShutdown(sh[i], talk, rt.late), Excuse(rt, "begun_by_app"))

CallsStop(i) ==
  /\ sh[i].at = "io" /\ ~InCallback(i) /\ ~sh[i].stop
  /\ Both(i, [sh[i] EXCEPT !.stop = TRUE], Excuse(rt, "stopped_by_app"))

\* stages 5 and 6: notifications of closed connections, then the write queues
DeferAndFlush(i) ==
  /\ sh[i].at = "io" /\ sh[i].batch = 0 /\ ~InCallback(i)
  /\ Shard(i, IF sh[i].srv.gone # << >> THEN [sh[i] EXCEPT !.srv = ConnGone(@)]
              ELSE Top([sh[i] EXCEPT !.srv = FlushAll(@)]))

\* another thread posts
OtherPost(i) ==
  /\ sh[i].em /\ sh[i].mail = << >> /\ ~sh[i].down
  /\ Shard(i, [sh[i] EXCEPT !.mail = Append(@, "task")])

-----------------------------------------------------------------------------
(* shutdown() *)


\* the exchange on stopping_ lets one caller through: main, the signal thread or a callback;
\* aged: the caller's ambient deadline will be over before the work it posts is run
CallShutdown(who, aged) ==
  /\ ~rt.stopping
  /\ CASE who = "main" -> rt.main = "started" /\ ~aged
       [] who = "sig" -> rt.sig = "handler" /\ ~aged
       [] who = "em" -> sh[1].at = "io"
  /\ Shared([rt EXCEPT !.stopping = TRUE, !.main = IF who = "main" THEN "shutdown" ELSE @,
                        !.call = [who |-> who, i |-> 1, at |-> "load", aged |-> aged]])

\* the pointer of the next shard is read; a shard without one is passed over
ShutdownLoad ==
  /\ rt.call.at = "load" /\ rt.call.i <= N
  /\ LET i == rt.call.i
         r == IF sh[i].em THEN [rt EXCEPT !.call.at = "use"] ELSE [rt EXCEPT !.call.i = @ + 1]
     IN Shared(IF sh[i].th \in {"unborn", "starting"} THEN Excuse(r, "unpublished") ELSE r)

\* what the code would be if a full mailbox were taken for a delivered post
ShutdownUsePosted ==
  /\ rt.call.at = "use"
  /\ LET i == rt.call.i
         r == [rt EXCEPT !.call.at = "load", !.call.i = @ + 1]
         it == IF rt.call.aged THEN "shed" ELSE "shutdown"
         kept == IF Len(sh[i].mail) < MailCap THEN Append(sh[i].mail, it) ELSE sh[i].mail
     IN CASE sh[i].th = "exited" -> Shared(Excuse(r, "em_gone"))
          [] sh[i].th # "exited" /\ ~sh[i].running -> Both(i, [sh[i] EXCEPT !.stop = TRUE], Excuse(r, "stopped_undrained"))
          [] OTHER -> Both(i, [sh[i] EXCEPT !.mail = kept], IF rt.call.aged THEN Excuse(r, "shed") ELSE r)

\* it is used: begin_shutdown is posted to a running loop, any other is stopped
ShutdownUse ==
  /\ rt.call.at = "use"
  /\ LET i == rt.call.i
         r == [rt EXCEPT !.call.at = "load", !.call.i = @ + 1]
         post == sh[i].running /\ Len(sh[i].mail) < MailCap
     IN CASE sh[i].th = "exited" -> Shared(Excuse(r, "em_gone"))
          [] sh[i].th # "exited" /\ ~post -> Both(i, [sh[i] EXCEPT !.stop = TRUE], Excuse(r, "stopped_undrained"))
          [] post /\ ~rt.call.aged -> Both(i, [sh[i] EXCEPT !.mail = Append(@, "shutdown")], r)
          [] post /\ rt.call.aged -> Both(i, [sh[i] EXCEPT !.mail = Append(@, "shed")], Excuse(r, "shed"))

\* the signal thread is told: the flag, then a byte for the pipe, which it may have closed on
\* reading the flag: the byte is then lost on a descriptor that is gone
ShutdownFlag ==
  /\ rt.call.at = "load" /\ rt.call.i > N
  /\ Shared([rt EXCEPT !.sigstop = TRUE, !.call.at = "pipe"])

ShutdownPipe ==
  /\ rt.call.at = "pipe"
  /\ LET r == [rt EXCEPT !.call = NoCall, !.main = IF rt.call.who = "main" THEN "join" ELSE @,
                         !.sig = IF rt.call.who = "sig" THEN "check" ELSE @]
     IN Shared([r EXCEPT !.rung = @ \/ rt.pipe = "open"])

-----------------------------------------------------------------------------
(* The signal thread, and join() *)

Signal ==
  /\ rt.sig = "poll" /\ ~rt.pend
  /\ Shared([rt EXCEPT !.pend = TRUE])

\* without a signalfd the thread ends and leaves the pipe open
SigBegin(ok) ==
  /\ rt.sig = "begin"
  /\ Shared([rt EXCEPT !.sig = IF ok THEN "check" ELSE "exited"])

\* while (!signal_stop_): the flag is read before each poll
SigCheck ==
  /\ rt.sig = "check"
  /\ Shared([rt EXCEPT !.sig = IF rt.sigstop THEN "closing" ELSE "poll"])

\* poll() returns: the pipe comes before the signal
SigPoll ==
  /\ rt.sig = "poll" /\ (rt.rung \/ rt.pend)
  /\ Shared(IF rt.rung THEN [rt EXCEPT !.sig = "closing"] ELSE [rt EXCEPT !.sig = "handler", !.pend = FALSE])

\* a handler that does not shut down, or a shutdown that is under way already
SigHandled ==
  /\ rt.sig = "handler" /\ rt.call.who # "sig"
  /\ Shared([rt EXCEPT !.sig = "check"])

SigClose ==
  /\ rt.sig = "closing"
  /\ Shared([rt EXCEPT !.sig = "exited", !.pipe = "closed"])

MainJoins ==
  /\ rt.main = "started"
  /\ Shared([rt EXCEPT !.main = "join"])

Joined ==
  /\ rt.main = "join"
  /\ \A i \in Shards : sh[i].th = "exited"
  /\ rt.sig \in {"none", "exited"}
  /\ Shared([rt EXCEPT !.main = "joined"])

DeadlinePasses ==
  /\ ~rt.late /\ (rt.stopping \/ \E i \in Shards : sh[i].down)
  /\ Shared([rt EXCEPT !.late = TRUE])

-----------------------------------------------------------------------------

Thread(i) ==
  \/ ShardFails(i) \/ Publish(i) \/ Withdraw(i) \/ Exit(i) \/ DeferAndFlush(i)
  \/ \E ok \in BOOLEAN : Setup(i, ok) \/ \E queued, more \in BOOLEAN : Accept(i, ok, queued, more)
  \/ \E cancelled \in BOOLEAN : AcceptOver(i, cancelled)
  \/ \E n \in 0 .. 2 : Wait(i, n)
  \/ \E talk \in SUBSET DOMAIN sh[i].srv.conns : DrainMail(i, talk)

Callbacks(i) ==
  \/ \E k \in DOMAIN sh[i].srv.conns : SendDone(i, k) \/ \E closes \in BOOLEAN : Handler(i, k, closes)
  \/ \E talk \in SUBSET DOMAIN sh[i].srv.conns : CallsBegin(i, talk)
  \/ CallsStop(i)

ShutdownSteps == ShutdownLoad \/ ShutdownUse \/ ShutdownFlag \/ ShutdownPipe

SigSteps == (\E ok \in BOOLEAN : SigBegin(ok)) \/ SigCheck \/ SigPoll \/ SigHandled \/ SigClose

RtNext ==
  \/ StartShard \/ \E p \in {"open", "none"} : StartSignals(p)
  \/ \E i \in Shards : Thread(i)
  \/ \E i \in Serving : Callbacks(i) \/ OtherPost(i)
  \/ \E who \in {"main", "sig", "em"}, aged \in BOOLEAN : CallShutdown(who, aged)
  \/ ShutdownSteps \/ SigSteps \/ Signal \/ MainJoins \/ Joined \/ DeadlinePasses

\* every thread runs, and the deadline comes
RtFairness ==
  /\ WF_rtVars(StartShard \/ \E p \in {"open", "none"} : StartSignals(p))
  /\ \A i \in UNION {l.shards : l \in Layouts} : WF_rtVars(i \in Shards /\ Thread(i))
  /\ WF_rtVars(ShutdownSteps) /\ WF_rtVars(SigSteps) /\ WF_rtVars(Joined) /\ WF_rtVars(DeadlinePasses)

RtSpec == RtInit /\ [][RtNext]_rtVars /\ RtFairness

-----------------------------------------------------------------------------
(* Properties *)

\* A server never holds more than max_connections, and once its event manager shuts down it
\* no longer listens and holds no connection that on_shutdown was not called for, with two
\* exceptions: a callback began the sequence, and the socket was already in the batch it was
\* called from; or the backend is io_uring, where on_accept takes sockets until the staged
\* cancel has taken effect (stop_accepting, notify_shutdown, on_accept; UringBackend::cancel).
ServerCloses ==
  \A i \in Shards :
    LET s == sh[i].srv
    IN /\ Cardinality(Held(s)) <= MaxConnections
       /\ sh[i].down => ~s.listen /\ s.acc # "armed"
       /\ sh[i].down => \A k \in Held(s) :
            s.conns[k].told \/ (s.conns[k].late /\ (s.uring \/ "begun_by_app" \in rt.exc))

\* Bytes queued by on_shutdown or before are sent before the loop ends: a connection is
\* destroyed with bytes in its queue only after the deadline, when the loop was stopped
\* without the sequence, or when it was itself accepted after the sequence had begun
\* (drain_step, half_close_all).
FarewellSent ==
  \A i \in Shards :
    LET s == sh[i].srv
    IN \/ \A k \in s.lost : s.conns[k].late
       \/ rt.late \/ rt.exc \cap {"stopped_undrained", "stopped_by_app"} # {}


\* Once shutdown() was called, join() returns, unless a shard had not published its event
\* manager yet or its begin_shutdown was shed with the caller's deadline.
JoinReturns ==
  rt.stopping /\ rt.main = "join" ~> rt.main = "joined" \/ rt.exc \cap {"unpublished", "shed"} # {}

\* A server that shuts down takes nobody in and lets nobody go without its bytes.
ServerEnds == ServerCloses /\ FarewellSent
=============================================================================
