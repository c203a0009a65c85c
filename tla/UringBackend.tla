---------------------------- MODULE UringBackend ----------------------------
(***************************************************************************)
(* The io_uring backend of src/backend/uring.cpp, with the loop that calls *)
(* it, the kernel behind its rings, and the threads that wake it.          *)
(*                                                                         *)
(* u is the backend:                                                       *)
(*   staged, sq     SQEs not yet visible to the kernel (pending_), and     *)
(*                  visible ones it has not consumed                       *)
(*   ker, cq        the operations the kernel has in flight; its CQEs      *)
(*   armed, saw     wake_armed_ and saw_wake_                              *)
(*   ev, edge       the wake eventfd is readable; the poll on it is due    *)
(*   watch          watch_: the tag the watched fd has, or None            *)
(*   swallow        swallow_                                               *)
(*   accepts, sendv, connects, dst    armed_accepts_, sendv_, connect_ and *)
(*                  recv_dst_                                              *)
(*   ring           the provided buffers the kernel may take               *)
(*   slots, head    msgring_fb_ (the target of each) and msgring_head_     *)
(*   n              completions the current wait() has put in out          *)
(*   th             the loop: "run", "submit" and "blocked" in wait(),     *)
(*                  "after" the system call, "ended"                       *)
(*   sqth, flag     SQPOLL: its thread; the NEED_WAKEUP bit, if it was     *)
(*                  read before the tail was stored                        *)
(* and, as history,                                                        *)
(*   owed           by tag, submissions not answered by a last completion  *)
(*   asked          targets a msg_ring_wake was accepted for, not woken    *)
(*   spurious       the watcher was told of a cancellation                 *)
(*   gen, calls     watches made; calls since the last wait()              *)
(***************************************************************************)
EXTENDS Integers, Sequences, FiniteSets, SequencesExt

CONSTANTS SqEntries,   \* sq_entries
          OutCap,      \* max_io_events: completions one wait() may return
          Slots,       \* kMsgringSlots
          Targets,     \* the mailboxes of other event managers
          Setups,      \* configurations: bufs (the provided buffers), multishot, sqpoll, and the
                       \* calls the application makes
          MaxCalls,    \* bound: calls between two waits
          MaxGen,      \* bound: watches ever made
          None

VARIABLES setup, u, alive

uringVars == <<setup, u, alive>>

Tag(kind, i) == [kind |-> kind, i |-> i]

Internal == {"wake", "msgwake", "msgdone", "cancel", "remove"}

OpTags == {Tag(k, 0) : k \in {"recv", "send", "accept", "connect"}}

Sqe(op, tag, arg) == [op |-> op, tag |-> tag, arg |-> arg]

Cqe(tag, res, more, buf) == [tag |-> tag, res |-> res, more |-> more, buf |-> buf]

Excuse(s, e) == [s EXCEPT !.exc = @ \cup {e}]

Queued(s) == Range(s.sq) \cup Range(s.staged)

-----------------------------------------------------------------------------
(* The kernel: what consuming an SQE does *)

Post(s, c) == [s EXCEPT !.cq = Append(@, c)]

\* POLL_REMOVE and ASYNC_CANCEL end what has the tag, if it is still in flight
Retire(s, e) ==
  LET hit == {o \in s.ker : o.tag = e.arg}
      t == IF hit = {} THEN s ELSE Post([s EXCEPT !.ker = @ \ hit], Cqe(e.arg, "cancelled", FALSE, None))
  IN Post(t, Cqe(e.tag, "done", FALSE, None))

Issue(s, e) ==
  IF e.op \in {"remove", "cancel"} THEN Retire(s, e)
  ELSE [s EXCEPT !.ker = @ \cup {e}, !.edge = IF e.tag.kind = "wake" THEN s.ev ELSE @]

\* the first k visible SQEs
Consume(s, k) ==
  FoldLeft(Issue, [s EXCEPT !.sq = SubSeq(@, k + 1, Len(@))], SubSeq(s.sq, 1, k))

-----------------------------------------------------------------------------
(* Staging *)

\* alloc_sqe() finds a slot
Room(s) == Len(s.sq) + Len(s.staged) < SqEntries

Put(s, e) == [s EXCEPT !.staged = Append(@, e)]

CommitSqes(s) == [s EXCEPT !.sq = @ \o s.staged, !.staged = << >>]

\* io_uring_enter with to_submit = k: the SQPOLL thread consumes by itself
Enter(s, k) == IF setup.sqpoll THEN s ELSE Consume(s, IF k < Len(s.sq) THEN k ELSE Len(s.sq))

FlushFullSq(s, ok) ==
  LET k == Len(s.staged)
  IN IF ok THEN Enter(CommitSqes(s), k) ELSE Excuse(CommitSqes(s), "short_submit")

\* alloc_sqe() with the flush every caller does when the queue is full: the state, and
\* whether an SQE was had
Stage(s, e, ok) ==
  IF Room(s) THEN [s |-> Put(s, e), ok |-> TRUE]
  ELSE LET f == FlushFullSq(s, ok)
           fits == (ok \/ s.staged = << >>) /\ Room(f)
       IN [s |-> IF fits THEN Put(f, e) ELSE f, ok |-> fits]

ArmWakePoll(s) ==
  IF Room(s) THEN [Put(s, Sqe("poll", Tag("wake", 0), None)) EXCEPT !.armed = TRUE] ELSE Excuse(s, "sq_full")

-----------------------------------------------------------------------------
(* drain_cq() *)

\* a MSG_RING send is done: a failed one falls back to the target's eventfd
MsgDone(s, c) ==
  LET t == s.slots[c.tag.i]
  IN [s EXCEPT !.asked = IF c.res = "failed" THEN @ \ {t} ELSE @, !.slots[c.tag.i] = None]

TakeInternal(s, c) ==
  CASE c.tag.kind = "wake" -> [s EXCEPT !.ev = FALSE, !.saw = TRUE, !.armed = @ /\ c.more]
    [] c.tag.kind = "msgwake" -> [s EXCEPT !.saw = TRUE]
    [] c.tag.kind = "msgdone" -> MsgDone(s, c)
    [] OTHER -> s

ProvideBuffer(s, b) == [s EXCEPT !.ring = @ \cup {b}]

\* what the code would be if the buffer of a failed receive were not given back
TakeRecvData(s, c) ==
  IF c.tag \notin s.dst THEN s
  ELSE LET t == [s EXCEPT !.dst = @ \ {c.tag}] IN IF c.buf = None \/ c.res # "data" THEN t ELSE ProvideBuffer(t, c.buf)

TakeRecv(s, c) ==
  IF c.tag \notin s.dst THEN s
  ELSE LET t == [s EXCEPT !.dst = @ \ {c.tag}] IN IF c.buf = None THEN t ELSE ProvideBuffer(t, c.buf)

Deliver(s, c) ==
  LET t == CASE c.tag.kind = "send" -> [s EXCEPT !.sendv = @ \ {c.tag}]
             [] c.tag.kind = "connect" -> [s EXCEPT !.connects = @ \ {c.tag}]
             [] c.tag.kind = "accept" /\ ~c.more -> [s EXCEPT !.accepts = @ \ {c.tag}]
             [] c.tag.kind = "recv" -> TakeRecv(s, c)
             [] c.tag.kind = "watch" /\ c.res = "cancelled" /\ c.tag = s.watch -> [s EXCEPT !.spurious = TRUE]
             [] OTHER -> s
  IN [t EXCEPT !.n = @ + 1, !.owed[c.tag.kind] = IF c.more \/ c.tag.kind = "watch" THEN @ ELSE @ - 1]

TakeCqe(s, c) ==
  CASE s.n = OutCap -> Post(s, c)
    [] s.n < OutCap /\ c.tag.kind \in Internal -> TakeInternal(s, c)
    [] s.n < OutCap /\ c.res = "cancelled" /\ c.tag \in s.swallow -> [s EXCEPT !.swallow = @ \ {c.tag}]
    [] OTHER -> Deliver(s, c)

\* what the code would be if an ended wake poll were not armed again
DrainCqUnarmed(s) == FoldLeft(TakeCqe, [s EXCEPT !.cq = << >>], s.cq)

DrainCq(s) ==
  LET t == FoldLeft(TakeCqe, [s EXCEPT !.cq = << >>], s.cq) IN IF t.armed THEN t ELSE ArmWakePoll(t)

-----------------------------------------------------------------------------
(* The calls of the loop thread; ok: io_uring_enter succeeds where the call uses it *)

Call(name, s) ==
  /\ name \in setup.calls
  /\ u' = [s EXCEPT !.calls = @ + 1]
  /\ UNCHANGED <<setup, alive>>

\* one failing system call is enough to show what it does
MayFail(ok) == ok \/ "short_submit" \notin u.exc

Submitted(r, kind) == IF r.ok THEN [r.s EXCEPT !.owed[kind] = @ + 1] ELSE r.s

SubmitRecv(ok) ==
  LET t == Tag("recv", 0)
      r == Stage(u, Sqe("recv", t, None), ok)
  IN /\ MayFail(ok) /\ (u.owed["recv"] = 0 \/ t \in u.dst)
     /\ Call("recv", CASE t \in u.dst -> u
                       [] r.ok /\ setup.bufs # {} -> [Submitted(r, "recv") EXCEPT !.dst = @ \cup {t}]
                       [] OTHER -> Submitted(r, "recv"))

SubmitSendv(ok) ==
  LET t == Tag("send", 0)
      r == Stage(u, Sqe("send", t, None), ok)
  IN /\ MayFail(ok)
     /\ Call("send", CASE t \in u.sendv -> u
                       [] t \notin u.sendv /\ r.ok -> [Submitted(r, "send") EXCEPT !.sendv = @ \cup {t}]
                       [] OTHER -> r.s)

SubmitAccept(ok) ==
  LET t == Tag("accept", 0)
      r == Stage(u, Sqe("accept", t, None), ok)
  IN /\ MayFail(ok) /\ (setup.multishot \/ u.owed["accept"] = 0)
     /\ Call("accept", CASE setup.multishot /\ t \in u.accepts -> u
                         [] t \notin u.accepts /\ r.ok /\ setup.multishot ->
                              [Submitted(r, "accept") EXCEPT !.accepts = @ \cup {t}]
                         [] OTHER -> Submitted(r, "accept"))

SubmitConnect(ok) ==
  LET t == Tag("connect", 0)
      r == Stage(u, Sqe("connect", t, None), ok)
  IN /\ MayFail(ok)
     /\ Call("connect", CASE t \in u.connects -> u
                          [] t \notin u.connects /\ r.ok -> [Submitted(r, "connect") EXCEPT !.connects = @ \cup {t}]
                          [] OTHER -> r.s)

Cancel(t, ok) ==
  /\ MayFail(ok) /\ t.kind \in setup.calls /\ u.owed[t.kind] > 0
  /\ Call("cancel", Stage(u, Sqe("cancel", Tag("cancel", 0), t), ok).s)

\* POLL_REMOVE for the tag the fd has, then POLL_ADD with the new one
Repoll(t, ok) ==
  LET r == Stage(u, Sqe("remove", Tag("remove", 0), u.watch), ok)
      quiet == IF t = u.watch THEN [r.s EXCEPT !.swallow = @ \cup {t}] ELSE r.s
      p == Stage(quiet, Sqe("poll", t, None), ok)
  IN CASE ~r.ok -> r.s
       [] r.ok /\ p.ok -> [p.s EXCEPT !.watch = t]
       [] r.ok /\ ~p.ok -> Excuse(p.s, "half_modified")

\* watch(): each has a tag of its own, also on an fd that is watched already
Attach(ok) ==
  LET t == Tag("watch", u.gen + 1)
      p == Stage(u, Sqe("poll", t, None), ok)
      s == IF u.watch # None THEN Repoll(t, ok) ELSE IF p.ok THEN [p.s EXCEPT !.watch = t] ELSE p.s
  IN MayFail(ok) /\ u.gen < MaxGen /\ Call("watch", [s EXCEPT !.gen = @ + 1])

Modify(ok) ==
  /\ MayFail(ok) /\ u.watch # None
  /\ Call("modify", IF u.watch \in u.swallow THEN Excuse(Repoll(u.watch, ok), "modified_twice") ELSE Repoll(u.watch, ok))

\* unwatch()
Detach(ok) ==
  LET r == Stage(u, Sqe("remove", Tag("remove", 0), u.watch), ok)
  IN /\ MayFail(ok) /\ u.watch # None
     /\ Call("detach", IF r.ok THEN [r.s EXCEPT !.watch = None] ELSE r.s)

\* the slot is in use as long as its target is alive
MsgRingWake(t, ok) ==
  LET i == u.head % Slots
      s == [u EXCEPT !.head = (@ + 1) % Slots]
      r == Stage(s, Sqe("msg", Tag("msgdone", i), t), ok)
      inflight == \E e \in Queued(u) \cup u.ker : e.tag = Tag("msgdone", i)
      done == \E k \in DOMAIN u.cq : u.cq[k].tag = Tag("msgdone", i)
      v == [r.s EXCEPT !.slots[i] = t, !.asked = @ \cup {t}]
  IN /\ MayFail(ok) /\ t \in alive
     /\ Call("msg", CASE u.slots[i] \in alive -> s
                      [] u.slots[i] \notin alive /\ ~r.ok -> r.s
                      [] OTHER -> IF inflight \/ done THEN Excuse(v, "slot_reused") ELSE v)

-----------------------------------------------------------------------------
(* wait() *)

\* the first drain; early: the NEED_WAKEUP bit is loaded before the store of the tail, which
\* is no more than a release, is visible
WaitBegin(early) ==
  /\ u.th = "run" /\ (early => setup.sqpoll)
  /\ u' = [DrainCq([u EXCEPT !.saw = FALSE, !.n = 0]) EXCEPT
             !.th = "submit", !.flag = IF early THEN u.sqth ELSE None, !.calls = 0]
  /\ UNCHANGED <<setup, alive>>

CanWait(s, sleeps) == s.n = 0 /\ ~s.saw /\ sleeps

\* commit, submit and block; sleeps: the timeout is not zero
WaitSubmit(sleeps, ok) ==
  LET k == Len(u.staged)
      s == CommitSqes(u)
      called == k > 0 \/ CanWait(u, sleeps)
      seen == IF u.flag = None THEN u.sqth ELSE u.flag
      t == CASE setup.sqpoll /\ seen = "parked" -> [s EXCEPT !.sqth = "awake"]
             [] setup.sqpoll /\ seen # "parked" /\ u.sqth = "parked" /\ s.sq # << >> -> Excuse(s, "flag_read_early")
             [] ~setup.sqpoll /\ called /\ ok -> Enter(s, k)
             [] OTHER -> IF called /\ ~ok THEN Excuse(s, "short_submit") ELSE s
  IN /\ u.th = "submit" /\ MayFail(ok)
     /\ u' = [t EXCEPT !.th = IF CanWait(u, sleeps) /\ ok THEN "blocked" ELSE "after", !.flag = None]
     /\ UNCHANGED <<setup, alive>>

\* a CQE, the timeout or a signal
WaitReturns ==
  /\ u.th = "blocked"
  /\ u' = [u EXCEPT !.th = "after"]
  /\ UNCHANGED <<setup, alive>>

\* the second drain
WaitEnd ==
  /\ u.th = "after"
  /\ u' = [IF u.n < OutCap THEN DrainCq(u) ELSE u EXCEPT !.th = "run"]
  /\ UNCHANGED <<setup, alive>>

\* run() returns: what is staged is not submitted, and no CQE is read any more
Leave ==
  /\ u.th = "run"
  /\ u' = [IF u.asked # {} THEN Excuse(u, "left_asked") ELSE u EXCEPT !.th = "ended"]
  /\ UNCHANGED <<setup, alive>>

-----------------------------------------------------------------------------
(* The other threads and the kernel *)

Kernel(s) == u' = s /\ UNCHANGED <<setup, alive>>

\* wake() from any thread
Wake ==
  /\ ~u.ev /\ u.th # "ended"
  /\ Kernel([u EXCEPT !.ev = TRUE, !.edge = TRUE])

\* another ring's MSG_RING
PeerMsg ==
  /\ "msg" \in setup.calls /\ u.th # "ended" /\ \A k \in DOMAIN u.cq : u.cq[k].tag.kind # "msgwake"
  /\ Kernel(Post(u, Cqe(Tag("msgwake", 0), "done", FALSE, None)))

\* a poll fires; without more it has ended (a CQ overflow ends a multishot)
WakePollFires(more) ==
  /\ u.ev /\ u.edge
  /\ \E o \in u.ker :
       /\ o.tag.kind = "wake"
       /\ Kernel(Post([u EXCEPT !.edge = FALSE, !.ker = IF more THEN @ ELSE @ \ {o}], Cqe(o.tag, "ready", more, None)))

WatchFires(more) ==
  \E o \in u.ker :
    /\ o.tag.kind = "watch" /\ \A k \in DOMAIN u.cq : u.cq[k].tag # o.tag
    /\ LET s == Post([u EXCEPT !.ker = IF more THEN @ ELSE @ \ {o}], Cqe(o.tag, "ready", more, None))
       IN Kernel(IF more THEN s ELSE Excuse(s, "poll_ended"))

\* a receive takes a provided buffer, also for an error it may have taken one
RecvDone(res) ==
  \E o \in u.ker :
    /\ o.op = "recv"
    /\ LET s == [u EXCEPT !.ker = @ \ {o}]
       IN IF setup.bufs = {} \/ u.ring = {} THEN Kernel(Post(s, Cqe(o.tag, res, FALSE, None)))
          ELSE \E b \in u.ring : Kernel(Post([s EXCEPT !.ring = @ \ {b}], Cqe(o.tag, res, FALSE, b)))

OpDone(more) ==
  \E o \in u.ker :
    /\ o.op \in {"send", "accept", "connect"}
    /\ more => o.op = "accept" /\ setup.multishot /\ u.cq = << >>
    /\ Kernel(Post([u EXCEPT !.ker = IF more THEN @ ELSE @ \ {o}], Cqe(o.tag, "data", more, None)))

\* the target is woken, or the send fails (its CQ is full, or its ring is gone)
MsgSent(res) ==
  \E o \in u.ker :
    /\ o.op = "msg" /\ (res = "done" => o.arg \in alive)
    /\ Kernel(Post([u EXCEPT !.ker = @ \ {o}, !.asked = IF res = "done" THEN @ \ {o.arg} ELSE @],
                   Cqe(o.tag, res, FALSE, None)))

TargetDies(t) ==
  /\ "msg" \in setup.calls /\ t \in alive
  /\ alive' = alive \ {t}
  /\ u' = [u EXCEPT !.asked = @ \ {t}]
  /\ UNCHANGED setup

SqThread ==
  /\ setup.sqpoll /\ u.sqth = "awake"
  /\ Kernel(IF u.sq # << >> THEN Consume(u, Len(u.sq)) ELSE [u EXCEPT !.sqth = "parked"])

-----------------------------------------------------------------------------

\* init(): the wake poll is staged
UringInit ==
  /\ setup \in Setups
  /\ u = ArmWakePoll(
           [staged |-> << >>, sq |-> << >>, ker |-> {}, cq |-> << >>, armed |-> FALSE, saw |-> FALSE,
            ev |-> FALSE, edge |-> FALSE, watch |-> None, swallow |-> {}, accepts |-> {}, sendv |-> {},
            connects |-> {}, dst |-> {}, ring |-> setup.bufs, slots |-> [i \in 0 .. Slots - 1 |-> None],
            head |-> 0, n |-> 0, th |-> "run", sqth |-> "awake", flag |-> None,
            owed |-> [k \in {"recv", "send", "accept", "connect", "watch"} |-> 0], asked |-> {},
            spurious |-> FALSE, gen |-> 0, calls |-> 0, exc |-> {}])
  /\ alive = Targets

UringCalls ==
  /\ u.th = "run" /\ u.calls < MaxCalls
  /\ \E ok \in BOOLEAN :
       \/ SubmitRecv(ok) \/ SubmitSendv(ok) \/ SubmitAccept(ok) \/ SubmitConnect(ok)
       \/ Attach(ok) \/ Modify(ok) \/ Detach(ok)
       \/ \E t \in OpTags : Cancel(t, ok)
       \/ \E t \in Targets : MsgRingWake(t, ok)

UringNext ==
  \/ UringCalls
  \/ \E early \in BOOLEAN : WaitBegin(early)
  \/ \E sleeps, ok \in BOOLEAN : WaitSubmit(sleeps, ok)
  \/ WaitReturns \/ WaitEnd \/ Leave
  \/ Wake \/ PeerMsg \/ SqThread
  \/ \E more \in BOOLEAN : WakePollFires(more) \/ WatchFires(more) \/ OpDone(more)
  \/ \E res \in {"data", "error"} : RecvDone(res)
  \/ \E res \in {"done", "failed"} : MsgSent(res)
  \/ \E t \in Targets : TargetDies(t)

UringSpec == UringInit /\ [][UringNext]_uringVars

-----------------------------------------------------------------------------
(* Properties *)

\* A loop that sleeps in the kernel with an unread wake is about to be told of it: the CQE is
\* there, or a live poll will post it. wake() is thus never lost between the two drains and
\* the re-arming of the poll, unless an SQE stayed behind in the queue.
WakeReachesSleeper ==
  u.th = "blocked" /\ u.ev =>
    \/ \E k \in DOMAIN u.cq : u.cq[k].tag.kind = "wake"
    \/ u.edge /\ \E o \in u.ker : o.tag.kind = "wake"
    \/ setup.sqpoll /\ u.sqth = "awake" /\ \E e \in Range(u.sq) : e.tag.kind = "wake"
    \/ u.exc \cap {"short_submit", "flag_read_early", "sq_full"} # {}

\* Every accepted submission is answered by exactly one last completion: its SQE, its
\* operation or its CQE is somewhere, once, until it is delivered (submit_*, cancel, drain_cq).
AnsweredOnce ==
  \A t \in OpTags :
    u.owed[t.kind] = Len(SelectSeq(u.sq \o u.staged, LAMBDA e : e.tag = t))
                     + Cardinality({o \in u.ker : o.tag = t})
                     + Len(SelectSeq(u.cq, LAMBDA c : c.tag = t /\ ~c.more))

\* A provided buffer is with the kernel or in one unread CQE, whatever the CQE says: the ring
\* never drains empty, and no buffer is in it twice (provide_buffer).
BuffersConserved ==
  LET held == SelectSeq(u.cq, LAMBDA c : c.buf # None)
  IN Cardinality(u.ring) + Len(held) = Cardinality(setup.bufs)
     /\ u.ring \cup {held[k].buf : k \in DOMAIN held} = setup.bufs

\* A watched fd has its poll, once the kernel has consumed what is queued, and its watcher
\* hears of no cancellation that a modify() caused: a second modify() before the first one's
\* CQE is drained, a failing system call and a poll that the kernel ended are the exceptions.
WatchLives ==
  LET settled == Consume(CommitSqes(u), Len(u.sq) + Len(u.staged))
  IN /\ u.watch # None => \/ \E o \in settled.ker : o.tag = u.watch
                          \/ u.exc \cap {"poll_ended", "half_modified"} # {}
     /\ u.spurious => "modified_twice" \in u.exc

\* A wake that msg_ring_wake accepted reaches its target, by the ring or, when the send
\* fails, by the fallback in its slot, unless the loop was left before that or the slot was
\* taken over from a target that died.
MsgWakeDelivered ==
  \A t \in u.asked :
    \/ /\ u.th # "ended"
       /\ \/ \E e \in Queued(u) \cup u.ker : e.op = "msg" /\ e.arg = t /\ u.slots[e.tag.i] = t
          \/ \E k \in DOMAIN u.cq :
               u.cq[k].tag.kind = "msgdone" /\ u.cq[k].res = "failed" /\ u.slots[u.cq[k].tag.i] = t
    \/ u.exc \cap {"slot_reused", "left_asked"} # {}

\* No wake is lost, of the loop itself or of another one (wake, arm_wake_poll,
\* msg_ring_wake).
UringWakes == WakeReachesSleeper /\ MsgWakeDelivered

\* What was submitted is answered once, buffers come back, and watches stay (submit_*,
\* drain_cq, attach, modify, detach).
UringAnswers == AnsweredOnce /\ BuffersConserved /\ WatchLives
=============================================================================
