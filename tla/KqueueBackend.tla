---------------------------- MODULE KqueueBackend ----------------------------
(***************************************************************************)
(* KqueueBackend of src/backend/kqueue.cpp for one descriptor: an emulated *)
(* proactor over edge-triggered (EV_CLEAR) kevent filters.                 *)
(*                                                                         *)
(* kq is the state, and every function of the backend an operator from     *)
(* states to states:                                                       *)
(*   recv, accept, connect   the armed operation, 0 if none                *)
(*   sendq        the queued sends, each with the bytes it has left        *)
(*   watch        interest: a subset of {"READ", "WRITE"}                  *)
(*   filters      rd_armed and wr_armed, as a set                          *)
(*   ready, pend  ready_; pending_events_                                  *)
(*   room         slots free in out, while wait() runs                     *)
(* and of the kernel                                                       *)
(*   active       filters with an event to report                         *)
(*   inq, eof, full, backlog   bytes received, whether the peer closed,    *)
(*                bytes in the send buffer, connections to accept          *)
(*   link         "new", "trying", "up", "failed"                          *)
(* and histories: ops, the operations submitted, ans, the answers given to *)
(* each of them, last and crossed, the send whose byte went last and       *)
(* whether an earlier one followed, due, the filters whose watcher has yet *)
(* to hear of an event, and exc, what may excuse a property.               *)
(***************************************************************************)
EXTENDS Integers, Sequences, FiniteSets

CONSTANTS KqOps,      \* bound: operations submitted
          KqEvents,   \* bound: what the peer does
          KqBuf,      \* bytes of the send buffer, and of the receive buffer
          KqAccepts,  \* kAcceptsPerWait
          KqSlots     \* largest room in out

VARIABLE kq

kqVars == <<kq>>

KqInit ==
  \E listener \in BOOLEAN :
    kq = [recv |-> 0, accept |-> 0, connect |-> 0, sendq |-> << >>, watch |-> {}, filters |-> {},
          ready |-> << >>, pend |-> << >>, room |-> 0,
          active |-> {}, inq |-> 0, eof |-> FALSE, full |-> 0, backlog |-> 0,
          link |-> IF listener THEN "listen" ELSE "new",
          ops |-> 0, seen |-> 0, ans |-> [i \in 1 .. KqOps |-> << >>], last |-> 0, crossed |-> FALSE,
          due |-> {}, exc |-> {}]

KqExcuse(r, e) == [r EXCEPT !.exc = @ \cup {e}]

-----------------------------------------------------------------------------
(* kevent and the socket (external) *)

\* the filters whose condition holds; a socket that failed has EV_EOF on both
Holds(r) ==
  (IF r.inq > 0 \/ r.eof \/ r.backlog > 0 \/ r.link = "failed" THEN {"READ"} ELSE {})
    \cup (IF r.link = "failed" \/ (r.link = "up" /\ r.full < KqBuf) THEN {"WRITE"} ELSE {})

Event(f, eof) == [f |-> f, eof |-> eof]

\* something happened that concerns filter f
Activate(r, f) ==
  LET now == {f} \cap r.filters \cap Holds(r)
  IN [r EXCEPT !.active = @ \cup now, !.due = @ \cup (now \cap r.watch)]

\* k bytes of send i enter the send buffer
Transmits(r, i, k) ==
  [r EXCEPT !.full = @ + k, !.last = IF k > 0 THEN i ELSE @, !.crossed = @ \/ (k > 0 /\ i < r.last)]

-----------------------------------------------------------------------------
(* Filters and completions *)

Wants(r) ==
  (IF r.recv # 0 \/ r.accept # 0 THEN {"READ"} ELSE {})
    \cup (IF r.sendq # << >> \/ r.connect # 0 THEN {"WRITE"} ELSE {}) \cup r.watch

\* update_filters(): a filter that is added reports what holds already
UpdateFilters(r) ==
  LET w == Wants(r)
      now == (w \ r.filters) \cap Holds(r)
  IN [r EXCEPT !.filters = w, !.active = (@ \cap w) \cup now, !.due = (@ \cup now) \cap r.watch]

\* queue_completion()
QueueCompletion(r, i, res) == [r EXCEPT !.ready = Append(@, [op |-> i, res |-> res])]

Answered(r, i, res) == [r EXCEPT !.room = @ - 1, !.ans[i] = Append(@, res)]

KeepEvent(r, e) == [r EXCEPT !.pend = Append(@, e)]

\* out takes the completion, or only the event is kept: the operation is gone either way
AnswerOrKeep(r, i, res) ==
  IF r.room > 0 THEN Answered(r, i, res) ELSE KqExcuse(KeepEvent(r, Event("WRITE", FALSE)), "out_full")

\* a readiness completion of the watch
ReportOrKeep(r, e) ==
  IF r.room > 0 THEN [r EXCEPT !.room = @ - 1, !.due = @ \ {e.f}] ELSE KeepEvent(r, e)

-----------------------------------------------------------------------------
(* Events *)

\* the accepts of one event: the one that finds out full is closed, and a backlog longer
\* than kAcceptsPerWait waits for the next connection
AcceptLoop(r) ==
  LET k == IF r.backlog < KqAccepts THEN r.backlog ELSE KqAccepts
      b == [r EXCEPT !.room = @ - k, !.backlog = @ - k]
  IN IF k > r.room THEN KeepEvent([r EXCEPT !.room = 0, !.backlog = @ - r.room - 1], Event("READ", FALSE))
     ELSE IF b.backlog > 0 THEN KqExcuse(b, "accept_batch") ELSE b

\* the recv of one event takes all there is; nothing to take leaves it armed
RecvLoop(r) ==
  LET got == IF r.inq < KqBuf THEN r.inq ELSE KqBuf
      res == IF r.link = "failed" THEN "error" ELSE IF got > 0 THEN "data" ELSE "eof"
  IN IF got = 0 /\ ~r.eof /\ r.link # "failed" THEN r
     ELSE IF r.room > 0 THEN UpdateFilters(Answered([r EXCEPT !.recv = 0, !.inq = @ - got], r.recv, res))
     ELSE KeepEvent([r EXCEPT !.inq = @ - got], Event("READ", FALSE))

\* on_readable()
OnReadable(r) ==
  LET a == IF "READ" \in r.watch THEN ReportOrKeep(r, Event("READ", FALSE)) ELSE r
  IN IF a.accept # 0 THEN AcceptLoop(a) ELSE IF a.recv # 0 THEN RecvLoop(a) ELSE a

\* the connect of a write event: SO_ERROR tells how it went
ConnectDone(r) ==
  LET res == CASE r.link = "failed" -> "error" [] r.link = "up" -> "up" [] OTHER -> "early"
  IN IF r.connect = 0 THEN r ELSE AnswerOrKeep(UpdateFilters([r EXCEPT !.connect = 0]), r.connect, res)

\* the queued sends, in their order, until the send buffer is full
RECURSIVE SendLoop(_)
SendLoop(r) ==
  IF r.sendq = << >> THEN r
  ELSE LET q == Head(r.sendq)
           popped == UpdateFilters([r EXCEPT !.sendq = Tail(@)])
           k == IF q.left < KqBuf - r.full THEN q.left ELSE KqBuf - r.full
           a == Transmits(r, q.op, k)
       IN IF r.link # "up" THEN SendLoop(AnswerOrKeep(popped, q.op, "error"))
          ELSE IF k = q.left THEN SendLoop(AnswerOrKeep(Transmits(popped, q.op, k), q.op, "sent"))
          ELSE [a EXCEPT !.sendq[1].left = @ - k]

\* on_writable()
OnWritable(r) ==
  LET a == SendLoop(ConnectDone(r))
  IN IF "WRITE" \in a.watch THEN ReportOrKeep(a, Event("WRITE", FALSE)) ELSE a

\* on_errorish(): a recv that is armed is answered unless the drain will do it
OnErrorish(r, e) ==
  IF r.recv # 0
  THEN IF e.f = "READ" THEN r
       ELSE IF r.room > 0 THEN UpdateFilters(Answered([r EXCEPT !.recv = 0], r.recv, "error"))
       ELSE KeepEvent(r, e)
  ELSE IF r.watch # {} THEN ReportOrKeep(r, e) ELSE r

\* dispatch_event()
DispatchEvent(r, e) ==
  LET a == IF e.eof THEN OnErrorish(r, e) ELSE r
  IN IF e.f = "READ" THEN OnReadable(a) ELSE OnWritable(a)

-----------------------------------------------------------------------------
(* wait() *)

\* what is queued goes first
RECURSIVE TakeReady(_)
TakeReady(r) ==
  IF r.room = 0 \/ r.ready = << >> THEN r
  ELSE TakeReady(Answered([r EXCEPT !.ready = Tail(@)], Head(r.ready).op, Head(r.ready).res))

\* then the events a full wait() left over
RECURSIVE TakePending(_)
TakePending(r) ==
  IF r.room = 0 \/ r.pend = << >> THEN r
  ELSE TakePending(DispatchEvent([r EXCEPT !.pend = Tail(@)], Head(r.pend)))

\* what the code would be if an event that finds out full were dropped
TakeEventOrDrop(r, f) ==
  IF f \notin r.active THEN r
  ELSE LET e == Event(f, r.link = "failed" \/ (f = "READ" /\ r.eof))
           a == [r EXCEPT !.active = @ \ {f}]
       IN IF a.room > 0 THEN DispatchEvent(a, e) ELSE a

\* then the kernel's, each cleared as it is reported
TakeEvent(r, f) ==
  IF f \notin r.active THEN r
  ELSE LET e == Event(f, r.link = "failed" \/ (f = "READ" /\ r.eof))
           a == [r EXCEPT !.active = @ \ {f}]
       IN IF a.room > 0 THEN DispatchEvent(a, e) ELSE KeepEvent(a, e)

\* wait() with the room that other descriptors leave, and the events in either order; the
\* events of one kevent() call are those there were when it was made
KqWait(slots, first) ==
  LET a == TakePending(TakeReady([kq EXCEPT !.room = slots]))
      second == CHOOSE f \in {"READ", "WRITE"} : f # first
      both == a.active
      b == TakeEvent(a, first)
      c == IF second \in both THEN TakeEvent([b EXCEPT !.active = @ \cup {second}], second) ELSE b
  IN /\ kq.ready # << >> \/ kq.pend # << >> \/ kq.active # {}
     /\ kq' = [IF a.room = 0 /\ slots > 0 THEN a ELSE c EXCEPT !.room = 0]

-----------------------------------------------------------------------------
(* Submissions *)

NewOp == kq.ops + 1

Submitting(r) == [r EXCEPT !.ops = @ + 1]

\* a descriptor is watched or has operations, as the event manager uses it
MaySubmit == kq.ops < KqOps /\ kq.watch = {}

KqSubmitRecv ==
  /\ MaySubmit /\ kq.recv = 0 /\ kq.link \in {"up", "failed"}
  /\ kq' = UpdateFilters([Submitting(kq) EXCEPT !.recv = NewOp])

\* submit_sendv(): behind those that wait, or at once; what does not fit waits
KqSubmitSendv(n) ==
  /\ MaySubmit /\ kq.link \in {"up", "failed"}
  /\ LET r == Submitting(kq)
         k == IF n < KqBuf - r.full THEN n ELSE KqBuf - r.full
         queued(a, left) == UpdateFilters([a EXCEPT !.sendq = Append(@, [op |-> NewOp, left |-> left])])
     IN kq' = IF r.sendq # << >> THEN queued(r, n)
              ELSE IF r.link = "failed" THEN QueueCompletion(r, NewOp, "error")
              ELSE IF k = n THEN QueueCompletion(Transmits(r, NewOp, n), NewOp, "sent")
              ELSE queued(Transmits(r, NewOp, k), n - k)

KqSubmitAccept ==
  /\ MaySubmit /\ kq.link = "listen" /\ kq.accept = 0
  /\ kq' = UpdateFilters([Submitting(kq) EXCEPT !.accept = NewOp])

KqSubmitConnect(how) ==
  /\ MaySubmit /\ kq.link = "new"
  /\ LET r == [Submitting(kq) EXCEPT !.link = how]
     IN kq' = IF how = "trying" THEN UpdateFilters([r EXCEPT !.connect = NewOp])
              ELSE QueueCompletion(r, NewOp, IF how = "up" THEN "up" ELSE "error")

\* cancel(): whatever has the tag
KqCancel(i) ==
  /\ i \in {kq.recv, kq.accept, kq.connect} \cup {kq.sendq[j].op : j \in 1 .. Len(kq.sendq)} /\ i # 0
  /\ LET gone(x) == IF x = i THEN 0 ELSE x
     IN kq' = UpdateFilters(
                [QueueCompletion(kq, i, "cancelled") EXCEPT
                   !.recv = gone(@), !.accept = gone(@), !.connect = gone(@),
                   !.sendq = SelectSeq(@, LAMBDA q : q.op # i)])

\* attach() and modify()
KqWatch(interest) ==
  /\ kq.link \in {"up", "failed"} /\ kq.watch # interest /\ kq.ops < KqOps
  /\ kq.recv = 0 /\ kq.sendq = << >>
  /\ kq' = UpdateFilters([Submitting(kq) EXCEPT !.watch = interest, !.ans[NewOp] = <<"none">>])

\* an operation is armed, queued or about to be answered
KqLive(i) ==
  \/ i \in {kq.recv, kq.accept, kq.connect}
  \/ \E j \in 1 .. Len(kq.sendq) : kq.sendq[j].op = i
  \/ \E j \in 1 .. Len(kq.ready) : kq.ready[j].op = i

\* detach(), and close() of the descriptor, whose number the next socket has; what was kept
\* of its events stays
KqDetach ==
  /\ kq.ops < KqOps /\ kq.link \in {"up", "failed"}
  /\ LET given(i) == \E j \in 1 .. Len(kq.ready) : kq.ready[j].op = i
         r == [Submitting(kq) EXCEPT
                 !.recv = 0, !.connect = 0, !.sendq = << >>, !.watch = {}, !.filters = {},
                 !.active = {}, !.due = {}, !.inq = 0, !.eof = FALSE, !.full = 0, !.link = "new",
                 !.ans = [i \in DOMAIN @ |-> IF i = NewOp \/ (KqLive(i) /\ ~given(i)) THEN <<"closed">> ELSE @[i]]]
     IN kq' = IF r.pend # << >> THEN KqExcuse(r, "stale_event") ELSE r

-----------------------------------------------------------------------------
(* The peer (external) *)

PeerStep(r, f) ==
  /\ kq.seen < KqEvents
  /\ kq' = Activate([r EXCEPT !.seen = @ + 1], f)

PeerSends == kq.link = "up" /\ ~kq.eof /\ PeerStep([kq EXCEPT !.inq = @ + 1], "READ")

PeerCloses == kq.link = "up" /\ ~kq.eof /\ PeerStep([kq EXCEPT !.eof = TRUE], "READ")

PeerReads == kq.full > 0 /\ PeerStep([kq EXCEPT !.full = 0], "WRITE")

PeerConnects == kq.link = "listen" /\ PeerStep([kq EXCEPT !.backlog = @ + 1], "READ")

\* a reset is seen by both filters
PeerResets ==
  /\ kq.link = "up" /\ kq.seen < KqEvents
  /\ kq' = Activate(Activate([kq EXCEPT !.link = "failed", !.inq = 0, !.seen = @ + 1], "READ"), "WRITE")

\* a connect under way comes to its end, seen or not counted
LinkEnds(how) ==
  /\ kq.link = "trying"
  /\ kq' = Activate([kq EXCEPT !.link = how], "WRITE")

KqNext ==
  \/ \E slots \in 0 .. KqSlots, f \in {"READ", "WRITE"} : KqWait(slots, f)
  \/ KqSubmitRecv \/ KqSubmitAccept \/ KqDetach
  \/ \E n \in 1 .. KqBuf : KqSubmitSendv(n)
  \/ \E how \in {"trying", "up", "failed"} : KqSubmitConnect(how)
  \/ \E i \in 1 .. KqOps : KqCancel(i)
  \/ \E w \in SUBSET {"READ", "WRITE"} : KqWatch(w)
  \/ PeerSends \/ PeerCloses \/ PeerReads \/ PeerConnects \/ PeerResets
  \/ \E how \in {"up", "failed"} : LinkEnds(how)

KqSpec == KqInit /\ [][KqNext]_kqVars

-----------------------------------------------------------------------------
(* Properties *)

KqKept(f) == f \in kq.active \/ \E i \in 1 .. Len(kq.pend) : kq.pend[i].f = f

\* An operation that can go on has its event: an armed recv with bytes, the end of the
\* stream or an error to report, a queued send with room in the send buffer, an accept with
\* a connection waiting and a connect that came to its end are each in the kernel's events
\* or among those kept, and so is what a watcher has yet to hear of: edge-triggered filters
\* strand nobody, but for a backlog longer than one event accepts (update_filters,
\* on_readable, on_writable, wait).
KqEdgeKept ==
  /\ kq.recv # 0 /\ (kq.inq > 0 \/ kq.eof \/ kq.link = "failed") => KqKept("READ")
  /\ kq.sendq # << >> /\ (kq.link = "failed" \/ (kq.link = "up" /\ kq.full < KqBuf)) => KqKept("WRITE")
  /\ kq.accept # 0 /\ kq.backlog > 0 => KqKept("READ") \/ "accept_batch" \in kq.exc
  /\ kq.connect # 0 /\ kq.link \in {"up", "failed"} => KqKept("WRITE")
  /\ \A f \in kq.due : KqKept(f)

\* An operation is answered once, and not while it is still armed or queued; it may go
\* without an answer only if out was full when it ended.  The bytes of sends go in the
\* order of their submission, and a connect is answered with success only by a socket that
\* is connected, unless an event of the descriptor's former socket answered it
\* (submit_sendv, cancel, on_readable, on_writable, on_errorish).
KqAnswers ==
  /\ \A i \in 1 .. kq.ops :
       /\ Len(kq.ans[i]) <= 1
       /\ kq.ans[i] = << >> => KqLive(i) \/ "out_full" \in kq.exc
       /\ KqLive(i) => kq.ans[i] = << >>
       /\ kq.ans[i] = <<"early">> => "stale_event" \in kq.exc
  /\ ~kq.crossed

\* No edge is lost, and every operation is answered once (submit_*, cancel, wait).
KqSound == KqEdgeKept /\ KqAnswers
=============================================================================
