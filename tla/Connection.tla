----------------------------- MODULE Connection -----------------------------
(***************************************************************************)
(* Connection<P, EM> of include/afx/net/connection.hpp over the epoll      *)
(* backend, with the awaiters of include/afx/coro/conn.hpp, the stages of  *)
(* the loop that drive it, and its peer.                                   *)
(*                                                                         *)
(* c is the connection: the record EpollBackend works on, extended by      *)
(*   cfg                    Params and coro_.on; client: made by connect   *)
(*   state, why             state_, and the CloseReason of the close       *)
(*   wbuf, inflight         write_buf_, write_inflight_                    *)
(*   back, paused           backpressured_, read_paused_                   *)
(*   wpend, idle            the sink is in the write set; idle_timer_ runs *)
(*   rbuf                   read_buf_: bytes that are not a message yet    *)
(*   carmed, held           coro_.armed, coro_.held                        *)
(*   sess, sbytes           the session: "run", parked in "recv" or in     *)
(*                          "send" (of sbytes), "away" or "done"           *)
(*   notify                 the owner's notification: "deferred", "done"   *)
(*   acc, drops, got, sent  history: bytes given to send(), those that it  *)
(*                          refused or evicted, those handed to the user,  *)
(*                          and those the peer sent                        *)
(* Outgoing bytes are numbered in the order of the calls of send();        *)
(* incoming ones in the order the peer sends them.  FrameLen bytes are a   *)
(* frame; a frame that ends in a byte of the set bad does not parse.       *)
(***************************************************************************)
EXTENDS EpollBackend, FiniteSets

CONSTANTS High, Low,   \* the watermarks
          FrameLen,    \* bytes of a frame
          BatchCap,    \* batch_.capacity()
          HeldCap,     \* kCoroHeldCap
          Configs,     \* the configurations to consider, each with the bounds
                       \* out and in: bytes given to send(), and sent by the peer
          MaxSend,     \* bound: bytes of one send()
          MaxKept      \* bound: events kept when one more may be

ASSUME ConnectionAssumption ==
  /\ {High, FrameLen, BatchCap, MaxIo, SndCap, RecvMax} \subseteq Nat \ {0}
  /\ Low \in Nat /\ Low < High

VARIABLES c,    \* the connection
          at,   \* where the loop's thread is
          bad   \* the incoming bytes that end a malformed frame

vars == <<c, at, bad>>

\* the callbacks of the user, and the code that runs from timers and the mailbox
InUser == at \in {"open", "batch", "last", "writable", "tasks"}

Live(r) == r.state \in {"Established", "ShutdownWrite"}

-----------------------------------------------------------------------------
(* Reading *)

ArmRecv(r) == IF r.paused \/ r.state # "Established" THEN r ELSE SubmitRecv(r)

ArmDrainRecv(r) == IF r.state = "Closed" THEN r ELSE SubmitRecv(r)

\* coro_.armed is set even when arm_recv() returns early: paused, or half-closed
CoroArm(r) ==
  IF r.carmed THEN r
  ELSE LET t == ArmRecv([r EXCEPT !.carmed = TRUE])
       IN  CASE r.paused -> Excuse(t, "coro_armed_paused")
             [] ~r.paused /\ r.state = "ShutdownWrite" -> Excuse(t, "session_half_closed")
             [] OTHER -> t

RearmRecv(r) == IF r.cfg.coro THEN CoroArm(r) ELSE ArmRecv(r)

PauseReads(r) == CancelRecv([r EXCEPT !.paused = TRUE])

ArmIdleTimer(r) == [r EXCEPT !.idle = r.cfg.idle]

-----------------------------------------------------------------------------
(* Closing *)

\* A waiter of the session is resumed with Closed; what it does then reaches no
\* connection any more.
Teardown(r, why) ==
  [Detach(r) EXCEPT !.state = "Closed", !.why = why, !.idle = FALSE, !.wpend = FALSE,
     !.sess = IF @ \in {"recv", "send"} THEN "done" ELSE @, !.sbytes = << >>,
     !.notify = "deferred"]

Close(r, why) == IF r.state = "Closed" THEN r ELSE Teardown(r, why)

-----------------------------------------------------------------------------
(* Writing *)

Enqueue(r, b) == [r EXCEPT !.wbuf = @ \o b, !.wpend = TRUE]

CheckWriteWatermark(r) ==
  IF r.back \/ Len(r.wbuf) < High THEN r
  ELSE LET t == [r EXCEPT !.back = TRUE]
       IN  IF r.cfg.pause THEN PauseReads(t) ELSE t

\* DropOldest evicts the front of the buffer although it may be in flight
Evict(r, n) ==
  LET t == [r EXCEPT !.wbuf = Dropped(@, n),
                     !.drops = @ \cup {r.wbuf[i] : i \in 1..(IF n < Len(r.wbuf)
                                                             THEN n ELSE Len(r.wbuf))}]
  IN  IF r.inflight > 0 THEN Excuse(t, "evict_in_flight") ELSE t

Refuse(r, b) == [r EXCEPT !.drops = @ \cup {b[i] : i \in DOMAIN b}]

\* StopReading pauses the reads but leaves backpressured_ as it was
ApplyOverflow(r, b) ==
  CASE r.cfg.policy = "Disconnect" -> Close(Refuse(r, b), "WriteOverflow")
    [] r.cfg.policy = "DropNewest" -> Refuse(r, b)
    [] r.cfg.policy = "DropOldest" -> Enqueue(Evict(r, Len(b)), b)
    [] r.cfg.policy = "StopReading" ->
         LET t == Enqueue(PauseReads(r), b)
         IN  IF r.back THEN t ELSE Excuse(t, "stop_reading")

Overflows(r, b) == Len(r.wbuf) + Len(b) > High

SendBytes(r, b) ==
  CASE r.state # "Established" -> Refuse(r, b)
    [] r.state = "Established" /\ Overflows(r, b) -> ApplyOverflow(r, b)
    [] OTHER -> CheckWriteWatermark(Enqueue(r, b))

\* the SendResult that makes SendOp suspend
Backpressured(r, b) ==
  r.state = "Established" /\ Overflows(r, b) /\ r.cfg.policy = "StopReading"

FreshBytes(r, n) == [i \in 1..n |-> r.acc + i]

Send(r, n) == SendBytes([r EXCEPT !.acc = @ + n], FreshBytes(r, n))

\* Sent past the buffer when nothing is queued; the kernel takes k bytes, and the rest
\* is sent as usual.
SendFds(r, n, k) ==
  SendBytes(Transmit([r EXCEPT !.acc = @ + n], FreshBytes(r, n), k),
            Dropped(FreshBytes(r, n), k))

\* ::shutdown(fd, SHUT_WR) once nothing is left to write
Fin(r) == [r EXCEPT !.finout = TRUE]

ShutdownWrite(r) ==
  IF r.state # "Established" THEN r
  ELSE LET t == ArmIdleTimer(Excuse([r EXCEPT !.state = "ShutdownWrite"], "half_closed"))
       IN  IF r.inflight = 0 /\ r.wbuf = << >> THEN Fin(t) ELSE t

FlushWrite(r) ==
  IF r.inflight > 0 \/ r.wbuf = << >> \/ ~Live(r) THEN r
  ELSE SubmitSend([r EXCEPT !.inflight = Len(r.wbuf)], r.wbuf)

-----------------------------------------------------------------------------
(* Completions *)

\* what the code would be if a completion retired the whole buffer
SentWhole(r, n) ==
  LET a == [r EXCEPT !.inflight = 0, !.wbuf = << >>]
  IN  IF r.state = "ShutdownWrite" THEN Fin(a) ELSE a

\* on_sent() up to the user's on_writable or the session's retry
Sent(r, n) ==
  LET a == [r EXCEPT !.inflight = 0, !.wbuf = Dropped(@, n)]
  IN  IF r.state = "ShutdownWrite" /\ a.wbuf = << >> THEN Fin(a) ELSE a

\* what the code would be if the bytes queued during a write were left to the next send
EndSentIdle(r) == r

EndSent(r) == [r EXCEPT !.wpend = @ \/ (r.wbuf # << >> /\ r.state # "Closed")]

Drained(r) == r.back /\ Len(r.wbuf) <= Low

\* what the code would be if the end of a pause did not read again
ResumeUnread(r) == [r EXCEPT !.back = FALSE, !.paused = FALSE]

Resume(r) ==
  LET a == [r EXCEPT !.back = FALSE, !.paused = FALSE]
  IN  IF r.paused THEN RearmRecv(a) ELSE a

\* what the code would be if a session were resumed by an empty buffer only
CoroWritableEmpty(r) ==
  IF r.sess # "send" \/ r.wbuf # << >> THEN r
  ELSE LET t == Excuse(SendBytes(r, r.sbytes), "send_retried")
       IN  IF Backpressured(r, r.sbytes) THEN t
           ELSE [t EXCEPT !.sess = "run", !.sbytes = << >>]

\* The parked send is retried, from the start, with the bytes that StopReading has
\* queued already.
CoroWritable(r) ==
  IF r.sess # "send" THEN r
  ELSE LET t == Excuse(SendBytes(r, r.sbytes), "send_retried")
       IN  IF Backpressured(r, r.sbytes) THEN t
           ELSE [t EXCEPT !.sess = "run", !.sbytes = << >>]

\* Data that arrives on a half-closed connection is dropped and the read armed again.
\* A session's connection discards even the FIN, and stops looking.
HalfClosedRecv(r, res) ==
  CASE r.cfg.coro -> Excuse(r, "session_half_closed")
    [] ~r.cfg.coro /\ res = 0 -> Close(r, "PeerFin")
    [] ~r.cfg.coro /\ res < 0 /\ res # 0 - ECANCELED -> Close(r, "Error")
    [] OTHER -> ArmDrainRecv(ArmIdleTimer(r))

Handed(r, msgs) == [r EXCEPT !.got = @ \o msgs]

\* a batch goes to the parked session, or is held for it, or to on_messages
DispatchBatch(r, msgs) ==
  CASE ~r.cfg.coro -> Handed(r, msgs)
    [] r.cfg.coro /\ r.sess = "recv" -> [Handed(r, msgs) EXCEPT !.sess = "run"]
    [] r.cfg.coro /\ r.sess # "recv" /\ Len(r.held) + Len(msgs) <= HeldCap * FrameLen ->
         [r EXCEPT !.held = @ \o msgs]
    [] OTHER -> Close(r, "HeldOverflow")

\* the complete and well-formed frames at the front of the read buffer
GoodFrames(r) ==
  LET whole == Len(r.rbuf) \div FrameLen
      isbad(i) == r.rbuf[i * FrameLen] \in bad
  IN  CHOOSE n \in 0..whole : (\A i \in 1..n : ~isbad(i)) /\ (n = whole \/ isbad(n + 1))

\* The end of on_recv().  A session that still waits, because no frame is complete, is
\* left without a read.
EndRecv(r) ==
  CASE r.cfg.coro -> IF r.sess = "recv" /\ ~r.carmed THEN Excuse(r, "partial_frame") ELSE r
    [] ~r.cfg.coro /\ r.state = "ShutdownWrite" -> ArmDrainRecv(r)
    [] OTHER -> ArmRecv(r)

\* the read loop of on_recv() up to the next call of the user
Parse(r) ==
  LET n == GoodFrames(r)
      k == IF n < BatchCap THEN n ELSE BatchCap
      msgs == SubSeq(r.rbuf, 1, k * FrameLen)
      t == [r EXCEPT !.rbuf = Dropped(@, k * FrameLen)]
  IN  CASE n >= BatchCap -> c' = DispatchBatch(t, msgs) /\ at' = "batch"
        [] n < BatchCap /\ Len(r.rbuf) >= (n + 1) * FrameLen ->
             c' = Close(r, "FrameError") /\ at' = "dispatch"
        [] n < BatchCap /\ Len(r.rbuf) < (n + 1) * FrameLen /\ n > 0 ->
             c' = DispatchBatch(t, msgs) /\ at' = "last"
        [] OTHER -> c' = EndRecv(t) /\ at' = "dispatch"

-----------------------------------------------------------------------------
(* The loop *)

\* stage 3: wait() and one completion after another; a wait() that leaves this descriptor no room
\* at all changes nothing of it
Wait ==
  /\ at = "wait" /\ at' = "dispatch"
  /\ \E slots \in 1..MaxIo, full \in BOOLEAN :
       /\ full => Len(c.pend) < MaxKept
       /\ c' = [WaitFor(c, slots, full) EXCEPT !.slots = 0]
  /\ UNCHANGED bad

Popped == [c EXCEPT !.out = Tail(@)]

Next1(op) == at = "dispatch" /\ c.out # << >> /\ Head(c.out).op = op /\ UNCHANGED bad

\* the sink of a closed connection is released: its completions go nowhere
OnStale ==
  /\ at = "dispatch" /\ c.out # << >> /\ c.state = "Closed"
  /\ c' = Popped /\ UNCHANGED <<at, bad>>

\* start(): Established, and on_open
OnConnect ==
  /\ Next1("Connect") /\ c.state = "Connecting"
  /\ IF Head(c.out).res < 0
       THEN c' = Close(Popped, "ConnectFailed") /\ at' = at
       ELSE c' = [Popped EXCEPT !.state = "Established"] /\ at' = "open"

OnSent ==
  /\ Next1("Send") /\ c.state # "Closed"
  /\ LET res == Head(c.out).res
         a == Sent(Popped, res)
         b == IF c.cfg.coro THEN CoroWritable(Resume(a)) ELSE Resume(a)
         calls == IF c.cfg.coro THEN b.sess = "run" ELSE c.state = "Established"
     IN  CASE res < 0 -> c' = Close([Popped EXCEPT !.inflight = 0], "Error") /\ at' = at
           [] res >= 0 /\ ~Drained(a) -> c' = EndSent(a) /\ at' = at
           [] res >= 0 /\ Drained(a) /\ calls -> c' = b /\ at' = "writable"
           [] OTHER -> c' = EndSent(b) /\ at' = at

OnRecv ==
  /\ Next1("Recv") /\ c.state # "Closed"
  /\ LET x == Head(c.out)
         r == IF c.cfg.coro THEN [Popped EXCEPT !.carmed = FALSE] ELSE Popped
     IN  CASE r.state = "ShutdownWrite" -> c' = HalfClosedRecv(r, x.res) /\ at' = at
           [] r.state = "Established" /\ x.res = 0 - ECANCELED ->
                c' = RearmRecv(r) /\ at' = at
           [] r.state = "Established" /\ x.res < 0 /\ x.res # 0 - ECANCELED ->
                c' = Close(r, "Error") /\ at' = at
           [] r.state = "Established" /\ x.res = 0 -> c' = Close(r, "PeerFin") /\ at' = at
           [] OTHER -> Parse(ArmIdleTimer([r EXCEPT !.rbuf = @ \o x.data]))

\* the user's callback, or the session resumed by it, returns to the connection
Return ==
  /\ c.sess # "run"
  /\ \/ /\ at = "open"
        /\ c' = RearmRecv(ArmIdleTimer(c)) /\ at' = "dispatch"
     \/ /\ at = "batch" /\ c.state = "Established"
        /\ Parse(c)
     \/ /\ at = "batch" /\ c.state # "Established"
        /\ c' = c /\ at' = "dispatch"
     \/ /\ at = "last"
        /\ c' = EndRecv(c) /\ at' = "dispatch"
     \/ /\ at = "writable"
        /\ c' = EndSent(c) /\ at' = "dispatch"
  /\ UNCHANGED bad

\* the other stages: timers, the mailbox, deferred work
EndDispatch ==
  /\ at = "dispatch" /\ c.out = << >>
  /\ at' = "tasks" /\ UNCHANGED <<c, bad>>

IdleTimeout ==
  /\ at = "tasks" /\ c.idle
  /\ c' = Close(c, "IdleTimeout") /\ UNCHANGED <<at, bad>>

\* the deferred notification of the owner
Notify ==
  /\ at = "tasks" /\ c.sess # "run" /\ c.notify = "deferred"
  /\ c' = [c EXCEPT !.notify = "done"] /\ UNCHANGED <<at, bad>>

\* stage 6: the write set
Flush ==
  /\ at = "tasks" /\ c.sess # "run" /\ c.notify # "deferred"
  /\ c' = (IF c.wpend THEN FlushWrite([c EXCEPT !.wpend = FALSE]) ELSE c)
  /\ at' = "wait" /\ UNCHANGED bad

Loop == Wait \/ OnStale \/ OnConnect \/ OnSent \/ OnRecv \/ Return \/ EndDispatch
          \/ IdleTimeout \/ Notify \/ Flush

-----------------------------------------------------------------------------
(* The user: callbacks, timers, and tasks posted through a Handle *)

User ==
  /\ InUser /\ c.state \notin {"Connecting", "Closed"}
  /\ c.cfg.coro => c.sess = "run" \/ at \in {"open", "tasks"}
  /\ UNCHANGED <<at, bad>>

UserSend ==
  /\ User /\ c.sess # "run"
  /\ \E n \in 1..MaxSend : c.acc + n <= c.cfg.out /\ c' = Send(c, n)

UserSendFds ==
  /\ User /\ c.state = "Established" /\ c.inflight = 0 /\ c.wbuf = << >> /\ ~c.rst
  /\ \E n \in 1..MaxSend :
       /\ c.acc + n <= c.cfg.out /\ Room(c) > 0
       /\ c' = SendFds(c, n, IF n <= Room(c) THEN n ELSE Room(c))

\* why a half-closed connection may be left without a read
HalfClose(r) ==
  LET t == ShutdownWrite(r)
  IN  IF at \in {"open", "batch"} THEN Excuse(t, "half_closed_early")
      ELSE IF r.paused THEN Excuse(t, "half_closed_paused") ELSE t

UserShutdown == User /\ c.state = "Established" /\ c' = HalfClose(c)

UserClose == User /\ c' = Close(c, "LocalClose")

-----------------------------------------------------------------------------
(* The session of a connection in coroutine mode *)

Session == InUser /\ c.sess = "run" /\ UNCHANGED <<at, bad>>

\* co_await recv(): what is held, or park and arm the read
SessRecv ==
  /\ Session /\ c.state # "Closed"
  /\ c' = IF c.held # << >> THEN [Handed(c, c.held) EXCEPT !.held = << >>]
          ELSE CoroArm([c EXCEPT !.sess = "recv"])

\* co_await send(): queue, and park on Backpressured
SessSend ==
  /\ Session /\ c.state # "Closed"
  /\ \E n \in 1..MaxSend :
       /\ c.acc + n <= c.cfg.out
       /\ c' = IF Backpressured(c, FreshBytes(c, n))
                 THEN [Send(c, n) EXCEPT !.sess = "send", !.sbytes = FreshBytes(c, n)]
                 ELSE Send(c, n)

\* the session awaits something else; or it ends
SessLeave ==
  /\ Session
  /\ \E to \in {"away", "done"} : c' = [c EXCEPT !.sess = to]

\* it comes back, or its wait is cancelled
SessResume ==
  /\ at = "tasks" /\ c.sess \in {"away", "recv", "send"}
  /\ c' = [c EXCEPT !.sess = "run", !.sbytes = << >>]
  /\ UNCHANGED <<at, bad>>

Users == UserSend \/ UserSendFds \/ UserShutdown \/ UserClose
           \/ SessRecv \/ SessSend \/ SessLeave \/ SessResume

-----------------------------------------------------------------------------
(* The peer and the kernel: every change may put the descriptor on the ready list *)

Edge(r, evs) == [r EXCEPT !.ep = @ \/ (r.reg /\ evs \cap Interest(r) # {})]

Outside == c.state # "Closed" /\ UNCHANGED at

PeerAccepts ==
  /\ Outside /\ c.conn = "connecting" /\ ~c.rst
  /\ c' = Edge([c EXCEPT !.conn = "up"], {"OUT"}) /\ UNCHANGED bad

PeerSends ==
  /\ Outside /\ c.conn = "up" /\ ~c.fin /\ ~c.rst /\ c.sent < c.cfg.in
  /\ c' = Edge([c EXCEPT !.inq = Append(@, c.sent + 1), !.sent = @ + 1], {"IN"})
  /\ bad' = bad \/ (bad = {} /\ bad' = {c.sent + 1})

PeerReads ==
  /\ Outside /\ c.unread > 0
  /\ c' = Edge([c EXCEPT !.unread = 0], {"OUT"}) /\ UNCHANGED bad

PeerFin ==
  /\ Outside /\ c.conn = "up" /\ ~c.fin /\ ~c.rst
  /\ c' = Edge([c EXCEPT !.fin = TRUE], {"IN", "RDHUP"}) /\ UNCHANGED bad

PeerResets ==
  /\ Outside /\ ~c.rst
  /\ c' = Edge([c EXCEPT !.rst = TRUE, !.inq = << >>], {"IN", "OUT", "ERR"})
  /\ UNCHANGED bad

Peer == PeerAccepts \/ PeerSends \/ PeerReads \/ PeerFin \/ PeerResets

-----------------------------------------------------------------------------

\* an accepted connection is started at once; a client's waits for its connect
New(cfg) ==
  [cfg |-> cfg, state |-> IF cfg.client THEN "Connecting" ELSE "Established",
   why |-> "none", wbuf |-> << >>, inflight |-> 0, back |-> FALSE, paused |-> FALSE,
   wpend |-> FALSE, idle |-> FALSE, rbuf |-> << >>, carmed |-> FALSE, held |-> << >>,
   sess |-> IF cfg.coro THEN "run" ELSE "done", sbytes |-> << >>, notify |-> "none",
   acc |-> 0, drops |-> {}, got |-> << >>, sent |-> 0, finout |-> FALSE,
   reg |-> FALSE, refusals |-> cfg.refusals, armed |-> FALSE, connp |-> FALSE, sendq |-> << >>, ready |-> << >>,
   pend |-> << >>, out |-> << >>, slots |-> 0, ep |-> FALSE, wire |-> << >>, unread |-> 0,
   inq |-> << >>, fin |-> FALSE, rst |-> FALSE,
   conn |-> IF cfg.client THEN "connecting" ELSE "up", exc |-> {}]

Init ==
  /\ \E cfg \in Configs :
       /\ c = IF cfg.client THEN SubmitConnect(New(cfg)) ELSE New(cfg)
       /\ at = IF cfg.client THEN "tasks" ELSE "open"
  /\ bad = {}

Next == Loop \/ Users \/ Peer

Spec == Init /\ [][Next]_vars

-----------------------------------------------------------------------------
(* Properties *)

Pending(r, op) == \E i \in DOMAIN r.ready : r.ready[i].op = op

Expected(r) == SelectSeq([i \in 1..r.acc |-> i], LAMBDA b : b \notin r.drops)

OnWire(r) == {r.wire[i] : i \in DOMAIN r.wire}

\* The peer receives the bytes of the calls of send() that were accepted, each once
\* and in order, and what it has not received yet is in the write buffer.  Not so after
\* a short write (the completion of the queued tail retires only the tail, and the
\* front is sent again), after DropOldest has evicted bytes in flight, and after a
\* retried send of a session.
WriteExact ==
  c.exc \cap {"short_write", "evict_in_flight", "send_retried"} = {} =>
    c.wire \o SelectSeq(c.wbuf, LAMBDA b : b \notin OnWire(c)) = Expected(c)

\* While the loop waits, queued bytes are being written: a write is in flight, the
\* backend knows of it, and if the socket can take more, epoll will say so or has done.  Not
\* so after a completion found no room in out, or epoll refused the descriptor.
WriteProgress ==
  at = "wait" /\ Live(c) /\ c.exc \cap {"no_room", "unregistered"} = {} =>
    /\ c.wbuf # << >> => c.inflight > 0
    /\ c.inflight > 0 => c.sendq # << >> \/ Pending(c, "Send")
    /\ c.sendq # << >> /\ "OUT" \in Events(c) => c.ep \/ \E i \in DOMAIN c.pend : "OUT" \in c.pend[i]

\* The FIN of a half-closed connection follows the last accepted byte.
FinAfterData ==
  c.finout /\ c.exc \cap {"short_write", "evict_in_flight", "send_retried"} = {} =>
    c.wire = Expected(c)

InFlightIn(r) ==
  LET data(q) == FlattenSeq([i \in DOMAIN q |-> q[i].data])
  IN  data(r.out) \o data(r.ready)

\* Messages reach the user in the order sent, none twice and none lost, while the
\* connection is up; and a connection that is closed by the peer's FIN has delivered
\* them all.  Not so when epoll reports the hang-up with data still unread, and for
\* batches a session has not picked up.
ReadExact ==
  LET all == [i \in 1..c.sent |-> i]
  IN  /\ c.state = "Established" /\ ~c.rst =>
           c.got \o c.held \o c.rbuf \o InFlightIn(c) \o c.inq = all
      /\ c.why = "PeerFin" /\ c.exc \cap {"hup_first", "half_closed"} = {} =>
           c.got \o c.held \o c.rbuf = all

\* While the loop waits, an established connection that wants to read is reading, and
\* hears of what arrives.  A pause ends: it lasts only while the write side is
\* backpressured.  Not so under StopReading, for a session that awaited while paused
\* or received part of a frame, and when epoll refused the descriptor.
ReadArmed ==
  at = "wait" /\ c.state = "Established" =>
    /\ ~c.paused /\ (c.cfg.coro => c.sess = "recv")
         /\ c.exc \cap {"coro_armed_paused", "partial_frame"} = {} =>
         c.armed \/ Pending(c, "Recv")
    /\ c.paused /\ "stop_reading" \notin c.exc => c.back /\ Len(c.wbuf) > Low
    /\ c.armed /\ {"IN", "RDHUP"} \cap Events(c) # {} /\ "unregistered" \notin c.exc =>
         c.ep \/ c.pend # << >>

\* A half-closed connection keeps a read for the peer's FIN, or a timer that closes it; one
\* with a session, while the session awaits recv().  Not so when it was half-closed in
\* on_open, in the middle of a read, or paused; nor, with a session, once the read that was
\* under way has ended, whose result is discarded, or when recv() is awaited after the
\* half-close, which reads nothing.
HalfCloseSeesFin ==
  at = "wait" /\ c.state = "ShutdownWrite" /\ (c.cfg.coro => c.sess = "recv")
    /\ c.exc \cap {"half_closed_early", "half_closed_paused", "session_half_closed",
                   "coro_armed_paused", "partial_frame"} = {} =>
      c.armed \/ Pending(c, "Recv") \/ c.idle

\* A session is parked in send() only while something will wake it.
SendWaiterWakes ==
  at = "wait" /\ c.sess = "send" /\ "stop_reading" \notin c.exc => c.back

\* Both streams arrive as they were sent, and the FIN after the last byte (send, flush,
\* on_recv, on_sent, shutdown_write).
StreamsExact == WriteExact /\ FinAfterData /\ ReadExact

\* A connection goes on reading as long as it should: while it is established, and while
\* it waits for the peer's FIN (arm_recv, rearm_recv, arm_drain_recv).
ReadsGoOn == ReadArmed /\ HalfCloseSeesFin
=============================================================================
