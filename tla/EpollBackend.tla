---------------------------- MODULE EpollBackend ----------------------------
(***************************************************************************)
(* EpollBackend of src/backend/epoll.cpp for the descriptor of one         *)
(* connection: an emulated proactor over edge-triggered epoll.             *)
(*                                                                         *)
(* Every operation is an operator from states to states.  A state is a     *)
(* record r that holds the descriptor's FdState and the completion queues  *)
(*   reg, armed, connp      registered, recv_armed, connect_pending        *)
(*   refusals               how often EPOLL_CTL_ADD will fail              *)
(*   sendq                  sendq: the unsent tails, and their progress    *)
(*   ready, pend, out       ready_, pending_events_, the caller's out, and *)
(*   slots                  the room there is in out                       *)
(* and the kernel's side of the socket                                     *)
(*   ep                     the descriptor is on epoll's ready list        *)
(*   wire, unread           bytes the kernel took; those the peer has yet  *)
(*                          to read (they fill the send buffer)            *)
(*   inq, fin, rst, conn    received bytes, FIN, a socket error, the state *)
(*                          of the connect                                 *)
(* and exc, the history of what may excuse a property.                     *)
(***************************************************************************)
EXTENDS Integers, Sequences, SequencesExt

CONSTANTS SndCap,    \* bytes the kernel's send buffer holds
          RecvMax,   \* bytes one recv can take (the room in recv_buf)
          MaxIo      \* room in out that other descriptors may leave to this one

ECANCELED == 125
EIO == 5

Completion(op, res, data) == [op |-> op, res |-> res, data |-> data]

Dropped(seq, n) == SubSeq(seq, n + 1, Len(seq))

Excuse(r, why) == [r EXCEPT !.exc = @ \cup {why}]

-----------------------------------------------------------------------------
(* epoll and the socket (external) *)

\* the events that hold for the socket now
Events(r) ==
  (IF r.inq # << >> \/ r.fin \/ r.rst THEN {"IN"} ELSE {})
    \cup (IF (r.conn = "up" /\ r.unread < SndCap) \/ r.rst THEN {"OUT"} ELSE {})
    \cup (IF r.fin THEN {"RDHUP"} ELSE {})
    \cup (IF r.rst THEN {"ERR"} ELSE {})

Room(r) == SndCap - r.unread

\* sendmsg(): the kernel takes the first k bytes
Transmit(r, bytes, k) == [r EXCEPT !.wire = @ \o SubSeq(bytes, 1, k), !.unread = @ + k]

-----------------------------------------------------------------------------
(* Interest *)

\* what epoll reports of them: RDHUP always, IN and OUT for an armed operation
Interest(r) ==
  {"RDHUP", "ERR"}
    \cup (IF r.armed THEN {"IN"} ELSE {})
    \cup (IF r.sendq # << >> \/ r.connp THEN {"OUT"} ELSE {})

\* EPOLL_CTL_MOD: an event that holds already is reported again
UpdateEvents(r) ==
  [r EXCEPT !.ep = @ \/ (r.reg /\ Events(r) \cap Interest(r) # {})]

\* EPOLL_CTL_ADD may fail; the operation stays armed, and no caller looks at the error
EnsureRegistered(r) ==
  CASE r.reg -> r
    [] ~r.reg /\ r.refusals > 0 -> Excuse([r EXCEPT !.refusals = @ - 1], "unregistered")
    [] OTHER -> [r EXCEPT !.reg = TRUE]

QueueCompletion(r, c) == [r EXCEPT !.ready = Append(@, c)]

-----------------------------------------------------------------------------
(* Submissions *)

\* a second recv on the descriptor is refused; no caller looks
SubmitRecv(r) ==
  IF r.armed THEN r ELSE UpdateEvents(EnsureRegistered([r EXCEPT !.armed = TRUE]))

\* A send tries the socket at once and queues what the kernel did not take.  The
\* completion of a queued tail will report the length of that tail.
SubmitSend(r, bytes) ==
  LET k == IF Len(bytes) <= Room(r) THEN Len(bytes) ELSE Room(r)
      queued(x, b) == [x EXCEPT !.sendq = Append(@, [bytes |-> b, off |-> 0])]
  IN  IF r.sendq # << >> THEN UpdateEvents(queued(r, bytes))
      ELSE IF r.rst THEN QueueCompletion(r, Completion("Send", 0 - EIO, << >>))
      ELSE IF k = Len(bytes)
             THEN QueueCompletion(Transmit(r, bytes, k), Completion("Send", k, << >>))
             ELSE LET t == UpdateEvents(EnsureRegistered(queued(Transmit(r, bytes, k), Dropped(bytes, k))))
                  IN  IF k > 0 THEN Excuse(t, "short_write") ELSE t

\* connect() answers at once or is in progress
SubmitConnect(r) ==
  CASE r.conn = "up" -> QueueCompletion(r, Completion("Connect", 0, << >>))
    [] r.rst -> QueueCompletion(r, Completion("Connect", 0 - EIO, << >>))
    [] OTHER -> UpdateEvents(EnsureRegistered([r EXCEPT !.connp = TRUE]))

\* cancel(tag of the recv)
CancelRecv(r) ==
  IF r.armed
    THEN UpdateEvents(QueueCompletion([r EXCEPT !.armed = FALSE],
                                      Completion("Recv", 0 - ECANCELED, << >>)))
    ELSE r

\* forgets the FdState; completions already in ready_ stay there
Detach(r) ==
  [r EXCEPT !.reg = FALSE, !.armed = FALSE, !.connp = FALSE, !.sendq = << >>, !.ep = FALSE]

-----------------------------------------------------------------------------
(* wait() *)

Fits(r) == Len(r.out) < r.slots

Report(r, c) == [r EXCEPT !.out = Append(@, c)]

Postpone(r, ev) == [r EXCEPT !.pend = Append(@, ev)]

\* HUP and errors complete the armed recv, with 0 or the socket's error, whatever
\* may still be unread
OnErrorish(r, ev) ==
  IF ~r.armed THEN r
  ELSE IF Fits(r)
         THEN LET t == Report(UpdateEvents([r EXCEPT !.armed = FALSE]),
                              Completion("Recv", IF r.rst THEN 0 - EIO ELSE 0, << >>))
              IN  IF r.inq # << >> /\ ~r.rst THEN Excuse(t, "hup_first") ELSE t
         ELSE UpdateEvents(Postpone(r, ev))

\* one completion for everything the buffer takes; nothing there: stay armed
OnReadable(r) ==
  LET n == IF Len(r.inq) <= RecvMax THEN Len(r.inq) ELSE RecvMax
      res == IF r.rst THEN 0 - EIO ELSE n
      t == UpdateEvents([r EXCEPT !.armed = FALSE, !.inq = Dropped(@, n)])
  IN  IF ~r.armed \/ (n = 0 /\ ~r.fin /\ ~r.rst) THEN r
      ELSE IF Fits(r) THEN Report(t, Completion("Recv", res, SubSeq(r.inq, 1, n)))
      ELSE UpdateEvents([Postpone(t, {"IN"}) EXCEPT !.armed = TRUE])

\* a finished operation is forgotten before its completion is known to fit
Finish(r, c) ==
  IF Fits(r) THEN Report(r, c) ELSE Excuse(Postpone(r, {"OUT"}), "no_room")

FinishConnect(r) ==
  IF ~r.connp THEN r
  ELSE Finish(UpdateEvents([r EXCEPT !.connp = FALSE]),
              Completion("Connect", IF r.rst THEN 0 - EIO ELSE 0, << >>))

\* The head of the queue.  A connection has at most one write in flight, so there
\* is nothing behind it.
ContinueSend(r) ==
  LET req == Head(r.sendq)
      left == Dropped(req.bytes, req.off)
      k == IF Len(left) <= Room(r) THEN Len(left) ELSE Room(r)
      popped(x) == UpdateEvents([x EXCEPT !.sendq = Tail(@)])
  IN  IF r.sendq = << >> THEN r
      ELSE IF r.rst THEN Finish(popped(r), Completion("Send", 0 - EIO, << >>))
      ELSE IF k = Len(left)
             THEN Finish(popped(Transmit(r, left, k)),
                         Completion("Send", Len(req.bytes), << >>))
             ELSE [Transmit(r, left, k) EXCEPT !.sendq[1].off = @ + k]

OnWritable(r) == ContinueSend(FinishConnect(r))

DispatchEvent(r, ev) ==
  LET a == IF ev \cap {"ERR", "RDHUP"} # {} THEN OnErrorish(r, ev) ELSE r
      b == IF "IN" \in ev THEN OnReadable(a) ELSE a
  IN  IF "OUT" \in ev THEN OnWritable(b) ELSE b

\* the next event left over from a saturated wait(), if the descriptor is still known
NextPending(r) ==
  IF ~Fits(r) \/ r.pend = << >> THEN r
  ELSE LET t == [r EXCEPT !.pend = Tail(@)]
       IN  IF r.reg THEN DispatchEvent(t, Head(r.pend)) ELSE t

\* Completions that are ready, then old events, then epoll_pwait2(): an event that comes when
\* those of other descriptors have filled out is kept whole.
WaitFor(r, slots, full) ==
  LET n == IF Len(r.ready) <= slots THEN Len(r.ready) ELSE slots
      a == [r EXCEPT !.out = SubSeq(r.ready, 1, n), !.ready = Dropped(@, n), !.slots = slots]
      b == FoldLeft(LAMBDA x, ev : NextPending(x), a, a.pend)
      t == [b EXCEPT !.ep = FALSE]
      ev == Events(b) \cap Interest(b)
  IN  IF Fits(b) /\ b.ep THEN (IF full THEN Postpone(t, ev) ELSE DispatchEvent(t, ev)) ELSE b
=============================================================================
