------------------------------ MODULE TcpServer ------------------------------
(***************************************************************************)
(* TcpServer<P, EM> of include/afx/net/tcp_server.hpp and its part in the  *)
(* shutdown sequence, as operators on a server record:                     *)
(*   listen       listen_fd_ >= 0                                          *)
(*   uring        its event manager runs on io_uring, where a cancel is    *)
(*                only staged, not on epoll or kqueue, where it is done    *)
(*   acc          its accept: "none", "armed" in the backend, "staged" (its *)
(*                cancel waits to be submitted and answered), or "dead"    *)
(*                (re-armed on descriptor -1: it fails, and is re-armed,   *)
(*                in every iteration that follows)                         *)
(*   conns        the connections ever made: what the server sees of them  *)
(*                (module Connection has the rest) is st, "open", "half"   *)
(*                (ShutdownWrite), "closed" (torn down, the notification   *)
(*                deferred) or "freed" (out of conns_), the write queue q, *)
(*                0 (empty), 1 (queued) or 2 (submitted), whether          *)
(*                on_shutdown ran for it (told), and whether it came after *)
(*                stop_accepting (late)                                    *)
(*   gone         deferred on_conn_gone notifications                      *)
(*   lost         connections destroyed with bytes in the queue            *)
(***************************************************************************)
EXTENDS Integers, Sequences, FiniteSets

CONSTANTS MaxConnections   \* ServerConfig::max_connections

NewServer(uring) ==
  [listen |-> FALSE, uring |-> uring, acc |-> "none", conns |-> << >>, gone |-> << >>, lost |-> {}]

\* conns_
Held(s) == {i \in DOMAIN s.conns : s.conns[i].st # "freed"}

\* make_server(): a listener that cannot be opened leaves nothing behind
Open(s, ok) == IF ok THEN [s EXCEPT !.listen = TRUE, !.acc = "armed"] ELSE s

\* submit_accept() on listen_fd_: epoll and kqueue refuse descriptor -1, io_uring takes it
Rearm(s) == [s EXCEPT !.acc = CASE s.listen -> "armed" [] ~s.listen /\ s.uring -> "dead" [] OTHER -> "none"]

\* A completion of the accept with a socket.  Unless the request goes on (more: io_uring's
\* multishot accept) it is re-armed whatever comes of the socket, which is closed at once
\* above max_connections or when it cannot be set up (ok); on_open may queue bytes.
OnAccept(s, ok, queued, more) ==
  LET r == IF more THEN s ELSE Rearm(s)
      c == [st |-> "open", q |-> IF queued THEN 1 ELSE 0, told |-> FALSE, late |-> ~s.listen]
  IN IF Cardinality(Held(s)) >= MaxConnections \/ ~ok THEN r ELSE [r EXCEPT !.conns = Append(@, c)]

\* a completion without a socket: -ECANCELED is the end of the accept, any other error is not
AcceptEnds(s, cancelled) == IF cancelled THEN [s EXCEPT !.acc = "none"] ELSE Rearm(s)

\* send() from a handler; not once the connection is half-closed
Queue(s, i) ==
  IF s.conns[i].st = "open" /\ s.conns[i].q = 0 THEN [s EXCEPT !.conns[i].q = 1] ELSE s

\* the end of a submitted write
Written(s, i) == [s EXCEPT !.conns[i].q = 0]

\* close(): the server hears of it later
CloseConn(s, i) ==
  IF s.conns[i].st \notin {"open", "half"} THEN s
  ELSE [s EXCEPT !.conns[i].st = "closed", !.gone = Append(@, i)]

\* on_conn_gone()
ConnGone(s) == [s EXCEPT !.conns[Head(s.gone)].st = "freed", !.gone = Tail(@)]

\* stage 6 submits every queue
FlushAll(s) ==
  LET Flush(c) == IF c.q = 1 /\ c.st \in {"open", "half"} THEN [c EXCEPT !.q = 2] ELSE c
  IN [s EXCEPT !.conns = [i \in DOMAIN s.conns |-> Flush(s.conns[i])]]

-----------------------------------------------------------------------------
(* The hooks of the shutdown sequence *)

\* The accept is cancelled and the listener closed; on io_uring the accept keeps the listening
\* socket until its cancel, staged here, has been submitted and answered.
StopAccepting(s) ==
  IF ~s.listen THEN s
  ELSE [s EXCEPT !.listen = FALSE, !.acc = IF s.uring THEN "staged" ELSE "none"]

\* notify_shutdown(): on_shutdown may queue a farewell on the connections in talk
NotifyShutdown(s, talk) ==
  LET Tell(c, speaks) == [c EXCEPT !.told = TRUE, !.q = IF speaks /\ c.st = "open" /\ c.q = 0 THEN 1 ELSE @]
  IN [s EXCEPT !.conns = [i \in DOMAIN s.conns |->
                            IF i \in Held(s) THEN Tell(s.conns[i], i \in talk) ELSE s.conns[i]]]

Drained(s) == \A i \in Held(s) : s.conns[i].q = 0

HalfCloseAll(s) ==
  LET Half(c) == IF c.st = "open" THEN [c EXCEPT !.st = "half"] ELSE c
  IN [s EXCEPT !.conns = [i \in DOMAIN s.conns |-> Half(s.conns[i])]]

\* ~TcpServer(): every connection is closed and freed, then the listener
DestroyServer(s) ==
  [StopAccepting(s) EXCEPT !.acc = "none",
                           !.lost = {i \in Held(s) : s.conns[i].q # 0 /\ s.conns[i].st # "closed"},
                           !.conns = [i \in DOMAIN s.conns |-> [s.conns[i] EXCEPT !.st = "freed"]],
                           !.gone = << >>]

=============================================================================
