------------------------------- MODULE SimNet -------------------------------
(***************************************************************************)
(* The deterministic simulation: SimBackend of src/backend/sim.cpp, the    *)
(* fabric of src/sim/net.cpp that turns its calls into scheduled events,   *)
(* and the stepping of src/sim/runtime.cpp, with a client shard 1 and a    *)
(* server shard 2 on it. Every random draw is a choice.                    *)
(*                                                                         *)
(* Times are relative to now. sim is                                       *)
(*   q          the scheduled events in the order (due, seq) they are in   *)
(*   fds        by shard, fds_: the state of each fd the backend knows     *)
(*   used       fd numbers in use: the lowest free one is allocated, and   *)
(*              close() frees it                                           *)
(*   flink      fd_link_: fd to link                                       *)
(*   links      by connection: partitioned, and the instants from which    *)
(*              each side may deliver (next_free_ab, next_free_ba)         *)
(*   listens    the listener is registered (its fd is ListenFd)            *)
(*   ready      by shard, completions not dispatched                       *)
(* and the connections' two ends, as the application sees them:            *)
(*   st, fd     "none", "wait", "open" or "closed"; its fd                 *)
(*   sent, got  bytes sent (numbered from 1); bytes received in order      *)
(*   lost       bytes sent that the fabric dropped                         *)
(*   end        how its stream ended: "none", "eof" or "error"             *)
(***************************************************************************)
EXTENDS Integers, Sequences, FiniteSets, SequencesExt

CONSTANTS SimConns,    \* bound: connections ever made
          MaxLive,     \* bound: sockets of the client at a time
          Budgets,     \* bounds, one of which a behaviour keeps to: connections made, and sends
          MaxFaults,   \* bound: sends in all that a fault befalls
          RecvCap,     \* bytes a receive buffer takes
          Latencies,   \* what latency() draws
          SendSizes,   \* bytes one send carries
          Fates        \* of a send: "pass", "lose", "reset", "partition"

VARIABLE sim

ListenFd == 1

Conns == 1 .. SimConns

Sides == {1, 2}

Other(side) == 3 - side

End == [st |-> "none", fd |-> 0, sent |-> 0, got |-> << >>, lost |-> {}, end |-> "none"]

FdState == [recv |-> 0, in |-> << >>, fin |-> FALSE, err |-> FALSE, accept |-> FALSE, connect |-> 0]

\* exc names what befell an end: << connection, side >>, or << side, fd >> for a stale event
Excuse(s, why, x) == [s EXCEPT !.exc = @ \cup {<< why, x[1], x[2] >>}]

Byte(c, side, i) == [conn |-> c, side |-> side, i |-> i]

\* the result of a receive that fails; others are the bytes it took
Failed == << Byte(0, 0, 0) >>

\* the lowest number no socket has
FreeFd(s) == CHOOSE f \in 1 .. Cardinality(s.used) + 1 : f \notin s.used /\ \A g \in 1 .. f - 1 : g \in s.used

-----------------------------------------------------------------------------
(* SimBackend *)

\* fds_[fd] makes the entry when there is none, also for an fd that was detached
Touch(s, side, fd) ==
  IF fd \in DOMAIN s.fds[side] THEN s
  ELSE [s EXCEPT !.fds[side] = [f \in DOMAIN @ \cup {fd} |-> IF f = fd THEN FdState ELSE s.fds[side][f]]]

Erase(s, side, fd) == [s EXCEPT !.fds[side] = [f \in DOMAIN @ \ {fd} |-> s.fds[side][f]]]

Push(s, side, kind, c, res) == [s EXCEPT !.ready[side] = Append(@, [kind |-> kind, conn |-> c, res |-> res])]

PumpRecv(s, side, fd) ==
  LET f == s.fds[side][fd]
      n == IF Len(f.in) < RecvCap THEN Len(f.in) ELSE RecvCap
      idle == [s EXCEPT !.fds[side][fd].recv = 0]
  IN CASE f.recv = 0 -> s
       [] f.recv # 0 /\ f.err -> Push(idle, side, "recv", f.recv, Failed)
       [] f.recv # 0 /\ ~f.err /\ n = 0 -> IF f.fin THEN Push(idle, side, "recv", f.recv, << >>) ELSE s
       [] OTHER -> Push([idle EXCEPT !.fds[side][fd].in = SubSeq(@, n + 1, Len(@))],
                        side, "recv", f.recv, SubSeq(f.in, 1, n))

SubmitRecv(s, side, fd, c) == PumpRecv([Touch(s, side, fd) EXCEPT !.fds[side][fd].recv = c], side, fd)

\* the listener is registered again with every accept
SubmitAccept(s) == [Touch(s, 2, ListenFd) EXCEPT !.fds[2][ListenFd].accept = TRUE, !.listens = TRUE]

Feed(s, side, fd, bytes) == PumpRecv([Touch(s, side, fd) EXCEPT !.fds[side][fd].in = @ \o bytes], side, fd)

ClosePeer(s, side, fd) == PumpRecv([Touch(s, side, fd) EXCEPT !.fds[side][fd].fin = TRUE], side, fd)

FailPeer(s, side, fd) == PumpRecv([Touch(s, side, fd) EXCEPT !.fds[side][fd].err = TRUE], side, fd)

DeliverConnect(s, fd, c, res) ==
  LET t == Touch(s, 1, fd)
  IN IF t.fds[1][fd].connect # c THEN t ELSE Push([t EXCEPT !.fds[1][fd].connect = 0], 1, "connect", c, res)

\* an accept that is not armed loses the connection
DeliverAccept(s, c, peer) ==
  LET t == Touch(Touch(s, 2, ListenFd), 2, peer)
  IN IF ~t.fds[2][ListenFd].accept THEN t
     ELSE Push([t EXCEPT !.fds[2][ListenFd].accept = FALSE], 2, "accept", c, peer)

-----------------------------------------------------------------------------
(* SimNet *)

Event(due, kind, c, side, fd, data) ==
  [due |-> due, kind |-> kind, conn |-> c, side |-> side, fd |-> fd, data |-> data]

\* behind the events that are due at the same instant: seq grows
Schedule(s, e) ==
  LET k == Cardinality({i \in DOMAIN s.q : s.q[i].due <= e.due})
  IN [s EXCEPT !.q = SubSeq(@, 1, k) \o << e >> \o SubSeq(@, k + 1, Len(@))]

\* the entry of links_ stays, out of reach
Unlink(s, c) ==
  LET l == s.links[c]
  IN [s EXCEPT !.flink = [f \in DOMAIN @ \ Range(l.fd) |-> s.flink[f]],
               !.links[c] = [l EXCEPT !.fd = << 0, 0 >>, !.free = << 0, 0 >>]]

\* connect(): a link to a fresh fd of the server, or a refusal
NetConnect(s, c, fd, d) ==
  LET peer == FreeFd(s)
      t == [Touch([s EXCEPT !.used = @ \cup {peer}], 2, peer) EXCEPT
              !.links[c] = [part |-> FALSE, fd |-> << fd, peer >>, free |-> << 0, 0 >>],
              !.flink = [f \in DOMAIN @ \cup {fd, peer} |-> IF f \in {fd, peer} THEN c ELSE s.flink[f]]]
  IN IF ~s.listens THEN Schedule(s, Event(d, "connected", c, 1, fd, "refused"))
     ELSE Schedule(Schedule(t, Event(d, "connected", c, 1, fd, "ok")), Event(d, "accept", c, 2, peer, "ok"))

\* what the code would be if a send did not reserve its time on the link
FragmentsUnordered(s, c, side, bytes, due, frag) ==
  LET to == Other(side)
      fd == s.links[c].fd[to]
  IN IF frag /\ Len(bytes) > 1
     THEN Schedule(Schedule(s, Event(due, "bytes", c, to, fd, SubSeq(bytes, 1, 1))),
                   Event(due + 1, "bytes", c, to, fd, Tail(bytes)))
     ELSE Schedule(s, Event(due, "bytes", c, to, fd, bytes))

\* one or two pieces, no earlier than the last one of the send before it
Fragments(s, c, side, bytes, due, frag) ==
  LET to == Other(side)
      fd == s.links[c].fd[to]
  IN IF frag /\ Len(bytes) > 1
     THEN LET one == Schedule(s, Event(due, "bytes", c, to, fd, SubSeq(bytes, 1, 1)))
          IN [Schedule(one, Event(due + 1, "bytes", c, to, fd, Tail(bytes))) EXCEPT !.links[c].free[side] = due + 2]
     ELSE [Schedule(s, Event(due, "bytes", c, to, fd, bytes)) EXCEPT !.links[c].free[side] = due + 1]

Drop(s, c, side, bytes) == [s EXCEPT !.ends[c][side].lost = @ \cup Range(bytes)]

\* a window of a partition, which ends whatever other window is open
Partition(s, c, window) == Schedule([s EXCEPT !.links[c].part = TRUE], Event(window, "heal", c, 0, 0, ""))

\* deliver_bytes(): the link is the one fd_link_ has for the fd
DeliverBytes(s, c, side, bytes, fate, d, d2, frag) ==
  LET fd == s.ends[c][side].fd
      l == s.links[c]
      to == Other(side)
      due == IF d < l.free[side] THEN l.free[side] ELSE d
      reset == Schedule(Schedule(s, Event(d, "reset", c, to, l.fd[to], "")), Event(d2, "reset", c, side, fd, ""))
  IN IF fd \notin DOMAIN s.flink \/ l.part \/ fate = "lose" THEN Drop(s, c, side, bytes)
     ELSE CASE fate = "reset" -> Drop(Unlink(reset, c), c, side, bytes)
            [] fate = "partition" -> Drop(Partition(s, c, d2), c, side, bytes)
            [] fate = "pass" -> Fragments(s, c, side, bytes, due, frag)

\* detach(): a FIN one latency from now, whatever is under way, none through a partition
NetDetach(s, side, fd, d) ==
  LET t == IF side = 2 /\ fd = ListenFd THEN [s EXCEPT !.listens = FALSE] ELSE s
  IN IF fd \notin DOMAIN s.flink THEN t
     ELSE LET c == s.flink[fd]
              l == s.links[c]
              to == Other(side)
              v == Unlink(t, c)
              v2 == IF d < l.free[side] THEN Excuse(v, "fin_overtakes", << c, to >>) ELSE v
          IN IF l.part THEN Excuse(v, "fin_parted", << c, to >>) ELSE Schedule(v2, Event(d, "fin", c, to, l.fd[to], ""))

BackendDetach(s, side, fd, d) == Erase(NetDetach(s, side, fd, d), side, fd)

\* apply(); an event names an fd, which may have another owner by now, or none
Stale(s, e) == e.kind \in {"bytes", "fin", "reset"} /\ s.ends[e.conn][e.side].st = "closed"

NetApply(s, e) ==
  LET t == IF Stale(s, e) THEN Excuse(s, "stale_event", << e.side, e.fd >>) ELSE s
  IN CASE e.kind = "bytes" -> Feed(t, e.side, e.fd, e.data)
       [] e.kind = "accept" -> DeliverAccept(t, e.conn, e.fd)
       [] e.kind = "connected" -> DeliverConnect(t, e.fd, e.conn, e.data)
       [] e.kind = "fin" -> ClosePeer(t, e.side, e.fd)
       [] e.kind = "reset" -> FailPeer(t, e.side, e.fd)
       [] e.kind = "heal" -> [t EXCEPT !.links[e.conn].part = FALSE]

-----------------------------------------------------------------------------
(* The shards: dispatch of completions, and what applications do *)

CloseEnd(s, c, side, d) ==
  LET fd == s.ends[c][side].fd
      t == BackendDetach(s, side, fd, d)
  IN [t EXCEPT !.used = @ \ {fd}, !.ends[c][side].st = "closed"]

SimOnConnected(s, c, res, d) ==
  IF res = "ok" THEN SubmitRecv([s EXCEPT !.ends[c][1].st = "open"], 1, s.ends[c][1].fd, c)
  ELSE CloseEnd([s EXCEPT !.ends[c][1].end = "error"], c, 1, d)

\* the server arms the next accept, in vain on an fd of -1, and takes the socket
OnAccepted(s, c, fd) ==
  LET t == IF s.listens THEN SubmitAccept(s) ELSE s
  IN SubmitRecv([t EXCEPT !.ends[c][2] = [End EXCEPT !.st = "open", !.fd = fd]], 2, fd, c)

OnReceived(s, c, side, res, d) ==
  CASE res = Failed -> CloseEnd([s EXCEPT !.ends[c][side].end = "error"], c, side, d)
    [] res = << >> -> CloseEnd([s EXCEPT !.ends[c][side].end = "eof"], c, side, d)
    [] OTHER -> SubmitRecv([s EXCEPT !.ends[c][side].got = @ \o res], side, s.ends[c][side].fd, c)

\* a completion of an end that is closed is dropped: its tag is no longer in use
Dispatch(side, d) ==
  /\ sim.ready[side] # << >>
  /\ LET m == Head(sim.ready[side])
         s == [sim EXCEPT !.ready[side] = Tail(@)]
         st == s.ends[m.conn][side].st
     IN sim' = CASE m.kind = "accept" -> OnAccepted(s, m.conn, m.res)
                 [] m.kind = "connect" -> IF st = "wait" THEN SimOnConnected(s, m.conn, m.res, d) ELSE s
                 [] m.kind = "recv" -> IF st = "open" THEN OnReceived(s, m.conn, side, m.res, d) ELSE s

\* nothing is left to dispatch: the application acts then, and closes in a handler as well
Quiet == \A side \in Sides : sim.ready[side] = << >>

AppConnect(d) ==
  /\ Quiet /\ sim.made < sim.budget.conns
  /\ Cardinality({c \in Conns : sim.ends[c][1].st \in {"wait", "open"}}) < MaxLive
  /\ LET c == sim.made + 1
         fd == FreeFd(sim)
         s == [sim EXCEPT !.made = c, !.used = @ \cup {fd}, !.ends[c][1] = [End EXCEPT !.st = "wait", !.fd = fd]]
         t == [Touch(s, 1, fd) EXCEPT !.fds[1][fd].connect = c]
     IN sim' = NetConnect(t, c, fd, d)

\* submit_sendv(): its completion, queued at once, tells the application nothing of the fabric
AppSend(c, side, n, fate, d, d2, frag) ==
  /\ Quiet /\ sim.ends[c][side].st = "open" /\ sim.sends < sim.budget.sends
  /\ fate = "pass" \/ sim.faults < MaxFaults
  /\ LET k == sim.ends[c][side].sent
         bytes == [i \in 1 .. n |-> Byte(c, side, k + i)]
              s == [sim EXCEPT !.ends[c][side].sent = k + n, !.sends = @ + 1,
                          !.faults = IF fate = "pass" THEN @ ELSE @ + 1]
     IN sim' = DeliverBytes(s, c, side, bytes, fate, d, d2, frag)

AppClose(c, side, d) ==
  /\ sim.ends[c][side].st \in {"wait", "open"}
  /\ sim' = CloseEnd(sim, c, side, d)

\* the server stops accepting
AppUnlisten(d) ==
  /\ Quiet /\ sim.listens
  /\ sim' = [BackendDetach(sim, 2, ListenFd, d) EXCEPT !.used = @ \ {ListenFd}]

\* run_until(): an event that is due, once every shard is quiescent; then time moves on
StepEvent ==
  /\ Quiet /\ sim.q # << >> /\ Head(sim.q).due = 0
  /\ sim' = NetApply([sim EXCEPT !.q = Tail(@)], Head(sim.q))

StepTime ==
  /\ Quiet /\ sim.q # << >> /\ Head(sim.q).due > 0
  /\ LET d == Head(sim.q).due
         Less(x) == IF x < d THEN 0 ELSE x - d
     IN sim' = [sim EXCEPT !.q = [i \in DOMAIN @ |-> [sim.q[i] EXCEPT !.due = @ - d]],
                           !.links = [c \in Conns |-> [sim.links[c] EXCEPT !.free = << Less(@[1]), Less(@[2]) >>]]]

SimInit ==
  \E b \in Budgets :
  sim = SubmitAccept(
          [budget |-> b, q |-> << >>, fds |-> << << >>, << >> >>, used |-> {ListenFd}, flink |-> << >>,
           links |-> [c \in Conns |-> [part |-> FALSE, fd |-> << 0, 0 >>, free |-> << 0, 0 >>]],
           listens |-> FALSE, ready |-> << << >>, << >> >>, made |-> 0, sends |-> 0, faults |-> 0,
           ends |-> [c \in Conns |-> << End, End >>], exc |-> {}])

SimNext ==
  \/ StepEvent \/ StepTime
  \/ \E d \in Latencies :
       \/ AppConnect(d) \/ AppUnlisten(d)
       \/ \E side \in Sides : Dispatch(side, d)
       \/ \E c \in Conns, side \in Sides :
            \/ AppClose(c, side, d)
            \/ \E n \in SendSizes, fate \in Fates, d2 \in Latencies, frag \in BOOLEAN :
                 AppSend(c, side, n, fate, d, d2, frag)

SimSpec == SimInit /\ [][SimNext]_sim

-----------------------------------------------------------------------------
(* Properties *)

\* An end receives the bytes of its peer, each once and in the order they were sent, none
\* that the fabric dropped and none of another connection, unless an event came for an fd
\* whose connection was gone (deliver_bytes, feed).
SimStreamOrdered ==
  \A c \in Conns, side \in Sides :
    LET e == sim.ends[c][side]
    IN \/ << "stale_event", side, e.fd >> \in sim.exc
       \/ /\ \A i \in DOMAIN e.got : e.got[i].conn = c /\ e.got[i].side = Other(side)
          /\ \A i, j \in DOMAIN e.got : i < j => e.got[i].i < e.got[j].i
          /\ Range(e.got) \cap sim.ends[c][Other(side)].lost = {}

\* The end of a stream comes last: an end that saw it has every byte its peer sent and the
\* fabric did not drop, unless the FIN was scheduled ahead of them (detach).
SimEofLast ==
  \A c \in Conns, side \in Sides :
    LET e == sim.ends[c][side]
        p == sim.ends[c][Other(side)]
    IN e.end = "eof" => \/ Range(e.got) = {Byte(c, Other(side), i) : i \in 1 .. p.sent} \ p.lost
                        \/ << "fin_overtakes", c, side >> \in sim.exc
                        \/ << "stale_event", side, e.fd >> \in sim.exc

\* When an end is closed its peer will hear of it: it has ended itself, or its FIN or reset is
\* on its way. The exception: the FIN met a partition (detach).
SimCloseTold ==
  \A c \in Conns, side \in Sides :
    LET e == sim.ends[c][side]
        p == sim.ends[c][Other(side)]
    IN e.st = "closed" /\ p.st = "open" =>
         \/ \E i \in DOMAIN sim.q : sim.q[i].kind \in {"fin", "reset"} /\ sim.q[i].conn = c /\ sim.q[i].side = Other(side)
         \/ sim.fds[Other(side)][p.fd].fin \/ sim.fds[Other(side)][p.fd].err
         \/ \E i \in DOMAIN sim.ready[Other(side)] :
              sim.ready[Other(side)][i] \in [kind : {"recv"}, conn : {c}, res : {Failed, << >>}]
         \/ << "fin_parted", c, Other(side) >> \in sim.exc

\* What arrives is what was sent, in order and before the end of the stream, and a close is
\* told to the peer.
SimStream == SimStreamOrdered /\ SimEofLast /\ SimCloseTold
=============================================================================
