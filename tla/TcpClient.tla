------------------------------ MODULE TcpClient ------------------------------
(***************************************************************************)
(* TcpClient<P, EM> of include/afx/net/tcp_client.hpp: one connection at a *)
(* time, kept up by sequential failover or Happy Eyeballs (RFC 8305), and  *)
(* by reconnecting.  The connections are those of module Connection,       *)
(* reduced to their state: Connecting, Established, Closed (torn down, the *)
(* notification deferred) or Freed (given back to the pool).               *)
(*                                                                         *)
(* cl is the client:                                                       *)
(*   state, conn            state_, conn_ (0: null)                        *)
(*   pending, closing       pending_, closing_                             *)
(*   target                 what start() is given: an "address" (or a unix *)
(*                          path), a "name" for the resolver, or a name    *)
(*                          that getaddrinfo looks up at once, "blocking"  *)
(*   addrs, aidx            addrs_.size(), addr_idx_                       *)
(*   hsize, hnext, won      he_addrs_.size(), he_next_, he_won_            *)
(*   resolving              resolving_                                     *)
(*   retries                reconnect timers that are armed                *)
(*   round                  the Happy Eyeballs round he_group_ belongs to  *)
(*   deadline, stagger      rounds whose timers are armed                  *)
(*   waiter                 co_await connect(): "none", "parked", or its   *)
(*                          answer, "connected" or "failed"                *)
(*   dead                   the client is destroyed                        *)
(*   exc                    history of what may excuse a property          *)
(* The event manager owns the client and deletes it in its own destructor, *)
(* after the loop and with the coroutines already cancelled.               *)
(***************************************************************************)
EXTENDS Integers, Sequences, FiniteSets

CONSTANTS MaxAddrs,     \* bound: addresses a name resolves to
          MaxConns,     \* bound: connections ever made
          MaxRounds,    \* bound: Happy Eyeballs rounds
          MaxRetries    \* bound: reconnect timers at a time

VARIABLES cl,       \* the client
          he, auto, \* cfg_.happy_eyeballs, cfg_.auto_reconnect
          conns,    \* the connections made: state and kind
          gone      \* the deferred notifications: ids and reasons

clientVars == <<cl, he, auto, conns, gone>>

\* the connections and the deferred work an operation may change with the client
World == [cl |-> cl, conns |-> conns, gone |-> gone]

Become(w) == cl' = w.cl /\ conns' = w.conns /\ gone' = w.gone /\ UNCHANGED <<he, auto>>

Without(s, x) == SelectSeq(s, LAMBDA y : y # x)

Elems(s) == {s[i] : i \in DOMAIN s}

Settled == {"Connected", "Disconnected"}

-----------------------------------------------------------------------------
(* Connections *)

\* close(), as far as the client sees it: the notification is deferred
CloseConn(w, id, why) ==
  IF w.conns[id].st \in {"Closed", "Freed"} THEN w
  ELSE [w EXCEPT !.conns[id].st = "Closed", !.gone = Append(@, [id |-> id, why |-> why])]

RECURSIVE CloseAll(_, _, _)
CloseAll(w, ids, why) ==
  IF ids = << >> THEN w ELSE CloseAll(CloseConn(w, Head(ids), why), Tail(ids), why)

DestroyConn(w, id) == [w EXCEPT !.conns[id].st = "Freed"]

\* pool_.construct(): the next id
Made(w, kind) ==
  [w EXCEPT !.conns = Append(@, [st |-> "Connecting", kind |-> kind, round |-> w.cl.round])]

NewId(w) == Len(w.conns) + 1

-----------------------------------------------------------------------------
(* Reconnecting *)

\* state_fn_ may be a ConnectOp: it is resumed once the client is connected, or gives up
SetState(w, s) ==
  [w EXCEPT !.cl.state = s,
            !.cl.waiter = IF @ = "parked" /\ s \in Settled /\ s # w.cl.state
                          THEN (IF s = "Disconnected" THEN "failed" ELSE "connected") ELSE @]

ScheduleReconnect(w) ==
  IF ~auto THEN w ELSE SetState([w EXCEPT !.cl.retries = @ + 1], "ReconnectWait")

GiveUp(w) == ScheduleReconnect(SetState(w, "Disconnected"))

OnConnected(w) == SetState(w, "Connected")

\* What goes wrong on the way to an attempt: the addresses no socket can be made for, and
\* whether the pool has no room for the connection then.
Fails == {[socks |-> 0, full |-> FALSE], [socks |-> 1, full |-> FALSE], [socks |-> 0, full |-> TRUE]}

\* The next address that a socket can be made for.  A connection
\* that is still there is closed and freed.
ConnectNext(w, fails) ==
  IF w.cl.aidx + fails.socks >= w.cl.addrs THEN GiveUp([w EXCEPT !.cl.aidx = w.cl.addrs])
  ELSE LET a == [w EXCEPT !.cl.aidx = @ + fails.socks + 1]
           b == IF w.cl.conn = 0 THEN a
                ELSE DestroyConn(CloseConn(a, w.cl.conn, "LocalClose"), w.cl.conn)
           none == [b EXCEPT !.cl.conn = 0, !.cl.exc = @ \cup (IF auto THEN {} ELSE {"pool_full"})]
       IN  IF fails.full THEN ScheduleReconnect(none)
           ELSE SetState([Made(b, "seq") EXCEPT !.cl.conn = NewId(b)], "Connecting")

-----------------------------------------------------------------------------
(* Happy Eyeballs *)

\* The next candidate; n cannot be tried.  With nothing in flight the next
\* one is tried at once, and when none is left the round is over.
HeLaunch(w, fails) ==
  LET left == w.cl.hsize - w.cl.hnext
      n == fails.socks + (IF fails.full THEN 1 ELSE 0)
      launched(x) == SetState([Made(x, "he") EXCEPT !.cl.pending = Append(@, NewId(x))],
                              "Connecting")
  IN  CASE w.cl.won \/ left = 0 -> w
        [] ~w.cl.won /\ left > 0 /\ n > 0 /\ w.cl.pending # << >> ->
             [w EXCEPT !.cl.hnext = @ + 1]
        [] ~w.cl.won /\ left > 0 /\ n >= left /\ w.cl.pending = << >> ->
             GiveUp([w EXCEPT !.cl.hnext = w.cl.hsize])
        [] OTHER -> launched([w EXCEPT !.cl.hnext = @ + n + 1])

ArmStagger(w) ==
  IF w.cl.won \/ w.cl.hnext >= w.cl.hsize THEN w
  ELSE [w EXCEPT !.cl.stagger = @ \cup {w.cl.round}]

\* a new round with a new timer group: the timers of the last one are not cancelled
HeBegin(w, fails) ==
  LET a == [w EXCEPT !.cl.won = FALSE, !.cl.hnext = 0, !.cl.hsize = w.cl.addrs,
                     !.cl.round = @ + 1, !.cl.deadline = @ \cup {w.cl.round + 1}]
  IN  ArmStagger(HeLaunch(a, fails))

BeginConnect(w, fails) ==
  LET a == [w EXCEPT !.cl.aidx = 0]
  IN  IF he /\ w.cl.addrs > 1 THEN HeBegin(a, fails) ELSE ConnectNext(a, fails)

\* what the code would be if the last dead attempt of a race scheduled no reconnect
HeAttemptDoneLast(w, fails) ==
  IF w.cl.won \/ w.cl.pending # << >> \/ w.cl.hnext >= w.cl.hsize THEN w ELSE HeLaunch(w, fails)

\* a dead attempt: fail over if nothing is in flight
HeAttemptDone(w, fails) ==
  IF w.cl.won \/ w.cl.pending # << >> THEN w
  ELSE IF w.cl.hnext < w.cl.hsize THEN HeLaunch(w, fails) ELSE GiveUp(w)

\* what the code would be if the losers of a race were forgotten, not closed
HeWinForgets(w, id) ==
  IF id \notin Elems(w.cl.pending) THEN w
  ELSE IF w.cl.won THEN CloseConn(w, id, "LocalClose")
  ELSE OnConnected([w EXCEPT !.cl.won = TRUE, !.cl.conn = id, !.cl.pending = << >>,
                      !.cl.deadline = @ \ {w.cl.round}, !.cl.stagger = @ \ {w.cl.round}])

\* the first attempt to connect becomes conn_; the others are closed
HeWin(w, id) ==
  IF id \notin Elems(w.cl.pending) THEN w
  ELSE IF w.cl.won THEN CloseConn(w, id, "LocalClose")
  ELSE LET losers == Without(w.cl.pending, id)
           a == [w EXCEPT !.cl.won = TRUE, !.cl.conn = id, !.cl.pending = << >>,
                          !.cl.closing = @ \o losers,
                          !.cl.deadline = @ \ {w.cl.round}, !.cl.stagger = @ \ {w.cl.round}]
       IN  OnConnected(CloseAll(a, losers, "LocalClose"))

-----------------------------------------------------------------------------
(* The deferred notification *)

ReclaimAttempt(w, id, fails) ==
  LET freed == DestroyConn(w, id)
  IN  IF id \in Elems(w.cl.pending)
        THEN HeAttemptDone([freed EXCEPT !.cl.pending = Without(@, id)], fails)
        ELSE [freed EXCEPT !.cl.closing = Without(@, id)]

\* A connection the client no longer knows is ignored.  Otherwise: the next address, or
\* a reconnect, for the loser of a race as well.
ConnGone(w, id, why, fails) ==
  LET mine == w.cl.conn = id
      ours == mine \/ id \in Elems(w.cl.pending) \cup Elems(w.cl.closing)
      a == IF mine THEN [DestroyConn(w, id) EXCEPT !.cl.conn = 0]
           ELSE ReclaimAttempt(w, id, fails)
      loser == id \in Elems(w.cl.closing)
  IN  CASE ~ours -> w
        [] ours /\ why = "ConnectFailed" ->
             IF ~he \/ a.cl.hsize = 0 THEN ConnectNext(a, fails)
             ELSE IF mine THEN [a EXCEPT !.cl.exc = @ \cup {"old_race"}] ELSE a
        [] ours /\ why # "ConnectFailed" /\ a.cl.state = "Disconnected" -> a
        [] OTHER -> ScheduleReconnect(IF loser THEN [a EXCEPT !.cl.exc = @ \cup {"loser"}] ELSE a)

-----------------------------------------------------------------------------
(* Steps of the loop *)

CanMake == Len(conns) < MaxConns /\ cl.round < MaxRounds /\ cl.retries <= MaxRetries

Alive == ~cl.dead

\* start() by make_client(), and again by the user: without effect while a connection or an
\* attempt is there, but not while the client waits to reconnect.  A name that getaddrinfo
\* does not know leaves the client as it is.
InFlight == cl.conn # 0 \/ cl.resolving \/ cl.pending # << >> \/ cl.closing # << >>

StartClient ==
  /\ CanMake /\ ~InFlight /\ cl.retries < MaxRetries
  /\ LET w == [World EXCEPT !.cl.exc = (@ \ {"closed_connecting", "pool_full"}) \cup
                                       (IF cl.retries > 0 THEN {"restarted"} ELSE {})]
     IN  \/ /\ cl.target # "name"
            /\ \E n \in 1..(IF cl.target = "address" THEN 1 ELSE MaxAddrs), f \in Fails :
                 Become(BeginConnect([w EXCEPT !.cl.addrs = n], f))
         \/ cl.target = "name" /\ Become(SetState([w EXCEPT !.cl.resolving = TRUE], "Connecting"))

\* A failed resolution leaves addrs_ empty, as does one that succeeds with no address, and
\* reconnecting does not resolve again.
Resolved ==
  /\ cl.resolving /\ CanMake
  /\ LET w == [World EXCEPT !.cl.resolving = FALSE]
     IN  \/ Become(GiveUp(w))
         \/ \E n \in 0..MaxAddrs, f \in Fails : Become(BeginConnect([w EXCEPT !.cl.addrs = n], f))

\* the completion of a connect
AttemptConnects ==
  \E id \in DOMAIN conns :
    /\ conns[id].st = "Connecting"
    /\ LET w == [World EXCEPT !.conns[id].st = "Established"]
       IN  Become(IF conns[id].kind = "he" THEN HeWin(w, id) ELSE OnConnected(w))

AttemptFails ==
  \E id \in DOMAIN conns :
    conns[id].st = "Connecting" /\ Become(CloseConn(World, id, "ConnectFailed"))

\* The connection is lost, or closed by the user, whom conn() also hands one that is still
\* connecting: closed then, without auto_reconnect, it leaves the client in state Connecting.
ConnLost ==
  \E id \in DOMAIN conns :
    \/ conns[id].st = "Established" /\ Become(CloseConn(World, id, "Lost"))
    \/ /\ conns[id].st = "Connecting" /\ id = cl.conn
       /\ LET w == [World EXCEPT !.cl.exc = @ \cup (IF auto THEN {} ELSE {"closed_connecting"})]
          IN Become(CloseConn(w, id, "LocalClose"))

HeTimeout ==
  \E r \in cl.deadline :
    LET w == [World EXCEPT !.cl.deadline = @ \ {r}, !.cl.hnext = cl.hsize,
                           !.cl.exc = @ \cup (IF r # cl.round /\ cl.pending # << >>
                                              THEN {"old_deadline"} ELSE {})]
    IN  Become(CloseAll(w, cl.pending, "ConnectFailed"))

HeStagger ==
  \E r \in cl.stagger, f \in Fails :
    CanMake /\ Become(ArmStagger(HeLaunch([World EXCEPT !.cl.stagger = @ \ {r}], f)))

Reconnect ==
  /\ cl.retries > 0 /\ CanMake
  /\ \E f \in Fails : Become(BeginConnect([World EXCEPT !.cl.retries = @ - 1], f))

RunGone ==
  /\ gone # << >> /\ CanMake
  /\ \E f \in Fails :
       Become(ConnGone([World EXCEPT !.gone = Tail(@)], Head(gone).id, Head(gone).why, f))

\* co_await connect(*client): at once, or when the state settles; a cancelled wait is over
AwaitConnect ==
  /\ cl.waiter = "none" /\ cl.state \notin Settled
  /\ Become([World EXCEPT !.cl.waiter = "parked"])

CancelConnect ==
  /\ cl.waiter = "parked"
  /\ Become([World EXCEPT !.cl.waiter = "none"])

\* The destructor closes and frees every connection the client knows.  The loop is over: the
\* deferred notifications, the timers of every group and the answer of the resolver never
\* come, and a coroutine that waited was cancelled.
DestroyClient ==
  LET free == Elems(cl.pending) \cup Elems(cl.closing) \cup {cl.conn}
  IN  Become([World EXCEPT !.cl.dead = TRUE, !.cl.conn = 0, !.cl.pending = << >>,
                           !.cl.closing = << >>, !.cl.retries = 0, !.cl.resolving = FALSE,
                           !.cl.deadline = {}, !.cl.stagger = {}, !.cl.waiter = "none",
                           !.gone = << >>,
                           !.conns = [id \in DOMAIN @ |->
                             IF id \in free THEN [@[id] EXCEPT !.st = "Freed"] ELSE @[id]]])

ClientInit ==
  /\ \E target \in {"address", "name", "blocking"} : cl =
          [target |-> target, state |-> "Disconnected", conn |-> 0, pending |-> << >>, closing |-> << >>,
           addrs |-> 0, aidx |-> 0, hsize |-> 0, hnext |-> 0, won |-> FALSE,
           resolving |-> FALSE, retries |-> 0, round |-> 0, deadline |-> {}, stagger |-> {},
           waiter |-> "none", dead |-> FALSE, exc |-> {}]
  /\ he \in BOOLEAN /\ auto \in BOOLEAN
  /\ conns = << >> /\ gone = << >>

ClientNext ==
  /\ Alive
  /\ \/ StartClient \/ Resolved \/ AttemptConnects \/ AttemptFails \/ ConnLost \/ HeTimeout
     \/ HeStagger \/ Reconnect \/ RunGone \/ AwaitConnect
     \/ CancelConnect \/ DestroyClient

ClientSpec == ClientInit /\ [][ClientNext]_clientVars

-----------------------------------------------------------------------------
(* Properties *)

Open == {id \in DOMAIN conns : conns[id].st \in {"Connecting", "Established"}}

\* The first connect wins and the rest are torn down: there is one established connection,
\* and the client knows of every connection that is open, so none outlives it.  Not so after a race, where the
\* notification of a loser schedules a reconnect that replaces the winner, nor after a
\* start() while the client waited to reconnect.
OneConnection ==
  cl.exc \cap {"loser", "restarted"} = {} =>
    /\ Cardinality({id \in Open : conns[id].st = "Established"}) <= 1
    /\ Open \subseteq Elems(cl.pending) \cup {cl.conn}

\* A client that shall stay connected, and is not, has something coming that takes it
\* further: a resolution, an attempt, a notification or a reconnect timer.  Not so after a
\* start() while it waited to reconnect.
NeverStalls ==
  auto /\ Alive /\ "restarted" \notin cl.exc /\ (cl.addrs > 0 \/ cl.state # "Disconnected") =>
    Open # {} \/ cl.resolving \/ gone # << >> \/ cl.retries > 0

\* Connected means that there is a connection, or word of its end on the way.  Not so
\* without auto_reconnect, where nothing leaves the state Connected, nor after a
\* start() while the client waited to reconnect.
ClientStateHonest ==
  cl.state = "Connected" /\ Alive /\ auto /\ "restarted" \notin cl.exc =>
    cl.conn # 0 /\ (conns[cl.conn].st = "Established" \/ \E i \in DOMAIN gone : gone[i].id = cl.conn)

\* A coroutine that awaits the connection is resumed: while it is parked something is
\* coming that settles the state, with or without auto_reconnect.  Not so when a sequential
\* attempt fails after an earlier race, whose addresses are still there, nor when the user
\* closes the connection before it is made, or the pool has no room for the next one, and
\* nothing reconnects it.
ConnectWaiterWakes ==
  cl.waiter = "parked" /\ Alive /\ cl.exc \cap {"old_race", "closed_connecting", "pool_full"} = {} =>
    /\ cl.state \notin Settled
    /\ Open # {} \/ cl.resolving \/ gone # << >> \/ cl.retries > 0

\* The client has the one connection it says it has (on_connected, he_win, on_conn_gone).
ClientSound == OneConnection /\ ClientStateHonest

\* The client and whoever awaits it get on (start, connect_next, he_attempt_done,
\* schedule_reconnect).
ClientGoesOn == NeverStalls /\ ConnectWaiterWakes
=============================================================================
