------------------------------ MODULE UdpSocket ------------------------------
(***************************************************************************)
(* UdpSocket<P, EM> of include/afx/net/udp_socket.hpp: a bound socket      *)
(* watched for reading, edge-triggered, whose datagrams are received in    *)
(* batches (src/net/udp.cpp), cut into messages and handed to callbacks.   *)
(*                                                                         *)
(* udp is the socket:                                                      *)
(*   mode          the handlers given: "datagram", "messages" or "none"    *)
(*   open, watch   fd_ >= 0; watch_.valid()                                *)
(*   queue, err    the kernel's queue, and an error it holds for the next  *)
(*                 receive                                                 *)
(*   edge          readiness the watch has not reported yet                *)
(*   at            "idle", or in on_readable(): "recv" or "deliver"        *)
(*   rx, short     rx_, what is left of the batch; it was not full         *)
(*   calls         callbacks that are left for the datagram at hand        *)
(*   came, said    history: datagrams queued by the kernel; callbacks made *)
(*   exc           history of what may excuse a property                   *)
(* A datagram is a number of whole frames and what follows them, "ok" (the *)
(* end), or "bad": bytes that are no frame, or part of one.                *)
(***************************************************************************)
EXTENDS Integers, SequencesExt

CONSTANTS RecvBatch,    \* cfg_.recv_batch
          MsgCap,       \* msgs_.capacity()
          DgramKinds,   \* datagrams that may come
          MaxDgrams     \* bound: datagrams that come

VARIABLE udp

udpVars == <<udp>>

UdpInit ==
  \E mode \in {"datagram", "messages", "none"} :
    udp = [mode |-> mode, open |-> FALSE, watch |-> FALSE, queue |-> << >>, err |-> FALSE, edge |-> FALSE,
           at |-> "new", rx |-> << >>, short |-> FALSE, calls |-> << >>, came |-> << >>, said |-> << >>, exc |-> {}]

CallOf(d, what, n) == [id |-> d.id, what |-> what, n |-> n]

\* deliver(): frames in batches of MsgCap, the error as it is met, then the last batch
Calls(d) ==
  CASE udp.mode = "datagram" -> << CallOf(d, "datagram", d.frames) >>
    [] udp.mode = "none" -> << >>
    [] udp.mode = "messages" ->
         [k \in 1 .. d.frames \div MsgCap |-> CallOf(d, "messages", MsgCap)]
           \o (IF d.tail = "ok" THEN << >> ELSE << CallOf(d, "error", 0) >>)
           \o (IF d.frames % MsgCap = 0 THEN << >> ELSE << CallOf(d, "messages", d.frames % MsgCap) >>)

CallsOf(ds) == FlattenSeq([k \in DOMAIN ds |-> Calls(ds[k])])

\* make_udp() and open(): the socket is bound, then watched; either may fail
Watch(ok) ==
  /\ udp.at = "new"
  /\ udp' = [udp EXCEPT !.at = "idle", !.open = ok, !.watch = ok]

\* close(): unwatch, then give the descriptor back with what the kernel has queued
Close(u) == [u EXCEPT !.watch = FALSE, !.open = FALSE, !.edge = FALSE, !.queue = << >>, !.err = FALSE]

UdpClose ==
  /\ udp.at = "idle" /\ udp.open
  /\ udp' = Close(udp)

\* the watch reports, and on_readable() begins; an edge that came first is reported again
OnReadable ==
  /\ udp.at = "idle" /\ udp.watch /\ udp.edge
  /\ udp' = [udp EXCEPT !.at = "recv", !.edge = FALSE]

\* what the code would be if a full batch were taken for the end
RecvDatagramsOnce ==
  /\ udp.at = "recv"
  /\ LET n == IF Len(udp.queue) < RecvBatch THEN Len(udp.queue) ELSE RecvBatch
     IN udp' = IF n = 0 THEN [udp EXCEPT !.at = "idle"]
               ELSE [udp EXCEPT !.at = "deliver", !.short = TRUE, !.rx = SubSeq(udp.queue, 1, n),
                                !.queue = SubSeq(@, n + 1, Len(@))]

\* recv_datagrams(): an error (of fd_ -1, if a callback closed it), nothing, or a batch
RecvDatagrams ==
  /\ udp.at = "recv"
  /\ LET n == IF Len(udp.queue) < RecvBatch THEN Len(udp.queue) ELSE RecvBatch
         back == [udp EXCEPT !.at = "idle"]
     IN udp' = IF ~udp.open THEN back
               ELSE IF udp.err
               THEN [back EXCEPT !.err = FALSE, !.exc = IF udp.queue # << >> THEN @ \cup {"error_stops"} ELSE @]
               ELSE IF n = 0 THEN back
               ELSE [udp EXCEPT !.at = "deliver", !.short = n < RecvBatch, !.rx = SubSeq(udp.queue, 1, n),
                                !.queue = SubSeq(@, n + 1, Len(@))]

\* the next datagram of the batch; after the last one of a full batch, receive again
Deliver ==
  /\ udp.at = "deliver" /\ udp.calls = << >>
  /\ udp' = IF udp.rx # << >> THEN [udp EXCEPT !.calls = Calls(Head(udp.rx)), !.rx = Tail(@)]
            ELSE [udp EXCEPT !.at = IF udp.short THEN "idle" ELSE "recv"]

\* a callback runs; it may close the socket
Callback(closes) ==
  /\ udp.at = "deliver" /\ udp.calls # << >>
  /\ closes => udp.open
  /\ LET u == [udp EXCEPT !.calls = Tail(@), !.said = Append(@, Head(udp.calls))]
     IN udp' = IF closes THEN Close(u) ELSE u

\* the network: a datagram, or an error reported by a peer
Comes(kind) ==
  /\ udp.open /\ Len(udp.came) < MaxDgrams
  /\ LET d == [id |-> Len(udp.came) + 1, frames |-> kind.frames, tail |-> kind.tail]
     IN udp' = [udp EXCEPT !.came = Append(@, d), !.queue = Append(@, d), !.edge = TRUE]

ErrorComes ==
  /\ udp.open /\ ~udp.err
  /\ udp' = [udp EXCEPT !.err = TRUE, !.edge = TRUE]

UdpNext ==
  \/ \E ok \in BOOLEAN : Watch(ok)
  \/ UdpClose \/ OnReadable \/ RecvDatagrams \/ Deliver \/ ErrorComes
  \/ \E closes \in BOOLEAN : Callback(closes)
  \/ \E kind \in DgramKinds : Comes(kind)

UdpSpec == UdpInit /\ [][UdpNext]_udpVars

-----------------------------------------------------------------------------
(* Properties *)

\* The callbacks made and to be made are those of the datagrams that came, in the order
\* they came, each once, whatever the batches and whoever closes the socket meanwhile; and
\* an open socket with datagrams queued is about to look at them, although its readiness
\* is reported by edges, but for an error that ended a drain (on_readable, deliver).
UdpDelivers ==
  LET all == CallsOf(udp.came)
      mine == udp.said \o udp.calls \o CallsOf(udp.rx) \o CallsOf(udp.queue)
  IN /\ IF udp.open THEN mine = all ELSE IsPrefix(mine, all)
     /\ udp.open /\ udp.queue # << >> =>
          udp.edge \/ (udp.at # "idle" /\ ~udp.short) \/ udp.at = "recv" \/ "error_stops" \in udp.exc
=============================================================================
