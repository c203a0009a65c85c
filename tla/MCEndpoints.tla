----------------------------- MODULE MCEndpoints -----------------------------
(***************************************************************************)
(* What sits at the ends of a connection, on small instances: the TCP      *)
(* client, the resolver, the UDP socket and the simulated network.  They   *)
(* share no state here, so a behaviour moves one of them, its part, while  *)
(* the others rest.                                                        *)
(***************************************************************************)
EXTENDS TcpClient, Resolver, UdpSocket, SimNet

VARIABLE part

\* connections and sends of a behaviour of the simulated network
MCBudgets == {[conns |-> 1, sends |-> 2], [conns |-> 2, sends |-> 1]}

\* a datagram of three messages, and one whose only message is cut off
MCDgramKinds == {[frames |-> 3, tail |-> "ok"], [frames |-> 1, tail |-> "bad"]}

ClientRests == ClientInit /\ cl.target = "address" /\ ~he /\ ~auto
DnsRests == DnsInit
UdpRests == UdpInit /\ udp.mode = "none"
SimRests == SimInit /\ sim.budget.conns = 1

EndpointsInit ==
  \/ part = "client" /\ ClientInit /\ DnsRests /\ UdpRests /\ SimRests
  \/ part = "dns" /\ DnsInit /\ ClientRests /\ UdpRests /\ SimRests
  \/ part = "udp" /\ UdpInit /\ ClientRests /\ DnsRests /\ SimRests
  \/ part = "sim" /\ SimInit /\ ClientRests /\ DnsRests /\ UdpRests

EndpointsNext ==
  /\ UNCHANGED part
  /\ \/ part = "client" /\ ClientNext /\ UNCHANGED <<dns, udp, sim>>
     \/ part = "dns" /\ DnsNext /\ UNCHANGED <<clientVars, udp, sim>>
     \/ part = "udp" /\ UdpNext /\ UNCHANGED <<clientVars, dns, sim>>
     \/ part = "sim" /\ SimNext /\ UNCHANGED <<clientVars, dns, udp>>

EndpointsSpec == EndpointsInit /\ [][EndpointsNext]_<<part, clientVars, dns, udp, sim>>
=============================================================================
