---------------------------- MODULE MCFlowTable -----------------------------
(***************************************************************************)
(* FlowTable on a handful of packets chosen so that conversations compete  *)
(* for the table, come from both ends, share first timestamps and carry    *)
(* timestamps that are out of order or outside their second.               *)
(***************************************************************************)
EXTENDS FlowReport

MCAddress == 1 .. 3
MCPort == {53, 443}

Host(n, port) == [address |-> n, port |-> port]

Ip(transport, stopped) ==
  [network |-> "Ipv4", transport |-> transport, stopped |-> stopped]

NotIp(network, stopped) ==
  [network |-> network, transport |-> "None", stopped |-> stopped]

Pkt(shape, source, destination, flags, t, lengths) ==
  [shape |-> shape, source |-> source, destination |-> destination, flags |-> flags,
   timestamp |-> t, caplen |-> lengths[1], wirelen |-> lengths[2]]

Tcp == Ip("Tcp", "None")
Udp == Ip("Udp", "None")

(* Two seconds of two microseconds; <<0, 3>> is not inside its second.     *)
T(seconds, microseconds) == from_parts(seconds, microseconds)

Conversing == {
  Pkt(Tcp, Host(1, 443), Host(2, 443), {"SYN"}, T(1, 0), <<1, 2>>),
  Pkt(Tcp, Host(2, 443), Host(1, 443), {"SYN", "ACK"}, T(0, 1), <<1, 1>>),
  Pkt(Tcp, Host(1, 443), Host(2, 443), {"FIN", "ACK"}, T(0, 3), <<2, 2>>),
  Pkt(Tcp, Host(2, 53), Host(2, 443), {"RST"}, T(0, 1), <<1, 1>>),
  Pkt(Udp, Host(1, 443), Host(2, 443), {}, T(0, 1), <<1, 2>>),
  Pkt(Udp, Host(2, 443), Host(1, 443), {}, T(1, 1), <<1, 1>>),
  Pkt(Udp, Host(3, 53), Host(3, 53), {}, T(1, 0), <<1, 1>>) }

LeftOutPackets == {
  Pkt(shape, Host(1, 53), Host(2, 53), {}, T(0, 0), <<1, 1>>) :
    shape \in {NotIp("Arp", "None"), NotIp("None", "Other"), Ip("Icmp", "None"),
               Ip("None", "NonInitialFragment"), Ip("None", "UnsupportedProtocol"),
               Ip("None", "Other")} }

MCPackets == Conversing \cup LeftOutPackets
=============================================================================
