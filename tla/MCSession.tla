----------------------------- MODULE MCSession ------------------------------
(***************************************************************************)
(* Session on two conversations that compete for a table of one, with and  *)
(* without a limit of one packet.                                          *)
(***************************************************************************)
EXTENDS Session

MCAddress == {1, 2}
MCPort == {53}

Host(n) == [address |-> n, port |-> 53]

Pkt(transport, source, destination, seconds) ==
  [shape |-> [network |-> "Ipv4", transport |-> transport, stopped |-> "None"],
   source |-> Host(source), destination |-> Host(destination), flags |-> {},
   timestamp |-> from_parts(seconds, 0), caplen |-> 1, wirelen |-> 2]

MCPackets == {Pkt("Udp", 1, 2, 0), Pkt("Tcp", 2, 1, 0), Pkt("Icmp", 1, 2, 0)}

MCLimits == {{}, {1}}
=============================================================================
