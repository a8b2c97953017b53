----------------------------- MODULE MCDecoder ------------------------------
(***************************************************************************)
(* Decoder on frames with every header at its real size: cut in every kind *)
(* of place, with VLAN tags beyond the limit, IPv6 chains up to and beyond *)
(* eight headers of all three lengths, and fields that contradict each     *)
(* other.                                                                  *)
(***************************************************************************)
EXTENDS PacketLine

(* Around the ends of the link headers (14, 16, 18, 20, 22), inside and at *)
(* the end of an IPv4 header with and without options and a transport      *)
(* header, and along IPv6 chains of one header and of eight and more.      *)
MCCapLengths ==
  {0, 13, 14, 15, 17, 19, 21, 22, 33, 38, 42, 45, 58, 70, 80, 122, 150}

MCLinkHeaders ==
  [ether_type: {"Ipv4", "Arp", "Ipv6", "Vlan", "Length"}]

Ipv4(version, ihl, total_len, fragment_offset, protocol) ==
  [version |-> version, ihl |-> ihl, total_len |-> total_len,
   fragment_offset |-> fragment_offset, protocol |-> protocol]

(* Other's version, too short a header, shorter in all than its header, no *)
(* total length (segmentation offload), a later fragment, options.         *)
MCIpv4Headers ==
  {Ipv4(6, 5, 40, 0, "Tcp"), Ipv4(4, 4, 40, 0, "Udp"), Ipv4(4, 6, 23, 0, "Tcp"),
   Ipv4(4, 5, 0, 0, "Udp"), Ipv4(4, 5, 40, 1, "Tcp"), Ipv4(4, 6, 44, 0, "Tcp"),
   Ipv4(4, 5, 40, 0, "Icmp"), Ipv4(4, 5, 40, 0, "Ipv6Fragment")}

MCIpv6Headers ==
  [version: {6}, next: {"HopByHop", "Ipv6Fragment", "AuthHeader", "Udp", "Esp"}]
    \cup [version: {4}, next: {"Udp"}]

MCArpPackets == ArpPacket

(* A Hop-by-Hop header of 8 or 16 bytes, an Authentication Header of 8 or  *)
(* 12, a Fragment header of a first or a later fragment.                   *)
MCExtensionHeaders ==
  [units: {0, 1}, fragment_offset: {0, 1},
   next: {"HopByHop", "Ipv6Fragment", "AuthHeader", "Tcp", "Icmpv6", "Esp", "NoNextHeader"}]

MCTransportHeaders ==
  [data_offset: {4, 5, 6}, length: {7, 8}]
=============================================================================
