--------------------------- MODULE DecodedPacket ----------------------------
(***************************************************************************)
(* What the decoder hands to everything above it (decode/model.rs,         *)
(* decode/mod.rs): which layers of a packet were understood and why        *)
(* decoding went no further.  The flow table relies on nothing else, so    *)
(* this is the contract between the two.                                   *)
(***************************************************************************)

(* The possible answers of decode().  ARP is the whole packet; a transport *)
(* layer is only found above IP, and then nothing stopped the decoder; an  *)
(* IP header without one comes with a reason.                              *)
Shape ==
  [network: {"None"}, transport: {"None"}, stopped: {"Other"}]
    \cup [network: {"Arp"}, transport: {"None"}, stopped: {"None"}]
    \cup [network: {"Ipv4", "Ipv6"}, transport: {"Tcp", "Udp", "Icmp"},
          stopped: {"None"}]
    \cup [network: {"Ipv4", "Ipv6"}, transport: {"None"},
          stopped: {"NonInitialFragment", "UnsupportedProtocol", "Other"}]
=============================================================================
