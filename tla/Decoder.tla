------------------------------ MODULE Decoder -------------------------------
(***************************************************************************)
(* The packet decoder (decode/mod.rs, link.rs, net.rs, transport.rs over   *)
(* the cursor of bytes.rs): one step per header, from the link layer       *)
(* through VLAN tags, IP, the IPv6 extension chain and the transport       *)
(* header.                                                                 *)
(*                                                                         *)
(* decode() is pure, so what there is to say about it relates two calls.   *)
(* Two readers decode the SAME frame in step: one has all of it, the other *)
(* only the bytes a snapshot length kept.  The frame is chosen as it is    *)
(* read: a step picks what the bytes at the current offset say when they   *)
(* are read as the header expected there, and both readers see that.  A    *)
(* byte is read as part of one header only, so no choice is made twice.    *)
(***************************************************************************)
EXTENDS Integers, DecodedPacket

CONSTANTS
  CapLengths,         \* how many bytes of the frame may have been captured
  LinkHeaders,        \* what a link header or a VLAN tag may say
  Ipv4Headers,        \* ... and an IPv4 header,
  Ipv6Headers,        \* an IPv6 header,
  ArpPackets,         \* an ARP packet,
  ExtensionHeaders,   \* an IPv6 extension header,
  TransportHeaders    \* and a TCP, UDP or ICMP header

MAX_VLAN_TAGS == 2
MAX_EXTENSION_HEADERS == 8

LinkLayer == {"Ethernet", "LinuxSll", "LinuxSll2", "Unsupported"}

EtherType == {"Ipv4", "Arp", "Ipv6", "Vlan", "VlanQinQ", "Length", "Other"}

is_vlan(ether_type) == ether_type \in {"Vlan", "VlanQinQ"}

IpProtocol ==
  {"HopByHop", "Icmp", "Tcp", "Udp", "Ipv6Route", "Ipv6Fragment", "Esp",
   "AuthHeader", "Icmpv6", "NoNextHeader", "Ipv6DestOpts", "Mobility", "Other"}

(* The headers whose first two bytes are the next header and a length in   *)
(* 8-octet units, and every header the walk knows how to step over.        *)
UnitsOfEight == {"HopByHop", "Ipv6Route", "Ipv6DestOpts", "Mobility"}

Followed == UnitsOfEight \cup {"Ipv6Fragment", "AuthHeader"}

(* The fields the decoder decides by, in the widths they have on the wire. *)
Nibble == 0 .. 15
u8 == 0 .. 255
u13 == 0 .. 8191
u16 == 0 .. 65535

LinkHeader == [ether_type: EtherType]

Ipv4Header ==
  [version: Nibble, ihl: Nibble, total_len: u16,
   fragment_offset: u13, protocol: IpProtocol]

Ipv6Header == [version: Nibble, next: IpProtocol]

ArpPacket == [is_ethernet_ipv4: BOOLEAN]

ExtensionHeader == [units: u8, fragment_offset: u13, next: IpProtocol]

TransportHeader == [data_offset: Nibble, length: u16]

ASSUME DecoderAssumption ==
  /\ CapLengths \subseteq Nat
  /\ LinkHeaders \subseteq LinkHeader
  /\ Ipv4Headers \subseteq Ipv4Header
  /\ Ipv6Headers \subseteq Ipv6Header
  /\ ArpPackets \subseteq ArpPacket
  /\ ExtensionHeaders \subseteq ExtensionHeader
  /\ TransportHeaders \subseteq TransportHeader

-----------------------------------------------------------------------------
(* One decoding in progress                                                *)

Layer == {"Link", "Network", "Transport"}

(* DecodeStop; the layer is kept for the two variants that have one.       *)
DecodeStop ==
  [kind: {"Truncated", "Malformed"}, layer: Layer]
    \cup [kind: {"None", "UnsupportedLinkType", "UnsupportedEtherType",
                 "UnsupportedProtocol", "NonInitialFragment",
                 "UnsupportedExtensionHeader"},
          layer: {"None"}]

Because(kind) == [kind |-> kind, layer |-> "None"]
Truncated(layer) == [kind |-> "Truncated", layer |-> layer]
Malformed(layer) == [kind |-> "Malformed", layer |-> layer]

(* `next' is what the bytes at `offset' are to be read as; vlan_tags and   *)
(* walked count the tags and the extension headers already read, and       *)
(* non_initial_fragment is what an IP header said of itself.               *)
Decoding ==
  [stage: {"Link", "Vlan", "Network", "Extension", "Transport", "Done"},
   offset: Nat, next: EtherType \cup IpProtocol,
   vlan_tags: 0 .. MAX_VLAN_TAGS, walked: 0 .. MAX_EXTENSION_HEADERS,
   non_initial_fragment: BOOLEAN,
   link: {"None", "Ethernet", "LinuxSll"}, network: {"None", "Ipv4", "Ipv6", "Arp"},
   transport: {"None", "Tcp", "Udp", "Icmp"}, stopped: DecodeStop]

Fresh ==
  [stage |-> "Link", offset |-> 0, next |-> "Other", vlan_tags |-> 0, walked |-> 0,
   non_initial_fragment |-> FALSE, link |-> "None", network |-> "None",
   transport |-> "None", stopped |-> Because("None")]

Stop(d, stop) == [d EXCEPT !.stage = "Done", !.stopped = stop]

(* ByteReader: bytes are only ever handed out when they are all there.     *)
remaining(d, len) == len - d.offset
has(d, len, count) == remaining(d, len) >= count

-----------------------------------------------------------------------------
(* Going from one layer to the next (decode/mod.rs)                        *)

(* decode_above_link                                                       *)
AboveLink(d) ==
  IF d.next \in {"Ipv4", "Ipv6", "Arp"} THEN [d EXCEPT !.stage = "Network"]
  ELSE Stop(d, Because("UnsupportedEtherType"))

(* Mutant: a protocol nobody decodes is no reason to report.               *)
AboveNetwork_SilentlyDone(d) ==
  IF d.next \in {"Tcp", "Udp", "Icmp", "Icmpv6"} THEN [d EXCEPT !.stage = "Transport"]
  ELSE Stop(d, Because("None"))

(* decode_above_network, for a payload there is something to decode in.    *)
AboveNetwork(d) ==
  IF d.next \in {"Tcp", "Udp", "Icmp", "Icmpv6"} THEN [d EXCEPT !.stage = "Transport"]
  ELSE Stop(d, Because("UnsupportedProtocol"))

-----------------------------------------------------------------------------
(* Link layer (decode/link.rs)                                             *)

link_header_len(link_layer) ==
  IF link_layer = "Ethernet" THEN 14 ELSE IF link_layer = "LinuxSll" THEN 16 ELSE 20

(* Mutant: tags are followed as long as there are any.                     *)
EthernetFrame_Unbounded(d) ==
  IF is_vlan(d.next) THEN [d EXCEPT !.stage = "Vlan"]
  ELSE AboveLink([d EXCEPT !.link = "Ethernet"])

(* The loop over tags goes round while there is a tag and room for one.    *)
EthernetFrame(d) ==
  IF is_vlan(d.next) /\ d.vlan_tags < MAX_VLAN_TAGS
    THEN [d EXCEPT !.stage = "Vlan"]
    ELSE AboveLink([d EXCEPT !.link = "Ethernet"])

decode_link(link_layer, d, len, h) ==
  LET n == link_header_len(link_layer)
      e == [d EXCEPT !.offset = @ + n, !.next = h.ether_type]
  IN  IF link_layer = "Unsupported" THEN Stop(d, Because("UnsupportedLinkType"))
      ELSE IF ~ has(d, len, n) THEN Stop(d, Truncated("Link"))
      ELSE IF link_layer = "Ethernet" THEN EthernetFrame(e)
      ELSE AboveLink([e EXCEPT !.link = "LinuxSll"])

(* A tag that is cut loses the whole Ethernet frame.                       *)
vlan_tag(d, len, h) ==
  IF ~ has(d, len, 4) THEN Stop(d, Truncated("Link"))
  ELSE EthernetFrame([d EXCEPT !.offset = @ + 4, !.next = h.ether_type, !.vlan_tags = @ + 1])

-----------------------------------------------------------------------------
(* Network layer (decode/net.rs)                                           *)

IPV4_MIN_HEADER_LEN == 20

(* Mutant: the second fragment passes for the first.                       *)
is_non_initial_fragment_OffByOne(h) == h.fragment_offset > 1

is_non_initial_fragment(h) == h.fragment_offset > 0

(* The first byte is judged before the rest is read; the total length      *)
(* only after the options, and not at all when it is 0.                    *)
decode_ipv4(d, len, h) ==
  LET header_len == h.ihl * 4
      e == [d EXCEPT !.offset = @ + header_len, !.next = h.protocol, !.network = "Ipv4",
                     !.non_initial_fragment = h.fragment_offset > 0]
  IN  IF ~ has(d, len, 1) THEN Stop(d, Truncated("Network"))
      ELSE IF h.version # 4 \/ header_len < IPV4_MIN_HEADER_LEN
        THEN Stop(d, Malformed("Network"))
      ELSE IF ~ has(d, len, header_len) THEN Stop(d, Truncated("Network"))
      ELSE IF h.total_len # 0 /\ h.total_len < header_len
        THEN Stop(d, Malformed("Network"))
      ELSE IF is_non_initial_fragment(h) THEN Stop(e, Because("NonInitialFragment"))
      ELSE AboveNetwork(e)

(* The top of the loop in walk_extension_headers.  After eight headers it  *)
(* gives up whatever comes next, a transport header included.              *)
ExtensionChain(d) ==
  IF d.walked = MAX_EXTENSION_HEADERS THEN Stop(d, Because("UnsupportedExtensionHeader"))
  ELSE IF d.next \notin Followed THEN AboveNetwork(d)
  ELSE [d EXCEPT !.stage = "Extension"]

(* The IPv6 header is reported however the walk over its chain ends.       *)
decode_ipv6(d, len, h) ==
  IF ~ has(d, len, 4) THEN Stop(d, Truncated("Network"))
  ELSE IF h.version # 6 THEN Stop(d, Malformed("Network"))
  ELSE IF ~ has(d, len, 40) THEN Stop(d, Truncated("Network"))
  ELSE ExtensionChain([d EXCEPT !.offset = @ + 40, !.next = h.next, !.network = "Ipv6"])

decode_arp(d, len, h) ==
  IF ~ has(d, len, IF h.is_ethernet_ipv4 THEN 28 ELSE 8)
    THEN Stop(d, Truncated("Network"))
    ELSE Stop([d EXCEPT !.network = "Arp"], Because("None"))

extension_len(protocol, h) ==
  IF protocol \in UnitsOfEight THEN (h.units + 1) * 8
  ELSE IF protocol = "AuthHeader" THEN (h.units + 2) * 4
  ELSE 8

After(d, h) ==
  [d EXCEPT !.offset = @ + extension_len(d.next, h), !.next = h.next, !.walked = @ + 1,
            !.non_initial_fragment = d.next = "Ipv6Fragment" /\ h.fragment_offset # 0]

SteppedOver(d) ==
  IF d.non_initial_fragment THEN Stop(d, Because("NonInitialFragment"))
  ELSE ExtensionChain(d)

(* Mutants: a cut header ends the walk like any other; only the part every *)
(* header has is asked for.                                                *)
extension_header_CutEndsWalk(d, len, h) ==
  IF ~ has(d, len, extension_len(d.next, h)) THEN AboveNetwork([d EXCEPT !.next = h.next])
  ELSE SteppedOver(After(d, h))

extension_header_FixedPart(d, len, h) ==
  IF ~ has(d, len, 8) THEN Stop(d, Truncated("Network"))
  ELSE SteppedOver(After(d, h))

(* One round of the loop.  The length byte is peeked at first, but a       *)
(* header of which only that much is there is cut all the same.            *)
extension_header(d, len, h) ==
  IF ~ has(d, len, extension_len(d.next, h)) THEN Stop(d, Truncated("Network"))
  ELSE SteppedOver(After(d, h))

-----------------------------------------------------------------------------
(* Transport layer (decode/transport.rs)                                   *)

TCP_MIN_HEADER_LEN == 20

Found(d, layer) == Stop([d EXCEPT !.transport = layer], Because("None"))

decode_tcp(d, len, h) ==
  LET header_len == h.data_offset * 4
  IN  IF ~ has(d, len, TCP_MIN_HEADER_LEN) THEN Stop(d, Truncated("Transport"))
      ELSE IF header_len < TCP_MIN_HEADER_LEN THEN Stop(d, Malformed("Transport"))
      ELSE IF ~ has(d, len, header_len) THEN Stop(d, Truncated("Transport"))
      ELSE Found([d EXCEPT !.offset = @ + header_len], "Tcp")

decode_udp(d, len, h) ==
  IF ~ has(d, len, 8) THEN Stop(d, Truncated("Transport"))
  ELSE IF h.length < 8 THEN Stop(d, Malformed("Transport"))
  ELSE Found([d EXCEPT !.offset = @ + 8], "Udp")

decode_icmp(d, len) ==
  IF ~ has(d, len, 4) THEN Stop(d, Truncated("Transport"))
  ELSE Found([d EXCEPT !.offset = @ + 4], "Icmp")

decode_transport(d, len, h) ==
  IF d.next = "Tcp" THEN decode_tcp(d, len, h)
  ELSE IF d.next = "Udp" THEN decode_udp(d, len, h)
  ELSE decode_icmp(d, len)

-----------------------------------------------------------------------------
VARIABLES
  link_layer,   \* LinkLayer::from_dlt of the capture
  caplen,       \* how many bytes of the frame each reader was given
  decoding      \* how far each reader has got

vars == <<link_layer, caplen, decoding>>

Reader == {"whole", "cut"}

Init ==
  /\ link_layer \in LinkLayer
  /\ caplen \in {c \in [Reader -> CapLengths] : c["cut"] <= c["whole"]}
  /\ decoding = [r \in Reader |-> Fresh]

(* A step concerns the readers expecting that kind of header.              *)
Expecting(stage, next) ==
  {r \in Reader : decoding[r].stage = stage /\ decoding[r].next \in next}

Decode(readers, result) ==
  /\ readers # {}
  /\ decoding' = [r \in Reader |-> IF r \in readers THEN result[r] ELSE decoding[r]]
  /\ UNCHANGED <<link_layer, caplen>>

Anything == EtherType \cup IpProtocol

ReadLink ==
  \E h \in LinkHeaders :
    Decode(Expecting("Link", Anything),
           [r \in Reader |-> decode_link(link_layer, decoding[r], caplen[r], h)])

ReadVlanTag ==
  \E h \in LinkHeaders :
    Decode(Expecting("Vlan", Anything),
           [r \in Reader |-> vlan_tag(decoding[r], caplen[r], h)])

ReadIpv4 ==
  \E h \in Ipv4Headers :
    Decode(Expecting("Network", {"Ipv4"}),
           [r \in Reader |-> decode_ipv4(decoding[r], caplen[r], h)])

ReadIpv6 ==
  \E h \in Ipv6Headers :
    Decode(Expecting("Network", {"Ipv6"}),
           [r \in Reader |-> decode_ipv6(decoding[r], caplen[r], h)])

ReadArp ==
  \E h \in ArpPackets :
    Decode(Expecting("Network", {"Arp"}),
           [r \in Reader |-> decode_arp(decoding[r], caplen[r], h)])

ReadExtension ==
  \E h \in ExtensionHeaders :
    Decode(Expecting("Extension", Followed),
           [r \in Reader |-> extension_header(decoding[r], caplen[r], h)])

ReadTransport ==
  \E h \in TransportHeaders :
    Decode(Expecting("Transport", Anything),
           [r \in Reader |-> decode_transport(decoding[r], caplen[r], h)])

Next ==
  \/ ReadLink \/ ReadVlanTag
  \/ ReadIpv4 \/ ReadIpv6 \/ ReadArp \/ ReadExtension
  \/ ReadTransport

Spec == Init /\ [][Next]_vars

-----------------------------------------------------------------------------
(* What decoding must satisfy                                              *)

Done(r) == decoding[r].stage = "Done"

shape(d) ==
  [network |-> d.network, transport |-> d.transport,
   stopped |-> IF d.stopped.kind \in {"None", "NonInitialFragment", "UnsupportedProtocol"}
                 THEN d.stopped.kind ELSE "Other"]

(* The type invariant.  It bounds the loops: at most two tags and eight    *)
(* extension headers are read of any frame, however long.                  *)
TypeOK ==
  /\ link_layer \in LinkLayer
  /\ caplen \in [Reader -> CapLengths]
  /\ decoding \in [Reader -> Decoding]

(* decode() never answers outside the contract the flow table relies on:   *)
(* above all, no transport layer next to a reason for having stopped, and  *)
(* no IP header alone without one.                                         *)
AnswersAreShapes == \A r \in Reader : Done(r) => shape(decoding[r]) \in Shape

(* The layers in their order, and those a reader found.                    *)
SameSoFar(d, e) ==
  /\ d.link # "None" => d.link = e.link
  /\ d.network # "None" => d.network = e.network
  /\ d.transport # "None" => d.transport = e.transport

(* A snapshot length may hide a packet's upper layers and never changes    *)
(* what it is taken for: the cut frame is decoded exactly as the whole one *)
(* is, or is reported truncated with no layer the whole one does not have. *)
(* (UDP's captured_payload_len, a count of the bytes that are there, is    *)
(* left out of the model: it is meant to differ.)                          *)
CutFramesNeverMislead ==
  Done("whole") /\ Done("cut") /\ decoding["cut"] # decoding["whole"] =>
     /\ decoding["cut"].stopped.kind = "Truncated"
     /\ decoding["cut"].transport = "None"
     /\ SameSoFar(decoding["cut"], decoding["whole"])

(* Every byte a header was read from had been captured, whatever lengths   *)
(* the headers declare.                                                    *)
NothingReadPastTheEnd == \A r \in Reader : decoding[r].offset <= caplen[r]

LaterFragment(d) ==
  d.non_initial_fragment =>
    d.transport = "None" /\ d.stopped.kind = "NonInitialFragment"

(* A fragment other than the first has no transport header, in IPv4 and    *)
(* behind an IPv6 fragment header alike: none is invented for it.          *)
LaterFragmentsCarryNoTransport == \A r \in Reader : LaterFragment(decoding[r])

MissingLayer(d) ==
  /\ d.stopped.layer = "Link" <=>
        d.stage = "Done" /\ d.link = "None" /\ link_layer # "Unsupported"
  /\ d.stopped.layer = "Network" =>
        /\ d.link # "None" /\ d.transport = "None"
        /\ d.network = "None" \/ (d.network = "Ipv6" /\ d.stopped = Truncated("Network"))
  /\ d.stopped.layer = "Transport" =>
        d.network \in {"Ipv4", "Ipv6"} /\ d.transport = "None"

(* A stop that names a layer names the first one that is missing; only a   *)
(* cut extension header is charged to the network layer although the IPv6  *)
(* header itself is there.                                                 *)
StopNamesTheMissingLayer == \A r \in Reader : MissingLayer(decoding[r])

(* net.rs: anything that is not stepped over, "ESP's encrypted payload, an *)
(* unknown number", ends the walk with UnsupportedExtensionHeader.         *)
EspEndsTheWalkAsDocumented ==
  \A r \in Reader :
    Done(r) /\ decoding[r].network = "Ipv6" /\ decoding[r].next = "Esp"
            /\ ~ decoding[r].non_initial_fragment
      => decoding[r].stopped = Because("UnsupportedExtensionHeader")
=============================================================================
