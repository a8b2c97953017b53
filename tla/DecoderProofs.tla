---------------------------- MODULE DecoderProofs ----------------------------
(***************************************************************************)
(* Proofs about the decoder and the line printed for a packet, for frames  *)
(* of any length, headers with any contents and a capture cut anywhere.    *)
(*                                                                         *)
(* Two facts about single decodings carry them.  Progress says which       *)
(* layers a decoding has at each of its stages; every decode_... operator  *)
(* keeps it, never moves past the captured bytes and never takes back a    *)
(* layer (Advances).  And no operator lets a shorter capture matter in any *)
(* way but one: the result is the same, or it is the same decoding stopped *)
(* as truncated (CutShort).                                                *)
(***************************************************************************)
EXTENDS PacketLine, TLAPS

(* The reasons that go with finding no link header, and only with that.    *)
LinkReasons(d) ==
  /\ d.stage = "Done" /\ d.link = "None" =>
       d.stopped.kind \in {"Truncated", "Malformed", "UnsupportedLinkType"}
  /\ d.stopped.kind = "UnsupportedLinkType" => d.network = "None"

(* What has been found by the time a stage is reached.                     *)
Progress(d) ==
  /\ d \in Decoding
  /\ d.stage \in {"Link", "Vlan"} =>
       d.link = "None" /\ d.network = "None" /\ d.transport = "None"
  /\ d.stage = "Vlan" => d.vlan_tags < MAX_VLAN_TAGS
  /\ d.stage = "Network" =>
       /\ d.next \in {"Ipv4", "Ipv6", "Arp"}
       /\ d.link # "None" /\ d.network = "None" /\ d.transport = "None"
  /\ d.stage = "Extension" =>
       /\ d.next \in Followed /\ d.walked < MAX_EXTENSION_HEADERS
       /\ d.link # "None" /\ d.network = "Ipv6" /\ d.transport = "None"
  /\ d.stage = "Transport" =>
       /\ d.next \in {"Tcp", "Udp", "Icmp", "Icmpv6"}
       /\ d.link # "None" /\ d.network \in {"Ipv4", "Ipv6"} /\ d.transport = "None"
  /\ d.stage # "Done" => d.stopped = Because("None") /\ ~ d.non_initial_fragment
  /\ d.stage = "Done" => shape(d) \in Shape
  /\ d.transport # "None" => d.next \in Called(d.transport)
  /\ LaterFragment(d)
  /\ MissingLayer(d)
  /\ LinkReasons(d)

Advances(d, len, e) ==
  /\ Progress(e)
  /\ e.offset <= len
  /\ SameSoFar(d, e)

(* Either a shorter capture makes no difference, or what it makes of the   *)
(* frame is a truncated packet.                                            *)
CutShort(d, cut, whole) ==
  \/ cut = whole
  \/ \E layer \in Layer : cut = Stop(d, Truncated(layer))

LEMMA SameSoFarTrans ==
  ASSUME NEW c, NEW d, NEW e, SameSoFar(c, d), SameSoFar(d, e)
  PROVE  SameSoFar(c, e)
BY DEF SameSoFar

(* Stopping a decoding whose stage still expects something.                *)
LEMMA StopTruncated ==
  ASSUME NEW d, Progress(d), NEW len \in Nat, d.offset <= len, d.stage # "Done",
         link_layer # "Unsupported",
         NEW layer \in Layer,
         layer = "Link" <=> d.stage \in {"Link", "Vlan"},
         layer = "Transport" <=> d.stage = "Transport"
  PROVE  Advances(d, len, Stop(d, Truncated(layer)))
<1> DEFINE e == Stop(d, Truncated(layer))
<1>1. /\ e \in Decoding /\ e.stage = "Done" /\ e.stopped = Truncated(layer)
      /\ e.link = d.link /\ e.network = d.network /\ e.transport = d.transport
      /\ e.non_initial_fragment = d.non_initial_fragment /\ e.offset = d.offset
  BY DEF Progress, Decoding, Stop, Truncated, DecodeStop, Layer
<1>2. e.stopped.kind = "Truncated" /\ e.stopped.layer = layer
  BY <1>1 DEF Truncated
<1>3. shape(e) \in Shape
  BY <1>1, <1>2 DEF shape, Shape, Progress, Decoding, Layer
<1>4. LaterFragment(e) /\ MissingLayer(e) /\ LinkReasons(e)
  BY <1>1, <1>2 DEF LaterFragment, MissingLayer, LinkReasons, Progress, Layer, Truncated, Decoding
<1>5. SameSoFar(d, e)
  BY <1>1 DEF SameSoFar
<1>6. d.transport = "None"
  BY DEF Progress, Decoding
<1> QED BY <1>1, <1>3, <1>4, <1>5, <1>6 DEF Advances, Progress

-----------------------------------------------------------------------------
(* Going on to the next header                                             *)

(* What EthernetFrame and ExtensionChain hand on: nothing was stopped yet. *)
Unfinished(d) ==
  /\ d \in Decoding
  /\ d.transport = "None"
  /\ d.stopped = Because("None") /\ ~ d.non_initial_fragment

LEMMA AboveLinkAdvances ==
  ASSUME NEW d, Unfinished(d), NEW len \in Nat, d.offset <= len,
         d.link # "None", d.network = "None"
  PROVE  Advances(d, len, AboveLink(d))
<1>1. CASE d.next \in {"Ipv4", "Ipv6", "Arp"}
  <2> DEFINE e == [d EXCEPT !.stage = "Network"]
  <2>1. AboveLink(d) = e
    BY <1>1 DEF AboveLink
  <2>2. /\ e \in Decoding /\ e.stage = "Network" /\ e.next = d.next
        /\ e.link = d.link /\ e.network = "None" /\ e.transport = "None"
        /\ e.stopped = Because("None") /\ ~ e.non_initial_fragment /\ e.offset = d.offset
    BY DEF Unfinished, Decoding
  <2> QED
    BY <1>1, <2>1, <2>2
       DEF Advances, Progress, SameSoFar, LaterFragment, MissingLayer, LinkReasons, Because, Unfinished
<1>2. CASE d.next \notin {"Ipv4", "Ipv6", "Arp"}
  <2> DEFINE e == Stop(d, Because("UnsupportedEtherType"))
  <2>1. AboveLink(d) = e
    BY <1>2 DEF AboveLink
  <2>2. /\ e \in Decoding /\ e.stage = "Done"
        /\ e.link = d.link /\ e.network = "None" /\ e.transport = "None"
        /\ e.stopped = Because("UnsupportedEtherType")
        /\ ~ e.non_initial_fragment /\ e.offset = d.offset
    BY DEF Unfinished, Decoding, Stop, Because, DecodeStop
  <2>3. shape(e) \in Shape
    BY <2>2 DEF shape, Shape, Because
  <2> QED
    BY <2>1, <2>2, <2>3
       DEF Advances, Progress, SameSoFar, LaterFragment, MissingLayer, LinkReasons, Because, Unfinished
<1> QED BY <1>1, <1>2

LEMMA AboveNetworkAdvances ==
  ASSUME NEW d, Unfinished(d), NEW len \in Nat, d.offset <= len,
         d.link # "None", d.network \in {"Ipv4", "Ipv6"}
  PROVE  Advances(d, len, AboveNetwork(d))
<1>1. CASE d.next \in {"Tcp", "Udp", "Icmp", "Icmpv6"}
  <2> DEFINE e == [d EXCEPT !.stage = "Transport"]
  <2>1. AboveNetwork(d) = e
    BY <1>1 DEF AboveNetwork
  <2>2. /\ e \in Decoding /\ e.stage = "Transport" /\ e.next = d.next
        /\ e.link = d.link /\ e.network = d.network /\ e.transport = "None"
        /\ e.stopped = Because("None") /\ ~ e.non_initial_fragment /\ e.offset = d.offset
    BY DEF Unfinished, Decoding
  <2> QED
    BY <1>1, <2>1, <2>2
       DEF Advances, Progress, SameSoFar, LaterFragment, MissingLayer, LinkReasons, Because, Unfinished
<1>2. CASE d.next \notin {"Tcp", "Udp", "Icmp", "Icmpv6"}
  <2> DEFINE e == Stop(d, Because("UnsupportedProtocol"))
  <2>1. AboveNetwork(d) = e
    BY <1>2 DEF AboveNetwork
  <2>2. /\ e \in Decoding /\ e.stage = "Done"
        /\ e.link = d.link /\ e.network = d.network /\ e.transport = "None"
        /\ e.stopped = Because("UnsupportedProtocol")
        /\ ~ e.non_initial_fragment /\ e.offset = d.offset
    BY DEF Unfinished, Decoding, Stop, Because, DecodeStop
  <2>3. shape(e) \in Shape
    BY <2>2 DEF shape, Shape, Because
  <2> QED
    BY <2>1, <2>2, <2>3
       DEF Advances, Progress, SameSoFar, LaterFragment, MissingLayer, LinkReasons, Because, Unfinished
<1> QED BY <1>1, <1>2

LEMMA EthernetFrameAdvances ==
  ASSUME NEW d, Unfinished(d), NEW len \in Nat, d.offset <= len,
         d.link = "None", d.network = "None"
  PROVE  Advances(d, len, EthernetFrame(d))
<1>1. CASE is_vlan(d.next) /\ d.vlan_tags < MAX_VLAN_TAGS
  <2> DEFINE e == [d EXCEPT !.stage = "Vlan"]
  <2>1. EthernetFrame(d) = e
    BY <1>1 DEF EthernetFrame
  <2>2. /\ e \in Decoding /\ e.stage = "Vlan" /\ e.vlan_tags = d.vlan_tags
        /\ e.link = "None" /\ e.network = "None" /\ e.transport = "None"
        /\ e.stopped = Because("None") /\ ~ e.non_initial_fragment /\ e.offset = d.offset
    BY DEF Unfinished, Decoding
  <2> QED
    BY <1>1, <2>1, <2>2
       DEF Advances, Progress, SameSoFar, LaterFragment, MissingLayer, LinkReasons, Because, Unfinished
<1>2. CASE ~ (is_vlan(d.next) /\ d.vlan_tags < MAX_VLAN_TAGS)
  <2> DEFINE e == [d EXCEPT !.link = "Ethernet"]
  <2>1. EthernetFrame(d) = AboveLink(e)
    BY <1>2 DEF EthernetFrame
  <2>2. Unfinished(e) /\ e.link = "Ethernet" /\ e.network = "None" /\ e.offset = d.offset
    BY DEF Unfinished, Decoding
  <2>3. Advances(e, len, AboveLink(e))
    BY <2>2, AboveLinkAdvances
  <2>4. SameSoFar(d, e)
    BY <2>2 DEF SameSoFar, Unfinished
  <2> QED BY <2>1, <2>3, <2>4, SameSoFarTrans DEF Advances
<1> QED BY <1>1, <1>2

LEMMA ExtensionChainAdvances ==
  ASSUME NEW d, Unfinished(d), NEW len \in Nat, d.offset <= len,
         d.link # "None", d.network = "Ipv6"
  PROVE  Advances(d, len, ExtensionChain(d))
<1>1. CASE d.walked = MAX_EXTENSION_HEADERS
  <2> DEFINE e == Stop(d, Because("UnsupportedExtensionHeader"))
  <2>1. ExtensionChain(d) = e
    BY <1>1 DEF ExtensionChain
  <2>2. /\ e \in Decoding /\ e.stage = "Done"
        /\ e.link = d.link /\ e.network = "Ipv6" /\ e.transport = "None"
        /\ e.stopped = Because("UnsupportedExtensionHeader")
        /\ ~ e.non_initial_fragment /\ e.offset = d.offset
    BY DEF Unfinished, Decoding, Stop, Because, DecodeStop
  <2>3. shape(e) \in Shape
    BY <2>2 DEF shape, Shape, Because
  <2> QED
    BY <2>1, <2>2, <2>3
       DEF Advances, Progress, SameSoFar, LaterFragment, MissingLayer, LinkReasons, Because, Unfinished
<1>2. CASE d.walked # MAX_EXTENSION_HEADERS /\ d.next \notin Followed
  BY <1>2, AboveNetworkAdvances DEF ExtensionChain
<1>3. CASE d.walked # MAX_EXTENSION_HEADERS /\ d.next \in Followed
  <2> DEFINE e == [d EXCEPT !.stage = "Extension"]
  <2>1. ExtensionChain(d) = e
    BY <1>3 DEF ExtensionChain
  <2>2. /\ e \in Decoding /\ e.stage = "Extension" /\ e.next = d.next /\ e.walked = d.walked
        /\ e.link = d.link /\ e.network = "Ipv6" /\ e.transport = "None"
        /\ e.stopped = Because("None") /\ ~ e.non_initial_fragment /\ e.offset = d.offset
    BY DEF Unfinished, Decoding
  <2>3. e.walked < MAX_EXTENSION_HEADERS
    BY <1>3, <2>2 DEF Unfinished, Decoding, MAX_EXTENSION_HEADERS
  <2> QED
    BY <1>3, <2>1, <2>2, <2>3
       DEF Advances, Progress, SameSoFar, LaterFragment, MissingLayer, LinkReasons, Because, Unfinished
<1> QED BY <1>1, <1>2, <1>3

-----------------------------------------------------------------------------
(* One lemma for each kind of header                                       *)

LEMMA LinkAdvances ==
  ASSUME NEW d, Progress(d), NEW len \in Nat, d.offset <= len, d.stage = "Link",
         NEW h \in LinkHeader, link_layer \in LinkLayer
  PROVE  Advances(d, len, decode_link(link_layer, d, len, h))
<1> DEFINE n == link_header_len(link_layer)
           e == [d EXCEPT !.offset = @ + n, !.next = h.ether_type]
           f == [e EXCEPT !.link = "LinuxSll"]
<1>1. n \in Nat
  BY DEF link_header_len
<1>2. d.offset \in Nat /\ h.ether_type \in EtherType
  BY DEF Progress, Decoding, LinkHeader
<1>3. /\ Unfinished(e) /\ e.offset = d.offset + n
      /\ e.link = "None" /\ e.network = "None"
      /\ Unfinished(f) /\ f.offset = d.offset + n
      /\ f.link = "LinuxSll" /\ f.network = "None"
  <2> HIDE DEF n
  <2>1. d.offset + n \in Nat
    BY <1>1, <1>2
  <2>2. Unfinished(e) /\ e.offset = d.offset + n /\ e.link = "None" /\ e.network = "None"
    BY <2>1, <1>2 DEF Unfinished, Progress, Decoding
  <2> HIDE DEF e
  <2>3. Unfinished(f) /\ f.offset = e.offset /\ f.link = "LinuxSll" /\ f.network = "None"
    BY <2>2 DEF Unfinished, Decoding
  <2> QED BY <2>2, <2>3
<1>4. SameSoFar(d, e) /\ SameSoFar(d, f)
  BY DEF SameSoFar, Progress
<1>5. CASE link_layer = "Unsupported"
  <2> DEFINE g == Stop(d, Because("UnsupportedLinkType"))
  <2>1. decode_link(link_layer, d, len, h) = g
    BY <1>5 DEF decode_link
  <2>2. /\ g \in Decoding /\ g.stage = "Done"
        /\ g.link = "None" /\ g.network = "None" /\ g.transport = "None"
        /\ g.stopped = Because("UnsupportedLinkType")
        /\ ~ g.non_initial_fragment /\ g.offset = d.offset
    BY DEF Progress, Decoding, Stop, Because, DecodeStop
  <2>3. shape(g) \in Shape
    BY <2>2 DEF shape, Shape, Because
  <2> QED
    BY <1>5, <2>1, <2>2, <2>3
       DEF Advances, Progress, SameSoFar, LaterFragment, MissingLayer, LinkReasons, Because
<1>6. CASE link_layer # "Unsupported" /\ ~ has(d, len, n)
  <2>1. decode_link(link_layer, d, len, h) = Stop(d, Truncated("Link"))
    BY <1>6 DEF decode_link
  <2> QED BY <1>6, <2>1, StopTruncated DEF Layer
<1>7. CASE link_layer # "Unsupported" /\ has(d, len, n)
  <2>1. d.offset + n <= len
    <3> HIDE DEF n
    <3> QED BY <1>1, <1>2, <1>7 DEF has, remaining
  <2>2. CASE link_layer = "Ethernet"
    <3>1. decode_link(link_layer, d, len, h) = EthernetFrame(e)
      BY <1>7, <2>2 DEF decode_link
    <3>2. Advances(e, len, EthernetFrame(e))
      BY <1>3, <2>1, EthernetFrameAdvances
    <3> QED BY <3>1, <3>2, <1>4, SameSoFarTrans DEF Advances
  <2>3. CASE link_layer # "Ethernet"
    <3>1. decode_link(link_layer, d, len, h) = AboveLink(f)
      BY <1>7, <2>3 DEF decode_link
    <3>2. Advances(f, len, AboveLink(f))
      BY <1>3, <2>1, AboveLinkAdvances
    <3> QED BY <3>1, <3>2, <1>4, SameSoFarTrans DEF Advances
  <2> QED BY <2>2, <2>3
<1> QED BY <1>5, <1>6, <1>7

LEMMA VlanTagAdvances ==
  ASSUME NEW d, Progress(d), NEW len \in Nat, d.offset <= len, d.stage = "Vlan",
         NEW h \in LinkHeader, link_layer # "Unsupported"
  PROVE  Advances(d, len, vlan_tag(d, len, h))
<1> DEFINE e == [d EXCEPT !.offset = @ + 4, !.next = h.ether_type, !.vlan_tags = @ + 1]
<1>1. CASE ~ has(d, len, 4)
  BY <1>1, StopTruncated DEF vlan_tag, Layer
<1>2. CASE has(d, len, 4)
  <2>1. /\ Unfinished(e) /\ e.offset = d.offset + 4
        /\ e.link = "None" /\ e.network = "None"
    <3>1. d.offset + 4 \in Nat /\ d.vlan_tags + 1 \in 0 .. MAX_VLAN_TAGS
      BY DEF Progress, Decoding, MAX_VLAN_TAGS
    <3>2. h.ether_type \in EtherType
      BY DEF LinkHeader
    <3> QED BY <3>1, <3>2 DEF Unfinished, Progress, Decoding
  <2>2. e.offset <= len
    BY <1>2, <2>1 DEF has, remaining, Progress, Decoding
  <2>3. Advances(e, len, EthernetFrame(e))
    BY <2>1, <2>2, EthernetFrameAdvances
  <2>4. SameSoFar(d, e)
    BY DEF SameSoFar, Progress
  <2> QED BY <1>2, <2>3, <2>4, SameSoFarTrans DEF vlan_tag, Advances
<1> QED BY <1>1, <1>2

(* A header that contradicts itself, below the transport layer or in it.   *)
LEMMA StopMalformed ==
  ASSUME NEW d, Progress(d), NEW len \in Nat, d.offset <= len,
         link_layer # "Unsupported",
         NEW layer \in {"Network", "Transport"},
         layer = "Network" => d.stage = "Network",
         layer = "Transport" => d.stage = "Transport"
  PROVE  Advances(d, len, Stop(d, Malformed(layer)))
<1> DEFINE e == Stop(d, Malformed(layer))
<1>1. /\ e \in Decoding /\ e.stage = "Done" /\ e.stopped = Malformed(layer)
      /\ e.link = d.link /\ e.network = d.network /\ e.transport = d.transport
      /\ e.non_initial_fragment = d.non_initial_fragment /\ e.offset = d.offset
  BY DEF Progress, Decoding, Stop, Malformed, DecodeStop, Layer
<1>2. e.stopped.kind = "Malformed" /\ e.stopped.layer = layer
  BY <1>1 DEF Malformed
<1>3. shape(e) \in Shape
  BY <1>1, <1>2 DEF shape, Shape, Progress, Decoding
<1>4. LaterFragment(e) /\ MissingLayer(e) /\ LinkReasons(e)
  BY <1>1, <1>2 DEF LaterFragment, MissingLayer, LinkReasons, Progress, Decoding
<1>5. SameSoFar(d, e)
  BY <1>1 DEF SameSoFar
<1> QED BY <1>1, <1>3, <1>4, <1>5 DEF Advances, Progress

(* A later fragment, of either IP version.                                 *)
LEMMA StopAtFragment ==
  ASSUME NEW d, d \in Decoding, NEW len \in Nat, d.offset <= len,
         d.link # "None", d.network \in {"Ipv4", "Ipv6"}, d.transport = "None"
  PROVE  Advances(d, len, Stop(d, Because("NonInitialFragment")))
<1> DEFINE e == Stop(d, Because("NonInitialFragment"))
<1>1. /\ e \in Decoding /\ e.stage = "Done" /\ e.stopped = Because("NonInitialFragment")
      /\ e.link = d.link /\ e.network = d.network /\ e.transport = "None"
      /\ e.offset = d.offset
  BY DEF Decoding, Stop, Because, DecodeStop
<1>2. shape(e) \in Shape
  BY <1>1 DEF shape, Shape, Because
<1> QED
  BY <1>1, <1>2 DEF Advances, Progress, SameSoFar, LaterFragment, MissingLayer, LinkReasons, Because

LEMMA Ipv4Advances ==
  ASSUME NEW d, Progress(d), NEW len \in Nat, d.offset <= len, d.stage = "Network",
         NEW h \in Ipv4Header, link_layer # "Unsupported"
  PROVE  Advances(d, len, decode_ipv4(d, len, h))
<1> DEFINE n == h.ihl * 4
           e == [d EXCEPT !.offset = @ + n, !.next = h.protocol, !.network = "Ipv4",
                          !.non_initial_fragment = h.fragment_offset > 0]
<1>1. /\ n \in Nat /\ d.offset \in Nat /\ d.offset + n \in Nat
      /\ h.protocol \in IpProtocol /\ (h.fragment_offset > 0) \in BOOLEAN
  <2>1. h.ihl \in Nibble /\ h.fragment_offset \in u13 /\ h.protocol \in IpProtocol
    BY DEF Ipv4Header
  <2>2. d.offset \in Nat
    BY DEF Progress, Decoding
  <2>3. h.ihl \in Nat
    BY <2>1 DEF Nibble
  <2> QED BY <2>1, <2>2, <2>3
<1> HIDE DEF n
<1>2. /\ e \in Decoding /\ e.offset = d.offset + n
      /\ e.link = d.link /\ e.link # "None" /\ e.network = "Ipv4" /\ e.transport = "None"
      /\ e.stopped = Because("None") /\ e.non_initial_fragment = (h.fragment_offset > 0)
  BY <1>1 DEF Progress, Decoding
<1>3. SameSoFar(d, e)
  BY <1>2 DEF SameSoFar, Progress
<1> HIDE DEF e
<1>4. decode_ipv4(d, len, h) =
        IF ~ has(d, len, 1) THEN Stop(d, Truncated("Network"))
        ELSE IF h.version # 4 \/ n < IPV4_MIN_HEADER_LEN THEN Stop(d, Malformed("Network"))
        ELSE IF ~ has(d, len, n) THEN Stop(d, Truncated("Network"))
        ELSE IF h.total_len # 0 /\ h.total_len < n THEN Stop(d, Malformed("Network"))
        ELSE IF is_non_initial_fragment(h) THEN Stop(e, Because("NonInitialFragment"))
        ELSE AboveNetwork(e)
  BY DEF decode_ipv4, n, e
<1>5. Advances(d, len, Stop(d, Truncated("Network")))
  BY StopTruncated DEF Layer
<1>6. Advances(d, len, Stop(d, Malformed("Network")))
  BY StopMalformed
<1>7. CASE has(d, len, n)
  <2>1. e.offset <= len
    BY <1>1, <1>2, <1>7 DEF has, remaining
  <2>2. Advances(e, len, Stop(e, Because("NonInitialFragment")))
    BY <1>2, <2>1, StopAtFragment
  <2>3. ~ is_non_initial_fragment(h) => Unfinished(e)
    BY <1>2 DEF Unfinished, is_non_initial_fragment
  <2>4. ~ is_non_initial_fragment(h) => Advances(e, len, AboveNetwork(e))
    BY <1>2, <2>1, <2>3, AboveNetworkAdvances
  <2>5. Advances(d, len, Stop(e, Because("NonInitialFragment")))
    BY <1>3, <2>2, SameSoFarTrans DEF Advances
  <2>6. ~ is_non_initial_fragment(h) => Advances(d, len, AboveNetwork(e))
    BY <1>3, <2>4, SameSoFarTrans DEF Advances
  <2> QED BY <1>4, <1>5, <1>6, <2>5, <2>6
<1>8. CASE ~ has(d, len, n)
  BY <1>4, <1>5, <1>6, <1>8
<1> QED BY <1>7, <1>8

LEMMA Ipv6Advances ==
  ASSUME NEW d, Progress(d), NEW len \in Nat, d.offset <= len, d.stage = "Network",
         NEW h \in Ipv6Header, link_layer # "Unsupported"
  PROVE  Advances(d, len, decode_ipv6(d, len, h))
<1> DEFINE e == [d EXCEPT !.offset = @ + 40, !.next = h.next, !.network = "Ipv6"]
<1>1. Advances(d, len, Stop(d, Truncated("Network")))
  BY StopTruncated DEF Layer
<1>2. Advances(d, len, Stop(d, Malformed("Network")))
  BY StopMalformed
<1>3. d.offset \in Nat /\ d.offset + 40 \in Nat /\ h.next \in IpProtocol
  BY DEF Progress, Decoding, Ipv6Header
<1>4. /\ Unfinished(e) /\ e.offset = d.offset + 40
      /\ e.link # "None" /\ e.network = "Ipv6"
  BY <1>3 DEF Unfinished, Progress, Decoding
<1>5. SameSoFar(d, e)
  BY DEF SameSoFar, Progress
<1>6. CASE has(d, len, 40)
  <2>1. e.offset <= len
    BY <1>3, <1>4, <1>6 DEF has, remaining
  <2>2. Advances(e, len, ExtensionChain(e))
    BY <1>4, <2>1, ExtensionChainAdvances
  <2>3. Advances(d, len, ExtensionChain(e))
    BY <1>5, <2>2, SameSoFarTrans DEF Advances
  <2> QED BY <1>1, <1>2, <2>3 DEF decode_ipv6
<1>7. CASE ~ has(d, len, 40)
  BY <1>1, <1>2, <1>7 DEF decode_ipv6
<1> QED BY <1>6, <1>7

LEMMA ArpAdvances ==
  ASSUME NEW d, Progress(d), NEW len \in Nat, d.offset <= len, d.stage = "Network",
         NEW h \in ArpPacket, link_layer # "Unsupported"
  PROVE  Advances(d, len, decode_arp(d, len, h))
<1> DEFINE e == Stop([d EXCEPT !.network = "Arp"], Because("None"))
<1>1. Advances(d, len, Stop(d, Truncated("Network")))
  BY StopTruncated DEF Layer
<1>2. /\ e \in Decoding /\ e.stage = "Done"
      /\ e.link = d.link /\ e.link # "None" /\ e.network = "Arp" /\ e.transport = "None"
      /\ e.stopped = Because("None")
      /\ ~ e.non_initial_fragment /\ e.offset = d.offset
  BY DEF Progress, Decoding, Stop, Because, DecodeStop
<1>3. shape(e) \in Shape
  BY <1>2 DEF shape, Shape, Because
<1>4. Advances(d, len, e)
  BY <1>2, <1>3 DEF Advances, Progress, SameSoFar, LaterFragment, MissingLayer, LinkReasons, Because
<1> QED BY <1>1, <1>4 DEF decode_arp

LEMMA ExtensionAdvances ==
  ASSUME NEW d, Progress(d), NEW len \in Nat, d.offset <= len, d.stage = "Extension",
         NEW h \in ExtensionHeader, link_layer # "Unsupported"
  PROVE  Advances(d, len, extension_header(d, len, h))
<1> DEFINE n == extension_len(d.next, h)
           e == After(d, h)
<1>1. n \in Nat
  <2>1. h.units \in u8
    BY DEF ExtensionHeader
  <2>2. h.units \in Nat
    BY <2>1 DEF u8
  <2> QED BY <2>2 DEF extension_len
<1>2. Advances(d, len, Stop(d, Truncated("Network")))
  BY StopTruncated DEF Layer
<1>3. /\ d.offset \in Nat /\ d.offset + n \in Nat /\ h.next \in IpProtocol
      /\ d.walked + 1 \in 0 .. MAX_EXTENSION_HEADERS
  <2> HIDE DEF n
  <2> QED BY <1>1 DEF Progress, Decoding, ExtensionHeader, MAX_EXTENSION_HEADERS
<1>4. /\ e \in Decoding /\ e.offset = d.offset + n
      /\ e.link = d.link /\ e.link # "None" /\ e.network = "Ipv6" /\ e.transport = "None"
      /\ e.stopped = Because("None")
  BY <1>3 DEF After, Progress, Decoding
<1>5. SameSoFar(d, e)
  BY <1>4 DEF SameSoFar, Progress
<1>6. CASE has(d, len, n)
  <2> HIDE DEF n, e
  <2>1. e.offset <= len
    BY <1>1, <1>3, <1>4, <1>6 DEF has, remaining
  <2>2. Advances(e, len, SteppedOver(e))
    <3>1. CASE e.non_initial_fragment
      BY <1>4, <2>1, <3>1, StopAtFragment DEF SteppedOver
    <3>2. CASE ~ e.non_initial_fragment
      <4>1. Unfinished(e)
        BY <1>4, <3>2 DEF Unfinished
      <4> QED BY <1>4, <2>1, <3>2, <4>1, ExtensionChainAdvances DEF SteppedOver
    <3> QED BY <3>1, <3>2
  <2>3. extension_header(d, len, h) = SteppedOver(e)
    BY <1>6 DEF extension_header, n, e
  <2> QED BY <1>5, <2>2, <2>3, SameSoFarTrans DEF Advances
<1>7. CASE ~ has(d, len, n)
  BY <1>2, <1>7 DEF extension_header
<1> QED BY <1>6, <1>7

LEMMA FoundAdvances ==
  ASSUME NEW d, Progress(d), NEW len \in Nat, d.stage = "Transport",
         NEW n \in Nat, d.offset + n <= len,
         NEW layer \in {"Tcp", "Udp", "Icmp"}, d.next \in Called(layer)
  PROVE  Advances(d, len, Found([d EXCEPT !.offset = @ + n], layer))
<1> DEFINE e == Found([d EXCEPT !.offset = @ + n], layer)
<1>1. d.offset \in Nat /\ d.offset + n \in Nat
  BY DEF Progress, Decoding
<1>2. /\ e \in Decoding /\ e.stage = "Done"
      /\ e.link = d.link /\ e.network = d.network /\ e.transport = layer /\ e.next = d.next
      /\ e.stopped = Because("None")
      /\ ~ e.non_initial_fragment /\ e.offset = d.offset + n
  BY <1>1 DEF Progress, Decoding, Found, Stop, Because, DecodeStop
<1>3. shape(e) \in Shape
  BY <1>2 DEF shape, Shape, Because, Progress
<1> QED
  BY <1>2, <1>3 DEF Advances, Progress, SameSoFar, LaterFragment, MissingLayer, LinkReasons, Because

LEMMA TransportAdvances ==
  ASSUME NEW d, Progress(d), NEW len \in Nat, d.offset <= len, d.stage = "Transport",
         NEW h \in TransportHeader, link_layer # "Unsupported"
  PROVE  Advances(d, len, decode_transport(d, len, h))
<1>1. Advances(d, len, Stop(d, Truncated("Transport")))
  BY StopTruncated DEF Layer
<1>2. Advances(d, len, Stop(d, Malformed("Transport")))
  BY StopMalformed
<1>3. d.offset \in Nat /\ h.data_offset * 4 \in Nat
  <2>1. h.data_offset \in Nibble
    BY DEF TransportHeader
  <2>2. d.offset \in Nat
    BY DEF Progress, Decoding
  <2> QED BY <2>1, <2>2 DEF Nibble
<1>4. ASSUME NEW n \in Nat, has(d, len, n),
             NEW layer \in {"Tcp", "Udp", "Icmp"}, d.next \in Called(layer)
      PROVE  Advances(d, len, Found([d EXCEPT !.offset = @ + n], layer))
  <2>1. d.offset + n <= len
    BY <1>3, <1>4 DEF has, remaining
  <2> QED BY <1>4, <2>1, FoundAdvances
<1>5. CASE d.next = "Tcp"
  <2>1. d.next \in Called("Tcp")
    BY <1>5 DEF Called
  <2>2. Advances(d, len, decode_tcp(d, len, h))
    BY <1>1, <1>2, <1>3, <1>4, <2>1 DEF decode_tcp
  <2> QED BY <1>5, <2>2 DEF decode_transport
<1>6. CASE d.next = "Udp"
  <2>1. d.next \in Called("Udp")
    BY <1>6 DEF Called
  <2>2. Advances(d, len, decode_udp(d, len, h))
    BY <1>1, <1>2, <1>4, <2>1 DEF decode_udp
  <2> QED BY <1>6, <2>2 DEF decode_transport
<1>7. CASE d.next \in {"Icmp", "Icmpv6"}
  <2>1. d.next \in Called("Icmp")
    BY <1>7 DEF Called
  <2>2. Advances(d, len, decode_icmp(d, len))
    BY <1>1, <1>4, <2>1 DEF decode_icmp
  <2> QED BY <1>7, <2>2 DEF decode_transport
<1>8. d.next \in {"Tcp", "Udp", "Icmp", "Icmpv6"}
  BY DEF Progress
<1> QED BY <1>5, <1>6, <1>7, <1>8

-----------------------------------------------------------------------------
(* What a shorter capture can do                                           *)

LEMMA MoreBytes ==
  ASSUME NEW d, d.offset \in Nat, NEW cut \in Nat, NEW whole \in Nat, cut <= whole,
         NEW n \in Nat, has(d, cut, n)
  PROVE  has(d, whole, n)
BY DEF has, remaining

LEMMA CutLink ==
  ASSUME NEW d, d.offset \in Nat, NEW cut \in Nat, NEW whole \in Nat, cut <= whole,
         NEW h
  PROVE  CutShort(d, decode_link(link_layer, d, cut, h), decode_link(link_layer, d, whole, h))
<1>1. link_header_len(link_layer) \in Nat
  BY DEF link_header_len
<1>2. has(d, cut, link_header_len(link_layer)) => has(d, whole, link_header_len(link_layer))
  BY <1>1, MoreBytes
<1> QED BY <1>2 DEF CutShort, decode_link, Layer

LEMMA CutVlanTag ==
  ASSUME NEW d, d.offset \in Nat, NEW cut \in Nat, NEW whole \in Nat, cut <= whole,
         NEW h
  PROVE  CutShort(d, vlan_tag(d, cut, h), vlan_tag(d, whole, h))
<1>1. has(d, cut, 4) => has(d, whole, 4)
  BY MoreBytes
<1> QED BY <1>1 DEF CutShort, vlan_tag, Layer

LEMMA CutIpv4 ==
  ASSUME NEW d, d.offset \in Nat, NEW cut \in Nat, NEW whole \in Nat, cut <= whole,
         NEW h \in Ipv4Header
  PROVE  CutShort(d, decode_ipv4(d, cut, h), decode_ipv4(d, whole, h))
<1>1. h.ihl \in Nibble
  BY DEF Ipv4Header
<1>2. h.ihl * 4 \in Nat
  BY <1>1 DEF Nibble
<1>3. has(d, cut, 1) => has(d, whole, 1)
  BY MoreBytes
<1>4. has(d, cut, h.ihl * 4) => has(d, whole, h.ihl * 4)
  BY <1>2, MoreBytes
<1> QED BY <1>3, <1>4 DEF CutShort, decode_ipv4, Layer

LEMMA CutIpv6 ==
  ASSUME NEW d, d.offset \in Nat, NEW cut \in Nat, NEW whole \in Nat, cut <= whole,
         NEW h
  PROVE  CutShort(d, decode_ipv6(d, cut, h), decode_ipv6(d, whole, h))
<1>1. has(d, cut, 4) => has(d, whole, 4)
  BY MoreBytes
<1>2. has(d, cut, 40) => has(d, whole, 40)
  BY MoreBytes
<1> QED BY <1>1, <1>2 DEF CutShort, decode_ipv6, Layer

LEMMA CutArp ==
  ASSUME NEW d, d.offset \in Nat, NEW cut \in Nat, NEW whole \in Nat, cut <= whole,
         NEW h
  PROVE  CutShort(d, decode_arp(d, cut, h), decode_arp(d, whole, h))
<1>1. has(d, cut, 28) => has(d, whole, 28)
  BY MoreBytes
<1>2. has(d, cut, 8) => has(d, whole, 8)
  BY MoreBytes
<1> QED BY <1>1, <1>2 DEF CutShort, decode_arp, Layer

LEMMA CutExtension ==
  ASSUME NEW d, d.offset \in Nat, NEW cut \in Nat, NEW whole \in Nat, cut <= whole,
         NEW h \in ExtensionHeader
  PROVE  CutShort(d, extension_header(d, cut, h), extension_header(d, whole, h))
<1>1. h.units \in u8
  BY DEF ExtensionHeader
<1>2. h.units \in Nat
  BY <1>1 DEF u8
<1>3. extension_len(d.next, h) \in Nat
  BY <1>2 DEF extension_len
<1>4. has(d, cut, extension_len(d.next, h)) => has(d, whole, extension_len(d.next, h))
  BY <1>3, MoreBytes
<1> QED BY <1>4 DEF CutShort, extension_header, Layer

LEMMA CutTransport ==
  ASSUME NEW d, d.offset \in Nat, NEW cut \in Nat, NEW whole \in Nat, cut <= whole,
         NEW h \in TransportHeader
  PROVE  CutShort(d, decode_transport(d, cut, h), decode_transport(d, whole, h))
<1>1. h.data_offset \in Nibble
  BY DEF TransportHeader
<1>2. h.data_offset * 4 \in Nat
  BY <1>1 DEF Nibble
<1>3. has(d, cut, h.data_offset * 4) => has(d, whole, h.data_offset * 4)
  BY <1>2, MoreBytes
<1>4. /\ has(d, cut, 20) => has(d, whole, 20)
      /\ has(d, cut, 8) => has(d, whole, 8)
      /\ has(d, cut, 4) => has(d, whole, 4)
  BY MoreBytes
<1>5. CutShort(d, decode_tcp(d, cut, h), decode_tcp(d, whole, h))
  BY <1>3, <1>4 DEF CutShort, decode_tcp, Layer, TCP_MIN_HEADER_LEN
<1>6. CutShort(d, decode_udp(d, cut, h), decode_udp(d, whole, h))
  BY <1>4 DEF CutShort, decode_udp, Layer
<1>7. CutShort(d, decode_icmp(d, cut), decode_icmp(d, whole))
  BY <1>4 DEF CutShort, decode_icmp, Layer
<1> QED BY <1>5, <1>6, <1>7 DEF decode_transport

-----------------------------------------------------------------------------
(* The invariant                                                           *)

(* The cut reader has stopped for want of bytes with no layer the whole    *)
(* one lacks.                                                              *)
Behind(cut, whole) ==
  /\ cut.stage = "Done"
  /\ cut.stopped.kind = "Truncated"
  /\ cut.transport = "None"
  /\ SameSoFar(cut, whole)

ReadersInv ==
  /\ link_layer \in LinkLayer
  /\ caplen \in [Reader -> CapLengths]
  /\ caplen["cut"] <= caplen["whole"]
  /\ decoding \in [Reader -> Decoding]
  /\ \A r \in Reader :
       /\ Progress(decoding[r])
       /\ decoding[r].offset <= caplen[r]
       /\ decoding[r].stage \notin {"Link", "Done"} => link_layer # "Unsupported"
  /\ \/ decoding["cut"] = decoding["whole"]
     \/ Behind(decoding["cut"], decoding["whole"])

LEMMA InitReaders == Init => ReadersInv
<1> SUFFICES ASSUME Init PROVE ReadersInv
  OBVIOUS
<1>1. /\ Fresh \in Decoding /\ Fresh.stage = "Link" /\ Fresh.offset = 0
      /\ Fresh.link = "None" /\ Fresh.network = "None" /\ Fresh.transport = "None"
      /\ Fresh.stopped = Because("None") /\ ~ Fresh.non_initial_fragment
  BY DEF Fresh, Decoding, Because, DecodeStop, MAX_VLAN_TAGS, MAX_EXTENSION_HEADERS, EtherType
<1>2. Progress(Fresh)
  BY <1>1 DEF Progress, LaterFragment, MissingLayer, LinkReasons, Because
<1>3. caplen \in [Reader -> CapLengths] /\ caplen["cut"] <= caplen["whole"]
  BY DEF Init
<1>4. \A r \in Reader : caplen[r] \in Nat
  BY <1>3, DecoderAssumption
<1> HIDE DEF Fresh
<1> QED BY <1>1, <1>2, <1>3, <1>4 DEF Init, ReadersInv, Reader

(* Every action is one use of Decode; what it takes to keep the invariant. *)
LEMMA DecodeStep ==
  ASSUME ReadersInv, NEW readers \in SUBSET Reader, NEW result, Decode(readers, result),
         \A r \in readers : decoding[r].stage # "Done",
         decoding["cut"] = decoding["whole"] => ("cut" \in readers <=> "whole" \in readers),
         \A r \in readers : Advances(decoding[r], caplen[r], result[r]),
         \A r \in readers :
            result[r].stage \notin {"Link", "Done"} => link_layer # "Unsupported",
         decoding["cut"] = decoding["whole"] =>
            CutShort(decoding["cut"], result["cut"], result["whole"])
  PROVE  ReadersInv'
<1>1. /\ link_layer' = link_layer /\ caplen' = caplen
      /\ decoding' = [r \in Reader |-> IF r \in readers THEN result[r] ELSE decoding[r]]
  BY DEF Decode
<1>2. ASSUME NEW r \in Reader
      PROVE  /\ Progress(decoding'[r]) /\ decoding'[r].offset <= caplen[r]
             /\ SameSoFar(decoding[r], decoding'[r])
             /\ decoding'[r].stage \notin {"Link", "Done"} => link_layer # "Unsupported"
  BY <1>1 DEF ReadersInv, Advances, SameSoFar
<1>3. ASSUME NEW e, Progress(e) PROVE Progress(e)'
  BY <1>1, <1>3 DEF Progress, MissingLayer, LaterFragment, shape
<1>4. decoding' \in [Reader -> Decoding]
  BY <1>1, <1>2 DEF Progress
<1>5. \/ decoding'["cut"] = decoding'["whole"]
      \/ Behind(decoding'["cut"], decoding'["whole"])
  <2>1. CASE Behind(decoding["cut"], decoding["whole"])
    <3>1. decoding'["cut"] = decoding["cut"]
      BY <1>1, <2>1 DEF Behind, Reader
    <3> QED BY <1>2, <2>1, <3>1, SameSoFarTrans DEF Behind, Reader
  <2>2. CASE decoding["cut"] = decoding["whole"] /\ "cut" \in readers
    <3>1. decoding'["cut"] = result["cut"] /\ decoding'["whole"] = result["whole"]
      BY <1>1, <2>2 DEF Reader
    <3>2. CASE result["cut"] = result["whole"]
      BY <3>1, <3>2
    <3>3. ASSUME NEW layer \in Layer, result["cut"] = Stop(decoding["cut"], Truncated(layer))
          PROVE  Behind(result["cut"], result["whole"])
      <4>1. /\ decoding["cut"] \in Decoding /\ decoding["cut"].stage # "Done"
            /\ decoding["cut"].transport = "None"
        BY <2>2 DEF ReadersInv, Progress, Reader, Decoding
      <4>2. /\ result["cut"].stage = "Done" /\ result["cut"].stopped.kind = "Truncated"
            /\ result["cut"].transport = "None" /\ result["cut"].link = decoding["cut"].link
            /\ result["cut"].network = decoding["cut"].network
        BY <3>3, <4>1 DEF Stop, Truncated, Decoding
      <4>3. SameSoFar(decoding["whole"], result["whole"])
        BY <1>2, <3>1 DEF Reader
      <4> QED BY <2>2, <4>2, <4>3 DEF Behind, SameSoFar
    <3> QED BY <2>2, <3>1, <3>2, <3>3 DEF CutShort
  <2>3. CASE decoding["cut"] = decoding["whole"] /\ "cut" \notin readers
    BY <1>1, <2>3 DEF Reader
  <2> QED BY <2>1, <2>2, <2>3 DEF ReadersInv
<1> QED BY <1>1, <1>2, <1>3, <1>4, <1>5 DEF ReadersInv, Behind, SameSoFar

(* Which readers a step concerns, and what DecodeStep asks of them.        *)
LEMMA ExpectingFacts ==
  ASSUME ReadersInv, NEW stage, NEW next, stage # "Done"
  PROVE  /\ Expecting(stage, next) \in SUBSET Reader
         /\ \A r \in Expecting(stage, next) :
              /\ decoding[r].stage = stage /\ decoding[r].stage # "Done"
              /\ Progress(decoding[r]) /\ decoding[r].offset <= caplen[r]
              /\ caplen[r] \in Nat
              /\ stage # "Link" => link_layer # "Unsupported"
         /\ decoding["cut"] = decoding["whole"] =>
              ("cut" \in Expecting(stage, next) <=> "whole" \in Expecting(stage, next))
         /\ decoding["cut"].offset \in Nat
         /\ caplen["cut"] \in Nat /\ caplen["whole"] \in Nat /\ caplen["cut"] <= caplen["whole"]
<1>1. \A r \in Reader : caplen[r] \in Nat /\ decoding[r].offset \in Nat
  BY DecoderAssumption DEF ReadersInv, Decoding
<1> QED BY <1>1 DEF ReadersInv, Expecting, Reader

LEMMA NextReaders == ReadersInv /\ [Next]_vars => ReadersInv'
<1> SUFFICES ASSUME ReadersInv, [Next]_vars PROVE ReadersInv'
  OBVIOUS
<1> USE DecoderAssumption
<1>1. CASE ReadLink
  <2>1. PICK h \in LinkHeaders :
          Decode(Expecting("Link", Anything), [r \in Reader |-> decode_link(link_layer, decoding[r], caplen[r], h)])
    BY <1>1 DEF ReadLink
  <2> DEFINE readers == Expecting("Link", Anything)
             result == [r \in Reader |-> decode_link(link_layer, decoding[r], caplen[r], h)]
  <2>2. h \in LinkHeader
    OBVIOUS
  <2>3. \A r \in readers : Advances(decoding[r], caplen[r], result[r])
    BY <2>2, ExpectingFacts, LinkAdvances DEF ReadersInv
  <2>4. decoding["cut"] = decoding["whole"] =>
          CutShort(decoding["cut"], result["cut"], result["whole"])
    BY <2>2, ExpectingFacts, CutLink DEF Reader
  <2>5. \A r \in readers :
          result[r].stage \notin {"Link", "Done"} => link_layer # "Unsupported"
    <3> SUFFICES ASSUME NEW r \in readers, link_layer = "Unsupported"
                 PROVE  result[r].stage = "Done"
      OBVIOUS
    <3>1. r \in Reader /\ decoding[r] \in Decoding
      BY DEF Expecting, ReadersInv
    <3>2. result[r] = Stop(decoding[r], Because("UnsupportedLinkType"))
      BY <3>1 DEF decode_link
    <3> QED BY <3>1, <3>2 DEF Stop, Decoding
  <2> HIDE DEF readers, result
  <2>6. readers \in SUBSET Reader /\ \A r \in readers : decoding[r].stage # "Done"
    BY ExpectingFacts DEF readers
  <2>7. decoding["cut"] = decoding["whole"] => ("cut" \in readers <=> "whole" \in readers)
    BY ExpectingFacts DEF readers
  <2>8. Decode(readers, result)
    BY <2>1 DEF readers, result
  <2> QED BY <2>3, <2>4, <2>5, <2>6, <2>7, <2>8, DecodeStep
<1>2. CASE ReadVlanTag
  <2>1. PICK h \in LinkHeaders :
          Decode(Expecting("Vlan", Anything), [r \in Reader |-> vlan_tag(decoding[r], caplen[r], h)])
    BY <1>2 DEF ReadVlanTag
  <2> DEFINE readers == Expecting("Vlan", Anything)
             result == [r \in Reader |-> vlan_tag(decoding[r], caplen[r], h)]
  <2>2. h \in LinkHeader
    OBVIOUS
  <2>3. \A r \in readers : Advances(decoding[r], caplen[r], result[r])
    BY <2>2, ExpectingFacts, VlanTagAdvances DEF ReadersInv
  <2>4. decoding["cut"] = decoding["whole"] =>
          CutShort(decoding["cut"], result["cut"], result["whole"])
    BY <2>2, ExpectingFacts, CutVlanTag DEF Reader
  <2>5. \A r \in readers : link_layer # "Unsupported"
    BY ExpectingFacts
  <2> HIDE DEF readers, result
  <2>6. readers \in SUBSET Reader /\ \A r \in readers : decoding[r].stage # "Done"
    BY ExpectingFacts DEF readers
  <2>7. decoding["cut"] = decoding["whole"] => ("cut" \in readers <=> "whole" \in readers)
    BY ExpectingFacts DEF readers
  <2>8. Decode(readers, result)
    BY <2>1 DEF readers, result
  <2> QED BY <2>3, <2>4, <2>5, <2>6, <2>7, <2>8, DecodeStep
<1>3. CASE ReadIpv4
  <2>1. PICK h \in Ipv4Headers :
          Decode(Expecting("Network", {"Ipv4"}), [r \in Reader |-> decode_ipv4(decoding[r], caplen[r], h)])
    BY <1>3 DEF ReadIpv4
  <2> DEFINE readers == Expecting("Network", {"Ipv4"})
             result == [r \in Reader |-> decode_ipv4(decoding[r], caplen[r], h)]
  <2>2. h \in Ipv4Header
    OBVIOUS
  <2>3. \A r \in readers : Advances(decoding[r], caplen[r], result[r])
    BY <2>2, ExpectingFacts, Ipv4Advances DEF ReadersInv
  <2>4. decoding["cut"] = decoding["whole"] =>
          CutShort(decoding["cut"], result["cut"], result["whole"])
    BY <2>2, ExpectingFacts, CutIpv4 DEF Reader
  <2>5. \A r \in readers : link_layer # "Unsupported"
    BY ExpectingFacts
  <2> HIDE DEF readers, result
  <2>6. readers \in SUBSET Reader /\ \A r \in readers : decoding[r].stage # "Done"
    BY ExpectingFacts DEF readers
  <2>7. decoding["cut"] = decoding["whole"] => ("cut" \in readers <=> "whole" \in readers)
    BY ExpectingFacts DEF readers
  <2>8. Decode(readers, result)
    BY <2>1 DEF readers, result
  <2> QED BY <2>3, <2>4, <2>5, <2>6, <2>7, <2>8, DecodeStep
<1>4. CASE ReadIpv6
  <2>1. PICK h \in Ipv6Headers :
          Decode(Expecting("Network", {"Ipv6"}), [r \in Reader |-> decode_ipv6(decoding[r], caplen[r], h)])
    BY <1>4 DEF ReadIpv6
  <2> DEFINE readers == Expecting("Network", {"Ipv6"})
             result == [r \in Reader |-> decode_ipv6(decoding[r], caplen[r], h)]
  <2>2. h \in Ipv6Header
    OBVIOUS
  <2>3. \A r \in readers : Advances(decoding[r], caplen[r], result[r])
    BY <2>2, ExpectingFacts, Ipv6Advances DEF ReadersInv
  <2>4. decoding["cut"] = decoding["whole"] =>
          CutShort(decoding["cut"], result["cut"], result["whole"])
    BY <2>2, ExpectingFacts, CutIpv6 DEF Reader
  <2>5. \A r \in readers : link_layer # "Unsupported"
    BY ExpectingFacts
  <2> HIDE DEF readers, result
  <2>6. readers \in SUBSET Reader /\ \A r \in readers : decoding[r].stage # "Done"
    BY ExpectingFacts DEF readers
  <2>7. decoding["cut"] = decoding["whole"] => ("cut" \in readers <=> "whole" \in readers)
    BY ExpectingFacts DEF readers
  <2>8. Decode(readers, result)
    BY <2>1 DEF readers, result
  <2> QED BY <2>3, <2>4, <2>5, <2>6, <2>7, <2>8, DecodeStep
<1>5. CASE ReadArp
  <2>1. PICK h \in ArpPackets :
          Decode(Expecting("Network", {"Arp"}), [r \in Reader |-> decode_arp(decoding[r], caplen[r], h)])
    BY <1>5 DEF ReadArp
  <2> DEFINE readers == Expecting("Network", {"Arp"})
             result == [r \in Reader |-> decode_arp(decoding[r], caplen[r], h)]
  <2>2. h \in ArpPacket
    OBVIOUS
  <2>3. \A r \in readers : Advances(decoding[r], caplen[r], result[r])
    BY <2>2, ExpectingFacts, ArpAdvances DEF ReadersInv
  <2>4. decoding["cut"] = decoding["whole"] =>
          CutShort(decoding["cut"], result["cut"], result["whole"])
    BY <2>2, ExpectingFacts, CutArp DEF Reader
  <2>5. \A r \in readers : link_layer # "Unsupported"
    BY ExpectingFacts
  <2> HIDE DEF readers, result
  <2>6. readers \in SUBSET Reader /\ \A r \in readers : decoding[r].stage # "Done"
    BY ExpectingFacts DEF readers
  <2>7. decoding["cut"] = decoding["whole"] => ("cut" \in readers <=> "whole" \in readers)
    BY ExpectingFacts DEF readers
  <2>8. Decode(readers, result)
    BY <2>1 DEF readers, result
  <2> QED BY <2>3, <2>4, <2>5, <2>6, <2>7, <2>8, DecodeStep
<1>6. CASE ReadExtension
  <2>1. PICK h \in ExtensionHeaders :
          Decode(Expecting("Extension", Followed), [r \in Reader |-> extension_header(decoding[r], caplen[r], h)])
    BY <1>6 DEF ReadExtension
  <2> DEFINE readers == Expecting("Extension", Followed)
             result == [r \in Reader |-> extension_header(decoding[r], caplen[r], h)]
  <2>2. h \in ExtensionHeader
    OBVIOUS
  <2>3. \A r \in readers : Advances(decoding[r], caplen[r], result[r])
    BY <2>2, ExpectingFacts, ExtensionAdvances DEF ReadersInv
  <2>4. decoding["cut"] = decoding["whole"] =>
          CutShort(decoding["cut"], result["cut"], result["whole"])
    BY <2>2, ExpectingFacts, CutExtension DEF Reader
  <2>5. \A r \in readers : link_layer # "Unsupported"
    BY ExpectingFacts
  <2> HIDE DEF readers, result
  <2>6. readers \in SUBSET Reader /\ \A r \in readers : decoding[r].stage # "Done"
    BY ExpectingFacts DEF readers
  <2>7. decoding["cut"] = decoding["whole"] => ("cut" \in readers <=> "whole" \in readers)
    BY ExpectingFacts DEF readers
  <2>8. Decode(readers, result)
    BY <2>1 DEF readers, result
  <2> QED BY <2>3, <2>4, <2>5, <2>6, <2>7, <2>8, DecodeStep
<1>7. CASE ReadTransport
  <2>1. PICK h \in TransportHeaders :
          Decode(Expecting("Transport", Anything), [r \in Reader |-> decode_transport(decoding[r], caplen[r], h)])
    BY <1>7 DEF ReadTransport
  <2> DEFINE readers == Expecting("Transport", Anything)
             result == [r \in Reader |-> decode_transport(decoding[r], caplen[r], h)]
  <2>2. h \in TransportHeader
    OBVIOUS
  <2>3. \A r \in readers : Advances(decoding[r], caplen[r], result[r])
    BY <2>2, ExpectingFacts, TransportAdvances DEF ReadersInv
  <2>4. decoding["cut"] = decoding["whole"] =>
          CutShort(decoding["cut"], result["cut"], result["whole"])
    BY <2>2, ExpectingFacts, CutTransport DEF Reader
  <2>5. \A r \in readers : link_layer # "Unsupported"
    BY ExpectingFacts
  <2> HIDE DEF readers, result
  <2>6. readers \in SUBSET Reader /\ \A r \in readers : decoding[r].stage # "Done"
    BY ExpectingFacts DEF readers
  <2>7. decoding["cut"] = decoding["whole"] => ("cut" \in readers <=> "whole" \in readers)
    BY ExpectingFacts DEF readers
  <2>8. Decode(readers, result)
    BY <2>1 DEF readers, result
  <2> QED BY <2>3, <2>4, <2>5, <2>6, <2>7, <2>8, DecodeStep
<1>8. CASE UNCHANGED vars
  BY <1>8 DEF vars, ReadersInv, Progress, LaterFragment, MissingLayer, Behind, SameSoFar, shape
<1> QED BY <1>1, <1>2, <1>3, <1>4, <1>5, <1>6, <1>7, <1>8 DEF Next

THEOREM ReadersInvariant == Spec => []ReadersInv
<1> QED BY InitReaders, NextReaders, PTL DEF Spec

-----------------------------------------------------------------------------
(* The theorems                                                            *)

(* The type invariant: at most two VLAN tags and eight extension headers   *)
(* are read of any frame (the loops of decode_ethernet and                 *)
(* walk_extension_headers).                                                *)
THEOREM TypeCorrect == Spec => []TypeOK
<1>1. ReadersInv => TypeOK
  BY DEF ReadersInv, TypeOK
<1> QED BY <1>1, ReadersInvariant, PTL

(* decode() never answers outside the contract the flow table relies on.   *)
THEOREM AnswersKeepTheContract == Spec => []AnswersAreShapes
<1>1. ReadersInv => AnswersAreShapes
  BY DEF ReadersInv, AnswersAreShapes, Progress, Done
<1> QED BY <1>1, ReadersInvariant, PTL

(* A snapshot length may hide a packet's upper layers and never changes    *)
(* what it is taken for.                                                   *)
THEOREM SnaplenOnlyHides == Spec => []CutFramesNeverMislead
<1>1. ReadersInv => CutFramesNeverMislead
  BY DEF ReadersInv, CutFramesNeverMislead, Behind
<1> QED BY <1>1, ReadersInvariant, PTL

(* No header is read from bytes that were not captured, whatever lengths   *)
(* the headers declare.                                                    *)
THEOREM ReadsStayInside == Spec => []NothingReadPastTheEnd
<1>1. ReadersInv => NothingReadPastTheEnd
  BY DEF ReadersInv, NothingReadPastTheEnd
<1> QED BY <1>1, ReadersInvariant, PTL

(* No transport header is ever made up for a later fragment, in either     *)
(* version of IP.                                                          *)
THEOREM FragmentsStayHeaderless == Spec => []LaterFragmentsCarryNoTransport
<1>1. ReadersInv => LaterFragmentsCarryNoTransport
  BY DEF ReadersInv, LaterFragmentsCarryNoTransport, Progress
<1> QED BY <1>1, ReadersInvariant, PTL

(* Where decoding says it stopped is where the first layer is missing.     *)
THEOREM StopsAreNamedRight == Spec => []StopNamesTheMissingLayer
<1>1. ReadersInv => StopNamesTheMissingLayer
  BY DEF ReadersInv, StopNamesTheMissingLayer, Progress
<1> QED BY <1>1, ReadersInvariant, PTL

-----------------------------------------------------------------------------
(* The line printed for a packet                                           *)

(* What there is at the end of a decoding.                                 *)
LEMMA Ended ==
  ASSUME ReadersInv, NEW r \in Reader, Done(r)
  PROVE  LET d == decoding[r]
         IN  /\ d \in Decoding /\ shape(d) \in Shape
             /\ d.link = "None" => d.stopped.kind \in {"Truncated", "Malformed", "UnsupportedLinkType"}
             /\ d.stopped.kind = "UnsupportedLinkType" => d.network = "None"
             /\ d.transport # "None" => d.next \in Called(d.transport)
BY DEF ReadersInv, Progress, LinkReasons, Done

LEMMA EndedShape ==
  ASSUME NEW d \in Decoding, shape(d) \in Shape
  PROVE  /\ d.network = "None" => d.transport = "None" /\ d.stopped.kind \notin {"None", "NonInitialFragment", "UnsupportedProtocol"}
         /\ d.network = "Arp" => d.transport = "None" /\ d.stopped.kind = "None"
         /\ d.transport # "None" => d.network \in {"Ipv4", "Ipv6"} /\ d.stopped.kind = "None"
         /\ d.network \in {"Ipv4", "Ipv6"} /\ d.transport = "None" => d.stopped.kind # "None"
BY DEF shape, Shape, Decoding

LEMMA LineShows ==
  ASSUME ReadersInv, NEW r \in Reader, Done(r)
  PROVE  ShowsWhatDecoded(decoding[r])
<1> DEFINE d == decoding[r]
<1>1. /\ d \in Decoding /\ shape(d) \in Shape
      /\ d.transport # "None" => d.next \in Called(d.transport)
  BY Ended
<1> SUFFICES ShowsWhatDecoded(d)
  OBVIOUS
<1> HIDE DEF d
<1>2. CASE d.network = "Arp"
  BY <1>1, <1>2, EndedShape DEF ShowsWhatDecoded, summary, arp_summary
<1>3. CASE d.network = "None"
  BY <1>1, <1>3, EndedShape DEF ShowsWhatDecoded, summary, link_only_summary
<1>4. CASE d.network \notin {"Arp", "None"} /\ d.transport = "None"
  BY <1>4 DEF ShowsWhatDecoded, summary, addresses
<1>5. CASE d.network \notin {"Arp", "None"} /\ d.transport # "None"
  BY <1>1, <1>5 DEF ShowsWhatDecoded, summary, endpoints
<1> QED BY <1>2, <1>3, <1>4, <1>5

LEMMA LineNames ==
  ASSUME ReadersInv, NEW r \in Reader, Done(r)
  PROVE  NamesTheRest(decoding[r])
<1> DEFINE d == decoding[r]
<1>1. /\ d \in Decoding /\ shape(d) \in Shape
      /\ d.link = "None" => d.stopped.kind \in {"Truncated", "Malformed", "UnsupportedLinkType"}
      /\ d.stopped.kind = "UnsupportedLinkType" => d.network = "None"
  BY Ended
<1> SUFFICES NamesTheRest(d)
  OBVIOUS
<1> HIDE DEF d
<1>2. d.stopped \in DecodeStop /\ d.next \in EtherType \cup IpProtocol
      /\ d.vlan_tags \in 0 .. MAX_VLAN_TAGS
  BY <1>1 DEF Decoding
<1>3. NoNote \in DecodeStop /\ NoNote # UndecodedPacket /\ UndecodedPacket \notin DecodeStop
  BY DEF NoNote, UndecodedPacket, Because, DecodeStop
<1>4. CASE d.network = "Arp"
  BY <1>3, <1>4 DEF NamesTheRest, summary, arp_summary, Line, MAX_VLAN_TAGS
<1>5. CASE d.network = "None" /\ d.link = "None"
  <2>1. stop_summary(d.stopped) = d.stopped /\ d.stopped # NoNote
    BY <1>1, <1>5 DEF stop_summary, stop_detail, NoNote, Because
  <2> QED BY <1>2, <1>3, <1>5, <2>1
        DEF NamesTheRest, summary, link_only_summary, Line, MAX_VLAN_TAGS
<1>6. CASE d.network = "None" /\ d.link # "None"
  <2>1. d.stopped.kind # "None" /\ d.link \in {"Ethernet", "LinuxSll"}
    BY <1>1, <1>6, EndedShape DEF Decoding
  <2>2. /\ stop_detail(d.stopped) \in DecodeStop
        /\ stop_detail(d.stopped) = NoNote =>
             d.stopped.kind \in {"UnsupportedEtherType", "UnsupportedProtocol"}
    BY <1>2, <1>3, <2>1 DEF stop_detail, NoNote, Because
  <2>3. /\ summary(d).note = stop_detail(d.stopped)
        /\ summary(d) \in Line
    BY <1>2, <1>6, <2>1, <2>2 DEF summary, link_only_summary, Line, MAX_VLAN_TAGS
  <2> QED BY <1>3, <2>2, <2>3 DEF NamesTheRest
<1>7. CASE d.network \in {"Ipv4", "Ipv6"} /\ d.transport = "None"
  <2>1. d.stopped.kind # "None"
    BY <1>1, <1>7, EndedShape
  <2>2. /\ network_note(d.stopped) \in DecodeStop
        /\ summary(d).note = network_note(d.stopped)
        /\ summary(d) \in Line
    BY <1>2, <1>3, <1>7 DEF network_note, summary, addresses, Line, MAX_VLAN_TAGS
  <2>3. \/ network_note(d.stopped) = d.stopped
        \/ d.stopped.kind \in {"UnsupportedEtherType", "UnsupportedProtocol"}
    BY <1>1, <1>2, <1>7, <2>1 DEF network_note, DecodeStop
  <2>4. d.stopped # NoNote
    BY <2>1 DEF NoNote, Because
  <2> QED BY <1>3, <2>2, <2>3, <2>4 DEF NamesTheRest
<1>8. CASE d.transport # "None"
  <2>1. d.network \in {"Ipv4", "Ipv6"}
    BY <1>1, <1>8, EndedShape
  <2> QED BY <1>2, <1>3, <1>8, <2>1
        DEF NamesTheRest, summary, endpoints, Line, MAX_VLAN_TAGS
<1>9. d.network \in {"None", "Ipv4", "Ipv6", "Arp"}
  BY <1>1 DEF Decoding
<1> QED BY <1>4, <1>5, <1>6, <1>7, <1>8, <1>9

-----------------------------------------------------------------------------
(* Whatever a decoding stopped as truncated, its line says so; and no      *)
(* other line does.                                                        *)
LEMMA CutShows ==
  ASSUME NEW d \in Decoding, shape(d) \in Shape
  PROVE  /\ d.stopped.kind = "Truncated" => summary(d).note = d.stopped
         /\ summary(d).note.kind = "Truncated" => d.stopped.kind = "Truncated"
         /\ d.stopped.kind = "Truncated" =>
              summary(d).between = IF d.network = "None" THEN d.link ELSE d.network
<1>1. d.stopped.kind = "Truncated" => d.network # "Arp" /\ d.transport = "None"
  BY EndedShape
<1>2. /\ stop_detail(d.stopped) \in {d.stopped, NoNote}
      /\ d.stopped.kind = "Truncated" => stop_detail(d.stopped) = d.stopped /\ d.stopped # NoNote
      /\ NoNote.kind # "Truncated" /\ UndecodedPacket.kind # "Truncated"
  BY DEF stop_detail, NoNote, Because, UndecodedPacket
<1>3. /\ network_note(d.stopped) \in {d.stopped, NoNote}
      /\ d.stopped.kind = "Truncated" => network_note(d.stopped) = d.stopped
  BY DEF network_note
<1>4. /\ stop_summary(d.stopped) \in {d.stopped, UndecodedPacket, NoNote}
      /\ d.stopped.kind = "Truncated" => stop_summary(d.stopped) = d.stopped
  BY <1>2 DEF stop_summary
<1> HIDE DEF NoNote, UndecodedPacket
<1>5. CASE d.network = "Arp"
  BY <1>1, <1>2, <1>5 DEF summary, arp_summary
<1>6. CASE d.network = "None"
  BY <1>2, <1>4, <1>6 DEF summary, link_only_summary
<1>7. CASE d.network \notin {"Arp", "None"}
  BY <1>1, <1>2, <1>3, <1>7 DEF summary, addresses, endpoints
<1> QED BY <1>5, <1>6, <1>7

(* Every line shows the layers that decoded, with ports exactly if there   *)
(* is a transport header that has them, and passes over none that did not  *)
(* decode; the line of a cut packet is the line of the whole one or says   *)
(* that the packet was cut, and the two are alike only if their ends are   *)
(* (render/packet.rs).                                                     *)
THEOREM LinesAreHonest == Spec => []LinesNeverMislead
<1>1. ASSUME ReadersInv PROVE LinesNeverMislead
  <2>1. \A r \in Reader :
          Done(r) => ShowsWhatDecoded(decoding[r]) /\ NamesTheRest(decoding[r])
    BY <1>1, LineShows, LineNames
  <2>2. ASSUME Done("whole"), Done("cut"), decoding["cut"] # decoding["whole"]
        PROVE  /\ summary(decoding["cut"]).note \in [kind: {"Truncated"}, layer: Layer]
               /\ LookAlike(decoding["cut"], decoding["whole"])
    <3> DEFINE c == decoding["cut"]
               w == decoding["whole"]
    <3>1. c \in Decoding /\ shape(c) \in Shape /\ w \in Decoding /\ shape(w) \in Shape
      BY <1>1, <2>2, Ended DEF Reader
    <3>2. c.stopped.kind = "Truncated"
      BY <1>1, <2>2 DEF ReadersInv, Behind
    <3> HIDE DEF c, w
    <3>3. summary(c).note = c.stopped
      BY <3>1, <3>2, CutShows
    <3>4. c.stopped \in [kind: {"Truncated"}, layer: Layer]
      BY <3>1, <3>2 DEF Decoding, DecodeStop
    <3>5. ASSUME summary(c) = summary(w) PROVE shape(c) = shape(w)
      <4>1. w.stopped.kind = "Truncated"
        BY <3>1, <3>2, <3>3, <3>5, CutShows
      <4>2. (IF c.network = "None" THEN c.link ELSE c.network)
              = (IF w.network = "None" THEN w.link ELSE w.network)
        BY <3>1, <3>2, <3>5, <4>1, CutShows
      <4>3. c.network = w.network
        BY <3>1, <4>2 DEF Decoding
      <4>4. c.transport = "None" /\ w.transport = "None"
        BY <3>1, <3>2, <4>1, EndedShape
      <4> QED BY <3>2, <4>1, <4>3, <4>4 DEF shape
    <3> QED BY <3>3, <3>4, <3>5 DEF LookAlike, c, w
  <2>3. ASSUME Done("whole"), Done("cut"), decoding["cut"] = decoding["whole"]
        PROVE  LookAlike(decoding["cut"], decoding["whole"])
    BY <2>3 DEF LookAlike
  <2> QED BY <2>1, <2>2, <2>3 DEF LinesNeverMislead
<1> QED BY <1>1, ReadersInvariant, PTL
=============================================================================
