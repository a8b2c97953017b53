----------------------------- MODULE PacketLine -----------------------------
(***************************************************************************)
(* The line a capture prints for a packet (render/packet.rs), as far as it *)
(* tells what the packet was taken for.  The number and the time in front  *)
(* of it are the pump's; which addresses, ports, flags and reasons it      *)
(* quotes is left out, that it quotes some is not.                         *)
(***************************************************************************)
EXTENDS Decoder

(* Nothing in brackets, and what is there when there is nothing to say.    *)
NoNote == Because("None")
UndecodedPacket == Because("undecoded packet")

(* Whom it is between and whether ports are shown, what it is said to be,  *)
(* how many VLAN tags are listed, and the note in brackets behind it all.  *)
Line ==
  [between: {"Ipv4", "Ipv6", "Arp", "Ethernet", "LinuxSll", "None"}, ports: BOOLEAN,
   says: EtherType \cup IpProtocol \cup {"Arp", "None"},
   tags: 0 .. MAX_VLAN_TAGS, note: DecodeStop \cup {UndecodedPacket}]

(* The EtherType or the protocol is already printed alongside.             *)
stop_detail(stop) ==
  IF stop.kind \in {"None", "UnsupportedEtherType", "UnsupportedProtocol"} THEN NoNote
  ELSE stop

stop_summary(stop) ==
  IF stop_detail(stop) = NoNote THEN UndecodedPacket ELSE stop_detail(stop)

link_only_summary(d) ==
  IF d.link = "None"
    THEN [between |-> "None", ports |-> FALSE, says |-> "None", tags |-> 0,
          note |-> stop_summary(d.stopped)]
    ELSE [between |-> d.link, ports |-> FALSE, says |-> d.next,
          tags |-> IF d.link = "Ethernet" THEN d.vlan_tags ELSE 0,
          note |-> stop_detail(d.stopped)]

(* Mutant: the note on a cut header was forgotten.                         *)
network_note_NoCut(stop) ==
  IF stop.kind \in {"NonInitialFragment", "Malformed", "UnsupportedExtensionHeader"}
    THEN stop ELSE NoNote

(* The bracket network_only_detail puts behind the protocol, if any.       *)
network_note(stop) ==
  IF stop.kind \in {"NonInitialFragment", "Truncated", "Malformed",
                    "UnsupportedExtensionHeader"}
    THEN stop ELSE NoNote

addresses(d) ==
  [between |-> d.network, ports |-> FALSE, says |-> d.next, tags |-> 0,
   note |-> network_note(d.stopped)]

(* A line with a transport header never has a note.                        *)
endpoints(d) ==
  [between |-> d.network, ports |-> d.transport \in {"Tcp", "Udp"}, says |-> d.next,
   tags |-> 0, note |-> NoNote]

arp_summary ==
  [between |-> "Arp", ports |-> FALSE, says |-> "Arp", tags |-> 0, note |-> NoNote]

summary(d) ==
  IF d.network = "Arp" THEN arp_summary
  ELSE IF d.network = "None" THEN link_only_summary(d)
  ELSE IF d.transport = "None" THEN addresses(d)
  ELSE endpoints(d)

-----------------------------------------------------------------------------
(* What a reader of the line may conclude                                  *)

(* What a transport header may be called.                                  *)
Called(transport) == IF transport = "Icmp" THEN {"Icmp", "Icmpv6"} ELSE {transport}

(* "A packet is described by the deepest layer that decoded": the ends are *)
(* those of the network header or else of the link header, ports are shown *)
(* exactly if there is a transport header that has them, and a transport   *)
(* header that was decoded is what the packet is said to be.               *)
ShowsWhatDecoded(d) ==
  /\ summary(d).between = IF d.network # "None" THEN d.network ELSE d.link
  /\ summary(d).ports <=> d.transport \in {"Tcp", "Udp"}
  /\ d.transport # "None" => summary(d).says \in Called(d.transport)

(* A line without a note is about a packet understood to its end, or names *)
(* the one thing there is no decoder for; the last resort is never needed. *)
NamesTheRest(d) ==
  /\ summary(d) \in Line
  /\ summary(d).note # UndecodedPacket
  /\ summary(d).note = NoNote =>
        \/ d.network = "Arp"
        \/ d.transport # "None"
        \/ d.stopped.kind \in {"UnsupportedEtherType", "UnsupportedProtocol"}

(* Packets that look alike were taken for the same thing, and are either   *)
(* both in a flow or both counted under the same reason for not being.     *)
LookAlike(d, e) == summary(d) = summary(e) => shape(d) = shape(e)

(* A line shows the layers that decoded and passes over none that did not  *)
(* ("named rather than silently omitted", render/packet.rs); the line of a *)
(* cut packet is the line of the whole one, or says in its note that the   *)
(* packet was cut; and no two lines hide different ends behind the same    *)
(* words.                                                                  *)
LinesNeverMislead ==
  /\ \A r \in Reader :
       Done(r) => ShowsWhatDecoded(decoding[r]) /\ NamesTheRest(decoding[r])
  /\ Done("whole") /\ Done("cut") =>
        LET shown(r) == summary(decoding[r])
        IN  /\ \/ shown("cut") = shown("whole")
               \/ shown("cut").note \in [kind: {"Truncated"}, layer: Layer]
            /\ LookAlike(decoding["cut"], decoding["whole"])
=============================================================================
