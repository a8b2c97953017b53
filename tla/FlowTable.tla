----------------------------- MODULE FlowTable ------------------------------
(***************************************************************************)
(* The flow table (flow/mod.rs, flow/key.rs, flow/stats.rs): every decoded *)
(* packet of a run is folded into the conversation it belongs to, counted  *)
(* as one no flow is formed for, or refused because the table is full.     *)
(*                                                                         *)
(* A packet is what the decoder and the pump hand over: which layers were  *)
(* understood, the endpoints and flags when there are any, the timestamp   *)
(* and the two lengths.  An address is a number standing for its place in  *)
(* IpAddr's derived order, in which every IPv4 address comes before every  *)
(* IPv6 one.                                                               *)
(***************************************************************************)
EXTENDS PacketTime, Counters, DecodedPacket, SequencesExt, FiniteSetsExt

CONSTANTS
  Address,     \* host addresses, as their places in IpAddr's order
  Port,        \* transport ports
  Packets,     \* the decoded packets a run may meet
  MaxFlows,    \* --max-flows; any usize, 0 included
  MaxPackets   \* bound of the model: how many packets a run offers

Endpoint == [address: Address, port: Port]

TcpFlag == {"SYN", "FIN", "RST", "ACK"}

Packet ==
  [shape: Shape, source: Endpoint, destination: Endpoint, flags: SUBSET TcpFlag,
   timestamp: PacketTimestamp, caplen: Nat, wirelen: Nat]

ASSUME FlowTableAssumption ==
  /\ Address \subseteq Int
  /\ Port \subseteq Int
  /\ Packets \subseteq Packet
  /\ MaxFlows \in Nat
  /\ MaxPackets \in Nat

-----------------------------------------------------------------------------
(* Keys (flow/key.rs)                                                      *)

FlowProtocol == {"Tcp", "Udp"}

FlowKey == [protocol: FlowProtocol, a: Endpoint, b: Endpoint]

(* The derived Ord of Endpoint: address first, then port.                  *)
EndpointLeq(s, d) ==
  \/ s.address < d.address
  \/ s.address = d.address /\ s.port <= d.port

(* Mutant: the sender is always A.                                         *)
canonical_AsSent(protocol, source, destination) ==
  [key |-> [protocol |-> protocol, a |-> source, b |-> destination],
   direction |-> "AtoB"]

(* The smaller endpoint is always A; the direction says which way round    *)
(* this packet was going.                                                  *)
canonical(protocol, source, destination) ==
  IF EndpointLeq(source, destination)
    THEN [key |-> [protocol |-> protocol, a |-> source, b |-> destination],
          direction |-> "AtoB"]
    ELSE [key |-> [protocol |-> protocol, a |-> destination, b |-> source],
          direction |-> "BtoA"]

(* FlowKey::from_packet is Some exactly for these packets ...              *)
FormsFlow(p) ==
  p.shape.network \in {"Ipv4", "Ipv6"} /\ p.shape.transport \in FlowProtocol

(* ... and then it is this key and this direction.                         *)
from_packet(p) == canonical(p.shape.transport, p.source, p.destination)

KeyOf(p) == from_packet(p).key
DirectionOf(p) == from_packet(p).direction

(* The derived Ord of FlowKey: protocol (Tcp before Udp), then A, then B.  *)
KeyLeq(k, l) ==
  \/ k.protocol = "Tcp" /\ l.protocol = "Udp"
  \/ /\ k.protocol = l.protocol
     /\ \/ k.a # l.a /\ EndpointLeq(k.a, l.a)
        \/ k.a = l.a /\ EndpointLeq(k.b, l.b)

-----------------------------------------------------------------------------
(* One conversation (flow/stats.rs)                                        *)

Direction == {"AtoB", "BtoA"}

TcpDirectionFacts ==
  [flags_seen: SUBSET TcpFlag, syn: Counter, fin: Counter, rst: Counter]

NoFacts == [flags_seen |-> {}, syn |-> 0, fin |-> 0, rst |-> 0]

CountIf(condition, counter) ==
  IF condition THEN saturating_add(counter, 1) ELSE counter

AddFlags(facts, flags) ==
  [flags_seen |-> facts.flags_seen \cup flags,
   syn |-> CountIf("SYN" \in flags, facts.syn),
   fin |-> CountIf("FIN" \in flags, facts.fin),
   rst |-> CountIf("RST" \in flags, facts.rst)]

(* `totals' holds a_to_b and b_to_a, `tcp' the two TcpDirectionFacts; for  *)
(* a UDP flow, whose tcp is None in the code, they stay NoFacts.           *)
Flow ==
  [first_seen: PacketTimestamp, last_seen: PacketTimestamp,
   totals: [Direction -> Totals], tcp: [Direction -> TcpDirectionFacts]]

NewFlow(timestamp) ==
  [first_seen |-> timestamp, last_seen |-> timestamp,
   totals |-> [d \in Direction |-> ZeroTotals],
   tcp |-> [d \in Direction |-> NoFacts]]

(* Mutant: the range ends at the packet that arrived last.                 *)
FlowRecord_LastArrival(flow, direction, p) ==
  [first_seen |-> MinTime(flow.first_seen, p.timestamp),
   last_seen  |-> p.timestamp,
   totals     |-> [flow.totals EXCEPT ![direction] =
                     AddPacket(@, p.caplen, p.wirelen)],
   tcp        |-> IF p.shape.transport = "Tcp"
                    THEN [flow.tcp EXCEPT ![direction] = AddFlags(@, p.flags)]
                    ELSE flow.tcp]

(* Flow::record: the ends of the range are a minimum and a maximum, not    *)
(* the first and the last arrival.                                         *)
FlowRecord(flow, direction, p) ==
  [first_seen |-> MinTime(flow.first_seen, p.timestamp),
   last_seen  |-> MaxTime(flow.last_seen, p.timestamp),
   totals     |-> [flow.totals EXCEPT ![direction] =
                     AddPacket(@, p.caplen, p.wirelen)],
   tcp        |-> IF p.shape.transport = "Tcp"
                    THEN [flow.tcp EXCEPT ![direction] = AddFlags(@, p.flags)]
                    ELSE flow.tcp]

duration(flow) == Between(flow.first_seen, flow.last_seen)

-----------------------------------------------------------------------------
(* The table (flow/mod.rs)                                                 *)

Reason ==
  {"arp", "icmp", "later_fragments", "undecoded", "other_protocol", "over_flow_limit"}

(* untracked_reason: the arms of its match, in their order.                *)
untracked_reason(p) ==
  IF p.shape.network = "Arp" THEN "arp"
  ELSE IF p.shape.transport = "Icmp" THEN "icmp"
  ELSE IF p.shape.network = "None" \/ p.shape.transport # "None" THEN "undecoded"
  ELSE IF p.shape.stopped = "NonInitialFragment" THEN "later_fragments"
  ELSE IF p.shape.stopped = "UnsupportedProtocol" THEN "other_protocol"
  ELSE "undecoded"

RecordOutcome == {"Tracked", "Untracked", "OverLimit"}

EmptyTable == [flows |-> [k \in {} |-> 0], untracked |-> [r \in Reason |-> 0]]

(* Mutant: one flow too many.                                              *)
is_full_OffByOne(table) == Cardinality(DOMAIN table.flows) > MaxFlows

is_full(table) == Cardinality(DOMAIN table.flows) >= MaxFlows

(* Mutant: the limit is consulted first and refuses known conversations.   *)
Outcome_LimitFirst(table, p) ==
  IF ~ FormsFlow(p) THEN "Untracked"
  ELSE IF is_full(table) THEN "OverLimit"
  ELSE "Tracked"

(* The key is looked up before the limit is consulted, so only a NEW       *)
(* conversation is ever refused.                                           *)
Outcome(table, p) ==
  IF ~ FormsFlow(p) THEN "Untracked"
  ELSE IF KeyOf(p) \notin DOMAIN table.flows /\ is_full(table) THEN "OverLimit"
  ELSE "Tracked"

CountUntracked(table, reason) ==
  [flows     |-> table.flows,
   untracked |-> [table.untracked EXCEPT ![reason] = saturating_add(@, 1)]]

(* entry(key).or_insert_with(|| Flow::new(key, timestamp)) ...             *)
FlowOrNew(flows, p) ==
  IF KeyOf(p) \in DOMAIN flows THEN flows[KeyOf(p)] ELSE NewFlow(p.timestamp)

(* Mutant: a new entry is inserted without recording its first packet.     *)
Track_FirstPacketLost(flows, p) ==
  [k \in DOMAIN flows \cup {KeyOf(p)} |->
     IF k \notin DOMAIN flows THEN NewFlow(p.timestamp)
     ELSE IF k = KeyOf(p) THEN FlowRecord(flows[k], DirectionOf(p), p)
     ELSE flows[k]]

(* ... .record(...), which leaves every other entry alone.                 *)
Track(flows, p) ==
  [k \in DOMAIN flows \cup {KeyOf(p)} |->
     IF k = KeyOf(p) THEN FlowRecord(FlowOrNew(flows, p), DirectionOf(p), p)
     ELSE flows[k]]

(* FlowTable::record                                                       *)
record(table, p) ==
  IF Outcome(table, p) = "Untracked" THEN CountUntracked(table, untracked_reason(p))
  ELSE IF Outcome(table, p) = "OverLimit" THEN CountUntracked(table, "over_flow_limit")
  ELSE [flows |-> Track(table.flows, p), untracked |-> table.untracked]

(* Mutant: sorted by first_seen alone.                                     *)
ComesAfter_NoTieBreak(flows, k, l) ==
  ~ TimeLeq(flows[k].first_seen, flows[l].first_seen)

(* flows_sorted compares first_seen, then the key.                         *)
ComesAfter(flows, k, l) ==
  \/ ~ TimeLeq(flows[k].first_seen, flows[l].first_seen)
  \/ flows[k].first_seen = flows[l].first_seen /\ ~ KeyLeq(k, l)

(* The HashMap hands its values over in an arbitrary order and the sort is *)
(* stable, so the listing is any arrangement without an inversion.         *)
flows_sorted(flows) ==
  LET n == Cardinality(DOMAIN flows)
  IN  {s \in [1 .. n -> DOMAIN flows] :
         \A i, j \in 1 .. n :
            i < j => s[i] # s[j] /\ ~ ComesAfter(flows, s[i], s[j])}

-----------------------------------------------------------------------------
VARIABLES
  table,   \* the FlowTable
  log      \* history: each packet offered, with the outcome it met

vars == <<table, log>>

Init ==
  /\ table = EmptyTable
  /\ log = << >>

Record(p) ==
  /\ Len(log) < MaxPackets
  /\ table' = record(table, p)
  /\ log' = Append(log, [packet |-> p, outcome |-> Outcome(table, p)])

Next == \E p \in Packets : Record(p)

Spec == Init /\ [][Next]_vars

-----------------------------------------------------------------------------
(* What the table must satisfy                                             *)

Offered == 1 .. Len(log)

PacketAt(i) == log[i].packet

(* The packets counted into direction d of conversation k, and the packets *)
(* counted under reason r.                                                 *)
Filed(k, d) ==
  {i \in Offered : /\ log[i].outcome = "Tracked"
                   /\ KeyOf(PacketAt(i)) = k
                   /\ DirectionOf(PacketAt(i)) = d}

LeftOut(r) ==
  {i \in Offered : \/ log[i].outcome = "Untracked" /\ untracked_reason(PacketAt(i)) = r
                   \/ log[i].outcome = "OverLimit" /\ r = "over_flow_limit"}

TableTypeOK ==
  /\ DOMAIN table.flows \subseteq FlowKey
  /\ IsFiniteSet(DOMAIN table.flows)
  /\ \A k \in DOMAIN table.flows : table.flows[k] \in Flow
  /\ table.untracked \in [Reason -> Counter]

(* The type invariant: keys are canonical-sized records, flows are Flows   *)
(* and every counter stays inside its u64.                                 *)
TypeOK ==
  /\ TableTypeOK
  /\ log \in Seq([packet: Packets, outcome: RecordOutcome])

(* Every packet offered is counted in exactly one place: a direction of    *)
(* the conversation its endpoints name, or one untracked counter.  Each    *)
(* counter is the number of its packets, up to saturation.                 *)
EveryPacketCounted ==
  /\ \A i \in Offered :
        log[i].outcome = "Tracked" => KeyOf(PacketAt(i)) \in DOMAIN table.flows
  /\ \A k \in DOMAIN table.flows, d \in Direction :
        table.flows[k].totals[d].packets = Saturate(Cardinality(Filed(k, d)))
  /\ \A r \in Reason : table.untracked[r] = Saturate(Cardinality(LeftOut(r)))

PacketsIn(flow) == flow.totals["AtoB"].packets + flow.totals["BtoA"].packets

(* All the table's counters of packets together.                           *)
PacketsTabulated ==
  SumFunction([k \in DOMAIN table.flows |-> PacketsIn(table.flows[k])])
    + SumFunction(table.untracked)

(* The packets counted into direction d of conversation k, by their place  *)
(* among those offered.                                                    *)
PacketsFiled(k, d) == [i \in Filed(k, d) |-> PacketAt(i)]

RangeCovers(flow, times) ==
  /\ flow.first_seen \in times /\ flow.last_seen \in times
  /\ \A t \in times : TimeLeq(flow.first_seen, t) /\ TimeLeq(t, flow.last_seen)

Timestamps(packets) == {packets[i].timestamp : i \in DOMAIN packets}

BytesAddUp(totals, packets) ==
  /\ totals.captured_bytes = Saturate(SumFunction([i \in DOMAIN packets |-> packets[i].caplen]))
  /\ totals.wire_bytes = Saturate(SumFunction([i \in DOMAIN packets |-> packets[i].wirelen]))

With(flag, packets) == {i \in DOMAIN packets : flag \in packets[i].flags}

FlagsUnite(facts, packets) ==
  /\ facts.flags_seen = UNION {packets[i].flags : i \in DOMAIN packets}
  /\ facts.syn = Saturate(Cardinality(With("SYN", packets)))
  /\ facts.fin = Saturate(Cardinality(With("FIN", packets)))
  /\ facts.rst = Saturate(Cardinality(With("RST", packets)))

(* A flow depends on which packets it was given and never on their order:  *)
(* its range is the minimum and maximum of their timestamps, its bytes are *)
(* their sums, its flags their union and its SYN, FIN and RST counts the   *)
(* number of packets carrying them.                                        *)
FlowsSummariseTheirPackets ==
  \A k \in DOMAIN table.flows :
    LET flow == table.flows[k]
    IN  /\ RangeCovers(flow, UNION {Timestamps(PacketsFiled(k, d)) : d \in Direction})
        /\ \A d \in Direction :
             /\ BytesAddUp(flow.totals[d], PacketsFiled(k, d))
             /\ IF k.protocol = "Tcp" THEN FlagsUnite(flow.tcp[d], PacketsFiled(k, d))
                ELSE flow.tcp[d] = NoFacts

(* Where packet i went, against the table as it is NOW: a tracked packet's *)
(* conversation is still listed, a refused one's is still absent and the   *)
(* table is still full.                                                    *)
OutcomeHolds(i) ==
  /\ log[i].outcome = "Untracked" <=> ~ FormsFlow(PacketAt(i))
  /\ log[i].outcome = "Tracked" => KeyOf(PacketAt(i)) \in DOMAIN table.flows
  /\ log[i].outcome = "OverLimit" =>
        KeyOf(PacketAt(i)) \notin DOMAIN table.flows /\ is_full(table)

(* No decision is overtaken by a later packet: nothing listed is evicted,  *)
(* nothing refused gets in, and a full table never has room again.         *)
OutcomesStillHold == \A i \in Offered : OutcomeHolds(i)

(* A conversation is tracked whole or not at all: no two of its packets    *)
(* ever met different outcomes, however the table filled up in between.    *)
NoPartialFlow ==
  \A i, j \in Offered :
     /\ FormsFlow(PacketAt(i)) /\ FormsFlow(PacketAt(j))
     /\ KeyOf(PacketAt(i)) = KeyOf(PacketAt(j))
     => log[i].outcome = log[j].outcome

(* The conversations met before i, and the ones the table must hold: the   *)
(* first MaxFlows to appear.                                               *)
KeysBefore(i) == {KeyOf(PacketAt(j)) : j \in {j \in 1 .. i - 1 : FormsFlow(PacketAt(j))}}

(* The limit cuts by order of arrival and by nothing else, and an entry is *)
(* neither evicted nor admitted late.                                      *)
FirstConversationsKept ==
  DOMAIN table.flows =
    {KeyOf(PacketAt(i)) :
       i \in {i \in Offered : /\ FormsFlow(PacketAt(i))
                              /\ Cardinality(KeysBefore(i)) < MaxFlows}}

Swapped(p) == [p EXCEPT !.source = p.destination, !.destination = p.source]

Replay(packets) == FoldLeft(record, EmptyTable, packets)

Offerings == [i \in Offered |-> PacketAt(i)]

(* Had every packet travelled the other way, the same conversations would  *)
(* be listed with their two directions exchanged (a packet from an         *)
(* endpoint to itself has only one).                                       *)
MirroredTrafficMirrorsFlows ==
  LET mirror == Replay([i \in Offered |-> Swapped(PacketAt(i))])
  IN  /\ mirror.untracked = table.untracked
      /\ DOMAIN mirror.flows = DOMAIN table.flows
      /\ \A k \in DOMAIN table.flows :
           LET flow  == table.flows[k]
               other == mirror.flows[k]
           IN  /\ other.first_seen = flow.first_seen /\ other.last_seen = flow.last_seen
               /\ k.a # k.b =>
                    /\ other.totals["AtoB"] = flow.totals["BtoA"]
                    /\ other.totals["BtoA"] = flow.totals["AtoB"]
                    /\ other.tcp["AtoB"] = flow.tcp["BtoA"]
                    /\ other.tcp["BtoA"] = flow.tcp["AtoB"]

(* README, "What a flow is": the same capture read backwards produces the  *)
(* same flows.                                                             *)
ReadBackwardsSameFlows == Replay(Reverse(Offerings)).flows = table.flows

(* ... which the code does keep as long as nothing was refused.            *)
OrderIrrelevantUnlessRefused ==
  table.untracked["over_flow_limit"] = 0 => Replay(Reverse(Offerings)) = table

(* Forensic output has to be reproducible: whatever order the hash map     *)
(* yields, the listing comes out the same, even among flows that began in  *)
(* the same microsecond.                                                   *)
ListingIsReproducible == Cardinality(flows_sorted(table.flows)) = 1

(* duration() is None only for an end that is no point in time or a range  *)
(* beyond a u64: packets out of order never make it negative.              *)
DurationOnlyMissingForOddStamps ==
  \A k \in DOMAIN table.flows :
    LET first == table.flows[k].first_seen
        last  == table.flows[k].last_seen
    IN  duration(table.flows[k]) = {} <=>
          ~ IsPointInTime(first) \/ ~ IsPointInTime(last) \/ TooFarApart(first, last)
=============================================================================
