-------------------------- MODULE FlowReportProofs --------------------------
(***************************************************************************)
(* Theorems about what becomes of a run's flows when its packets travel    *)
(* the other way or are read backwards, and about the report printed on    *)
(* them.                                                                   *)
(***************************************************************************)
EXTENDS FlowReport, FlowTableProofs

-----------------------------------------------------------------------------
(* Mirrored traffic                                                        *)

LEMMA SwappedParts ==
  ASSUME NEW p \in Packet
  PROVE  /\ Swapped(p).source = p.destination /\ Swapped(p).destination = p.source
         /\ Swapped(p).shape = p.shape /\ Swapped(p).flags = p.flags
         /\ Swapped(p).timestamp = p.timestamp
         /\ Swapped(p).caplen = p.caplen /\ Swapped(p).wirelen = p.wirelen
         /\ FormsFlow(Swapped(p)) <=> FormsFlow(p)
         /\ untracked_reason(Swapped(p)) = untracked_reason(p)
<1>1. /\ Swapped(p).source = p.destination /\ Swapped(p).destination = p.source
      /\ Swapped(p).shape = p.shape /\ Swapped(p).flags = p.flags
      /\ Swapped(p).timestamp = p.timestamp
      /\ Swapped(p).caplen = p.caplen /\ Swapped(p).wirelen = p.wirelen
  BY DEF Swapped, Packet
<1>. QED
  BY <1>1 DEF FormsFlow, untracked_reason

LEMMA SwappedKey ==
  ASSUME NEW p \in Packet, FormsFlow(p)
  PROVE  /\ KeyOf(Swapped(p)) = KeyOf(p)
         /\ DirectionOf(p) \in Direction /\ DirectionOf(Swapped(p)) \in Direction
         /\ KeyOf(p).a # KeyOf(p).b => DirectionOf(Swapped(p)) # DirectionOf(p)
<1>1. /\ p.source \in Endpoint /\ p.destination \in Endpoint
      /\ p.shape.transport \in FlowProtocol
  BY DEF Packet, FormsFlow
<1>2. /\ canonical(p.shape.transport, p.source, p.destination).key
           = canonical(p.shape.transport, p.destination, p.source).key
      /\ p.source # p.destination =>
           canonical(p.shape.transport, p.source, p.destination).direction
             # canonical(p.shape.transport, p.destination, p.source).direction
      /\ canonical(p.shape.transport, p.source, p.destination).direction \in Direction
      /\ canonical(p.shape.transport, p.destination, p.source).direction \in Direction
  BY <1>1, KeyIsOfTheConversation, CanonicalType
<1>3. /\ KeyOf(p) = canonical(p.shape.transport, p.source, p.destination).key
      /\ KeyOf(Swapped(p)) = canonical(p.shape.transport, p.destination, p.source).key
      /\ DirectionOf(p) = canonical(p.shape.transport, p.source, p.destination).direction
      /\ DirectionOf(Swapped(p))
           = canonical(p.shape.transport, p.destination, p.source).direction
  BY SwappedParts DEF KeyOf, DirectionOf, from_packet
<1>4. KeyOf(p).a # KeyOf(p).b => p.source # p.destination
  BY DEF KeyOf, from_packet, canonical
<1>. QED
  BY <1>2, <1>3, <1>4

HasBothWays(flow) == DOMAIN flow.totals = Direction /\ DOMAIN flow.tcp = Direction

MirrorFlow(k, flow, other) ==
  /\ other.first_seen = flow.first_seen /\ other.last_seen = flow.last_seen
  /\ k.a # k.b =>
       /\ other.totals["AtoB"] = flow.totals["BtoA"]
       /\ other.totals["BtoA"] = flow.totals["AtoB"]
       /\ other.tcp["AtoB"] = flow.tcp["BtoA"]
       /\ other.tcp["BtoA"] = flow.tcp["AtoB"]

MirrorTable(t, m) ==
  /\ m.untracked = t.untracked
  /\ DOMAIN m.flows = DOMAIN t.flows
  /\ \A k \in DOMAIN t.flows :
       /\ HasBothWays(t.flows[k]) /\ HasBothWays(m.flows[k])
       /\ MirrorFlow(k, t.flows[k], m.flows[k])

LEMMA MirrorFlowRecord ==
  ASSUME NEW p \in Packet, FormsFlow(p), NEW flow, NEW other,
         HasBothWays(flow), HasBothWays(other), MirrorFlow(KeyOf(p), flow, other)
  PROVE  LET flow2  == FlowRecord(flow, DirectionOf(p), p)
             other2 == FlowRecord(other, DirectionOf(Swapped(p)), Swapped(p))
         IN  HasBothWays(flow2) /\ HasBothWays(other2) /\ MirrorFlow(KeyOf(p), flow2, other2)
<1>. DEFINE way == DirectionOf(p)
            back == DirectionOf(Swapped(p))
            flow2 == FlowRecord(flow, way, p)
            other2 == FlowRecord(other, back, Swapped(p))
            Bytes(totals) == AddPacket(totals, p.caplen, p.wirelen)
            Facts(facts) == IF p.shape.transport = "Tcp" THEN AddFlags(facts, p.flags) ELSE facts
<1>1. /\ flow2.first_seen = MinTime(flow.first_seen, p.timestamp)
      /\ flow2.last_seen = MaxTime(flow.last_seen, p.timestamp)
      /\ DOMAIN flow2.totals = Direction /\ DOMAIN flow2.tcp = Direction
      /\ \A d \in Direction :
           /\ flow2.totals[d] = IF d = way THEN Bytes(flow.totals[d]) ELSE flow.totals[d]
           /\ flow2.tcp[d] = IF d = way THEN Facts(flow.tcp[d]) ELSE flow.tcp[d]
  BY DEF FlowRecord, HasBothWays
<1>2. /\ other2.first_seen = MinTime(other.first_seen, p.timestamp)
      /\ other2.last_seen = MaxTime(other.last_seen, p.timestamp)
      /\ DOMAIN other2.totals = Direction /\ DOMAIN other2.tcp = Direction
      /\ \A d \in Direction :
           /\ other2.totals[d] = IF d = back THEN Bytes(other.totals[d]) ELSE other.totals[d]
           /\ other2.tcp[d] = IF d = back THEN Facts(other.tcp[d]) ELSE other.tcp[d]
  BY SwappedParts DEF FlowRecord, HasBothWays
<1>3. /\ way \in Direction /\ back \in Direction
      /\ KeyOf(p).a # KeyOf(p).b => back # way
  BY SwappedKey
<1>. HIDE DEF way, back, flow2, other2, Bytes, Facts
<1>4. MirrorFlow(KeyOf(p), flow2, other2)
  BY <1>1, <1>2, <1>3 DEF MirrorFlow, Direction
<1>5. HasBothWays(flow2) /\ HasBothWays(other2)
  BY <1>1, <1>2 DEF HasBothWays
<1>. QED
  BY <1>4, <1>5 DEF flow2, other2, way, back

(* Whatever a packet does to a table, its mirror image does to the mirror. *)
LEMMA MirrorRecord ==
  ASSUME NEW t, NEW m, NEW p \in Packet, MirrorTable(t, m)
  PROVE  MirrorTable(record(t, p), record(m, Swapped(p)))
<1>. DEFINE q == Swapped(p)
            k == KeyOf(p)
<1>1. Outcome(m, q) = Outcome(t, p)
  <2>1. FormsFlow(q) <=> FormsFlow(p)
    BY SwappedParts
  <2>2. FormsFlow(p) => KeyOf(q) = KeyOf(p)
    BY SwappedKey
  <2>3. DOMAIN m.flows = DOMAIN t.flows /\ (is_full(m) <=> is_full(t))
    BY DEF MirrorTable, is_full
  <2>. QED
    BY <2>1, <2>2, <2>3 DEF Outcome
<1>2. CASE Outcome(t, p) = "Tracked"
  <2>1. /\ record(t, p) = [flows |-> Track(t.flows, p), untracked |-> t.untracked]
        /\ record(m, q) = [flows |-> Track(m.flows, q), untracked |-> m.untracked]
    BY <1>1, <1>2 DEF record
  <2>2. FormsFlow(p)
    BY <1>2 DEF Outcome
  <2>3. KeyOf(q) = k /\ q.timestamp = p.timestamp
    BY <2>2, SwappedKey, SwappedParts
  <2>4. /\ HasBothWays(FlowOrNew(t.flows, p)) /\ HasBothWays(FlowOrNew(m.flows, q))
        /\ MirrorFlow(k, FlowOrNew(t.flows, p), FlowOrNew(m.flows, q))
    <3>1. CASE k \in DOMAIN t.flows
      BY <2>3, <3>1 DEF FlowOrNew, MirrorTable
    <3>2. CASE k \notin DOMAIN t.flows
      <4>1. /\ FlowOrNew(t.flows, p) = NewFlow(p.timestamp)
            /\ FlowOrNew(m.flows, q) = NewFlow(p.timestamp)
        BY <2>3, <3>2 DEF FlowOrNew, MirrorTable
      <4>2. HasBothWays(NewFlow(p.timestamp))
              /\ MirrorFlow(k, NewFlow(p.timestamp), NewFlow(p.timestamp))
        BY DEF HasBothWays, MirrorFlow, NewFlow, Direction
      <4>. QED
        BY <4>1, <4>2
    <3>. QED
      BY <3>1, <3>2
  <2>5. /\ DOMAIN Track(t.flows, p) = DOMAIN t.flows \cup {k}
        /\ DOMAIN Track(m.flows, q) = DOMAIN t.flows \cup {k}
        /\ Track(t.flows, p)[k] = FlowRecord(FlowOrNew(t.flows, p), DirectionOf(p), p)
        /\ Track(m.flows, q)[k] = FlowRecord(FlowOrNew(m.flows, q), DirectionOf(q), q)
        /\ \A l \in DOMAIN t.flows : l # k =>
             Track(t.flows, p)[l] = t.flows[l] /\ Track(m.flows, q)[l] = m.flows[l]
    BY <2>3 DEF Track, MirrorTable
  <2>6. /\ HasBothWays(Track(t.flows, p)[k]) /\ HasBothWays(Track(m.flows, q)[k])
        /\ MirrorFlow(k, Track(t.flows, p)[k], Track(m.flows, q)[k])
    BY <2>2, <2>4, <2>5, MirrorFlowRecord
  <2>. HIDE DEF q, k
  <2>7. \A l \in DOMAIN t.flows \cup {k} :
          /\ HasBothWays(Track(t.flows, p)[l]) /\ HasBothWays(Track(m.flows, q)[l])
          /\ MirrorFlow(l, Track(t.flows, p)[l], Track(m.flows, q)[l])
    BY <2>5, <2>6 DEF MirrorTable
  <2>8. MirrorTable(record(t, p), record(m, q))
    BY <2>1, <2>5, <2>7 DEF MirrorTable
  <2>. QED
    BY <2>8 DEF q
<1>3. CASE Outcome(t, p) # "Tracked"
  <2>. DEFINE r == IF Outcome(t, p) = "Untracked" THEN untracked_reason(p) ELSE "over_flow_limit"
  <2>1. /\ record(t, p) = CountUntracked(t, r)
        /\ record(m, q) = CountUntracked(m, r)
    <3>1. Outcome(t, p) \in {"Untracked", "OverLimit"}
      BY <1>3 DEF Outcome
    <3>. QED
      BY <1>1, <3>1, SwappedParts DEF record
  <2>. HIDE DEF r, q
  <2>2. MirrorTable(CountUntracked(t, r), CountUntracked(m, r))
    BY DEF MirrorTable, CountUntracked
  <2>. QED
    BY <2>1, <2>2 DEF q
<1>. QED
  BY <1>2, <1>3

Mirror == [i \in Offered |-> Swapped(PacketAt(i))]

MirrorHolds == MirrorTable(table, Replay(Mirror))

LEMMA MirrorInit == Init => MirrorHolds
<1>. SUFFICES ASSUME Init PROVE MirrorHolds
  OBVIOUS
<1>1. DOMAIN Mirror = {}
  BY DEF Init, Mirror, Offered
<1>2. Replay(Mirror) = table
  BY <1>1, ReplayNothing DEF Init
<1>3. DOMAIN table.flows = {}
  BY DEF Init, EmptyTable
<1>. QED
  BY <1>2, <1>3 DEF MirrorHolds, MirrorTable

LEMMA MirrorStep ==
  ASSUME TypeOK, MirrorHolds, NEW p \in Packets, Record(p)
  PROVE  MirrorHolds'
<1>. SUFFICES ASSUME NEW n, n = Len(log)
              PROVE  MirrorHolds'
  OBVIOUS
<1>. DEFINE q == [i \in Offered |-> Swapped(PacketAt(i))]
            r == [i \in Offered' |-> Swapped(log'[i].packet)]
<1>1. /\ n \in Nat /\ Offered = 1 .. n /\ Offered' = 1 .. n + 1
      /\ \A i \in Offered : log'[i] = log[i]
      /\ log'[n + 1] = Entry(p)
  <2>1. Len(log') = n + 1
    BY DEF Record, TypeOK
  <2>. QED
    BY <2>1, LogStep DEF Offered
<1>2. \A i \in 1 .. n : r[i] = q[i]
  BY <1>1 DEF PacketAt
<1>3. r[n + 1] = Swapped(p)
  BY <1>1 DEF Entry
<1>4. DOMAIN q = 1 .. n /\ DOMAIN r = 1 .. n + 1
  BY <1>1
<1>. HIDE DEF q, r
<1>5. Replay(r) = record(Replay(q), Swapped(p))
  BY <1>1, <1>2, <1>3, <1>4, ReplayOneMore
<1>6. MirrorTable(table, Replay(q))
  BY DEF MirrorHolds, Mirror, q
<1>7. MirrorTable(record(table, p), Replay(r))
  BY <1>5, <1>6, MirrorRecord, FlowTableAssumption
<1>8. table' = record(table, p)
  BY DEF Record
<1>9. Replay(Mirror)' = Replay(r)
  BY DEF Mirror, PacketAt, r
<1>. QED
  BY <1>7, <1>8, <1>9 DEF MirrorHolds

(* Which way the packets travelled decides which direction they are        *)
(* counted in, and nothing else about the table.                           *)
THEOREM MirrorImageIsMirrored == Spec => []MirroredTrafficMirrorsFlows
<1>1. TypeOK /\ MirrorHolds /\ [Next]_vars => MirrorHolds'
  <2>. SUFFICES ASSUME TypeOK, MirrorHolds, [Next]_vars
                PROVE  MirrorHolds'
    OBVIOUS
  <2>1. CASE UNCHANGED vars
    <3>1. table' = table /\ Mirror' = Mirror
      BY <2>1 DEF vars, Mirror, Offered, PacketAt
    <3>. QED
      BY <3>1 DEF MirrorHolds
  <2>. QED
    BY <2>1, MirrorStep DEF Next
<1>2. MirrorHolds => MirroredTrafficMirrorsFlows
  BY DEF MirrorHolds, Mirror, MirrorTable, MirrorFlow, MirroredTrafficMirrorsFlows
<1>. QED
  BY <1>1, <1>2, MirrorInit, TypeCorrect, PTL DEF Spec

-----------------------------------------------------------------------------
(* Traffic read backwards                                                  *)

LEMMA SaturatingAddCommutes ==
  ASSUME NEW n \in Counter, NEW a \in Nat, NEW b \in Nat
  PROVE  saturating_add(saturating_add(n, a), b) = saturating_add(saturating_add(n, b), a)
BY CounterMaxAssumption DEF saturating_add, Saturate, Counter

LEMMA AddPacketCommutes ==
  ASSUME NEW totals \in Totals,
         NEW a \in Nat, NEW b \in Nat, NEW c \in Nat, NEW d \in Nat
  PROVE  AddPacket(AddPacket(totals, a, b), c, d) = AddPacket(AddPacket(totals, c, d), a, b)
<1>1. /\ totals.packets \in Counter
      /\ totals.captured_bytes \in Counter /\ totals.wire_bytes \in Counter
  BY DEF Totals
<1>2. /\ saturating_add(saturating_add(totals.captured_bytes, a), c)
           = saturating_add(saturating_add(totals.captured_bytes, c), a)
      /\ saturating_add(saturating_add(totals.wire_bytes, b), d)
           = saturating_add(saturating_add(totals.wire_bytes, d), b)
  BY <1>1, SaturatingAddCommutes
<1>. QED
  BY <1>2 DEF AddPacket

LEMMA AddFlagsCommutes ==
  ASSUME NEW facts \in TcpDirectionFacts, NEW F \in SUBSET TcpFlag, NEW G \in SUBSET TcpFlag
  PROVE  AddFlags(AddFlags(facts, F), G) = AddFlags(AddFlags(facts, G), F)
<1>1. ASSUME NEW c \in BOOLEAN, NEW d \in BOOLEAN, NEW n
      PROVE  CountIf(d, CountIf(c, n)) = CountIf(c, CountIf(d, n))
  BY DEF CountIf
<1>2. /\ ("SYN" \in F) \in BOOLEAN /\ ("FIN" \in F) \in BOOLEAN /\ ("RST" \in F) \in BOOLEAN
      /\ ("SYN" \in G) \in BOOLEAN /\ ("FIN" \in G) \in BOOLEAN /\ ("RST" \in G) \in BOOLEAN
  OBVIOUS
<1>3. /\ CountIf("SYN" \in G, CountIf("SYN" \in F, facts.syn))
           = CountIf("SYN" \in F, CountIf("SYN" \in G, facts.syn))
      /\ CountIf("FIN" \in G, CountIf("FIN" \in F, facts.fin))
           = CountIf("FIN" \in F, CountIf("FIN" \in G, facts.fin))
      /\ CountIf("RST" \in G, CountIf("RST" \in F, facts.rst))
           = CountIf("RST" \in F, CountIf("RST" \in G, facts.rst))
  BY <1>1, <1>2, Zenon
<1>4. (facts.flags_seen \cup F) \cup G = (facts.flags_seen \cup G) \cup F
  OBVIOUS
<1>. QED
  BY <1>3, <1>4 DEF AddFlags

LEMMA RangeCommutes ==
  ASSUME NEW t \in PacketTimestamp, NEW u \in PacketTimestamp, NEW v \in PacketTimestamp
  PROVE  /\ MinTime(MinTime(t, u), v) = MinTime(MinTime(t, v), u)
         /\ MaxTime(MaxTime(t, u), v) = MaxTime(MaxTime(t, v), u)
         /\ MinTime(MinTime(u, u), v) = MinTime(MinTime(v, u), v)
         /\ MaxTime(MaxTime(u, u), v) = MaxTime(MaxTime(v, u), v)
<1>. USE TimeOrder
<1>1. MinTime(MinTime(t, u), v) = MinTime(MinTime(t, v), u)
  BY DEF MinTime
<1>2. MaxTime(MaxTime(t, u), v) = MaxTime(MaxTime(t, v), u)
  BY DEF MaxTime
<1>3. MinTime(MinTime(u, u), v) = MinTime(MinTime(v, u), v)
  BY DEF MinTime
<1>4. MaxTime(MaxTime(u, u), v) = MaxTime(MaxTime(v, u), v)
  BY DEF MaxTime
<1>. QED
  BY <1>1, <1>2, <1>3, <1>4

(* Two packets leave the same flow whichever of them comes first.          *)
LEMMA FlowRecordCommutes ==
  ASSUME NEW flow \in Flow, NEW p \in Packets, NEW q \in Packets,
         NEW d \in Direction, NEW e \in Direction
  PROVE  FlowRecord(FlowRecord(flow, d, p), e, q) = FlowRecord(FlowRecord(flow, e, q), d, p)
<1>. DEFINE Bytes(totals, x) == AddPacket(totals, x.caplen, x.wirelen)
            Facts(facts, x) ==
              IF x.shape.transport = "Tcp" THEN AddFlags(facts, x.flags) ELSE facts
<1>1. /\ flow.first_seen \in PacketTimestamp /\ flow.last_seen \in PacketTimestamp
      /\ flow.totals \in [Direction -> Totals] /\ flow.tcp \in [Direction -> TcpDirectionFacts]
  BY DEF Flow
<1>2. ASSUME NEW w \in Direction
      PROVE  /\ Bytes(Bytes(flow.totals[w], p), q) = Bytes(Bytes(flow.totals[w], q), p)
             /\ Facts(Facts(flow.tcp[w], p), q) = Facts(Facts(flow.tcp[w], q), p)
  <2>1. flow.totals[w] \in Totals /\ flow.tcp[w] \in TcpDirectionFacts
    BY <1>1
  <2>. QED
    BY <2>1, PacketParts, AddPacketCommutes, AddFlagsCommutes
<1>. DEFINE Rec(f, w, x) ==
              [first_seen |-> MinTime(f.first_seen, x.timestamp),
               last_seen  |-> MaxTime(f.last_seen, x.timestamp),
               totals     |-> [y \in Direction |->
                                 IF y = w THEN Bytes(f.totals[y], x) ELSE f.totals[y]],
               tcp        |-> [y \in Direction |->
                                 IF y = w THEN Facts(f.tcp[y], x) ELSE f.tcp[y]]]
            Whole(f) == /\ f.totals = [y \in Direction |-> f.totals[y]]
                        /\ f.tcp = [y \in Direction |-> f.tcp[y]]
<1>3. ASSUME NEW f, Whole(f), NEW w \in Direction, NEW x
      PROVE  FlowRecord(f, w, x) = Rec(f, w, x) /\ Whole(Rec(f, w, x))
  <2>1. [f.totals EXCEPT ![w] = Bytes(@, x)] = Rec(f, w, x).totals
    BY <1>3
  <2>2. [f.tcp EXCEPT ![w] = AddFlags(@, x.flags)]
          = [y \in Direction |-> IF y = w THEN AddFlags(f.tcp[y], x.flags) ELSE f.tcp[y]]
    BY <1>3
  <2>. QED
    BY <1>3, <2>1, <2>2 DEF FlowRecord
<1>. HIDE DEF Bytes, Facts
<1>4. /\ FlowRecord(flow, d, p) = Rec(flow, d, p) /\ FlowRecord(flow, e, q) = Rec(flow, e, q)
      /\ FlowRecord(Rec(flow, d, p), e, q) = Rec(Rec(flow, d, p), e, q)
      /\ FlowRecord(Rec(flow, e, q), d, p) = Rec(Rec(flow, e, q), d, p)
  <2>1. Whole(flow)
    BY <1>1
  <2>. HIDE DEF Rec, Whole
  <2>. QED
    BY <1>3, <2>1
<1>5. Rec(Rec(flow, d, p), e, q) = Rec(Rec(flow, e, q), d, p)
  <2>1. /\ MinTime(MinTime(flow.first_seen, p.timestamp), q.timestamp)
             = MinTime(MinTime(flow.first_seen, q.timestamp), p.timestamp)
        /\ MaxTime(MaxTime(flow.last_seen, p.timestamp), q.timestamp)
             = MaxTime(MaxTime(flow.last_seen, q.timestamp), p.timestamp)
    BY <1>1, PacketParts, RangeCommutes
  <2>. QED
    BY <1>2, <2>1
<1>. QED
  BY <1>4, <1>5

(* ... even when it is the first of them that opens the flow.              *)
LEMMA OpeningCommutes ==
  ASSUME NEW p \in Packets, NEW q \in Packets, NEW d \in Direction, NEW e \in Direction
  PROVE  FlowRecord(FlowRecord(NewFlow(p.timestamp), d, p), e, q)
           = FlowRecord(FlowRecord(NewFlow(q.timestamp), e, q), d, p)
<1>1. FlowRecord(FlowRecord(NewFlow(p.timestamp), d, p), e, q)
        = FlowRecord(FlowRecord(NewFlow(q.timestamp), d, p), e, q)
  BY RangeCommutes, PacketParts DEF FlowRecord, NewFlow
<1>. QED
  BY <1>1, NewFlowType, PacketParts, FlowRecordCommutes

(* Packets and tables of a run that meets the conversations K and no       *)
(* others.                                                                 *)
Among(K) == {p \in Packets : FormsFlow(p) => KeyOf(p) \in K}

Limited(t, K) ==
  /\ DOMAIN t.flows \subseteq K
  /\ \A k \in DOMAIN t.flows : t.flows[k] \in Flow
  /\ t.untracked \in [Reason -> Counter]

LEMMA TrackCommutes ==
  ASSUME NEW flows, \A k \in DOMAIN flows : flows[k] \in Flow,
         NEW p \in Packets, FormsFlow(p), NEW q \in Packets, FormsFlow(q)
  PROVE  Track(Track(flows, p), q) = Track(Track(flows, q), p)
<1>. DEFINE k == KeyOf(p)
            l == KeyOf(q)
            D == DOMAIN flows \cup {k} \cup {l}
            New(f, x) == FlowRecord(FlowOrNew(f, x), DirectionOf(x), x)
            F == Track(flows, p)
            G == Track(flows, q)
<1>1. \A f, x : Track(f, x) = [m \in DOMAIN f \cup {KeyOf(x)} |->
                                IF m = KeyOf(x) THEN New(f, x) ELSE f[m]]
  BY DEF Track
<1>2. /\ F = [m \in DOMAIN flows \cup {k} |-> IF m = k THEN New(flows, p) ELSE flows[m]]
      /\ G = [m \in DOMAIN flows \cup {l} |-> IF m = l THEN New(flows, q) ELSE flows[m]]
      /\ Track(F, q) = [m \in D |-> IF m = l THEN New(F, q) ELSE F[m]]
      /\ Track(G, p) = [m \in D |-> IF m = k THEN New(G, p) ELSE G[m]]
  <2>. HIDE DEF New
  <2>. QED
    BY <1>1
<1>3. CASE k # l
  <2>1. FlowOrNew(F, q) = FlowOrNew(flows, q) /\ FlowOrNew(G, p) = FlowOrNew(flows, p)
    <3>. HIDE DEF New, F, G
    <3>. QED
      BY <1>2, <1>3 DEF FlowOrNew
  <2>2. New(F, q) = New(flows, q) /\ New(G, p) = New(flows, p)
    BY <2>1
  <2>. HIDE DEF New, F, G, k, l
  <2>3. \A m \in D : Track(F, q)[m] = Track(G, p)[m]
    BY <1>2, <1>3, <2>2 DEF D
  <2>4. Track(F, q) = Track(G, p)
    BY <1>2, <2>3
  <2>. QED
    BY <2>4 DEF F, G
<1>4. CASE k = l
  <2>1. New(F, q) = New(G, p)
    <3>1. /\ FlowOrNew(F, q) = New(flows, p)
          /\ FlowOrNew(G, p) = New(flows, q)
      <4>. HIDE DEF New, F, G
      <4>. QED
        BY <1>2, <1>4 DEF FlowOrNew
    <3>2. DirectionOf(p) \in Direction /\ DirectionOf(q) \in Direction
      BY KeyType
    <3>3. CASE k \in DOMAIN flows
      BY <1>4, <3>1, <3>2, <3>3, FlowRecordCommutes DEF FlowOrNew
    <3>4. CASE k \notin DOMAIN flows
      BY <1>4, <3>1, <3>2, <3>4, OpeningCommutes DEF FlowOrNew
    <3>. QED
      BY <3>3, <3>4
  <2>. HIDE DEF New, F, G, k, l
  <2>2. \A m \in D : Track(F, q)[m] = Track(G, p)[m]
    BY <1>2, <1>4, <2>1 DEF D
  <2>3. Track(F, q) = Track(G, p)
    BY <1>2, <2>2
  <2>. QED
    BY <2>3 DEF F, G
<1>. QED
  BY <1>3, <1>4

(* With room for all of K nothing is refused, and one packet does to the   *)
(* flows or to the untracked counters what it always does.                 *)
LEMMA LimitedRecord ==
  ASSUME NEW K, IsFiniteSet(K), Cardinality(K) <= MaxFlows,
         NEW t, Limited(t, K), NEW p \in Among(K)
  PROVE  /\ record(t, p) =
              [flows |-> IF FormsFlow(p) THEN Track(t.flows, p) ELSE t.flows,
               untracked |-> IF FormsFlow(p) THEN t.untracked
                             ELSE [t.untracked EXCEPT ![untracked_reason(p)]
                                     = saturating_add(@, 1)]]
         /\ Limited(record(t, p), K)
<1>1. FormsFlow(p) => KeyOf(p) \in DOMAIN t.flows \/ ~ is_full(t)
  <2>. SUFFICES ASSUME FormsFlow(p), KeyOf(p) \notin DOMAIN t.flows
                PROVE  ~ is_full(t)
    OBVIOUS
  <2>1. DOMAIN t.flows \subseteq K /\ DOMAIN t.flows # K
    BY DEF Among, Limited
  <2>2. Cardinality(DOMAIN t.flows) < Cardinality(K)
    BY <2>1, FS_Subset, FS_CardinalityType
  <2>. QED
    BY <2>1, <2>2, FlowTableAssumption, FS_Subset, FS_CardinalityType DEF is_full
<1>2. Outcome(t, p) = IF FormsFlow(p) THEN "Tracked" ELSE "Untracked"
  BY <1>1 DEF Outcome
<1>3. record(t, p) =
        [flows |-> IF FormsFlow(p) THEN Track(t.flows, p) ELSE t.flows,
         untracked |-> IF FormsFlow(p) THEN t.untracked
                       ELSE [t.untracked EXCEPT ![untracked_reason(p)]
                               = saturating_add(@, 1)]]
  BY <1>2 DEF record, CountUntracked
<1>4. CASE FormsFlow(p)
  <2>1. KeyOf(p) \in K /\ DirectionOf(p) \in Direction /\ p \in Packets
    BY <1>4, KeyType DEF Among
  <2>2. FlowOrNew(t.flows, p) \in Flow
    BY <2>1, NewFlowType, PacketParts DEF FlowOrNew, Limited
  <2>3. /\ DOMAIN Track(t.flows, p) = DOMAIN t.flows \cup {KeyOf(p)}
        /\ \A k \in DOMAIN Track(t.flows, p) : Track(t.flows, p)[k] \in Flow
    BY <2>1, <2>2, FlowRecordType DEF Track, Limited
  <2>. QED
    BY <1>3, <1>4, <2>1, <2>3 DEF Limited
<1>5. CASE ~ FormsFlow(p)
  <2>1. saturating_add(t.untracked[untracked_reason(p)], 1) \in Counter
    BY ReasonType, SaturatingAdd DEF Limited
  <2>. QED
    BY <1>3, <1>5, <2>1, ReasonType DEF Limited
<1>. QED
  BY <1>3, <1>4, <1>5

LEMMA RecordCommutes ==
  ASSUME NEW K, IsFiniteSet(K), Cardinality(K) <= MaxFlows,
         NEW t, Limited(t, K), NEW p \in Among(K), NEW q \in Among(K)
  PROVE  record(record(t, p), q) = record(record(t, q), p)
<1>. DEFINE Flows(f, x) == IF FormsFlow(x) THEN Track(f, x) ELSE f
            Counts(u, x) == IF FormsFlow(x) THEN u
                            ELSE [u EXCEPT ![untracked_reason(x)] = saturating_add(@, 1)]
            After(u, x) == [flows |-> Flows(u.flows, x), untracked |-> Counts(u.untracked, x)]
<1>1. \A u, x : Limited(u, K) /\ x \in Among(K)
               => record(u, x) = After(u, x) /\ Limited(record(u, x), K)
  BY LimitedRecord
<1>2. Flows(Flows(t.flows, p), q) = Flows(Flows(t.flows, q), p)
  BY TrackCommutes DEF Limited, Among
<1>3. Counts(Counts(t.untracked, p), q) = Counts(Counts(t.untracked, q), p)
  <2>1. \A r \in Reason : t.untracked[r] \in Counter
    BY DEF Limited
  <2>. QED
    BY <2>1, ReasonType DEF Limited
<1>. HIDE DEF Flows, Counts
<1>4. record(record(t, p), q) = After(After(t, p), q)
  <2>. HIDE DEF After
  <2>. QED
    BY <1>1
<1>5. record(record(t, q), p) = After(After(t, q), p)
  <2>. HIDE DEF After
  <2>. QED
    BY <1>1
<1>. QED
  BY <1>2, <1>3, <1>4, <1>5

LEMMA EmptyIsLimited == \A K : Limited(EmptyTable, K)
BY CounterMaxAssumption DEF EmptyTable, Limited, Counter

LEMMA ReplayLimited ==
  ASSUME NEW K, IsFiniteSet(K), Cardinality(K) <= MaxFlows
  PROVE  \A n \in Nat : \A q \in [1 .. n -> Among(K)] : Limited(Replay(q), K)
<1>. DEFINE Good == {n \in Nat : \A q \in [1 .. n -> Among(K)] : Limited(Replay(q), K)}
<1>1. 0 \in Good
  <2>1. ASSUME NEW q \in [1 .. 0 -> Among(K)]
        PROVE  Limited(Replay(q), K)
    <3>1. DOMAIN q = {}
      OBVIOUS
    <3>. QED
      BY <3>1, ReplayNothing, EmptyIsLimited
  <2>. QED
    BY <2>1
<1>2. ASSUME NEW n \in Nat, n \in Good
      PROVE  n + 1 \in Good
  <2>1. ASSUME NEW r \in [1 .. n + 1 -> Among(K)]
        PROVE  Limited(Replay(r), K)
    <3>. DEFINE q == [i \in 1 .. n |-> r[i]]
    <3>1. q \in [1 .. n -> Among(K)] /\ r[n + 1] \in Among(K)
      OBVIOUS
    <3>2. Replay(r) = record(Replay(q), r[n + 1])
      BY ReplayOneMore
    <3>3. Limited(Replay(q), K)
      BY <1>2, <3>1
    <3>. QED
      BY <3>1, <3>2, <3>3, LimitedRecord
  <2>. QED
    BY <2>1
<1>. HIDE DEF Good
<1>3. \A n \in Nat : n \in Good
  BY <1>1, <1>2, NumberInduction
<1>. QED
  BY <1>3 DEF Good

(* A packet that came first might as well have come last.                  *)
LEMMA FirstMightBeLast ==
  ASSUME NEW K, IsFiniteSet(K), Cardinality(K) <= MaxFlows, NEW p \in Among(K)
  PROVE  \A n \in Nat : \A w \in [1 .. n -> Among(K)], s \in [1 .. n + 1 -> Among(K)] :
           s[1] = p /\ (\A i \in 1 .. n : s[i + 1] = w[i])
             => Replay(s) = record(Replay(w), p)
<1>. DEFINE Shift(n, w, s) == s[1] = p /\ \A i \in 1 .. n : s[i + 1] = w[i]
            Good == {n \in Nat :
                       \A w \in [1 .. n -> Among(K)], s \in [1 .. n + 1 -> Among(K)] :
                          Shift(n, w, s) => Replay(s) = record(Replay(w), p)}
<1>1. 0 \in Good
  <2>1. ASSUME NEW w \in [1 .. 0 -> Among(K)], NEW s \in [1 .. 1 -> Among(K)], s[1] = p
        PROVE  Replay(s) = record(Replay(w), p)
    <3>1. DOMAIN w = 1 .. 0 /\ DOMAIN s = 1 .. 0 + 1 /\ \A i \in 1 .. 0 : s[i] = w[i]
      OBVIOUS
    <3>2. Replay(s) = record(Replay(w), s[0 + 1])
      BY <3>1, ReplayOneMore
    <3>. QED
      BY <2>1, <3>2
  <2>. QED
    BY <2>1
<1>2. ASSUME NEW n \in Nat, n \in Good
      PROVE  n + 1 \in Good
  <2>1. ASSUME NEW w \in [1 .. n + 1 -> Among(K)], NEW s \in [1 .. (n + 1) + 1 -> Among(K)],
               Shift(n + 1, w, s)
        PROVE  Replay(s) = record(Replay(w), p)
    <3>. DEFINE w0 == [i \in 1 .. n |-> w[i]]
                s0 == [i \in 1 .. n + 1 |-> s[i]]
    <3>1. /\ w0 \in [1 .. n -> Among(K)] /\ s0 \in [1 .. n + 1 -> Among(K)]
          /\ Shift(n, w0, s0)
          /\ w[n + 1] \in Among(K) /\ s[(n + 1) + 1] = w[n + 1]
      BY <2>1
    <3>2. Replay(s0) = record(Replay(w0), p)
      <4>. HIDE DEF w0, s0, Shift
      <4>. QED
        BY <1>2, <3>1
    <3>3. Replay(s) = record(Replay(s0), w[n + 1])
      BY <3>1, ReplayOneMore
    <3>4. Replay(w) = record(Replay(w0), w[n + 1])
      BY ReplayOneMore
    <3>5. Limited(Replay(w0), K)
      BY <3>1, ReplayLimited
    <3>. HIDE DEF w0, s0
    <3>6. record(record(Replay(w0), p), w[n + 1]) = record(record(Replay(w0), w[n + 1]), p)
      BY <3>1, <3>5, RecordCommutes
    <3>. QED
      BY <3>2, <3>3, <3>4, <3>6
  <2>. HIDE DEF Shift
  <2>. QED
    BY <2>1
<1>. HIDE DEF Good
<1>3. \A n \in Nat : n \in Good
  BY <1>1, <1>2, NumberInduction
<1>. QED
  BY <1>3 DEF Good

(* As long as nothing is refused, read backwards is read.                  *)
LEMMA BackwardsIsForwards ==
  ASSUME NEW K, IsFiniteSet(K), Cardinality(K) <= MaxFlows
  PROVE  \A n \in Nat : \A q \in [1 .. n -> Among(K)] :
           Replay([i \in 1 .. n |-> q[(n - i) + 1]]) = Replay(q)
<1>. DEFINE Back(n, q) == [i \in 1 .. n |-> q[(n - i) + 1]]
            Good == {n \in Nat : \A q \in [1 .. n -> Among(K)] : Replay(Back(n, q)) = Replay(q)}
<1>1. 0 \in Good
  <2>1. ASSUME NEW q \in [1 .. 0 -> Among(K)]
        PROVE  Replay(Back(0, q)) = Replay(q)
    <3>1. DOMAIN q = {} /\ DOMAIN Back(0, q) = {}
      OBVIOUS
    <3>. HIDE DEF Back
    <3>. QED
      BY <3>1, ReplayNothing
  <2>. QED
    BY <2>1
<1>2. ASSUME NEW n \in Nat, n \in Good
      PROVE  n + 1 \in Good
  <2>1. ASSUME NEW r \in [1 .. n + 1 -> Among(K)]
        PROVE  Replay(Back(n + 1, r)) = Replay(r)
    <3>. DEFINE q == [i \in 1 .. n |-> r[i]]
                p == r[n + 1]
                s == Back(n + 1, r)
                w == Back(n, q)
    <3>1. q \in [1 .. n -> Among(K)] /\ p \in Among(K)
      OBVIOUS
    <3>2. w \in [1 .. n -> Among(K)]
      <4>1. \A i \in 1 .. n : (n - i) + 1 \in 1 .. n
        OBVIOUS
      <4>. HIDE DEF q
      <4>. QED
        BY <3>1, <4>1
    <3>3. s \in [1 .. n + 1 -> Among(K)] /\ s[1] = p
      <4>1. \A i \in 1 .. n + 1 : ((n + 1) - i) + 1 \in 1 .. n + 1
        OBVIOUS
      <4>2. ((n + 1) - 1) + 1 = n + 1 /\ 1 \in 1 .. n + 1
        OBVIOUS
      <4>. QED
        BY <4>1, <4>2
    <3>4. \A i \in 1 .. n : s[i + 1] = w[i]
      <4>. SUFFICES ASSUME NEW i \in 1 .. n
                    PROVE  s[i + 1] = w[i]
        OBVIOUS
      <4>1. /\ i + 1 \in 1 .. n + 1 /\ (n - i) + 1 \in 1 .. n
            /\ ((n + 1) - (i + 1)) + 1 = (n - i) + 1
        OBVIOUS
      <4>2. s[i + 1] = r[((n + 1) - (i + 1)) + 1]
        BY <4>1
      <4>3. w[i] = q[(n - i) + 1]
        OBVIOUS
      <4>4. q[(n - i) + 1] = r[(n - i) + 1]
        BY <4>1
      <4>. HIDE DEF s, w, q
      <4>. QED
        BY <4>1, <4>2, <4>3, <4>4
    <3>5. Replay(w) = Replay(q)
      <4>. HIDE DEF q, Back
      <4>. QED
        BY <1>2, <3>1
    <3>6. Replay(r) = record(Replay(q), p)
      BY ReplayOneMore
    <3>. HIDE DEF s, w, q, p
    <3>7. Replay(s) = record(Replay(w), p)
      BY <3>1, <3>2, <3>3, <3>4, FirstMightBeLast, SMTT(30)
    <3>. QED
      BY <3>5, <3>6, <3>7 DEF s
  <2>. HIDE DEF Back
  <2>. QED
    BY <2>1
<1>. HIDE DEF Good
<1>3. \A n \in Nat : n \in Good
  BY <1>1, <1>2, NumberInduction
<1>. QED
  BY <1>3 DEF Good

ReplayHolds == table = Replay(Offerings)

LEMMA ReplayInit == Init => ReplayHolds
<1>. SUFFICES ASSUME Init PROVE ReplayHolds
  OBVIOUS
<1>1. DOMAIN Offerings = {}
  BY DEF Init, Offerings, Offered
<1>. QED
  BY <1>1, ReplayNothing DEF Init, ReplayHolds

LEMMA ReplayStep ==
  ASSUME TypeOK, ReplayHolds, NEW p \in Packets, Record(p)
  PROVE  ReplayHolds'
<1>. SUFFICES ASSUME NEW n, n = Len(log)
              PROVE  ReplayHolds'
  OBVIOUS
<1>. DEFINE q == [i \in Offered |-> PacketAt(i)]
            r == [i \in Offered' |-> log'[i].packet]
<1>1. /\ n \in Nat /\ Offered = 1 .. n /\ Offered' = 1 .. n + 1
      /\ \A i \in Offered : log'[i] = log[i]
      /\ log'[n + 1] = Entry(p)
  <2>1. Len(log') = n + 1
    BY DEF Record, TypeOK
  <2>. QED
    BY <2>1, LogStep DEF Offered
<1>2. \A i \in 1 .. n : r[i] = q[i]
  BY <1>1 DEF PacketAt
<1>3. r[n + 1] = p /\ DOMAIN q = 1 .. n /\ DOMAIN r = 1 .. n + 1
  BY <1>1 DEF Entry
<1>. HIDE DEF q, r
<1>4. Replay(r) = record(Replay(q), p)
  BY <1>1, <1>2, <1>3, ReplayOneMore
<1>5. table = Replay(q)
  BY DEF ReplayHolds, Offerings, q
<1>6. table' = record(table, p)
  BY DEF Record
<1>7. Replay(Offerings)' = Replay(r)
  BY DEF Offerings, PacketAt, r
<1>. QED
  BY <1>4, <1>5, <1>6, <1>7 DEF ReplayHolds

(* With nobody refused, all there was to list is listed.                   *)
LEMMA NobodyRefused ==
  ASSUME TypeOK, EveryPacketCounted, OutcomesStillHold,
         table.untracked["over_flow_limit"] = 0
  PROVE  Offerings \in [1 .. Len(log) -> Among(DOMAIN table.flows)]
<1>1. LeftOut("over_flow_limit") = {}
  <2>. DEFINE n == Cardinality(LeftOut("over_flow_limit"))
  <2>1. n \in Nat /\ (n = 0 => LeftOut("over_flow_limit") = {})
    BY FiledFinite, FS_CardinalityType, FS_EmptySet
  <2>2. Saturate(n) = 0
    BY DEF EveryPacketCounted, Reason
  <2>. HIDE DEF n
  <2>3. n = 0
    BY <2>1, <2>2, CounterMaxAssumption DEF Saturate
  <2>. QED
    BY <2>1, <2>3
<1>2. ASSUME NEW i \in Offered
      PROVE  PacketAt(i) \in Among(DOMAIN table.flows)
  <2>1. PacketAt(i) \in Packets /\ log[i].outcome \in RecordOutcome
    BY LogEntry
  <2>2. log[i].outcome # "OverLimit"
    BY <1>1 DEF LeftOut
  <2>3. OutcomeHolds(i)
    BY DEF OutcomesStillHold
  <2>. QED
    BY <2>1, <2>2, <2>3 DEF Among, OutcomeHolds, RecordOutcome
<1>. QED
  BY <1>2 DEF Offerings, Offered

(* The table is the same whichever end a capture is read from, as long as  *)
(* no conversation was refused for want of room.                           *)
THEOREM OrderIsIrrelevant == Spec => []OrderIrrelevantUnlessRefused
<1>1. TypeOK /\ ReplayHolds /\ [Next]_vars => ReplayHolds'
  <2>. SUFFICES ASSUME TypeOK, ReplayHolds, [Next]_vars
                PROVE  ReplayHolds'
    OBVIOUS
  <2>1. CASE UNCHANGED vars
    <3>1. table' = table /\ Offerings' = Offerings
      BY <2>1 DEF vars, Offerings, Offered, PacketAt
    <3>. QED
      BY <3>1 DEF ReplayHolds
  <2>. QED
    BY <2>1, ReplayStep DEF Next
<1>2. TypeOK /\ EveryPacketCounted /\ OutcomesStillHold /\ ListedUpToLimit /\ ReplayHolds
        => OrderIrrelevantUnlessRefused
  <2>. SUFFICES ASSUME TypeOK, EveryPacketCounted, OutcomesStillHold, ListedUpToLimit,
                       ReplayHolds, table.untracked["over_flow_limit"] = 0
                PROVE  Replay(Reverse(Offerings)) = table
    BY DEF OrderIrrelevantUnlessRefused
  <2>. DEFINE K == DOMAIN table.flows
              n == Len(log)
              q == Offerings
  <2>1. IsFiniteSet(K) /\ Cardinality(K) <= MaxFlows
    <3>1. IsFiniteSet(K) /\ Cardinality(K) \in Nat /\ MaxFlows \in Nat
      BY FS_CardinalityType, FlowTableAssumption DEF TypeOK, TableTypeOK
    <3>. QED
      BY <3>1 DEF ListedUpToLimit
  <2>2. q \in [1 .. n -> Among(K)] /\ n \in Nat
    BY NobodyRefused DEF TypeOK
  <2>3. Replay([i \in 1 .. n |-> q[(n - i) + 1]]) = Replay(q)
    <3>. HIDE DEF q, n, K
    <3>. QED
      BY <2>1, <2>2, BackwardsIsForwards
  <2>4. Reverse(q) = [i \in 1 .. n |-> q[(n - i) + 1]]
    <3>1. Len(q) = n
      <4>. HIDE DEF q, n, K
      <4>. QED
        BY <2>2
    <3>. QED
      BY <3>1 DEF Reverse
  <2>. QED
    BY <2>3, <2>4 DEF ReplayHolds
<1>. QED
  BY <1>1, <1>2, ReplayInit, TypeCorrect, NothingGoesMissing, DecisionsStand,
     LimitInvariant, PTL DEF Spec

-----------------------------------------------------------------------------
(* The numbers of the report add up                                        *)

(* A listing names every flow, and each of them once.                      *)
LEMMA ListingCovers ==
  ASSUME TypeOK, NEW listing \in flows_sorted(table.flows)
  PROVE  /\ IsFiniteSet(DOMAIN listing) /\ Len(listing) = Cardinality(DOMAIN table.flows)
         /\ \A i \in DOMAIN listing : listing[i] \in DOMAIN table.flows
         /\ \A i, j \in DOMAIN listing : i # j => listing[i] # listing[j]
         /\ \A k \in DOMAIN table.flows : \E i \in DOMAIN listing : listing[i] = k
<1>. DEFINE D == DOMAIN table.flows
            n == Cardinality(D)
<1>1. IsFiniteSet(D) /\ n \in Nat
  BY FS_CardinalityType DEF TypeOK, TableTypeOK
<1>2. /\ listing \in [1 .. n -> D]
      /\ \A i, j \in 1 .. n : i < j => listing[i] # listing[j]
  BY DEF flows_sorted
<1>. HIDE DEF D, n
<1>3. \A i, j \in 1 .. n : i # j => listing[i] # listing[j]
  <2>. SUFFICES ASSUME NEW i \in 1 .. n, NEW j \in 1 .. n, i # j
                PROVE  listing[i] # listing[j]
    OBVIOUS
  <2>1. i < j \/ j < i
    BY <1>1
  <2>. QED
    BY <1>2, <2>1
<1>4. IsFiniteSet(1 .. n) /\ Cardinality(1 .. n) = n
  BY <1>1, FS_Interval
<1>5. listing \in Injection(1 .. n, D)
  BY <1>2, <1>3 DEF Injection, IsInjective
<1>6. listing \in Surjection(1 .. n, D)
  BY <1>1, <1>4, <1>5, FS_Injection DEF n
<1>7. \A k \in D : \E i \in 1 .. n : listing[i] = k
  BY <1>6 DEF Surjection
<1>8. Len(listing) = n /\ DOMAIN listing = 1 .. n
  BY <1>1, <1>2
<1>. QED
  BY <1>2, <1>3, <1>4, <1>7, <1>8 DEF D, n

InFlow(k) == Filed(k, "AtoB") \cup Filed(k, "BtoA")

InFlows == {i \in Offered : log[i].outcome = "Tracked"}

InNone == Offered \ InFlows

LEMMA WhereOffered ==
  ASSUME TypeOK, EveryPacketCounted, OutcomesStillHold
  PROVE  /\ IsFiniteSet(Offered) /\ Cardinality(Offered) = Len(log)
         /\ InFlows = UNION {InFlow(k) : k \in DOMAIN table.flows}
         /\ InNone = UNION {LeftOut(r) : r \in Reason}
         /\ \A k, l \in DOMAIN table.flows : k # l => InFlow(k) \cap InFlow(l) = {}
         /\ \A r, s \in Reason : r # s => LeftOut(r) \cap LeftOut(s) = {}
<1>1. Len(log) \in Nat
  BY DEF TypeOK
<1>2. IsFiniteSet(Offered) /\ Cardinality(Offered) = Len(log)
  <2>1. \A n \in Nat : IsFiniteSet(1 .. n) /\ Cardinality(1 .. n) = n
    BY FS_Interval
  <2>. QED
    BY <1>1, <2>1 DEF Offered
<1>3. ASSUME NEW i \in InFlows
      PROVE  KeyOf(PacketAt(i)) \in DOMAIN table.flows /\ i \in InFlow(KeyOf(PacketAt(i)))
  <2>1. i \in Offered /\ log[i].outcome = "Tracked" /\ OutcomeHolds(i) /\ PacketAt(i) \in Packets
    BY <1>3, LogEntry DEF InFlows, OutcomesStillHold
  <2>2. DirectionOf(PacketAt(i)) \in Direction /\ KeyOf(PacketAt(i)) \in DOMAIN table.flows
    BY <2>1, KeyType DEF OutcomeHolds
  <2>. QED
    BY <2>1, <2>2 DEF InFlow, Filed, Direction
<1>4. InFlows = UNION {InFlow(k) : k \in DOMAIN table.flows}
  <2>1. \A k : InFlow(k) \subseteq InFlows
    BY DEF InFlow, InFlows, Filed
  <2>. QED
    BY <1>3, <2>1
<1>5. ASSUME NEW i \in InNone
      PROVE  \E r \in Reason : i \in LeftOut(r)
  <2>1. i \in Offered /\ log[i].outcome \in {"Untracked", "OverLimit"}
    BY <1>5, LogEntry DEF InNone, InFlows, RecordOutcome
  <2>. QED
    BY <2>1, ReasonType DEF LeftOut, Reason
<1>6. InNone = UNION {LeftOut(r) : r \in Reason}
  <2>1. \A r : LeftOut(r) \subseteq InNone
    BY DEF LeftOut, InNone, InFlows
  <2>. QED
    BY <1>5, <2>1
<1>7. \A k, l : k # l => InFlow(k) \cap InFlow(l) = {}
  BY DEF InFlow, Filed
<1>8. \A r, s \in Reason : r # s => LeftOut(r) \cap LeftOut(s) = {}
  BY ReasonType DEF LeftOut
<1>. QED
  BY <1>2, <1>4, <1>6, <1>7, <1>8

LEMMA NotSaturated ==
  ASSUME NEW S, NEW T \in SUBSET S, IsFiniteSet(S), Cardinality(S) <= CounterMax
  PROVE  /\ IsFiniteSet(T) /\ Cardinality(T) \in Nat
         /\ Saturate(Cardinality(T)) = Cardinality(T)
<1>1. /\ IsFiniteSet(T) /\ Cardinality(T) \in Nat /\ Cardinality(S) \in Nat
      /\ Cardinality(T) <= Cardinality(S)
  BY FS_Subset, FS_CardinalityType
<1>. QED
  BY <1>1, CounterMaxAssumption DEF Saturate

(* As long as no counter has stopped, the entries of the report count the  *)
(* packets that are in flows ...                                           *)
LEMMA EntriesCount ==
  ASSUME TypeOK, EveryPacketCounted, OutcomesStillHold, Len(log) <= CounterMax,
         NEW listing \in flows_sorted(table.flows)
  PROVE  SumFunction([i \in DOMAIN listing |-> total_packets(table.flows[listing[i]])])
           = Cardinality(InFlows)
<1>. DEFINE I == DOMAIN listing
            P == [i \in I |-> InFlow(listing[i])]
<1>1. IsFiniteSet(Offered) /\ Cardinality(Offered) <= CounterMax
  BY WhereOffered
<1>2. ASSUME NEW k \in DOMAIN table.flows
      PROVE  /\ IsFiniteSet(InFlow(k))
             /\ total_packets(table.flows[k]) = Cardinality(InFlow(k))
  <2>. DEFINE A == Filed(k, "AtoB")
              B == Filed(k, "BtoA")
  <2>1. /\ A \in SUBSET Offered /\ B \in SUBSET Offered
        /\ A \cup B \in SUBSET Offered /\ A \cap B = {}
    BY DEF Filed
  <2>2. /\ table.flows[k].totals["AtoB"].packets = Saturate(Cardinality(A))
        /\ table.flows[k].totals["BtoA"].packets = Saturate(Cardinality(B))
    BY DEF EveryPacketCounted, Direction
  <2>3. InFlow(k) = A \cup B
    BY DEF InFlow
  <2>. HIDE DEF A, B
  <2>4. /\ Saturate(Cardinality(A)) = Cardinality(A)
        /\ Saturate(Cardinality(B)) = Cardinality(B)
        /\ Saturate(Cardinality(A \cup B)) = Cardinality(A \cup B)
        /\ IsFiniteSet(A) /\ IsFiniteSet(B) /\ IsFiniteSet(A \cup B)
    BY <1>1, <2>1, NotSaturated
  <2>5. Cardinality(A \cup B) = Cardinality(A) + Cardinality(B)
    BY <2>1, <2>4, DisjointUnion
  <2>. QED
    BY <2>2, <2>3, <2>4, <2>5 DEF total_packets, Either, saturating_add
<1>3. /\ IsFiniteSet(I)
      /\ \A i \in I : listing[i] \in DOMAIN table.flows
      /\ \A i, j \in I : i # j => listing[i] # listing[j]
      /\ \A k \in DOMAIN table.flows : \E i \in I : listing[i] = k
  BY ListingCovers
<1>4. InFlows = UNION {P[i] : i \in I}
  <2>1. UNION {P[i] : i \in I} = UNION {InFlow(k) : k \in DOMAIN table.flows}
    BY <1>3
  <2>. QED
    BY <2>1, WhereOffered
<1>5. /\ \A i \in I : IsFiniteSet(P[i])
      /\ \A i, j \in I : i # j => P[i] \cap P[j] = {}
  BY <1>2, <1>3, WhereOffered
<1>. DEFINE f == [i \in I |-> total_packets(table.flows[listing[i]])]
<1>6. DOMAIN f = I /\ \A i \in I : f[i] = Cardinality(P[i])
  BY <1>2, <1>3
<1>. HIDE DEF I, P, f
<1>7. SumFunction(f) = Cardinality(InFlows)
  BY <1>3, <1>4, <1>5, <1>6, SumOfParts
<1>. QED
  BY <1>7 DEF f, I

LEMMA ReasonsFinite == IsFiniteSet(Reason)
<1>1. \A S, r : IsFiniteSet(S) => IsFiniteSet(S \cup {r})
  BY FS_AddElement
<1>2. Reason = (((({"arp"} \cup {"icmp"}) \cup {"later_fragments"}) \cup {"undecoded"})
                   \cup {"other_protocol"}) \cup {"over_flow_limit"}
  BY DEF Reason
<1>. QED
  BY <1>1, <1>2, FS_Singleton, Zenon

LEMMA TotalIsTheSum ==
  ASSUME NEW u \in [Reason -> Counter]
  PROVE  SumFunction(u) \in Nat /\ total(u) = Saturate(SumFunction(u))
<1>. DEFINE S1 == {"arp"}
            S2 == S1 \cup {"icmp"}
            S3 == S2 \cup {"later_fragments"}
            S4 == S3 \cup {"undecoded"}
            S5 == S4 \cup {"other_protocol"}
            S6 == S5 \cup {"over_flow_limit"}
            Sum(S) == SumFunctionOnSet(u, S)
<1>1. \A r \in Reason : u[r] \in Nat
  BY CounterMaxAssumption DEF Counter
<1>2. /\ "icmp" \notin S1 /\ "later_fragments" \notin S2 /\ "undecoded" \notin S3
      /\ "other_protocol" \notin S4 /\ "over_flow_limit" \notin S5
  OBVIOUS
<1>3. S6 = Reason /\ "arp" \notin {} /\ S1 = {} \cup {"arp"}
  BY DEF Reason
<1>4. /\ {"arp", "icmp", "later_fragments", "undecoded", "other_protocol", "over_flow_limit"}
           = Reason
      /\ S1 \subseteq Reason /\ S2 \subseteq Reason /\ S3 \subseteq Reason
      /\ S4 \subseteq Reason /\ S5 \subseteq Reason /\ S6 \subseteq Reason
  BY DEF Reason
<1>5. /\ IsFiniteSet({}) /\ IsFiniteSet(S1) /\ IsFiniteSet(S2) /\ IsFiniteSet(S3)
      /\ IsFiniteSet(S4) /\ IsFiniteSet(S5)
  <2>. HIDE DEF S1, S2, S3, S4, S5
  <2>. QED
    BY <1>4, ReasonsFinite, FS_Subset, FS_EmptySet
<1>6. ASSUME NEW S \in SUBSET Reason, IsFiniteSet(S), NEW r \in Reason, r \notin S
      PROVE  Sum(S \cup {r}) = u[r] + Sum(S)
  BY <1>1, <1>6, SumAdd
<1>7. /\ u["arp"] \in Counter /\ u["icmp"] \in Nat /\ u["later_fragments"] \in Nat
      /\ u["undecoded"] \in Nat /\ u["other_protocol"] \in Nat /\ u["over_flow_limit"] \in Nat
  BY <1>1 DEF Reason
<1>8. Sum({}) = 0
  BY SumEmpty
<1>. HIDE DEF Sum, S1, S2, S3, S4, S5, S6
<1>9. /\ Sum(S1) = u["arp"] + Sum({})
      /\ Sum(S2) = u["icmp"] + Sum(S1)
      /\ Sum(S3) = u["later_fragments"] + Sum(S2)
  BY <1>2, <1>3, <1>4, <1>5, <1>6 DEF S2, S3
<1>10. /\ Sum(S4) = u["undecoded"] + Sum(S3)
       /\ Sum(S5) = u["other_protocol"] + Sum(S4)
       /\ Sum(S6) = u["over_flow_limit"] + Sum(S5)
  BY <1>2, <1>4, <1>5, <1>6 DEF S4, S5, S6
<1>11. u["arp"] = Saturate(Sum(S1)) /\ Sum(S1) \in Nat
  BY <1>7, <1>8, <1>9, CounterMaxAssumption DEF Saturate, Counter
<1>12. \A n, m \in Nat : saturating_add(Saturate(n), m) = Saturate(m + n)
  BY SaturateAdd
<1>13. /\ Sum(S2) \in Nat /\ Sum(S3) \in Nat /\ Sum(S4) \in Nat
       /\ Sum(S5) \in Nat /\ Sum(S6) \in Nat
  BY <1>7, <1>9, <1>10, <1>11
<1>. DEFINE T2 == saturating_add(u["arp"], u["icmp"])
            T3 == saturating_add(T2, u["later_fragments"])
            T4 == saturating_add(T3, u["undecoded"])
            T5 == saturating_add(T4, u["other_protocol"])
            T6 == saturating_add(T5, u["over_flow_limit"])
<1>14. total(u) = Saturate(Sum(S6))
  <2>1. total(u) = T6
    BY DEF total
  <2>2. T2 = Saturate(Sum(S2))
    BY <1>7, <1>9, <1>11, <1>12
  <2>3. T3 = Saturate(Sum(S3))
    BY <1>7, <1>9, <1>12, <1>13, <2>2
  <2>4. T4 = Saturate(Sum(S4))
    BY <1>7, <1>10, <1>12, <1>13, <2>3
  <2>5. T5 = Saturate(Sum(S5))
    BY <1>7, <1>10, <1>12, <1>13, <2>4
  <2>6. T6 = Saturate(Sum(S6))
    BY <1>7, <1>10, <1>12, <1>13, <2>5
  <2>. QED
    BY <2>1, <2>6
<1>15. SumFunction(u) = Sum(S6)
  BY <1>3 DEF SumFunction, Sum
<1>. QED
  BY <1>13, <1>14, <1>15

(* The note shows the sum of all reasons, and those that left out anything *)
(* add up to it.                                                           *)
LEMMA NoteAddsUp ==
  ASSUME NEW u \in [Reason -> Counter], SumFunction(u) <= CounterMax
  PROVE  LET note == untracked_note(u)
         IN  /\ SumFunction([n \in note |-> n.total]) = SumFunction(u)
             /\ \A n \in note : SumFunction(n.reasons) = n.total
<1>. DEFINE note == untracked_note(u)
            Shown == {r \in Reason : u[r] > 0}
            reasons == [r \in Shown |-> u[r]]
            one == [total |-> total(u), reasons |-> reasons]
            totals == [n \in note |-> n.total]
<1>1. total(u) = SumFunction(u) /\ SumFunction(u) \in Nat
  BY TotalIsTheSum, CounterMaxAssumption DEF Saturate
<1>2. note = IF total(u) > 0 THEN {one} ELSE {}
  BY DEF untracked_note, any
<1>3. SumFunction(totals) = SumFunction(u)
  <2>1. CASE note = {}
    <3>1. DOMAIN totals = {} /\ total(u) = 0
      <4>1. total(u) = 0
        <5>. HIDE DEF one, note
        <5>. QED
          BY <1>1, <1>2, <2>1
      <4>. QED
        BY <2>1, <4>1
    <3>. HIDE DEF totals
    <3>. QED
      BY <1>1, <3>1, SumOfNothing
  <2>2. CASE note = {one}
    <3>. DEFINE none == [n \in {} |-> 0]
    <3>1. /\ DOMAIN none = {} /\ DOMAIN totals = DOMAIN none \cup {one} /\ one \notin DOMAIN none
          /\ totals[one] = total(u)
      BY <2>2
    <3>2. SumFunction(none) = 0
      BY <3>1, SumOfNothing
    <3>. HIDE DEF none, totals, one
    <3>3. SumFunction(totals) = totals[one] + SumFunction(none)
      BY <1>1, <3>1, SumGrows, FS_EmptySet
    <3>. QED
      BY <1>1, <3>1, <3>2, <3>3
  <2>. QED
    BY <1>2, <2>1, <2>2
<1>4. SumFunction(reasons) = total(u)
  <2>1. /\ \A r \in Reason : u[r] \in Nat
        /\ \A r \in Shown : u[r] \in Nat /\ reasons[r] = u[r]
        /\ DOMAIN reasons = Shown /\ IsFiniteSet(Shown) /\ DOMAIN u = Reason
    BY CounterMaxAssumption, ReasonsFinite, FS_Subset DEF Counter
  <2>2. SumFunctionOnSet(u, Shown) = SumFunctionOnSet(u, Reason)
    BY <2>1, ReasonsFinite, SumWithoutZeros
  <2>. HIDE DEF reasons, Shown
  <2>3. SumFunctionOnSet(reasons, Shown) = SumFunctionOnSet(u, Shown)
    BY <2>1, SumSame
  <2>. QED
    BY <1>1, <2>1, <2>2, <2>3 DEF SumFunction
<1>5. \A n \in note : SumFunction(n.reasons) = n.total
  BY <1>2, <1>4
<1>. QED
  BY <1>3, <1>5

(* ... and the note counts those in none.                                  *)
LEMMA NoteCounts ==
  ASSUME TypeOK, EveryPacketCounted, OutcomesStillHold, Len(log) <= CounterMax
  PROVE  SumFunction(table.untracked) = Cardinality(InNone)
<1>. DEFINE P == [r \in Reason |-> LeftOut(r)]
            u == table.untracked
<1>1. IsFiniteSet(Offered) /\ Cardinality(Offered) <= CounterMax
  BY WhereOffered
<1>2. ASSUME NEW r \in Reason
      PROVE  IsFiniteSet(P[r]) /\ u[r] = Cardinality(P[r])
  <2>1. LeftOut(r) \in SUBSET Offered
    BY DEF LeftOut
  <2>2. IsFiniteSet(LeftOut(r)) /\ Saturate(Cardinality(LeftOut(r))) = Cardinality(LeftOut(r))
    BY <1>1, <2>1, NotSaturated
  <2>. QED
    BY <2>2 DEF EveryPacketCounted
<1>3. DOMAIN u = Reason
  BY DEF TypeOK, TableTypeOK
<1>4. /\ InNone = UNION {P[r] : r \in Reason}
      /\ \A r, s \in Reason : r # s => P[r] \cap P[s] = {}
  BY WhereOffered
<1>. HIDE DEF P, u
<1>5. SumFunction(u) = Cardinality(InNone)
  BY <1>2, <1>3, <1>4, ReasonsFinite, SumOfParts
<1>. QED
  BY <1>5 DEF u

LEMMA ReportCounts ==
  ASSUME TypeOK, EveryPacketCounted, OutcomesStillHold, Len(log) <= CounterMax,
         NEW listing \in flows_sorted(table.flows)
  PROVE  CountsAddUp(flow_table(listing))
<1>. DEFINE report == flow_table(listing)
            u == table.untracked
            entries == [i \in DOMAIN report.entries |-> report.entries[i].packets]
<1>1. entries = [i \in DOMAIN listing |-> total_packets(table.flows[listing[i]])]
  BY DEF flow_table, flow_entry
<1>2. SumFunction(entries) = Cardinality(InFlows)
  BY <1>1, EntriesCount
<1>3. SumFunction(u) = Cardinality(InNone)
  BY NoteCounts
<1>4. Cardinality(InFlows) + Cardinality(InNone) = Len(log) /\ Cardinality(InNone) <= CounterMax
  <2>1. IsFiniteSet(Offered) /\ Cardinality(Offered) = Len(log)
    BY WhereOffered
  <2>2. InFlows \cup InNone = Offered /\ InFlows \cap InNone = {}
    BY DEF InFlows, InNone
  <2>3. IsFiniteSet(InFlows) /\ IsFiniteSet(InNone)
    BY <2>1, <2>2, FS_Subset
  <2>4. /\ Cardinality(InFlows \cup InNone) = Cardinality(InFlows) + Cardinality(InNone)
        /\ Cardinality(InFlows) \in Nat /\ Cardinality(InNone) \in Nat
    BY <2>2, <2>3, DisjointUnion
  <2>5. Cardinality(InFlows) + Cardinality(InNone) = Len(log)
    BY <2>1, <2>2, <2>4
  <2>. QED
    BY <2>4, <2>5, CounterMaxAssumption
<1>5. report.note = untracked_note(u)
  BY DEF flow_table
<1>6. u \in [Reason -> Counter]
  BY DEF TypeOK, TableTypeOK
<1>. HIDE DEF report, entries, u
<1>7. /\ SumFunction([n \in report.note |-> n.total]) = Cardinality(InNone)
      /\ \A n \in report.note : SumFunction(n.reasons) = n.total
  BY <1>3, <1>4, <1>5, <1>6, NoteAddsUp
<1>8. SumFunction(entries) + SumFunction([n \in report.note |-> n.total]) = Len(log)
  BY <1>2, <1>4, <1>7
<1>. QED
  BY <1>7, <1>8 DEF CountsAddUp, report, entries

(* A total below the limit of its counter is the sum of its parts.         *)
LEMMA PartsOfATotal ==
  ASSUME NEW a \in Counter, NEW b \in Counter, saturating_add(a, b) < CounterMax
  PROVE  saturating_add(a, b) = a + b
BY CounterMaxAssumption DEF saturating_add, Saturate, Counter

LEMMA EntriesAddUp ==
  ASSUME TypeOK, NEW k \in DOMAIN table.flows,
         total_packets(table.flows[k]) < CounterMax,
         total_wire_bytes(table.flows[k]) < CounterMax
  PROVE  EntryAddsUp(flow_entry(k, table.flows[k]))
<1>. DEFINE flow == table.flows[k]
            entry == flow_entry(k, flow)
            there == flow.totals["AtoB"]
            back == flow.totals["BtoA"]
<1>1. /\ there \in Totals /\ back \in Totals
  BY DEF TypeOK, TableTypeOK, Flow, Direction
<1>2. /\ there.packets \in Counter /\ back.packets \in Counter
      /\ there.wire_bytes \in Counter /\ back.wire_bytes \in Counter
  BY <1>1 DEF Totals
<1>3. /\ total_packets(flow) = there.packets + back.packets
      /\ total_wire_bytes(flow) = there.wire_bytes + back.wire_bytes
  BY <1>2, PartsOfATotal DEF total_packets, total_wire_bytes, Either
<1>4. /\ entry.ways["AtoB"].packets = there.packets
      /\ entry.ways["BtoA"].packets = back.packets
      /\ entry.packets = total_packets(flow)
      /\ entry.ways["AtoB"].bytes = format_bytes(there.wire_bytes)
      /\ entry.ways["BtoA"].bytes = format_bytes(back.wire_bytes)
      /\ entry.bytes = format_bytes(total_wire_bytes(flow))
  BY DEF flow_entry, OneWay, Direction
<1>5. \A n \in Nat :
        /\ n < ExactBelow => format_bytes(n).exact = TRUE /\ format_bytes(n).figure = n
        /\ ~ (n < ExactBelow) => format_bytes(n).exact = FALSE
  <2>1. \A n \in Nat : n < ExactBelow => format_bytes(n) = [exact |-> TRUE, figure |-> n]
    BY DEF format_bytes
  <2>2. \A n \in Nat : ~ (n < ExactBelow) => format_bytes(n) = [exact |-> FALSE, figure |-> 0]
    BY DEF format_bytes
  <2>. QED
    BY <2>1, <2>2
<1>. HIDE DEF flow, entry, there, back
<1>6. total_wire_bytes(flow) < ExactBelow =>
        there.wire_bytes < ExactBelow /\ back.wire_bytes < ExactBelow
  BY <1>2, <1>3, CounterMaxAssumption, FlowReportAssumption DEF Counter
<1>7. /\ there.wire_bytes \in Nat /\ back.wire_bytes \in Nat
      /\ total_wire_bytes(flow) \in Nat
  BY <1>2, <1>3, CounterMaxAssumption DEF Counter
<1>8. EntryAddsUp(entry)
  <2>1. entry.ways["AtoB"].packets + entry.ways["BtoA"].packets = entry.packets
    BY <1>3, <1>4
  <2>2. ASSUME entry.bytes.exact
        PROVE  /\ entry.ways["AtoB"].bytes.exact /\ entry.ways["BtoA"].bytes.exact
               /\ entry.ways["AtoB"].bytes.figure + entry.ways["BtoA"].bytes.figure
                    = entry.bytes.figure
    <3>1. total_wire_bytes(flow) < ExactBelow
      BY <1>4, <1>5, <1>7, <2>2
    <3>2. there.wire_bytes < ExactBelow /\ back.wire_bytes < ExactBelow
      BY <1>6, <3>1
    <3>3. entry.ways["AtoB"].bytes.exact /\ entry.ways["BtoA"].bytes.exact
      <4>1. /\ format_bytes(there.wire_bytes).exact = TRUE
            /\ format_bytes(back.wire_bytes).exact = TRUE
        BY <1>5, <1>7, <3>2
      <4>2. /\ entry.ways["AtoB"].bytes.exact = TRUE
            /\ entry.ways["BtoA"].bytes.exact = TRUE
        BY <1>4, <4>1
      <4>. QED
        BY <4>2
    <3>4. /\ entry.ways["AtoB"].bytes.figure = there.wire_bytes
          /\ entry.ways["BtoA"].bytes.figure = back.wire_bytes
          /\ entry.bytes.figure = total_wire_bytes(flow)
      <4>1. /\ format_bytes(there.wire_bytes).figure = there.wire_bytes
            /\ format_bytes(back.wire_bytes).figure = back.wire_bytes
            /\ format_bytes(total_wire_bytes(flow)).figure = total_wire_bytes(flow)
        BY <1>5, <1>7, <3>1, <3>2
      <4>. QED
        BY <1>4, <4>1
    <3>. QED
      BY <1>3, <3>3, <3>4
  <2>. QED
    BY <2>1, <2>2 DEF EntryAddsUp
<1>. QED
  BY <1>8 DEF entry, flow

(* No more was kept of packets than there was of them, and less exactly    *)
(* when one was cut.                                                       *)
LEMMA KeptBytes ==
  ASSUME NEW packets, Filing(packets),
         \A i \in DOMAIN packets : packets[i].caplen <= packets[i].wirelen
  PROVE  LET kept == SumFunction([i \in DOMAIN packets |-> packets[i].caplen])
             wire == SumFunction([i \in DOMAIN packets |-> packets[i].wirelen])
         IN  /\ kept \in Nat /\ wire \in Nat /\ kept <= wire
             /\ kept = wire <=> \A i \in DOMAIN packets : packets[i].caplen = packets[i].wirelen
<1>. DEFINE S == DOMAIN packets
            f == [i \in S |-> packets[i].caplen]
            g == [i \in S |-> packets[i].wirelen]
<1>1. IsFiniteSet(S) /\ \A i \in S : packets[i].caplen \in Nat /\ packets[i].wirelen \in Nat
  BY PacketParts DEF Filing
<1>2. /\ DOMAIN f = S /\ DOMAIN g = S
      /\ \A i \in S : f[i] = packets[i].caplen /\ g[i] = packets[i].wirelen
      /\ \A i \in S : f[i] \in Nat /\ g[i] \in Nat /\ f[i] <= g[i]
  BY <1>1
<1>. HIDE DEF S, f, g
<1>3. /\ SumFunction(f) = SumFunctionOnSet(f, S) /\ SumFunction(g) = SumFunctionOnSet(g, S)
      /\ SumFunctionOnSet(f, S) \in Nat /\ SumFunctionOnSet(g, S) \in Nat
  BY <1>1, <1>2, SumRemove DEF SumFunction
<1>4. /\ SumFunctionOnSet(f, S) <= SumFunctionOnSet(g, S)
      /\ SumFunctionOnSet(f, S) = SumFunctionOnSet(g, S) => \A i \in S : f[i] = g[i]
  BY <1>1, <1>2, SumAtMost
<1>5. (\A i \in S : g[i] = f[i]) => SumFunctionOnSet(g, S) = SumFunctionOnSet(f, S)
  BY <1>1, <1>2, SumSame
<1>6. SumFunction(f) = SumFunction(g) <=> \A i \in S : packets[i].caplen = packets[i].wirelen
  BY <1>2, <1>3, <1>4, <1>5
<1>7. SumFunction(f) \in Nat /\ SumFunction(g) \in Nat /\ SumFunction(f) <= SumFunction(g)
  BY <1>3, <1>4
<1>. QED
  BY <1>6, <1>7 DEF S, f, g

LEMMA PacketsOfAFlow ==
  ASSUME NEW k
  PROVE  PacketsOf(k) = UNION {{PacketsFiled(k, d)[i] : i \in DOMAIN PacketsFiled(k, d)}
                                 : d \in Direction}
BY DEF PacketsOf, PacketsFiled, Direction

LEMMA TruncationShows ==
  ASSUME TypeOK, FlowsSummariseTheirPackets, NEW k \in DOMAIN table.flows,
         total_wire_bytes(table.flows[k]) < CounterMax
  PROVE  TruncationIsMentioned(flow_entry(k, table.flows[k]))
<1>. DEFINE flow == table.flows[k]
            entry == flow_entry(k, flow)
            Kept(d) == SumFunction([i \in DOMAIN PacketsFiled(k, d) |-> PacketsFiled(k, d)[i].caplen])
            Wire(d) == SumFunction([i \in DOMAIN PacketsFiled(k, d) |-> PacketsFiled(k, d)[i].wirelen])
<1>. SUFFICES ASSUME \A p \in PacketsOf(k) : p.caplen <= p.wirelen
              PROVE  entry.captured # {} <=> \E p \in PacketsOf(k) : p.caplen < p.wirelen
  <2>1. flow_entry(k, table.flows[k]).key = k
    BY DEF flow_entry
  <2>. QED
    BY <2>1 DEF TruncationIsMentioned
<1>1. ASSUME NEW d \in Direction
      PROVE  /\ Kept(d) \in Nat /\ Wire(d) \in Nat /\ Kept(d) <= Wire(d)
             /\ Kept(d) = Wire(d) <=>
                  \A i \in DOMAIN PacketsFiled(k, d) :
                     PacketsFiled(k, d)[i].caplen = PacketsFiled(k, d)[i].wirelen
             /\ flow.totals[d].captured_bytes = Saturate(Kept(d))
             /\ flow.totals[d].wire_bytes = Saturate(Wire(d))
  <2>1. /\ Filing(PacketsFiled(k, d))
        /\ \A i \in DOMAIN PacketsFiled(k, d) :
             PacketsFiled(k, d)[i].caplen <= PacketsFiled(k, d)[i].wirelen
    BY PacketsFiledType, PacketsOfAFlow
  <2>2. BytesAddUp(flow.totals[d], PacketsFiled(k, d))
    BY DEF FlowsSummariseTheirPackets
  <2>. QED
    BY <2>1, <2>2, KeptBytes DEF BytesAddUp
<1>2. \A p \in PacketsOf(k) : p.caplen \in Nat /\ p.wirelen \in Nat
  BY LogEntry, PacketParts DEF PacketsOf, Filed
<1>3. (\A d \in Direction : Kept(d) = Wire(d)) <=> \A p \in PacketsOf(k) : p.caplen = p.wirelen
  <2>. DEFINE Uncut(d) == \A i \in DOMAIN PacketsFiled(k, d) :
                             PacketsFiled(k, d)[i].caplen = PacketsFiled(k, d)[i].wirelen
  <2>1. (\A d \in Direction : Uncut(d)) <=> \A p \in PacketsOf(k) : p.caplen = p.wirelen
    BY PacketsOfAFlow
  <2>2. \A d \in Direction : Kept(d) = Wire(d) <=> Uncut(d)
    BY <1>1
  <2>. HIDE DEF Uncut, Kept, Wire
  <2>. QED
    BY <2>1, <2>2
<1>4. /\ total_wire_bytes(flow) = saturating_add(Saturate(Wire("AtoB")), Saturate(Wire("BtoA")))
      /\ total_captured_bytes(flow)
           = saturating_add(Saturate(Kept("AtoB")), Saturate(Kept("BtoA")))
  BY <1>1 DEF total_wire_bytes, total_captured_bytes, Either, Direction
<1>5. /\ Kept("AtoB") \in Nat /\ Wire("AtoB") \in Nat /\ Kept("AtoB") <= Wire("AtoB")
      /\ Kept("BtoA") \in Nat /\ Wire("BtoA") \in Nat /\ Kept("BtoA") <= Wire("BtoA")
  BY <1>1 DEF Direction
<1>6. entry.captured = {} <=> total_captured_bytes(flow) = total_wire_bytes(flow)
  BY DEF flow_entry
<1>. HIDE DEF Kept, Wire, flow, entry
<1>7. total_captured_bytes(flow) = total_wire_bytes(flow)
        <=> Kept("AtoB") = Wire("AtoB") /\ Kept("BtoA") = Wire("BtoA")
  <2>1. total_wire_bytes(flow) < CounterMax
    BY DEF flow
  <2>. QED
    BY <1>4, <1>5, <2>1, CounterMaxAssumption DEF saturating_add, Saturate
<1>8. entry.captured = {} <=> \A p \in PacketsOf(k) : p.caplen = p.wirelen
  BY <1>3, <1>6, <1>7 DEF Direction
<1>9. (\A p \in PacketsOf(k) : p.caplen = p.wirelen)
        <=> ~ \E p \in PacketsOf(k) : p.caplen < p.wirelen
  BY <1>2
<1>. QED
  BY <1>8, <1>9

LEMMA UnknownIsOdd ==
  ASSUME TypeOK, FlowsSummariseTheirPackets, DurationOnlyMissingForOddStamps,
         NEW k \in DOMAIN table.flows
  PROVE  UnknownForOddStamps(flow_entry(k, table.flows[k]))
<1>. DEFINE flow == table.flows[k]
            entry == flow_entry(k, flow)
            times == {p.timestamp : p \in PacketsOf(k)}
            first == CHOOSE t \in times : \A u \in times : TimeLeq(t, u)
            last == CHOOSE t \in times : \A u \in times : TimeLeq(u, t)
<1>1. RangeCovers(flow, times)
  <2>1. times = UNION {Timestamps(PacketsFiled(k, d)) : d \in Direction}
    BY PacketsOfAFlow DEF Timestamps
  <2>2. RangeCovers(flow, UNION {Timestamps(PacketsFiled(k, d)) : d \in Direction})
    BY DEF FlowsSummariseTheirPackets
  <2>. QED
    BY <2>1, <2>2
<1>2. times \subseteq PacketTimestamp
  BY LogEntry, PacketParts DEF PacketsOf, Filed
<1>3. (duration(flow) = {}) <=>
        ~ IsPointInTime(flow.first_seen) \/ ~ IsPointInTime(flow.last_seen)
          \/ TooFarApart(flow.first_seen, flow.last_seen)
  BY DEF DurationOnlyMissingForOddStamps
<1>4. entry.key = k /\ entry.duration = format_duration(duration(flow))
  BY DEF flow_entry
<1>5. entry.duration.known = (duration(flow) # {})
  <2>1. \A d : d = {} => format_duration(d).known = FALSE
    BY DEF format_duration
  <2>2. \A d : d # {} => format_duration(d).known = TRUE
    BY DEF format_duration
  <2>. HIDE DEF entry, flow
  <2>. QED
    BY <1>4, <2>1, <2>2
<1>. HIDE DEF flow, entry, times
<1>6. first = flow.first_seen
  <2>1. flow.first_seen \in times /\ \A u \in times : TimeLeq(flow.first_seen, u)
    BY <1>1 DEF RangeCovers
  <2>2. \A t \in times : (\A u \in times : TimeLeq(t, u)) => t = flow.first_seen
    BY <1>2, <2>1, TimeOrder
  <2>. QED
    BY <2>1, <2>2
<1>7. last = flow.last_seen
  <2>1. flow.last_seen \in times /\ \A u \in times : TimeLeq(u, flow.last_seen)
    BY <1>1 DEF RangeCovers
  <2>2. \A t \in times : (\A u \in times : TimeLeq(u, t)) => t = flow.last_seen
    BY <1>2, <2>1, TimeOrder
  <2>. QED
    BY <2>1, <2>2
<1>8. UnknownForOddStamps(entry)
  BY <1>3, <1>4, <1>5, <1>6, <1>7 DEF UnknownForOddStamps, times
<1>. QED
  BY <1>8 DEF entry, flow

(* Whoever reads that packets were over the limit is told the limit.       *)
LEMMA RefusedAndFull ==
  ASSUME TypeOK, EveryPacketCounted, OutcomesStillHold, table.untracked["over_flow_limit"] > 0
  PROVE  is_full(table)
<1>1. LeftOut("over_flow_limit") # {}
  <2>. SUFFICES ASSUME LeftOut("over_flow_limit") = {} PROVE FALSE
    OBVIOUS
  <2>1. table.untracked["over_flow_limit"] = Saturate(0)
    BY FS_EmptySet DEF EveryPacketCounted, Reason
  <2>. QED
    BY <2>1, CounterMaxAssumption DEF Saturate
<1>2. PICK i \in Offered : log[i].outcome = "OverLimit"
  BY <1>1, ReasonType DEF LeftOut
<1>. QED
  BY <1>2 DEF OutcomesStillHold, OutcomeHolds

(* The printed report is an account of the run, whatever the table holds.  *)
THEOREM ReportIsAnAccount == Spec => []ReportAddsUp
<1>1. TypeOK /\ EveryPacketCounted /\ OutcomesStillHold /\ FlowsSummariseTheirPackets
        /\ DurationOnlyMissingForOddStamps => ReportAddsUp
  <2>. SUFFICES ASSUME TypeOK, EveryPacketCounted, OutcomesStillHold, FlowsSummariseTheirPackets,
                       DurationOnlyMissingForOddStamps,
                       NEW listing \in flows_sorted(table.flows)
                PROVE  LET report == flow_table(listing)
                       IN  /\ Len(log) <= CounterMax => CountsAddUp(report)
                           /\ \A i \in DOMAIN report.entries :
                                LET entry == report.entries[i]
                                    flow  == table.flows[entry.key]
                                IN  /\ /\ entry.packets < CounterMax
                                       /\ total_wire_bytes(flow) < CounterMax
                                       => EntryAddsUp(entry) /\ TruncationIsMentioned(entry)
                                    /\ UnknownForOddStamps(entry)
                           /\ \A n \in report.note :
                                "over_flow_limit" \in DOMAIN n.reasons
                                  => report.limit = {MaxFlows}
    BY DEF ReportAddsUp
  <2>. DEFINE report == flow_table(listing)
  <2>1. Len(log) <= CounterMax => CountsAddUp(report)
    BY ReportCounts
  <2>2. ASSUME NEW i \in DOMAIN report.entries
        PROVE  LET entry == report.entries[i]
                   flow  == table.flows[entry.key]
               IN  /\ entry.packets < CounterMax /\ total_wire_bytes(flow) < CounterMax
                         => EntryAddsUp(entry) /\ TruncationIsMentioned(entry)
                   /\ UnknownForOddStamps(entry)
    <3>1. PICK k \in DOMAIN table.flows : report.entries[i] = flow_entry(k, table.flows[k])
      BY ListingCovers DEF flow_table
    <3>2. /\ flow_entry(k, table.flows[k]).key = k
          /\ flow_entry(k, table.flows[k]).packets = total_packets(table.flows[k])
      BY DEF flow_entry
    <3>. HIDE DEF report
    <3>. QED
      BY <3>1, <3>2, EntriesAddUp, TruncationShows, UnknownIsOdd
  <2>3. ASSUME NEW n \in report.note, "over_flow_limit" \in DOMAIN n.reasons
        PROVE  report.limit = {MaxFlows}
    <3>1. table.untracked["over_flow_limit"] > 0
      BY <2>3 DEF flow_table, untracked_note
    <3>. QED
      BY <3>1, RefusedAndFull DEF flow_table
  <2>. QED
    BY <2>1, <2>2, <2>3
<1>. QED
  BY <1>1, TypeCorrect, NothingGoesMissing, DecisionsStand, OrderWithinAFlowIsIrrelevant,
     DurationsExist, PTL
=============================================================================
