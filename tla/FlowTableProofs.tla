-------------------------- MODULE FlowTableProofs ---------------------------
(***************************************************************************)
(* Theorems about the flow table, for every limit, every set of packets    *)
(* and every counter width.                                                *)
(***************************************************************************)
EXTENDS FlowTable, MeasureProofs, FiniteSetTheorems, SequenceTheorems

-----------------------------------------------------------------------------
(* Orders                                                                  *)

(* The derived order of endpoints is total and antisymmetric: what makes   *)
(* "the smaller endpoint is A" well defined.                               *)
LEMMA EndpointOrder ==
  ASSUME NEW s \in Endpoint, NEW d \in Endpoint
  PROVE  /\ EndpointLeq(s, d) \/ EndpointLeq(d, s)
         /\ EndpointLeq(s, d) /\ EndpointLeq(d, s) => s = d
<1>1. /\ s.address \in Int /\ s.port \in Int
      /\ d.address \in Int /\ d.port \in Int
  BY FlowTableAssumption DEF Endpoint
<1>2. s.address = d.address /\ s.port = d.port => s = d
  BY DEF Endpoint
<1>. QED
  BY <1>1, <1>2 DEF EndpointLeq

(* Two packets have one key exactly when their protocol is the same and    *)
(* their endpoints are, the same way round or swapped; and then they have  *)
(* one direction exactly when they have one sender, unless the two ends of *)
(* the conversation are one endpoint.                                      *)
THEOREM KeyIsOfTheConversation ==
  ASSUME NEW s \in Endpoint, NEW d \in Endpoint, NEW p \in FlowProtocol,
         NEW t \in Endpoint, NEW e \in Endpoint, NEW q \in FlowProtocol
  PROVE  LET one == canonical(p, s, d)
             two == canonical(q, t, e)
         IN  /\ one.key = two.key <=>
                  p = q /\ ((s = t /\ d = e) \/ (s = e /\ d = t))
             /\ one.key = two.key /\ s # d =>
                  (one.direction = two.direction <=> s = t)
<1>. DEFINE one == canonical(p, s, d)
            two == canonical(q, t, e)
<1>1. /\ one.key.protocol = p /\ two.key.protocol = q
      /\ \/ EndpointLeq(s, d) /\ one.key.a = s /\ one.key.b = d /\ one.direction = "AtoB"
         \/ ~ EndpointLeq(s, d) /\ one.key.a = d /\ one.key.b = s /\ one.direction = "BtoA"
      /\ \/ EndpointLeq(t, e) /\ two.key.a = t /\ two.key.b = e /\ two.direction = "AtoB"
         \/ ~ EndpointLeq(t, e) /\ two.key.a = e /\ two.key.b = t /\ two.direction = "BtoA"
  BY DEF canonical
<1>2. ASSUME one.key = two.key
      PROVE  /\ p = q
             /\ (s = t /\ d = e) \/ (s = e /\ d = t)
             /\ s # d => (one.direction = two.direction <=> s = t)
  BY <1>1, <1>2, EndpointOrder
<1>3. ASSUME p = q, (s = t /\ d = e) \/ (s = e /\ d = t)
      PROVE  one.key = two.key
  BY <1>3, EndpointOrder DEF canonical
<1>. QED
  BY <1>2, <1>3

LEMMA CanonicalType ==
  ASSUME NEW s \in Endpoint, NEW d \in Endpoint, NEW protocol \in FlowProtocol
  PROVE  /\ canonical(protocol, s, d).key \in FlowKey
         /\ canonical(protocol, s, d).direction \in Direction
BY DEF canonical, FlowKey, Direction

-----------------------------------------------------------------------------
(* Types                                                                   *)

LEMMA PacketParts ==
  ASSUME NEW p \in Packets
  PROVE  /\ p.source \in Endpoint /\ p.destination \in Endpoint
         /\ p.timestamp \in PacketTimestamp
         /\ p.caplen \in Nat /\ p.wirelen \in Nat
         /\ p.flags \in SUBSET TcpFlag
<1>1. p \in Packet
  BY FlowTableAssumption
<1>. QED
  BY <1>1 DEF Packet

LEMMA KeyType ==
  ASSUME NEW p \in Packets, FormsFlow(p)
  PROVE  KeyOf(p) \in FlowKey /\ DirectionOf(p) \in Direction
BY PacketParts, CanonicalType DEF KeyOf, DirectionOf, from_packet, FormsFlow

LEMMA AddFlagsType ==
  ASSUME NEW facts \in TcpDirectionFacts, NEW flags \in SUBSET TcpFlag
  PROVE  AddFlags(facts, flags) \in TcpDirectionFacts
<1>1. \A condition \in BOOLEAN, n \in Counter : CountIf(condition, n) \in Counter
  BY SaturatingAdd DEF CountIf
<1>2. /\ facts.flags_seen \in SUBSET TcpFlag
      /\ facts.syn \in Counter /\ facts.fin \in Counter /\ facts.rst \in Counter
  BY DEF TcpDirectionFacts
<1>3. facts.flags_seen \cup flags \in SUBSET TcpFlag
  BY <1>2
<1>4. /\ CountIf("SYN" \in flags, facts.syn) \in Counter
      /\ CountIf("FIN" \in flags, facts.fin) \in Counter
      /\ CountIf("RST" \in flags, facts.rst) \in Counter
  <2>1. ("SYN" \in flags) \in BOOLEAN /\ ("FIN" \in flags) \in BOOLEAN
          /\ ("RST" \in flags) \in BOOLEAN
    OBVIOUS
  <2>. QED
    BY <1>1, <1>2, <2>1, Zenon
<1>. QED
  BY <1>3, <1>4 DEF AddFlags, TcpDirectionFacts

LEMMA NewFlowType ==
  ASSUME NEW t \in PacketTimestamp
  PROVE  NewFlow(t) \in Flow
<1>1. ZeroTotals \in Totals
  BY CounterMaxAssumption DEF ZeroTotals, Totals, Counter
<1>2. NoFacts \in TcpDirectionFacts
  BY CounterMaxAssumption DEF NoFacts, TcpDirectionFacts, Counter
<1>. QED
  BY <1>1, <1>2 DEF NewFlow, Flow

LEMMA FlowRecordType ==
  ASSUME NEW flow \in Flow, NEW d \in Direction, NEW p \in Packets
  PROVE  FlowRecord(flow, d, p) \in Flow
<1>1. /\ flow.first_seen \in PacketTimestamp /\ flow.last_seen \in PacketTimestamp
      /\ flow.totals \in [Direction -> Totals]
      /\ flow.tcp \in [Direction -> TcpDirectionFacts]
  BY DEF Flow
<1>2. /\ MinTime(flow.first_seen, p.timestamp) \in PacketTimestamp
      /\ MaxTime(flow.last_seen, p.timestamp) \in PacketTimestamp
  BY <1>1, PacketParts DEF MinTime, MaxTime
<1>3. AddPacket(flow.totals[d], p.caplen, p.wirelen) \in Totals
  BY <1>1, PacketParts, AddPacketType
<1>4. AddFlags(flow.tcp[d], p.flags) \in TcpDirectionFacts
  BY <1>1, PacketParts, AddFlagsType
<1>5. [flow.totals EXCEPT ![d] = AddPacket(@, p.caplen, p.wirelen)] \in [Direction -> Totals]
  BY <1>1, <1>3
<1>6. [flow.tcp EXCEPT ![d] = AddFlags(@, p.flags)] \in [Direction -> TcpDirectionFacts]
  BY <1>1, <1>4
<1>. QED
  BY <1>1, <1>2, <1>5, <1>6 DEF FlowRecord, Flow

-----------------------------------------------------------------------------
(* What one call of record does to a well-formed table, by outcome         *)

OutcomeOf(p) == Outcome(table, p)

LEMMA OutcomeCases ==
  ASSUME NEW p
  PROVE  /\ OutcomeOf(p) \in RecordOutcome
         /\ OutcomeOf(p) = "Untracked" <=> ~ FormsFlow(p)
         /\ OutcomeOf(p) = "OverLimit" <=>
              FormsFlow(p) /\ KeyOf(p) \notin DOMAIN table.flows /\ is_full(table)
BY DEF OutcomeOf, Outcome, RecordOutcome

LEMMA ReasonType ==
  ASSUME NEW p
  PROVE  untracked_reason(p) \in Reason \ {"over_flow_limit"}
BY DEF untracked_reason, Reason

LEMMA CountUntrackedStep ==
  ASSUME NEW r \in Reason
  PROVE  /\ CountUntracked(table, r).flows = table.flows
         /\ CountUntracked(table, r).untracked =
              [table.untracked EXCEPT ![r] = saturating_add(@, 1)]
BY DEF CountUntracked

LEMMA RecordLeftOut ==
  ASSUME NEW p \in Packets, OutcomeOf(p) # "Tracked"
  PROVE  LET r == IF OutcomeOf(p) = "OverLimit" THEN "over_flow_limit" ELSE untracked_reason(p)
         IN  /\ r \in Reason
             /\ record(table, p).flows = table.flows
             /\ record(table, p).untracked =
                  [table.untracked EXCEPT ![r] = saturating_add(@, 1)]
<1>1. "over_flow_limit" \in Reason /\ untracked_reason(p) \in Reason
  BY ReasonType DEF Reason
<1>2. CASE OutcomeOf(p) = "OverLimit"
  BY <1>1, <1>2, CountUntrackedStep DEF record, OutcomeOf
<1>3. CASE OutcomeOf(p) = "Untracked"
  BY <1>1, <1>3, CountUntrackedStep DEF record, OutcomeOf
<1>. QED
  BY <1>2, <1>3, OutcomeCases DEF RecordOutcome

LEMMA RecordTracked ==
  ASSUME NEW p \in Packets, OutcomeOf(p) = "Tracked"
  PROVE  /\ record(table, p).flows = Track(table.flows, p)
         /\ record(table, p).untracked = table.untracked
         /\ FormsFlow(p)
<1>1. record(table, p) = [flows |-> Track(table.flows, p), untracked |-> table.untracked]
  BY DEF record, OutcomeOf
<1>. QED
  BY <1>1, OutcomeCases

(* Track adds at most the packet's own key and touches no other flow.      *)
LEMMA TrackStep ==
  ASSUME TableTypeOK, NEW p \in Packets, FormsFlow(p)
  PROVE  /\ KeyOf(p) \in FlowKey
         /\ DirectionOf(p) \in Direction
         /\ FlowOrNew(table.flows, p) \in Flow
         /\ DOMAIN Track(table.flows, p) = DOMAIN table.flows \cup {KeyOf(p)}
         /\ Track(table.flows, p)[KeyOf(p)] =
              FlowRecord(FlowOrNew(table.flows, p), DirectionOf(p), p)
         /\ \A k \in DOMAIN table.flows :
              k # KeyOf(p) => Track(table.flows, p)[k] = table.flows[k]
<1>1. KeyOf(p) \in FlowKey /\ DirectionOf(p) \in Direction
  BY KeyType
<1>2. FlowOrNew(table.flows, p) \in Flow
  BY NewFlowType, PacketParts DEF TableTypeOK, FlowOrNew
<1>. QED
  BY <1>1, <1>2 DEF Track

-----------------------------------------------------------------------------
(* The type invariant                                                      *)

LEMMA RecordKeepsType ==
  ASSUME TableTypeOK, NEW p \in Packets, table' = record(table, p)
  PROVE  TableTypeOK'
<1>1. CASE OutcomeOf(p) = "Tracked"
  <2>1. /\ table'.flows = Track(table.flows, p) /\ table'.untracked = table.untracked
        /\ FormsFlow(p)
    BY <1>1, RecordTracked
  <2>3. /\ DOMAIN table'.flows = DOMAIN table.flows \cup {KeyOf(p)}
        /\ KeyOf(p) \in FlowKey
        /\ table'.flows[KeyOf(p)] \in Flow
        /\ \A k \in DOMAIN table.flows : k # KeyOf(p) => table'.flows[k] = table.flows[k]
    BY <2>1, TrackStep, FlowRecordType
  <2>4. IsFiniteSet(DOMAIN table'.flows)
    BY <2>3, FS_AddElement DEF TableTypeOK
  <2>5. \A k \in DOMAIN table'.flows : table'.flows[k] \in Flow
    BY <2>3 DEF TableTypeOK
  <2>. QED
    BY <2>1, <2>3, <2>4, <2>5 DEF TableTypeOK
<1>2. CASE OutcomeOf(p) # "Tracked"
  <2>1. PICK r \in Reason :
          /\ table'.flows = table.flows
          /\ table'.untracked = [table.untracked EXCEPT ![r] = saturating_add(@, 1)]
    BY <1>2, RecordLeftOut
  <2>2. saturating_add(table.untracked[r], 1) \in Counter
    BY SaturatingAdd DEF TableTypeOK
  <2>3. table'.untracked \in [Reason -> Counter]
    BY <2>1, <2>2 DEF TableTypeOK
  <2>. QED
    BY <2>1, <2>3 DEF TableTypeOK
<1>. QED
  BY <1>1, <1>2

Entry(p) == [packet |-> p, outcome |-> OutcomeOf(p)]

LEMMA LogStep ==
  ASSUME TypeOK, NEW p \in Packets, Record(p)
  PROVE  /\ log' \in Seq([packet: Packets, outcome: RecordOutcome])
         /\ Len(log) \in Nat
         /\ Offered' = Offered \cup {Len(log) + 1}
         /\ Len(log) + 1 \notin Offered
         /\ \A i \in Offered : log'[i] = log[i]
         /\ log'[Len(log) + 1] = Entry(p)
<1>1. log' = Append(log, Entry(p))
  BY DEF Record, Entry, OutcomeOf
<1>2. Entry(p) \in [packet: Packets, outcome: RecordOutcome]
  BY OutcomeCases DEF Entry
<1>3. /\ Len(log) \in Nat /\ Len(log') = Len(log) + 1
      /\ log' \in Seq([packet: Packets, outcome: RecordOutcome])
  BY <1>1, <1>2 DEF TypeOK
<1>4. Offered' = Offered \cup {Len(log) + 1} /\ Len(log) + 1 \notin Offered
  BY <1>3 DEF Offered
<1>5. \A i \in Offered : log'[i] = log[i]
  BY <1>1, <1>2 DEF TypeOK, Offered
<1>6. log'[Len(log) + 1] = Entry(p)
  BY <1>1, <1>2 DEF TypeOK
<1>. QED
  BY <1>3, <1>4, <1>5, <1>6

LEMMA LogEntry ==
  ASSUME TypeOK, NEW i \in Offered
  PROVE  PacketAt(i) \in Packets /\ log[i].outcome \in RecordOutcome
<1>1. log \in Seq([packet: Packets, outcome: RecordOutcome]) /\ i \in 1 .. Len(log)
  BY DEF TypeOK, Offered
<1>2. log[i] \in [packet: Packets, outcome: RecordOutcome]
  BY <1>1, ElementOfSeq
<1>. QED
  BY <1>2 DEF PacketAt

LEMMA TypeInit == Init => TypeOK
<1>. SUFFICES ASSUME Init PROVE TypeOK
  OBVIOUS
<1>1. DOMAIN table.flows = {}
  BY DEF Init, EmptyTable
<1>2. table.untracked \in [Reason -> Counter]
  BY CounterMaxAssumption DEF Init, EmptyTable, Counter
<1>3. log \in Seq([packet: Packets, outcome: RecordOutcome])
  BY DEF Init
<1>. QED
  BY <1>1, <1>2, <1>3, FS_EmptySet DEF TypeOK, TableTypeOK

LEMMA TypeStep == TypeOK /\ [Next]_vars => TypeOK'
<1>. SUFFICES ASSUME TypeOK, [Next]_vars PROVE TypeOK'
  OBVIOUS
<1>1. ASSUME NEW p \in Packets, Record(p) PROVE TypeOK'
  <2>1. TableTypeOK'
    BY <1>1, RecordKeepsType DEF TypeOK, Record
  <2>2. log' \in Seq([packet: Packets, outcome: RecordOutcome])
    BY <1>1, LogStep
  <2>. QED
    BY <2>1, <2>2 DEF TypeOK
<1>2. CASE UNCHANGED vars
  BY <1>2 DEF vars, TypeOK, TableTypeOK
<1>. QED
  BY <1>1, <1>2 DEF Next

(* Counters never leave their u64, keys and flows are well formed, in      *)
(* every state of every run.                                               *)
THEOREM TypeCorrect == Spec => []TypeOK
<1>. QED
  BY TypeInit, TypeStep, PTL DEF Spec

-----------------------------------------------------------------------------
(* Whole conversations                                                     *)

(* How the set of listed conversations changes in one step.                *)
LEMMA KeysStep ==
  ASSUME TypeOK, NEW p \in Packets, Record(p)
  PROVE  /\ OutcomeOf(p) = "Tracked" =>
              DOMAIN table'.flows = DOMAIN table.flows \cup {KeyOf(p)}
         /\ OutcomeOf(p) # "Tracked" => DOMAIN table'.flows = DOMAIN table.flows
         /\ is_full(table) => is_full(table)'
<1>1. table' = record(table, p) /\ TableTypeOK
  BY DEF Record, TypeOK
<1>2. OutcomeOf(p) = "Tracked" =>
        DOMAIN table'.flows = DOMAIN table.flows \cup {KeyOf(p)}
  BY <1>1, RecordTracked, TrackStep
<1>3. OutcomeOf(p) # "Tracked" => DOMAIN table'.flows = DOMAIN table.flows
  BY <1>1, RecordLeftOut
<1>4. /\ IsFiniteSet(DOMAIN table'.flows)
      /\ DOMAIN table.flows \in SUBSET DOMAIN table'.flows
  BY <1>1, <1>2, <1>3, FS_AddElement DEF TableTypeOK
<1>5. /\ Cardinality(DOMAIN table.flows) <= Cardinality(DOMAIN table'.flows)
      /\ Cardinality(DOMAIN table.flows) \in Nat
      /\ Cardinality(DOMAIN table'.flows) \in Nat
  BY <1>1, <1>4, FS_Subset, FS_CardinalityType DEF TableTypeOK
<1>6. is_full(table) => is_full(table)'
  BY <1>5, FlowTableAssumption DEF is_full
<1>. QED
  BY <1>2, <1>3, <1>6

LEMMA OutcomesStep ==
  ASSUME TypeOK, OutcomesStillHold, NEW p \in Packets, Record(p)
  PROVE  OutcomesStillHold'
<1>1. ASSUME NEW i \in Offered PROVE OutcomeHolds(i)'
  <2>1. log'[i] = log[i] /\ OutcomeHolds(i)
    BY LogStep DEF OutcomesStillHold
  <2>2. CASE log[i].outcome = "OverLimit"
    <3>1. KeyOf(PacketAt(i)) \notin DOMAIN table.flows /\ is_full(table)
      BY <2>1, <2>2 DEF OutcomeHolds
    <3>2. OutcomeOf(p) = "Tracked" => KeyOf(p) \in DOMAIN table.flows
      BY <3>1, OutcomeCases
    <3>3. DOMAIN table'.flows = DOMAIN table.flows /\ is_full(table)'
      BY <3>1, <3>2, KeysStep
    <3>. QED
      BY <2>1, <2>2, <3>1, <3>3 DEF PacketAt, OutcomeHolds
  <2>3. CASE log[i].outcome # "OverLimit"
    <3>1. DOMAIN table.flows \subseteq DOMAIN table'.flows
      BY KeysStep
    <3>. QED
      BY <2>1, <2>3, <3>1 DEF PacketAt, OutcomeHolds
  <2>. QED
    BY <2>2, <2>3
<1>2. ASSUME NEW n, n = Len(log) + 1 PROVE OutcomeHolds(n)'
  <2>1. log'[n] = Entry(p)
    BY <1>2, LogStep
  <2>2. PacketAt(n)' = p /\ log'[n].outcome = OutcomeOf(p)
    BY <2>1 DEF Entry, PacketAt
  <2>3. CASE OutcomeOf(p) = "Tracked"
    BY <2>2, <2>3, KeysStep, OutcomeCases DEF OutcomeHolds
  <2>4. CASE OutcomeOf(p) # "Tracked"
    BY <2>2, <2>4, KeysStep, OutcomeCases DEF OutcomeHolds
  <2>. QED
    BY <2>3, <2>4
<1>3. Offered' = Offered \cup {Len(log) + 1}
  BY LogStep
<1>. QED
  BY <1>1, <1>2, <1>3 DEF OutcomesStillHold

(* No packet of a run is ever overtaken by a later one.                    *)
THEOREM DecisionsStand == Spec => []OutcomesStillHold
<1>1. Init => OutcomesStillHold
  BY DEF Init, OutcomesStillHold, Offered
<1>2. TypeOK /\ OutcomesStillHold /\ [Next]_vars => OutcomesStillHold'
  <2>. SUFFICES ASSUME TypeOK, OutcomesStillHold, [Next]_vars PROVE OutcomesStillHold'
    OBVIOUS
  <2>1. CASE UNCHANGED vars
    BY <2>1 DEF vars, OutcomesStillHold, OutcomeHolds, Offered, PacketAt, is_full
  <2>2. ASSUME NEW p \in Packets, Record(p) PROVE OutcomesStillHold'
    BY <2>2, OutcomesStep
  <2>. QED
    BY <2>1, <2>2 DEF Next
<1>. QED
  BY <1>1, <1>2, TypeCorrect, PTL DEF Spec

(* A conversation is listed with every packet of it the run offered, or    *)
(* not at all.                                                             *)
THEOREM ConversationsAreWhole == Spec => []NoPartialFlow
<1>1. TypeOK /\ OutcomesStillHold => NoPartialFlow
  <2>. SUFFICES ASSUME TypeOK, OutcomesStillHold,
                       NEW i \in Offered, NEW j \in Offered,
                       FormsFlow(PacketAt(i)), FormsFlow(PacketAt(j)),
                       KeyOf(PacketAt(i)) = KeyOf(PacketAt(j))
                PROVE  log[i].outcome = log[j].outcome
    BY DEF NoPartialFlow
  <2>1. log[i].outcome \in RecordOutcome /\ log[j].outcome \in RecordOutcome
    BY LogEntry
  <2>. QED
    BY <2>1 DEF OutcomesStillHold, OutcomeHolds, RecordOutcome
<1>. QED
  BY <1>1, TypeCorrect, DecisionsStand, PTL
-----------------------------------------------------------------------------
(* Every packet is counted once                                            *)

LEMMA CountOneMore ==
  ASSUME NEW S, IsFiniteSet(S), NEW x, x \notin S
  PROVE  Saturate(Cardinality(S \cup {x})) = saturating_add(Saturate(Cardinality(S)), 1)
<1>1. Cardinality(S \cup {x}) = Cardinality(S) + 1
  BY FS_AddElement
<1>2. Cardinality(S) \in Nat
  BY FS_CardinalityType
<1>. QED
  BY <1>1, <1>2, SaturateStep

LEMMA FiledFinite ==
  ASSUME TypeOK, NEW k, NEW d, NEW r
  PROVE  IsFiniteSet(Filed(k, d)) /\ IsFiniteSet(LeftOut(r))
<1>1. Len(log) \in Nat
  BY DEF TypeOK
<1>2. IsFiniteSet(Offered)
  BY <1>1, FS_Interval DEF Offered
<1>3. Filed(k, d) \subseteq Offered /\ LeftOut(r) \subseteq Offered
  BY DEF Filed, LeftOut
<1>. QED
  BY <1>2, <1>3, FS_Subset

(* The new packet joins exactly the set its outcome names.                 *)
CountsInto(p, k, d) == OutcomeOf(p) = "Tracked" /\ KeyOf(p) = k /\ DirectionOf(p) = d

CountsUnder(p, r) ==
  \/ OutcomeOf(p) = "Untracked" /\ untracked_reason(p) = r
  \/ OutcomeOf(p) = "OverLimit" /\ r = "over_flow_limit"

LEMMA FiledStep ==
  ASSUME TypeOK, NEW p \in Packets, Record(p), NEW k, NEW d
  PROVE  /\ CountsInto(p, k, d) => Filed(k, d)' = Filed(k, d) \cup {Len(log) + 1}
         /\ ~ CountsInto(p, k, d) => Filed(k, d)' = Filed(k, d)
         /\ Len(log) + 1 \notin Filed(k, d)
<1>. DEFINE n == Len(log) + 1
<1>1. /\ Offered' = Offered \cup {n} /\ n \notin Offered
      /\ \A i \in Offered : log'[i] = log[i]
      /\ log'[n] = Entry(p)
  BY LogStep
<1>2. Filed(k, d)' = {i \in Offered' : /\ log'[i].outcome = "Tracked"
                                       /\ KeyOf(log'[i].packet) = k
                                       /\ DirectionOf(log'[i].packet) = d}
  BY DEF Filed, PacketAt
<1>3. log'[n].outcome = OutcomeOf(p) /\ log'[n].packet = p
  BY <1>1 DEF Entry
<1>. HIDE DEF n
<1>4. n \in Filed(k, d)' <=> CountsInto(p, k, d)
  BY <1>1, <1>2, <1>3 DEF CountsInto
<1>5. \A i \in Offered : i \in Filed(k, d)' <=> i \in Filed(k, d)
  BY <1>1, <1>2 DEF Filed, PacketAt
<1>6. Filed(k, d)' \subseteq Offered \cup {n} /\ Filed(k, d) \subseteq Offered
  BY <1>1, <1>2 DEF Filed
<1>. QED
  BY <1>1, <1>4, <1>5, <1>6 DEF n

LEMMA LeftOutStep ==
  ASSUME TypeOK, NEW p \in Packets, Record(p), NEW r
  PROVE  /\ CountsUnder(p, r) => LeftOut(r)' = LeftOut(r) \cup {Len(log) + 1}
         /\ ~ CountsUnder(p, r) => LeftOut(r)' = LeftOut(r)
         /\ Len(log) + 1 \notin LeftOut(r)
<1>. DEFINE n == Len(log) + 1
<1>1. /\ Offered' = Offered \cup {n} /\ n \notin Offered
      /\ \A i \in Offered : log'[i] = log[i]
      /\ log'[n] = Entry(p)
  BY LogStep
<1>2. LeftOut(r)' =
        {i \in Offered' :
           \/ log'[i].outcome = "Untracked" /\ untracked_reason(log'[i].packet) = r
           \/ log'[i].outcome = "OverLimit" /\ r = "over_flow_limit"}
  BY DEF LeftOut, PacketAt
<1>3. log'[n].outcome = OutcomeOf(p) /\ log'[n].packet = p
  BY <1>1 DEF Entry
<1>. HIDE DEF n
<1>4. n \in LeftOut(r)' <=> CountsUnder(p, r)
  BY <1>1, <1>2, <1>3 DEF CountsUnder
<1>5. \A i \in Offered : i \in LeftOut(r)' <=> i \in LeftOut(r)
  BY <1>1, <1>2 DEF LeftOut, PacketAt
<1>6. LeftOut(r)' \subseteq Offered \cup {n} /\ LeftOut(r) \subseteq Offered
  BY <1>1, <1>2 DEF LeftOut
<1>. QED
  BY <1>1, <1>4, <1>5, <1>6 DEF n

(* A conversation that is not listed has no packet filed under it, so a    *)
(* new entry may start from zero.                                          *)
LEMMA NothingFiledYet ==
  ASSUME OutcomesStillHold, NEW k, k \notin DOMAIN table.flows, NEW d
  PROVE  Filed(k, d) = {}
BY DEF OutcomesStillHold, OutcomeHolds, Filed

FlowsCounted ==
  \A k \in DOMAIN table.flows, d \in Direction :
    table.flows[k].totals[d].packets = Saturate(Cardinality(Filed(k, d)))

ReasonsCounted ==
  \A r \in Reason : table.untracked[r] = Saturate(Cardinality(LeftOut(r)))
LEMMA FlowRecordCounts ==
  ASSUME NEW flow \in Flow, NEW way \in Direction, NEW p, NEW d \in Direction
  PROVE  FlowRecord(flow, way, p).totals[d].packets =
           IF d = way THEN saturating_add(flow.totals[d].packets, 1)
                      ELSE flow.totals[d].packets
<1>1. flow.totals \in [Direction -> Totals]
  BY DEF Flow
<1>2. FlowRecord(flow, way, p).totals =
        [flow.totals EXCEPT ![way] = AddPacket(@, p.caplen, p.wirelen)]
  BY DEF FlowRecord
<1>. QED
  BY <1>1, <1>2 DEF AddPacket

(* What an entry stands at before this packet, listed already or not.      *)
LEMMA EntryCounted ==
  ASSUME OutcomesStillHold, FlowsCounted, NEW p, NEW d \in Direction
  PROVE  FlowOrNew(table.flows, p).totals[d].packets
           = Saturate(Cardinality(Filed(KeyOf(p), d)))
<1>1. CASE KeyOf(p) \in DOMAIN table.flows
  BY <1>1 DEF FlowOrNew, FlowsCounted
<1>2. CASE KeyOf(p) \notin DOMAIN table.flows
  <2>1. Cardinality(Filed(KeyOf(p), d)) = 0
    BY <1>2, NothingFiledYet, FS_EmptySet
  <2>2. FlowOrNew(table.flows, p).totals[d].packets = 0
    BY <1>2 DEF FlowOrNew, NewFlow, ZeroTotals
  <2>. QED
    BY <2>1, <2>2, CounterMaxAssumption DEF Saturate
<1>. QED
  BY <1>1, <1>2

LEMMA FlowsCountedStep ==
  ASSUME TypeOK, OutcomesStillHold, FlowsCounted, NEW p \in Packets, Record(p)
  PROVE  FlowsCounted'
<1>. SUFFICES ASSUME NEW k \in DOMAIN table'.flows, NEW d \in Direction
              PROVE  table'.flows[k].totals[d].packets = Saturate(Cardinality(Filed(k, d)'))
  BY DEF FlowsCounted, Saturate
<1>1. table' = record(table, p) /\ TableTypeOK
  BY DEF Record, TypeOK
<1>2. CASE OutcomeOf(p) # "Tracked"
  <2>1. table'.flows = table.flows
    BY <1>1, <1>2, RecordLeftOut
  <2>2. Filed(k, d)' = Filed(k, d)
    BY <1>2, FiledStep DEF CountsInto
  <2>. QED
    BY <2>1, <2>2 DEF FlowsCounted
<1>3. CASE OutcomeOf(p) = "Tracked"
  <2>1. table'.flows = Track(table.flows, p) /\ FormsFlow(p)
    BY <1>1, <1>3, RecordTracked
  <2>2. CASE k # KeyOf(p)
    <3>1. k \in DOMAIN table.flows /\ table'.flows[k] = table.flows[k]
      BY <1>1, <2>1, <2>2, TrackStep
    <3>2. Filed(k, d)' = Filed(k, d)
      BY <2>2, FiledStep DEF CountsInto
    <3>. QED
      BY <3>1, <3>2 DEF FlowsCounted
  <2>3. CASE k = KeyOf(p)
    <3>. DEFINE old == FlowOrNew(table.flows, p).totals[d].packets
    <3>1. table'.flows[k].totals[d].packets =
            IF d = DirectionOf(p) THEN saturating_add(old, 1) ELSE old
      <4>1. /\ FlowOrNew(table.flows, p) \in Flow /\ DirectionOf(p) \in Direction
            /\ table'.flows[k] = FlowRecord(FlowOrNew(table.flows, p), DirectionOf(p), p)
        BY <1>1, <2>1, <2>3, TrackStep
      <4>. QED
        BY <4>1, FlowRecordCounts
    <3>2. old = Saturate(Cardinality(Filed(k, d)))
      BY <2>3, EntryCounted
    <3>3. CASE d = DirectionOf(p)
      <4>1. CountsInto(p, k, d)
        BY <1>3, <2>3, <3>3 DEF CountsInto
      <4>2. Saturate(Cardinality(Filed(k, d)')) = saturating_add(old, 1)
        BY <4>1, <3>2, FiledStep, FiledFinite, CountOneMore
      <4>. QED
        BY <3>1, <3>3, <4>2
    <3>4. CASE d # DirectionOf(p)
      BY <3>1, <3>2, <3>4, FiledStep DEF CountsInto
    <3>. QED
      BY <3>3, <3>4
  <2>. QED
    BY <2>2, <2>3
<1>. QED
  BY <1>2, <1>3

LEMMA ReasonsCountedStep ==
  ASSUME TypeOK, ReasonsCounted, NEW p \in Packets, Record(p)
  PROVE  ReasonsCounted'
<1>. SUFFICES ASSUME NEW r \in Reason
              PROVE  table'.untracked[r] = Saturate(Cardinality(LeftOut(r)'))
  BY DEF ReasonsCounted, Saturate
<1>1. table' = record(table, p) /\ table.untracked \in [Reason -> Counter]
  BY DEF Record, TypeOK, TableTypeOK
<1>2. CASE OutcomeOf(p) = "Tracked"
  BY <1>1, <1>2, RecordTracked, LeftOutStep DEF CountsUnder, ReasonsCounted
<1>3. CASE OutcomeOf(p) # "Tracked"
  <2>. DEFINE mine == IF OutcomeOf(p) = "OverLimit" THEN "over_flow_limit"
                      ELSE untracked_reason(p)
  <2>1. /\ mine \in Reason
        /\ table'.untracked = [table.untracked EXCEPT ![mine] = saturating_add(@, 1)]
    BY <1>1, <1>3, RecordLeftOut
  <2>2. CountsUnder(p, r) <=> r = mine
    BY <1>3, OutcomeCases, ReasonType DEF CountsUnder, RecordOutcome
  <2>3. CASE r = mine
    <3>1. table'.untracked[r] = saturating_add(table.untracked[r], 1)
      BY <1>1, <2>1, <2>3
    <3>2. Saturate(Cardinality(LeftOut(r)')) =
            saturating_add(Saturate(Cardinality(LeftOut(r))), 1)
      BY <2>2, <2>3, LeftOutStep, FiledFinite, CountOneMore
    <3>. QED
      BY <3>1, <3>2 DEF ReasonsCounted
  <2>4. CASE r # mine
    BY <1>1, <2>1, <2>2, <2>4, LeftOutStep DEF ReasonsCounted
  <2>. QED
    BY <2>3, <2>4
<1>. QED
  BY <1>2, <1>3

LEMMA CountsInit == Init => FlowsCounted /\ ReasonsCounted
<1>. SUFFICES ASSUME Init PROVE FlowsCounted /\ ReasonsCounted
  OBVIOUS
<1>1. /\ DOMAIN table.flows = {}
      /\ \A r \in Reason : table.untracked[r] = 0
      /\ Offered = {}
  BY DEF Init, EmptyTable, Offered
<1>2. \A r : Cardinality(LeftOut(r)) = 0
  BY <1>1, FS_EmptySet DEF LeftOut
<1>. QED
  BY <1>1, <1>2, CounterMaxAssumption DEF FlowsCounted, ReasonsCounted, Saturate

(* Nothing a run offers goes missing and nothing is counted twice: each    *)
(* packet is in one conversation's direction or under one reason, and the  *)
(* counters are exactly those numbers, stopping at the top of their u64.   *)
THEOREM NothingGoesMissing == Spec => []EveryPacketCounted
<1>1. TypeOK /\ OutcomesStillHold /\ FlowsCounted /\ ReasonsCounted /\ [Next]_vars
        => (FlowsCounted /\ ReasonsCounted)'
  <2>. SUFFICES ASSUME TypeOK, OutcomesStillHold, FlowsCounted, ReasonsCounted, [Next]_vars
                PROVE  (FlowsCounted /\ ReasonsCounted)'
    OBVIOUS
  <2>1. CASE UNCHANGED vars
    BY <2>1 DEF vars, FlowsCounted, ReasonsCounted, Filed, LeftOut, Offered, PacketAt
  <2>2. ASSUME NEW p \in Packets, Record(p) PROVE (FlowsCounted /\ ReasonsCounted)'
    BY <2>2, FlowsCountedStep, ReasonsCountedStep
  <2>. QED
    BY <2>1, <2>2 DEF Next
<1>2. OutcomesStillHold /\ FlowsCounted /\ ReasonsCounted => EveryPacketCounted
  BY DEF OutcomesStillHold, OutcomeHolds, FlowsCounted, ReasonsCounted, EveryPacketCounted
<1>. QED
  BY <1>1, <1>2, CountsInit, TypeCorrect, DecisionsStand, PTL DEF Spec

-----------------------------------------------------------------------------
(* Durations                                                               *)

(* The range of every flow runs forwards in the derived order.             *)
RangesInOrder ==
  \A k \in DOMAIN table.flows :
    TimeLeq(table.flows[k].first_seen, table.flows[k].last_seen)

LEMMA RangesStep ==
  ASSUME TypeOK, RangesInOrder, NEW p \in Packets, Record(p)
  PROVE  RangesInOrder'
<1>. SUFFICES ASSUME NEW k \in DOMAIN table'.flows
              PROVE  TimeLeq(table'.flows[k].first_seen, table'.flows[k].last_seen)
  BY DEF RangesInOrder, TimeLeq
<1>1. table' = record(table, p) /\ TableTypeOK
  BY DEF Record, TypeOK
<1>2. CASE OutcomeOf(p) # "Tracked"
  BY <1>1, <1>2, RecordLeftOut DEF RangesInOrder
<1>3. CASE OutcomeOf(p) = "Tracked"
  <2>1. table'.flows = Track(table.flows, p) /\ FormsFlow(p)
    BY <1>1, <1>3, RecordTracked
  <2>2. CASE k # KeyOf(p)
    BY <1>1, <2>1, <2>2, TrackStep DEF RangesInOrder
  <2>3. CASE k = KeyOf(p)
    <3>. DEFINE old == FlowOrNew(table.flows, p)
    <3>1. old \in Flow /\ table'.flows[k] = FlowRecord(old, DirectionOf(p), p)
      BY <1>1, <2>1, <2>3, TrackStep
    <3>2. /\ old.first_seen \in PacketTimestamp /\ old.last_seen \in PacketTimestamp
          /\ p.timestamp \in PacketTimestamp
      BY <3>1, PacketParts DEF Flow
    <3>3. TimeLeq(old.first_seen, old.last_seen)
      BY <3>2, TimeOrder DEF FlowOrNew, NewFlow, RangesInOrder
    <3>4. /\ table'.flows[k].first_seen = MinTime(old.first_seen, p.timestamp)
          /\ table'.flows[k].last_seen = MaxTime(old.last_seen, p.timestamp)
      BY <3>1 DEF FlowRecord
    <3>. QED
      BY <3>2, <3>3, <3>4, TimeOrder DEF MinTime, MaxTime
  <2>. QED
    BY <2>2, <2>3
<1>. QED
  BY <1>2, <1>3

(* A flow's duration is never lost to packets arriving out of order.       *)
THEOREM DurationsExist == Spec => []DurationOnlyMissingForOddStamps
<1>1. Init => RangesInOrder
  BY DEF Init, EmptyTable, RangesInOrder
<1>2. TypeOK /\ RangesInOrder /\ [Next]_vars => RangesInOrder'
  <2>. SUFFICES ASSUME TypeOK, RangesInOrder, [Next]_vars PROVE RangesInOrder'
    OBVIOUS
  <2>1. CASE UNCHANGED vars
    BY <2>1 DEF vars, RangesInOrder
  <2>. QED
    BY <2>1, RangesStep DEF Next
<1>3. TypeOK /\ RangesInOrder => DurationOnlyMissingForOddStamps
  <2>. SUFFICES ASSUME TypeOK, RangesInOrder, NEW k \in DOMAIN table.flows
                PROVE  duration(table.flows[k]) = {} <=>
                         \/ ~ IsPointInTime(table.flows[k].first_seen)
                         \/ ~ IsPointInTime(table.flows[k].last_seen)
                         \/ TooFarApart(table.flows[k].first_seen, table.flows[k].last_seen)
    BY DEF DurationOnlyMissingForOddStamps
  <2>1. /\ table.flows[k].first_seen \in PacketTimestamp
        /\ table.flows[k].last_seen \in PacketTimestamp
    BY DEF TypeOK, TableTypeOK, Flow
  <2>. QED
    BY <2>1, BetweenInOrder DEF RangesInOrder, duration
<1>. QED
  BY <1>1, <1>2, <1>3, TypeCorrect, PTL DEF Spec

-----------------------------------------------------------------------------
(* What a flow says of its packets                                         *)

(* Packets filed somewhere, by their places, and one more of them.         *)
Filing(packets) ==
  IsFiniteSet(DOMAIN packets) /\ \A i \in DOMAIN packets : packets[i] \in Packets

Joined(packets, n, p) ==
  [i \in DOMAIN packets \cup {n} |-> IF i = n THEN p ELSE packets[i]]

LEMMA PacketsFiledType ==
  ASSUME TypeOK, NEW k, NEW d
  PROVE  Filing(PacketsFiled(k, d)) /\ DOMAIN PacketsFiled(k, d) = Filed(k, d)
<1>1. \A i \in Filed(k, d) : PacketAt(i) \in Packets
  BY LogEntry DEF Filed
<1>. QED
  BY <1>1, FiledFinite DEF Filing, PacketsFiled

LEMMA PacketsFiledStep ==
  ASSUME TypeOK, NEW p \in Packets, Record(p), NEW k, NEW d
  PROVE  /\ CountsInto(p, k, d) =>
              PacketsFiled(k, d)' = Joined(PacketsFiled(k, d), Len(log) + 1, p)
         /\ ~ CountsInto(p, k, d) => PacketsFiled(k, d)' = PacketsFiled(k, d)
         /\ Len(log) + 1 \notin DOMAIN PacketsFiled(k, d)
<1>. DEFINE n == Len(log) + 1
<1>1. /\ n \notin Offered
      /\ \A i \in Offered : log'[i].packet = PacketAt(i)
      /\ log'[n].packet = p
  <2>1. n \notin Offered /\ log'[n] = Entry(p) /\ \A i \in Offered : log'[i] = log[i]
    BY LogStep
  <2>. QED
    BY <2>1 DEF Entry, PacketAt
<1>2. PacketsFiled(k, d)' = [i \in Filed(k, d)' |-> log'[i].packet]
  BY DEF PacketsFiled, PacketAt
<1>3. /\ CountsInto(p, k, d) => Filed(k, d)' = Filed(k, d) \cup {n}
      /\ ~ CountsInto(p, k, d) => Filed(k, d)' = Filed(k, d)
      /\ n \notin Filed(k, d)
      /\ Filed(k, d) \subseteq Offered
  BY FiledStep DEF Filed
<1>. HIDE DEF n
<1>4. CASE CountsInto(p, k, d)
  <2>1. \A i \in Filed(k, d) \cup {n} :
          log'[i].packet = IF i = n THEN p ELSE PacketsFiled(k, d)[i]
    BY <1>1, <1>3 DEF PacketsFiled
  <2>. QED
    BY <1>2, <1>3, <1>4, <2>1 DEF Joined, PacketsFiled, n
<1>5. CASE ~ CountsInto(p, k, d)
  BY <1>1, <1>2, <1>3, <1>5 DEF PacketsFiled, n
<1>. QED
  BY <1>4, <1>5

LEMMA BytesJoin ==
  ASSUME NEW packets, Filing(packets), NEW n, n \notin DOMAIN packets,
         NEW p \in Packets, NEW totals, BytesAddUp(totals, packets)
  PROVE  BytesAddUp(AddPacket(totals, p.caplen, p.wirelen), Joined(packets, n, p))
<1>. DEFINE more == Joined(packets, n, p)
            c == [i \in DOMAIN packets |-> packets[i].caplen]
            w == [i \in DOMAIN packets |-> packets[i].wirelen]
            c2 == [i \in DOMAIN more |-> more[i].caplen]
            w2 == [i \in DOMAIN more |-> more[i].wirelen]
<1>1. /\ DOMAIN more = DOMAIN packets \cup {n} /\ more[n] = p
      /\ \A i \in DOMAIN packets : more[i] = packets[i]
  BY DEF Joined
<1>. HIDE DEF more
<1>2. p.caplen \in Nat /\ p.wirelen \in Nat
  BY PacketParts
<1>3. \A i \in DOMAIN packets : packets[i].caplen \in Nat /\ packets[i].wirelen \in Nat
  BY PacketParts DEF Filing
<1>4. SumFunction(c) \in Nat /\ SumFunction(c2) = p.caplen + SumFunction(c)
  <2>1. /\ IsFiniteSet(DOMAIN c) /\ n \notin DOMAIN c /\ DOMAIN c2 = DOMAIN c \cup {n}
        /\ c2[n] = p.caplen /\ \A y \in DOMAIN c : c[y] \in Nat /\ c2[y] = c[y]
    BY <1>1, <1>3 DEF Filing
  <2>. HIDE DEF c, c2
  <2>. QED
    BY <1>2, <2>1, SumGrows
<1>5. SumFunction(w) \in Nat /\ SumFunction(w2) = p.wirelen + SumFunction(w)
  <2>1. /\ IsFiniteSet(DOMAIN w) /\ n \notin DOMAIN w /\ DOMAIN w2 = DOMAIN w \cup {n}
        /\ w2[n] = p.wirelen /\ \A y \in DOMAIN w : w[y] \in Nat /\ w2[y] = w[y]
    BY <1>1, <1>3 DEF Filing
  <2>. HIDE DEF w, w2
  <2>. QED
    BY <1>2, <2>1, SumGrows
<1>6. totals.captured_bytes = Saturate(SumFunction(c))
        /\ totals.wire_bytes = Saturate(SumFunction(w))
  BY DEF BytesAddUp
<1>. HIDE DEF c, w, c2, w2
<1>7. /\ AddPacket(totals, p.caplen, p.wirelen).captured_bytes = Saturate(SumFunction(c2))
      /\ AddPacket(totals, p.caplen, p.wirelen).wire_bytes = Saturate(SumFunction(w2))
  BY <1>2, <1>4, <1>5, <1>6, SaturateAdd DEF AddPacket
<1>. QED
  BY <1>7 DEF BytesAddUp, c2, w2, more

LEMMA FlagCounted ==
  ASSUME NEW packets, Filing(packets), NEW n, n \notin DOMAIN packets,
         NEW p, NEW flag, NEW counter,
         counter = Saturate(Cardinality(With(flag, packets)))
  PROVE  CountIf(flag \in p.flags, counter)
           = Saturate(Cardinality(With(flag, Joined(packets, n, p))))
<1>1. IsFiniteSet(With(flag, packets)) /\ n \notin With(flag, packets)
  BY FS_Subset DEF With, Filing
<1>2. CASE flag \in p.flags
  <2>1. With(flag, Joined(packets, n, p)) = With(flag, packets) \cup {n}
    BY <1>2 DEF With, Joined
  <2>. QED
    BY <1>1, <1>2, <2>1, CountOneMore DEF CountIf
<1>3. CASE flag \notin p.flags
  <2>1. With(flag, Joined(packets, n, p)) = With(flag, packets)
    BY <1>3 DEF With, Joined
  <2>. QED
    BY <1>3, <2>1 DEF CountIf
<1>. QED
  BY <1>2, <1>3

LEMMA FlagsJoin ==
  ASSUME NEW packets, Filing(packets), NEW n, n \notin DOMAIN packets,
         NEW p, NEW facts, FlagsUnite(facts, packets)
  PROVE  FlagsUnite(AddFlags(facts, p.flags), Joined(packets, n, p))
<1>. DEFINE more == Joined(packets, n, p)
<1>1. /\ DOMAIN more = DOMAIN packets \cup {n} /\ more[n] = p
      /\ \A i \in DOMAIN packets : more[i] = packets[i]
  BY DEF Joined
<1>2. /\ CountIf("SYN" \in p.flags, facts.syn) = Saturate(Cardinality(With("SYN", more)))
      /\ CountIf("FIN" \in p.flags, facts.fin) = Saturate(Cardinality(With("FIN", more)))
      /\ CountIf("RST" \in p.flags, facts.rst) = Saturate(Cardinality(With("RST", more)))
  BY FlagCounted DEF FlagsUnite
<1>. HIDE DEF more
<1>3. (UNION {packets[i].flags : i \in DOMAIN packets}) \cup p.flags
        = UNION {more[i].flags : i \in DOMAIN more}
  BY <1>1
<1>4. facts.flags_seen \cup p.flags = UNION {more[i].flags : i \in DOMAIN more}
  BY <1>3 DEF FlagsUnite
<1>5. FlagsUnite(AddFlags(facts, p.flags), more)
  BY <1>2, <1>4 DEF FlagsUnite, AddFlags
<1>. QED
  BY <1>5 DEF more

(* The range takes in one more timestamp; a new flow starts at its first.  *)
LEMMA RangeJoin ==
  ASSUME NEW flow \in Flow, NEW way \in Direction, NEW p \in Packets,
         NEW times \in SUBSET PacketTimestamp,
         \/ RangeCovers(flow, times)
         \/ flow = NewFlow(p.timestamp) /\ times = {}
  PROVE  RangeCovers(FlowRecord(flow, way, p), times \cup {p.timestamp})
<1>1. /\ flow.first_seen \in PacketTimestamp /\ flow.last_seen \in PacketTimestamp
      /\ p.timestamp \in PacketTimestamp
  BY PacketParts DEF Flow
<1>2. /\ FlowRecord(flow, way, p).first_seen = MinTime(flow.first_seen, p.timestamp)
      /\ FlowRecord(flow, way, p).last_seen = MaxTime(flow.last_seen, p.timestamp)
  BY DEF FlowRecord
<1>3. TimeLeq(p.timestamp, p.timestamp)
  BY <1>1, TimeOrder
<1>4. CASE RangeCovers(flow, times)
  <2>1. /\ flow.first_seen \in times /\ flow.last_seen \in times
        /\ \A t \in times : TimeLeq(flow.first_seen, t) /\ TimeLeq(t, flow.last_seen)
    BY <1>4 DEF RangeCovers
  <2>2. /\ TimeLeq(flow.first_seen, p.timestamp) \/ TimeLeq(p.timestamp, flow.first_seen)
        /\ TimeLeq(flow.last_seen, p.timestamp) \/ TimeLeq(p.timestamp, flow.last_seen)
    BY <1>1, TimeOrder
  <2>3. ASSUME NEW t \in times \cup {p.timestamp}
        PROVE  /\ TimeLeq(MinTime(flow.first_seen, p.timestamp), t)
               /\ TimeLeq(t, MaxTime(flow.last_seen, p.timestamp))
    <3>1. t \in PacketTimestamp
      BY <1>1
    <3>2. t \in times => TimeLeq(flow.first_seen, t) /\ TimeLeq(t, flow.last_seen)
      BY <2>1
    <3>3. t \notin times => t = p.timestamp
      OBVIOUS
    <3>. QED
      BY <1>1, <1>3, <2>2, <3>1, <3>2, <3>3, TimeOrder DEF MinTime, MaxTime
  <2>. QED
    BY <1>2, <2>1, <2>3 DEF RangeCovers, MinTime, MaxTime
<1>5. CASE flow = NewFlow(p.timestamp) /\ times = {}
  BY <1>2, <1>3, <1>5 DEF RangeCovers, NewFlow, MinTime, MaxTime
<1>. QED
  BY <1>4, <1>5

FlowSummarised(flow, k) ==
  /\ RangeCovers(flow, UNION {Timestamps(PacketsFiled(k, d)) : d \in Direction})
  /\ \A d \in Direction :
       /\ BytesAddUp(flow.totals[d], PacketsFiled(k, d))
       /\ IF k.protocol = "Tcp" THEN FlagsUnite(flow.tcp[d], PacketsFiled(k, d))
          ELSE flow.tcp[d] = NoFacts

(* An entry that is about to be made has nothing to summarise yet.         *)
LEMMA NothingToSummarise ==
  ASSUME TypeOK, OutcomesStillHold, NEW p \in Packets, FormsFlow(p),
         KeyOf(p) \notin DOMAIN table.flows, NEW d \in Direction
  PROVE  LET flow == NewFlow(p.timestamp)
         IN  /\ Timestamps(PacketsFiled(KeyOf(p), d)) = {}
             /\ BytesAddUp(flow.totals[d], PacketsFiled(KeyOf(p), d))
             /\ FlagsUnite(flow.tcp[d], PacketsFiled(KeyOf(p), d))
             /\ flow.tcp[d] = NoFacts
<1>. DEFINE none == PacketsFiled(KeyOf(p), d)
<1>1. DOMAIN none = {}
  BY NothingFiledYet, PacketsFiledType
<1>. HIDE DEF none
<1>2. Saturate(0) = 0
  BY CounterMaxAssumption DEF Saturate
<1>3. BytesAddUp(ZeroTotals, none)
  <2>1. /\ SumFunction([i \in DOMAIN none |-> none[i].caplen]) = 0
        /\ SumFunction([i \in DOMAIN none |-> none[i].wirelen]) = 0
    BY <1>1, SumOfNothing
  <2>. QED
    BY <1>2, <2>1 DEF BytesAddUp, ZeroTotals
<1>4. FlagsUnite(NoFacts, none)
  <2>1. \A flag : Cardinality(With(flag, none)) = 0
    BY <1>1, FS_EmptySet DEF With
  <2>. QED
    BY <1>1, <1>2, <2>1 DEF FlagsUnite, NoFacts
<1>5. NewFlow(p.timestamp).totals[d] = ZeroTotals /\ NewFlow(p.timestamp).tcp[d] = NoFacts
  BY DEF NewFlow
<1>6. Timestamps(none) = {}
  BY <1>1 DEF Timestamps
<1>. QED
  BY <1>3, <1>4, <1>5, <1>6 DEF none

LEMMA KeyProtocol ==
  ASSUME NEW p
  PROVE  KeyOf(p).protocol = p.shape.transport
BY DEF KeyOf, from_packet, canonical

LEMMA FlowRecordParts ==
  ASSUME NEW flow \in Flow, NEW way \in Direction, NEW p, NEW d \in Direction
  PROVE  /\ FlowRecord(flow, way, p).totals[d] =
              IF d = way THEN AddPacket(flow.totals[d], p.caplen, p.wirelen)
                         ELSE flow.totals[d]
         /\ FlowRecord(flow, way, p).tcp[d] =
              IF d = way /\ p.shape.transport = "Tcp" THEN AddFlags(flow.tcp[d], p.flags)
                                                       ELSE flow.tcp[d]
<1>1. flow.totals \in [Direction -> Totals] /\ flow.tcp \in [Direction -> TcpDirectionFacts]
  BY DEF Flow
<1>2. FlowRecord(flow, way, p).totals =
        [flow.totals EXCEPT ![way] = AddPacket(@, p.caplen, p.wirelen)]
  BY DEF FlowRecord
<1>3. FlowRecord(flow, way, p).tcp =
        IF p.shape.transport = "Tcp" THEN [flow.tcp EXCEPT ![way] = AddFlags(@, p.flags)]
        ELSE flow.tcp
  BY DEF FlowRecord
<1>. QED
  BY <1>1, <1>2, <1>3

(* Recording a packet into the entry it belongs to.                        *)
LEMMA SummaryJoin ==
  ASSUME TypeOK, OutcomesStillHold, FlowsSummariseTheirPackets,
         NEW p \in Packets, Record(p), OutcomeOf(p) = "Tracked"
  PROVE  FlowSummarised(table.flows[KeyOf(p)], KeyOf(p))'
<1>. DEFINE k == KeyOf(p)
            way == DirectionOf(p)
            old == FlowOrNew(table.flows, p)
            n == Len(log) + 1
            new == FlowRecord(old, way, p)
<1>1. /\ table'.flows[k] = new /\ old \in Flow /\ way \in Direction /\ FormsFlow(p)
  BY RecordTracked, TrackStep DEF Record, TypeOK
<1>2. ASSUME NEW d \in Direction
      PROVE  /\ BytesAddUp(old.totals[d], PacketsFiled(k, d))
             /\ IF k.protocol = "Tcp" THEN FlagsUnite(old.tcp[d], PacketsFiled(k, d))
                ELSE old.tcp[d] = NoFacts
  BY <1>1, <1>2, NothingToSummarise DEF FlowsSummariseTheirPackets, FlowOrNew
<1>3. ASSUME NEW d \in Direction
      PROVE  /\ d = way => PacketsFiled(k, d)' = Joined(PacketsFiled(k, d), n, p)
             /\ d # way => PacketsFiled(k, d)' = PacketsFiled(k, d)
             /\ n \notin DOMAIN PacketsFiled(k, d)
             /\ Filing(PacketsFiled(k, d))
  BY <1>3, PacketsFiledStep, PacketsFiledType DEF CountsInto
<1>4. ASSUME NEW d \in Direction
      PROVE  BytesAddUp(new.totals[d], PacketsFiled(k, d)')
  BY <1>1, <1>2, <1>3, <1>4, FlowRecordParts, BytesJoin
<1>5. ASSUME NEW d \in Direction
      PROVE  IF k.protocol = "Tcp" THEN FlagsUnite(new.tcp[d], PacketsFiled(k, d)')
             ELSE new.tcp[d] = NoFacts
  <2>1. new.tcp[d] = IF d = way /\ k.protocol = "Tcp" THEN AddFlags(old.tcp[d], p.flags)
                                                      ELSE old.tcp[d]
    <3>1. new.tcp[d] = IF d = way /\ p.shape.transport = "Tcp" THEN AddFlags(old.tcp[d], p.flags)
                                                               ELSE old.tcp[d]
      BY <1>1, <1>5, FlowRecordParts
    <3>2. k.protocol = p.shape.transport
      BY KeyProtocol
    <3>. QED
      BY <3>1, <3>2
  <2>2. CASE k.protocol # "Tcp"
    BY <1>2, <1>5, <2>1, <2>2
  <2>3. CASE k.protocol = "Tcp" /\ d # way
    BY <1>2, <1>3, <1>5, <2>1, <2>3
  <2>4. CASE k.protocol = "Tcp" /\ d = way
    <3>1. FlagsUnite(old.tcp[d], PacketsFiled(k, d))
      BY <1>2, <1>5, <2>4
    <3>2. FlagsUnite(AddFlags(old.tcp[d], p.flags), Joined(PacketsFiled(k, d), n, p))
      BY <1>3, <1>5, <3>1, FlagsJoin
    <3>. QED
      BY <1>3, <1>5, <2>1, <2>4, <3>2
  <2>. QED
    BY <2>2, <2>3, <2>4
<1>6. RangeCovers(new, UNION {Timestamps(PacketsFiled(k, d)') : d \in Direction})
  <2>. DEFINE times == UNION {Timestamps(PacketsFiled(k, d)) : d \in Direction}
  <2>1. \/ RangeCovers(old, times)
        \/ old = NewFlow(p.timestamp) /\ times = {}
    BY <1>1, NothingToSummarise DEF FlowsSummariseTheirPackets, FlowOrNew
  <2>2. times \in SUBSET PacketTimestamp
    BY <1>3, PacketParts DEF Timestamps, Filing
  <2>3. ASSUME NEW d \in Direction
        PROVE  Timestamps(PacketsFiled(k, d)') =
                 IF d = way THEN Timestamps(PacketsFiled(k, d)) \cup {p.timestamp}
                            ELSE Timestamps(PacketsFiled(k, d))
    <3>1. d = way =>
            Timestamps(Joined(PacketsFiled(k, d), n, p))
              = Timestamps(PacketsFiled(k, d)) \cup {p.timestamp}
      BY <1>3 DEF Timestamps, Joined
    <3>. QED
      BY <1>3, <3>1
  <2>4. UNION {Timestamps(PacketsFiled(k, d)') : d \in Direction} = times \cup {p.timestamp}
    BY <1>1, <2>3
  <2>. HIDE DEF times
  <2>. QED
    BY <1>1, <2>1, <2>2, <2>4, RangeJoin
<1>. QED
  BY <1>1, <1>4, <1>5, <1>6 DEF FlowSummarised

LEMMA SummariesStep ==
  ASSUME TypeOK, OutcomesStillHold, FlowsSummariseTheirPackets, NEW p \in Packets, Record(p)
  PROVE  FlowsSummariseTheirPackets'
<1>. SUFFICES ASSUME NEW k \in DOMAIN table'.flows
              PROVE  FlowSummarised(table.flows[k], k)'
  BY DEF FlowsSummariseTheirPackets, FlowSummarised
<1>1. table' = record(table, p) /\ TableTypeOK
  BY DEF Record, TypeOK
<1>2. CASE OutcomeOf(p) = "Tracked" /\ k = KeyOf(p)
  BY <1>2, SummaryJoin
<1>3. CASE ~ (OutcomeOf(p) = "Tracked" /\ k = KeyOf(p))
  <2>1. k \in DOMAIN table.flows /\ table'.flows[k] = table.flows[k]
    <3>1. CASE OutcomeOf(p) = "Tracked"
      BY <1>1, <1>3, <3>1, RecordTracked, TrackStep
    <3>2. CASE OutcomeOf(p) # "Tracked"
      BY <1>1, <3>2, RecordLeftOut
    <3>. QED
      BY <3>1, <3>2
  <2>2. \A d \in Direction : PacketsFiled(k, d)' = PacketsFiled(k, d)
    BY <1>3, PacketsFiledStep DEF CountsInto
  <2>3. FlowSummarised(table.flows[k], k)
    BY <2>1 DEF FlowsSummariseTheirPackets, FlowSummarised
  <2>. QED
    BY <2>1, <2>2, <2>3 DEF FlowSummarised
<1>. QED
  BY <1>2, <1>3

(* Whatever order packets arrive in, a flow's range, bytes, flags and flag *)
(* counts are those of its packets.                                        *)
THEOREM OrderWithinAFlowIsIrrelevant == Spec => []FlowsSummariseTheirPackets
<1>1. Init => FlowsSummariseTheirPackets
  BY DEF Init, EmptyTable, FlowsSummariseTheirPackets
<1>2. TypeOK /\ OutcomesStillHold /\ FlowsSummariseTheirPackets /\ [Next]_vars
        => FlowsSummariseTheirPackets'
  <2>. SUFFICES ASSUME TypeOK, OutcomesStillHold, FlowsSummariseTheirPackets, [Next]_vars
                PROVE  FlowsSummariseTheirPackets'
    OBVIOUS
  <2>1. CASE UNCHANGED vars
    <3>1. table' = table /\ \A k, d : PacketsFiled(k, d)' = PacketsFiled(k, d)
      BY <2>1 DEF vars, PacketsFiled, Filed, Offered, PacketAt
    <3>. QED
      BY <3>1 DEF FlowsSummariseTheirPackets
  <2>. QED
    BY <2>1, SummariesStep DEF Next
<1>. QED
  BY <1>1, <1>2, TypeCorrect, DecisionsStand, PTL DEF Spec

-----------------------------------------------------------------------------
(* The limit                                                               *)

(* The conversations met so far.  Below the limit they are all listed, and *)
(* from then on there are as many as the limit says.                       *)
KeysOffered == KeysBefore(Len(log) + 1)

ListedUpToLimit ==
  /\ IsFiniteSet(KeysOffered)
  /\ IF Cardinality(KeysOffered) < MaxFlows THEN DOMAIN table.flows = KeysOffered
     ELSE Cardinality(DOMAIN table.flows) = MaxFlows

LEMMA KeysBeforeStep ==
  ASSUME TypeOK, NEW p \in Packets, Record(p)
  PROVE  /\ \A i \in 1 .. Len(log) + 1 : KeysBefore(i)' = KeysBefore(i)
         /\ KeysOffered' = IF FormsFlow(p) THEN KeysOffered \cup {KeyOf(p)} ELSE KeysOffered
<1>. DEFINE n == Len(log) + 1
            Forming(i) == {j \in 1 .. i - 1 : FormsFlow(PacketAt(j))}
<1>1. /\ log'[n] = Entry(p) /\ Len(log) \in Nat
      /\ \A i \in 1 .. Len(log) : log'[i] = log[i]
  BY LogStep DEF Offered
<1>2. Len(log') = n
  BY LogStep DEF Record, TypeOK
<1>3. ASSUME NEW i \in 1 .. n
      PROVE  KeysBefore(i)' = KeysBefore(i)
  <2>1. KeysBefore(i)' = {KeyOf(log'[j].packet) :
                            j \in {j \in 1 .. i - 1 : FormsFlow(log'[j].packet)}}
    BY DEF KeysBefore, PacketAt
  <2>2. \A j \in 1 .. i - 1 : log'[j] = log[j]
    BY <1>1, <1>3
  <2>. QED
    BY <2>1, <2>2 DEF KeysBefore, PacketAt
<1>4. KeysOffered' = {KeyOf(log'[j].packet) : j \in {j \in 1 .. n : FormsFlow(log'[j].packet)}}
  BY <1>1, <1>2 DEF KeysOffered, KeysBefore, PacketAt
<1>5. KeysOffered = {KeyOf(log[j].packet) :
                       j \in {j \in 1 .. Len(log) : FormsFlow(log[j].packet)}}
  BY <1>1 DEF KeysOffered, KeysBefore, PacketAt
<1>6. 1 .. n = 1 .. Len(log) \cup {n} /\ log'[n].packet = p
  BY <1>1 DEF Entry
<1>. HIDE DEF n
<1>7. KeysOffered' = IF FormsFlow(p) THEN KeysOffered \cup {KeyOf(p)} ELSE KeysOffered
  BY <1>1, <1>4, <1>5, <1>6
<1>. QED
  BY <1>3, <1>7 DEF n

LEMMA ListedStep ==
  ASSUME TypeOK, ListedUpToLimit, NEW p \in Packets, Record(p)
  PROVE  /\ ListedUpToLimit'
         /\ DOMAIN table'.flows =
              IF FormsFlow(p) /\ Cardinality(KeysOffered) < MaxFlows
                THEN DOMAIN table.flows \cup {KeyOf(p)}
                ELSE DOMAIN table.flows
<1>1. /\ Cardinality(KeysOffered) \in Nat /\ MaxFlows \in Nat
      /\ IsFiniteSet(KeysOffered) /\ IsFiniteSet(KeysOffered \cup {KeyOf(p)})
      /\ Cardinality(KeysOffered \cup {KeyOf(p)}) =
           IF KeyOf(p) \in KeysOffered THEN Cardinality(KeysOffered)
                                       ELSE Cardinality(KeysOffered) + 1
  BY FS_CardinalityType, FS_AddElement, FlowTableAssumption DEF ListedUpToLimit
<1>2. CASE ~ FormsFlow(p)
  <2>1. DOMAIN table'.flows = DOMAIN table.flows /\ KeysOffered' = KeysOffered
    BY <1>2, OutcomeCases, KeysStep, KeysBeforeStep
  <2>. QED
    BY <1>2, <2>1 DEF ListedUpToLimit
<1>3. CASE FormsFlow(p) /\ Cardinality(KeysOffered) < MaxFlows
  <2>1. DOMAIN table.flows = KeysOffered /\ ~ is_full(table)
    BY <1>1, <1>3 DEF ListedUpToLimit, is_full
  <2>2. OutcomeOf(p) = "Tracked"
    BY <1>3, <2>1, OutcomeCases DEF RecordOutcome
  <2>3. /\ DOMAIN table'.flows = DOMAIN table.flows \cup {KeyOf(p)}
        /\ KeysOffered' = KeysOffered \cup {KeyOf(p)}
    BY <1>3, <2>2, KeysStep, KeysBeforeStep
  <2>. QED
    BY <1>1, <1>3, <2>1, <2>3 DEF ListedUpToLimit
<1>4. CASE FormsFlow(p) /\ ~ (Cardinality(KeysOffered) < MaxFlows)
  <2>1. Cardinality(DOMAIN table.flows) = MaxFlows /\ is_full(table)
    BY <1>1, <1>4 DEF ListedUpToLimit, is_full
  <2>2. OutcomeOf(p) = "Tracked" => KeyOf(p) \in DOMAIN table.flows
    BY <2>1, OutcomeCases
  <2>3. /\ DOMAIN table'.flows = DOMAIN table.flows
        /\ KeysOffered' = KeysOffered \cup {KeyOf(p)}
    BY <1>4, <2>2, KeysStep, KeysBeforeStep
  <2>. QED
    BY <1>1, <1>4, <2>1, <2>3 DEF ListedUpToLimit
<1>. QED
  BY <1>2, <1>3, <1>4

LEMMA FirstKeptStep ==
  ASSUME TypeOK, ListedUpToLimit, FirstConversationsKept, NEW p \in Packets, Record(p)
  PROVE  FirstConversationsKept'
<1>. SUFFICES ASSUME NEW n, n = Len(log) + 1 PROVE FirstConversationsKept'
  OBVIOUS
<1>. DEFINE Admitted == {i \in Offered : /\ FormsFlow(PacketAt(i))
                                         /\ Cardinality(KeysBefore(i)) < MaxFlows}
            After == {i \in Offered' : /\ FormsFlow(log'[i].packet)
                                       /\ Cardinality(KeysBefore(i)') < MaxFlows}
<1>1. /\ Offered' = Offered \cup {n} /\ n \notin Offered
      /\ \A i \in Offered : log'[i] = log[i]
      /\ log'[n] = Entry(p) /\ Len(log) \in Nat
  BY LogStep
<1>2. \A i \in Offered \cup {n} : KeysBefore(i)' = KeysBefore(i)
  <2>1. Offered \cup {n} = 1 .. Len(log) + 1
    BY <1>1 DEF Offered
  <2>. QED
    BY <2>1, KeysBeforeStep
<1>3. log'[n].packet = p /\ KeysBefore(n) = KeysOffered
  BY <1>1 DEF Entry, KeysOffered
<1>4. /\ \A i \in Offered : i \in After <=> i \in Admitted
      /\ n \in After <=> FormsFlow(p) /\ Cardinality(KeysOffered) < MaxFlows
      /\ After \subseteq Offered \cup {n} /\ Admitted \subseteq Offered
  BY <1>1, <1>2, <1>3 DEF PacketAt
<1>5. DOMAIN table.flows = {KeyOf(log[i].packet) : i \in Admitted}
  BY DEF FirstConversationsKept, PacketAt
<1>6. FirstConversationsKept' <=>
        DOMAIN table'.flows = {KeyOf(log'[i].packet) : i \in After}
  BY DEF FirstConversationsKept, PacketAt
<1>. HIDE DEF Admitted, After
<1>7. {KeyOf(log'[i].packet) : i \in After} =
        IF FormsFlow(p) /\ Cardinality(KeysOffered) < MaxFlows
          THEN DOMAIN table.flows \cup {KeyOf(p)}
          ELSE DOMAIN table.flows
  BY <1>1, <1>3, <1>4, <1>5
<1>. QED
  BY <1>6, <1>7, ListedStep

LEMMA LimitInvariant == Spec => [](ListedUpToLimit /\ FirstConversationsKept)
<1>1. Init => ListedUpToLimit /\ FirstConversationsKept
  <2>. SUFFICES ASSUME Init PROVE ListedUpToLimit /\ FirstConversationsKept
    OBVIOUS
  <2>1. DOMAIN table.flows = {} /\ Len(log) = 0
    BY DEF Init, EmptyTable
  <2>2. KeysOffered = {} /\ Offered = {}
    BY <2>1 DEF KeysOffered, KeysBefore, Offered
  <2>. QED
    BY <2>1, <2>2, FS_EmptySet, FlowTableAssumption DEF ListedUpToLimit, FirstConversationsKept
<1>2. TypeOK /\ ListedUpToLimit /\ FirstConversationsKept /\ [Next]_vars
        => (ListedUpToLimit /\ FirstConversationsKept)'
  <2>. SUFFICES ASSUME TypeOK, ListedUpToLimit, FirstConversationsKept, [Next]_vars
                PROVE  (ListedUpToLimit /\ FirstConversationsKept)'
    OBVIOUS
  <2>1. CASE UNCHANGED vars
    <3>1. table' = table /\ log' = log
      BY <2>1 DEF vars
    <3>2. KeysOffered' = KeysOffered /\ \A i : KeysBefore(i)' = KeysBefore(i)
      BY <3>1 DEF KeysOffered, KeysBefore, PacketAt
    <3>3. ListedUpToLimit'
      BY <3>1, <3>2 DEF ListedUpToLimit
    <3>4. FirstConversationsKept'
      BY <3>1, <3>2 DEF FirstConversationsKept, Offered, PacketAt
    <3>. QED
      BY <3>3, <3>4
  <2>. QED
    BY <2>1, ListedStep, FirstKeptStep DEF Next
<1>. QED
  BY <1>1, <1>2, TypeCorrect, PTL DEF Spec

(* The limit keeps the conversations that came first, all of them and no   *)
(* others, and it is used up before anything is refused.                   *)
THEOREM LimitKeepsTheFirst == Spec => []FirstConversationsKept
BY LimitInvariant, PTL

-----------------------------------------------------------------------------
(* The listing                                                             *)

LEMMA EndpointTransitive ==
  ASSUME NEW s \in Endpoint, NEW d \in Endpoint, NEW e \in Endpoint,
         EndpointLeq(s, d), EndpointLeq(d, e)
  PROVE  EndpointLeq(s, e)
<1>1. /\ s.address \in Int /\ s.port \in Int
      /\ d.address \in Int /\ d.port \in Int
      /\ e.address \in Int /\ e.port \in Int
  BY FlowTableAssumption DEF Endpoint
<1>. QED
  BY <1>1 DEF EndpointLeq

LEMMA KeyOrder ==
  /\ \A k, l \in FlowKey : KeyLeq(k, l) \/ KeyLeq(l, k)
  /\ \A k, l \in FlowKey : KeyLeq(k, l) /\ KeyLeq(l, k) => k = l
  /\ \A k, l, m \in FlowKey : KeyLeq(k, l) /\ KeyLeq(l, m) => KeyLeq(k, m)
<1>1. \A k \in FlowKey : k.protocol \in {"Tcp", "Udp"} /\ k.a \in Endpoint /\ k.b \in Endpoint
  BY DEF FlowKey, FlowProtocol
<1>2. \A k, l \in FlowKey : k.protocol = l.protocol /\ k.a = l.a /\ k.b = l.b => k = l
  BY DEF FlowKey
<1>3. \A k, l \in FlowKey : KeyLeq(k, l) \/ KeyLeq(l, k)
  BY <1>1, EndpointOrder DEF KeyLeq
<1>4. \A k, l \in FlowKey : KeyLeq(k, l) /\ KeyLeq(l, k) => k = l
  BY <1>1, <1>2, EndpointOrder DEF KeyLeq
<1>5. ASSUME NEW k \in FlowKey, NEW l \in FlowKey, NEW m \in FlowKey,
             KeyLeq(k, l), KeyLeq(l, m)
      PROVE  KeyLeq(k, m)
  BY <1>1, <1>5, EndpointOrder, EndpointTransitive DEF KeyLeq
<1>. QED
  BY <1>3, <1>4, <1>5

(* First seen first, and by key among those first seen together: an order  *)
(* in which no two flows are alike.                                        *)
LEMMA ListingOrder ==
  ASSUME NEW flows, DOMAIN flows \subseteq FlowKey,
         \A k \in DOMAIN flows : flows[k].first_seen \in PacketTimestamp
  PROVE  LET Before(k, l) == ~ ComesAfter(flows, k, l)
         IN  /\ \A k, l \in DOMAIN flows : Before(k, l) \/ Before(l, k)
             /\ \A k, l \in DOMAIN flows : Before(k, l) /\ Before(l, k) => k = l
             /\ \A k, l, m \in DOMAIN flows :
                  Before(k, l) /\ Before(l, m) => Before(k, m)
<1>. DEFINE First(k) == flows[k].first_seen
<1>1. \A k, l : ~ ComesAfter(flows, k, l) <=>
                  TimeLeq(First(k), First(l)) /\ (First(k) = First(l) => KeyLeq(k, l))
  BY DEF ComesAfter
<1>2. \A k \in DOMAIN flows : First(k) \in PacketTimestamp /\ k \in FlowKey
  OBVIOUS
<1>. HIDE DEF First
<1>3. \A k, l \in DOMAIN flows :
        /\ TimeLeq(First(k), First(l)) \/ TimeLeq(First(l), First(k))
        /\ TimeLeq(First(k), First(l)) /\ TimeLeq(First(l), First(k)) => First(k) = First(l)
        /\ KeyLeq(k, l) \/ KeyLeq(l, k)
        /\ KeyLeq(k, l) /\ KeyLeq(l, k) => k = l
  BY <1>2, TimeOrder, KeyOrder
<1>4. ASSUME NEW k \in DOMAIN flows, NEW l \in DOMAIN flows, NEW m \in DOMAIN flows,
             ~ ComesAfter(flows, k, l), ~ ComesAfter(flows, l, m)
      PROVE  ~ ComesAfter(flows, k, m)
  <2>1. /\ TimeLeq(First(k), First(l)) /\ (First(k) = First(l) => KeyLeq(k, l))
        /\ TimeLeq(First(l), First(m)) /\ (First(l) = First(m) => KeyLeq(l, m))
    BY <1>1, <1>4
  <2>2. TimeLeq(First(k), First(m))
    BY <1>2, <2>1, TimeOrder
  <2>3. First(k) = First(m) => First(k) = First(l)
    BY <1>3, <2>1
  <2>4. First(k) = First(m) => KeyLeq(k, m)
    BY <1>2, <2>1, <2>3, KeyOrder
  <2>. QED
    BY <1>1, <2>2, <2>4
<1>5. \A k, l \in DOMAIN flows :
        /\ ~ ComesAfter(flows, k, l) \/ ~ ComesAfter(flows, l, k)
        /\ ~ ComesAfter(flows, k, l) /\ ~ ComesAfter(flows, l, k) => k = l
  BY <1>1, <1>3
<1>. QED
  BY <1>4, <1>5

LEMMA OneListing ==
  ASSUME TableTypeOK
  PROVE  \E listing : flows_sorted(table.flows) = {listing}
<1>. DEFINE D == DOMAIN table.flows
            R == {e \in D \X D : ~ ComesAfter(table.flows, e[1], e[2])}
<1>1. /\ D \subseteq FlowKey /\ IsFiniteSet(D)
      /\ \A k \in D : table.flows[k].first_seen \in PacketTimestamp
  BY DEF TableTypeOK, Flow
<1>2. \A k, l \in D : <<k, l>> \in R <=> ~ ComesAfter(table.flows, k, l)
  OBVIOUS
<1>3. /\ \A k, l \in D : <<k, l>> \in R \/ <<l, k>> \in R
      /\ \A k, l \in D : <<k, l>> \in R /\ <<l, k>> \in R => k = l
      /\ \A k, l, m \in D : <<k, l>> \in R /\ <<l, m>> \in R => <<k, m>> \in R
  <2>. HIDE DEF R
  <2>. QED
    BY <1>1, <1>2, ListingOrder
<1>4. flows_sorted(table.flows) = Arrangements(D, R)
  <2>. DEFINE n == Cardinality(D)
  <2>1. ASSUME NEW s \in [1 .. n -> D], NEW i \in 1 .. n, NEW j \in 1 .. n
        PROVE  <<s[i], s[j]>> \in R <=> ~ ComesAfter(table.flows, s[i], s[j])
    OBVIOUS
  <2>. HIDE DEF n, R
  <2>. QED
    BY <2>1 DEF flows_sorted, Arrangements, n
<1>. HIDE DEF D, R
<1>5. Arrangements(D, R) # {}
  BY <1>1, <1>3, ArrangementExists
<1>6. \A s, t \in Arrangements(D, R) : s = t
  BY <1>1, <1>3, ArrangementUnique
<1>. QED
  BY <1>4, <1>5, <1>6

(* There is one order the flows can come out in, whatever the hash map     *)
(* does.                                                                   *)
THEOREM OutputIsReproducible == Spec => []ListingIsReproducible
<1>1. TypeOK => ListingIsReproducible
  BY OneListing, FS_Singleton DEF TypeOK, ListingIsReproducible
<1>. QED
  BY <1>1, TypeCorrect, PTL

-----------------------------------------------------------------------------
(* The counters together                                                   *)

FlowCounts(flows) == [k \in DOMAIN flows |-> PacketsIn(flows[k])]

LEMMA CounterParts ==
  ASSUME NEW flow \in Flow
  PROVE  /\ flow.totals["AtoB"].packets \in Counter
         /\ flow.totals["BtoA"].packets \in Counter
         /\ PacketsIn(flow) \in Nat
<1>1. \A d \in Direction : flow.totals[d] \in Totals
  BY DEF Flow
<1>2. "AtoB" \in Direction /\ "BtoA" \in Direction
  BY DEF Direction
<1>3. flow.totals["AtoB"].packets \in Counter /\ flow.totals["BtoA"].packets \in Counter
  BY <1>1, <1>2 DEF Totals
<1>. QED
  BY <1>3, CounterMaxAssumption DEF PacketsIn, Counter

(* As long as no counter is full, a recorded packet is one packet more.    *)
LEMMA FlowCountsOneMore ==
  ASSUME NEW flow \in Flow, NEW way \in Direction, NEW p, PacketsIn(flow) < CounterMax
  PROVE  PacketsIn(FlowRecord(flow, way, p)) = PacketsIn(flow) + 1
<1>. DEFINE a == flow.totals["AtoB"].packets
            b == flow.totals["BtoA"].packets
            next == FlowRecord(flow, way, p)
<1>1. a \in Counter /\ b \in Counter
  BY CounterParts
<1>2. /\ next.totals["AtoB"].packets = IF way = "AtoB" THEN saturating_add(a, 1) ELSE a
      /\ next.totals["BtoA"].packets = IF way = "BtoA" THEN saturating_add(b, 1) ELSE b
  <2>1. "AtoB" \in Direction /\ "BtoA" \in Direction
    BY DEF Direction
  <2>. QED
    BY <2>1, FlowRecordCounts
<1>3. PacketsIn(flow) = a + b
  BY DEF PacketsIn
<1>4. PacketsIn(next) = next.totals["AtoB"].packets + next.totals["BtoA"].packets
  BY DEF PacketsIn
<1>5. way = "AtoB" \/ way = "BtoA"
  BY DEF Direction
<1>. HIDE DEF a, b, next
<1>6. saturating_add(a, 1) = a + 1 /\ saturating_add(b, 1) = b + 1
  BY <1>1, <1>3, CounterMaxAssumption DEF saturating_add, Saturate, Counter
<1>7. way = "AtoB" => PacketsIn(next) = PacketsIn(flow) + 1
  BY <1>1, <1>2, <1>3, <1>4, <1>6, CounterMaxAssumption DEF Counter
<1>8. way = "BtoA" => PacketsIn(next) = PacketsIn(flow) + 1
  BY <1>1, <1>2, <1>3, <1>4, <1>6, CounterMaxAssumption DEF Counter
<1>. QED
  BY <1>5, <1>7, <1>8 DEF next

LEMMA CountsFinite ==
  ASSUME TableTypeOK
  PROVE  /\ IsFiniteSet(DOMAIN table.flows)
         /\ \A k \in DOMAIN table.flows : FlowCounts(table.flows)[k] \in Nat
         /\ SumFunction(FlowCounts(table.flows)) \in Nat
         /\ IsFiniteSet(Reason) /\ DOMAIN table.untracked = Reason
         /\ \A r \in Reason : table.untracked[r] \in Nat
         /\ SumFunction(table.untracked) \in Nat
<1>1. /\ IsFiniteSet(DOMAIN table.flows)
      /\ \A k \in DOMAIN table.flows : FlowCounts(table.flows)[k] \in Nat
  BY CounterParts DEF TableTypeOK, FlowCounts
<1>2. IsFiniteSet(Reason)
  <2>1. /\ IsFiniteSet({})
        /\ \A S, x : IsFiniteSet(S) => IsFiniteSet(S \cup {x})
    BY FS_EmptySet, FS_AddElement
  <2>2. Reason = (((((({} \cup {"arp"}) \cup {"icmp"}) \cup {"later_fragments"})
                    \cup {"undecoded"}) \cup {"other_protocol"}) \cup {"over_flow_limit"})
    BY DEF Reason
  <2>. QED
    BY <2>1, <2>2, Zenon
<1>3. DOMAIN table.untracked = Reason /\ \A r \in Reason : table.untracked[r] \in Nat
  BY CounterMaxAssumption DEF TableTypeOK, Counter
<1>4. DOMAIN FlowCounts(table.flows) = DOMAIN table.flows
  BY DEF FlowCounts
<1>5. SumFunction(FlowCounts(table.flows)) \in Nat
  BY <1>1, <1>4, SumRemove DEF SumFunction
<1>6. SumFunction(table.untracked) \in Nat
  BY <1>2, <1>3, SumRemove DEF SumFunction
<1>. QED
  BY <1>1, <1>2, <1>3, <1>5, <1>6

(* A packet goes into one counter, whatever becomes of it.                 *)
LEMMA RecordCountsOnce ==
  ASSUME TableTypeOK, NEW p \in Packets, table' = record(table, p),
         PacketsTabulated < CounterMax
  PROVE  PacketsTabulated' = PacketsTabulated + 1
<1>. DEFINE F == FlowCounts(table.flows)
            U == table.untracked
<1>1. /\ PacketsTabulated = SumFunction(F) + SumFunction(U)
      /\ PacketsTabulated' = SumFunction(FlowCounts(table'.flows)) + SumFunction(table'.untracked)
  BY DEF PacketsTabulated, FlowCounts
<1>2. /\ IsFiniteSet(DOMAIN table.flows) /\ DOMAIN F = DOMAIN table.flows
      /\ \A k \in DOMAIN F : F[k] \in Nat
      /\ IsFiniteSet(DOMAIN U) /\ DOMAIN U = Reason
      /\ \A r \in DOMAIN U : U[r] \in Nat
      /\ SumFunction(F) \in Nat /\ SumFunction(U) \in Nat
  BY CountsFinite DEF FlowCounts
<1>3. SumFunction(F) < CounterMax /\ SumFunction(U) < CounterMax
  <2>. HIDE DEF F, U
  <2>. QED
    BY <1>1, <1>2, CounterMaxAssumption
<1>4. CASE OutcomeOf(p) # "Tracked"
  <2>1. PICK r \in Reason :
          /\ table'.flows = table.flows
          /\ table'.untracked = [table.untracked EXCEPT ![r] = saturating_add(@, 1)]
    BY <1>4, RecordLeftOut
  <2>. DEFINE V == table'.untracked
  <2>2. /\ DOMAIN V = Reason /\ V[r] = saturating_add(U[r], 1)
        /\ \A q \in Reason : q # r => V[q] = U[q]
    BY <1>2, <2>1
  <2>3. U[r] \in Nat /\ U[r] <= SumFunction(U)
    <3>. HIDE DEF U
    <3>. QED
      BY <1>2, TermAtMostSum
  <2>4. V[r] = U[r] + 1
    <3>1. saturating_add(U[r], 1) = U[r] + 1
      <4>. HIDE DEF U
      <4>. QED
        BY <1>2, <1>3, <2>3, CounterMaxAssumption DEF saturating_add, Saturate
    <3>. QED
      BY <2>2, <3>1
  <2>5. SumFunction(V) = SumFunction(U) + 1
    <3>. HIDE DEF U, V
    <3>. QED
      BY <1>2, <2>2, <2>4, SumOneMore
  <2>6. FlowCounts(table'.flows) = F
    BY <2>1
  <2>. HIDE DEF F, U
  <2>. QED
    BY <1>1, <1>2, <2>5, <2>6
<1>5. CASE OutcomeOf(p) = "Tracked"
  <2>. DEFINE key == KeyOf(p)
              G == FlowCounts(table'.flows)
              entry == FlowOrNew(table.flows, p)
  <2>1. /\ table'.flows = Track(table.flows, p) /\ table'.untracked = table.untracked
        /\ FormsFlow(p)
    BY <1>5, RecordTracked
  <2>2. /\ DOMAIN table'.flows = DOMAIN table.flows \cup {key}
        /\ entry \in Flow /\ DirectionOf(p) \in Direction
        /\ table'.flows[key] = FlowRecord(entry, DirectionOf(p), p)
        /\ \A k \in DOMAIN table.flows : k # key => table'.flows[k] = table.flows[k]
    BY <2>1, TrackStep
  <2>3. /\ DOMAIN G = DOMAIN F \cup {key}
        /\ G[key] = PacketsIn(FlowRecord(entry, DirectionOf(p), p))
        /\ \A k \in DOMAIN F : k # key => G[k] = F[k]
    BY <2>2 DEF FlowCounts
  <2>4. CASE key \in DOMAIN table.flows
    <3>1. PacketsIn(entry) = F[key]
      BY <2>4 DEF FlowOrNew, FlowCounts
    <3>2. F[key] \in Nat /\ F[key] <= SumFunction(F)
      <4>. HIDE DEF F
      <4>. QED
        BY <1>2, <2>4, TermAtMostSum
    <3>3. PacketsIn(entry) < CounterMax
      <4>. HIDE DEF F, entry
      <4>. QED
        BY <1>2, <1>3, <3>1, <3>2, CounterMaxAssumption
    <3>4. G[key] = F[key] + 1
      BY <2>2, <2>3, <3>1, <3>3, FlowCountsOneMore
    <3>5. DOMAIN G = DOMAIN F
      BY <1>2, <2>3, <2>4
    <3>6. SumFunction(G) = SumFunction(F) + 1
      <4>. HIDE DEF F, G, key
      <4>. QED
        BY <1>2, <2>3, <2>4, <3>4, <3>5, SumOneMore
    <3>. HIDE DEF F, G, U
    <3>. QED
      BY <1>1, <1>2, <2>1, <3>6 DEF G, U
  <2>5. CASE key \notin DOMAIN table.flows
    <3>1. entry.totals = [d \in Direction |-> ZeroTotals]
      BY <2>5 DEF FlowOrNew, NewFlow
    <3>2. PacketsIn(entry) = 0
      BY <3>1 DEF PacketsIn, ZeroTotals, Direction
    <3>3. G[key] = 1
      <4>1. PacketsIn(entry) < CounterMax
        BY <3>2, CounterMaxAssumption
      <4>2. G[key] = PacketsIn(entry) + 1
        BY <2>2, <2>3, <4>1, FlowCountsOneMore
      <4>. QED
        BY <3>2, <4>2
    <3>4. SumFunction(G) = 1 + SumFunction(F)
      <4>1. key \notin DOMAIN F /\ \A k \in DOMAIN F : G[k] = F[k]
        BY <1>2, <2>3, <2>5
      <4>. HIDE DEF F, G, key
      <4>. QED
        BY <1>2, <2>3, <3>3, <4>1, SumGrows
    <3>. HIDE DEF F, G, U
    <3>. QED
      BY <1>1, <1>2, <2>1, <3>4 DEF G, U
  <2>. QED
    BY <2>4, <2>5
<1>. QED
  BY <1>4, <1>5

LEMMA NothingTabulated == table = EmptyTable => TableTypeOK /\ PacketsTabulated = 0
<1>. SUFFICES ASSUME table = EmptyTable PROVE TableTypeOK /\ PacketsTabulated = 0
  OBVIOUS
<1>1. /\ DOMAIN table.flows = {} /\ table.untracked \in [Reason -> Counter]
      /\ \A r \in Reason : table.untracked[r] = 0
  BY CounterMaxAssumption DEF EmptyTable, Counter
<1>2. TableTypeOK
  BY <1>1, FS_EmptySet DEF TableTypeOK
<1>3. SumFunction(FlowCounts(table.flows)) = 0
  <2>1. DOMAIN FlowCounts(table.flows) = {}
    BY <1>1 DEF FlowCounts
  <2>. QED
    BY <2>1, SumOfNothing
<1>4. SumFunction(table.untracked) = 0
  <2>1. /\ IsFiniteSet(Reason) /\ DOMAIN table.untracked = Reason
        /\ {r \in Reason : table.untracked[r] > 0} = {}
        /\ \A r \in Reason : table.untracked[r] \in Nat
    BY <1>1, <1>2, CountsFinite
  <2>. QED
    BY <2>1, SumWithoutZeros, SumEmpty DEF SumFunction
<1>. QED
  BY <1>2, <1>3, <1>4 DEF PacketsTabulated, FlowCounts
-----------------------------------------------------------------------------
(* Replaying packets                                                       *)

(* The tables that result from the subsets of a sequence's packets, as     *)
(* FoldLeft defines them.                                                  *)
ReplayTable(h, q) ==
  h = [s \in SUBSET DOMAIN q |->
         IF s = {} THEN EmptyTable ELSE record(h[s \ {Max(s)}], q[Max(s)])]

LEMMA MaxIsMember ==
  ASSUME NEW S \in SUBSET Nat, IsFiniteSet(S), S # {}
  PROVE  Max(S) \in S /\ \A y \in S : Max(S) >= y
<1>. DEFINE R == {e \in Nat \X Nat : e[1] <= e[2]}
<1>1. \A x, y \in S : <<x, y>> \in R <=> x <= y
  OBVIOUS
<1>. HIDE DEF R
<1>2. /\ \A x, y \in S : <<x, y>> \in R \/ <<y, x>> \in R
      /\ \A x, y, z \in S : <<x, y>> \in R /\ <<y, z>> \in R => <<x, z>> \in R
  BY <1>1
<1>3. \E m \in S : \A x \in S : <<x, m>> \in R
  BY <1>2, Greatest
<1>4. \E m \in S : \A y \in S : m >= y
  BY <1>1, <1>3
<1>. QED
  BY <1>4 DEF Max

LEMMA ReplayTablesExist ==
  ASSUME NEW q, IsFiniteSet(DOMAIN q), DOMAIN q \subseteq Nat
  PROVE  \E h : ReplayTable(h, q)
<1>. DEFINE S == DOMAIN q
            Level(T) == {s \in SUBSET S : Cardinality(s) <= Cardinality(T)}
            Solves(h, L) == h = [s \in L |-> IF s = {} THEN EmptyTable
                                             ELSE record(h[s \ {Max(s)}], q[Max(s)])]
            Good == {T \in SUBSET S : \E h : Solves(h, Level(T))}
<1>1. {} \in Good
  <2>1. Level({}) = {{}}
    BY FS_EmptySet, FS_Subset, FS_CardinalityType
  <2>2. Solves([s \in {{}} |-> EmptyTable], {{}})
    OBVIOUS
  <2>. QED
    BY <2>1, <2>2
<1>2. ASSUME NEW T \in SUBSET S, NEW x \in S, T \in Good, x \notin T
      PROVE  T \cup {x} \in Good
  <2>1. PICK h : Solves(h, Level(T))
    BY <1>2
  <2>. DEFINE g == [s \in Level(T \cup {x}) |-> IF s = {} THEN EmptyTable
                                               ELSE record(h[s \ {Max(s)}], q[Max(s)])]
  <2>2. Cardinality(T \cup {x}) = Cardinality(T) + 1 /\ Cardinality(T) \in Nat
    BY <1>2, FS_AddElement, FS_Subset, FS_CardinalityType
  <2>3. ASSUME NEW s \in Level(T \cup {x}), s # {}
        PROVE  s \ {Max(s)} \in Level(T)
    <3>1. IsFiniteSet(s) /\ Cardinality(s) \in Nat /\ s \in SUBSET Nat
      BY FS_Subset, FS_CardinalityType
    <3>2. Max(s) \in s
      BY <2>3, <3>1, MaxIsMember
    <3>3. Cardinality(s \ {Max(s)}) = Cardinality(s) - 1
      BY <3>1, <3>2, FS_RemoveElement
    <3>4. s \in SUBSET S /\ Cardinality(s) <= Cardinality(T) + 1
      BY <2>2
    <3>5. Cardinality(s) - 1 <= Cardinality(T)
      <4>. HIDE DEF Level, S, g, Good, Solves
      <4>. QED
        BY <2>2, <3>1, <3>4
    <3>6. s \ {Max(s)} \in SUBSET S
      BY <3>4
    <3>. QED
      BY <3>3, <3>5, <3>6
  <2>4. \A s \in Level(T) : s \in Level(T \cup {x}) /\ g[s] = h[s]
    <3>1. \A s \in Level(T) : s \in Level(T \cup {x})
      BY <2>2, FS_Subset, FS_CardinalityType
    <3>2. \A s \in Level(T) :
            h[s] = IF s = {} THEN EmptyTable ELSE record(h[s \ {Max(s)}], q[Max(s)])
      <4>. HIDE DEF Level
      <4>. QED
        BY <2>1
    <3>. QED
      BY <3>1, <3>2
  <2>5. Solves(g, Level(T \cup {x}))
    <3>1. \A s \in Level(T \cup {x}) : s # {} => g[s \ {Max(s)}] = h[s \ {Max(s)}]
      BY <2>3, <2>4
    <3>. HIDE DEF Level
    <3>. QED
      BY <3>1
  <2>. QED
    BY <2>5
<1>3. S \in Good
  <2>. HIDE DEF Good, S
  <2>. QED
    BY <1>1, <1>2, FiniteInduction DEF S
<1>4. Level(S) = SUBSET S
  BY FS_Subset
<1>. QED
  BY <1>3, <1>4 DEF ReplayTable

ReplayOf(q) == CHOOSE h : ReplayTable(h, q)

LEMMA ReplayUnfolds ==
  ASSUME NEW q, IsFiniteSet(DOMAIN q), DOMAIN q \subseteq Nat
  PROVE  /\ Replay(q) = ReplayOf(q)[DOMAIN q]
         /\ ReplayOf(q)[{}] = EmptyTable
         /\ \A s \in SUBSET DOMAIN q :
              s # {} => ReplayOf(q)[s] = record(ReplayOf(q)[s \ {Max(s)}], q[Max(s)])
<1>1. Replay(q) = ReplayOf(q)[DOMAIN q]
  BY DEF Replay, FoldLeft, MapThenFoldSet, ReplayOf, ReplayTable
<1>2. ReplayTable(ReplayOf(q), q)
  BY ReplayTablesExist DEF ReplayOf
<1>. QED
  BY <1>1, <1>2 DEF ReplayTable

(* The same packets in the same places leave the same table.               *)
LEMMA ReplayAgrees ==
  ASSUME NEW q, NEW r, IsFiniteSet(DOMAIN r), DOMAIN r \subseteq Nat,
         DOMAIN q \subseteq DOMAIN r, \A i \in DOMAIN q : q[i] = r[i]
  PROVE  ReplayOf(r)[DOMAIN q] = Replay(q)
<1>. DEFINE Same == {s \in SUBSET DOMAIN q : ReplayOf(r)[s] = ReplayOf(q)[s]}
<1>1. IsFiniteSet(DOMAIN q) /\ DOMAIN q \subseteq Nat
  BY FS_Subset
<1>2. ASSUME NEW s \in SUBSET DOMAIN q, \A u \in SUBSET s : u # s => u \in Same
      PROVE  s \in Same
  <2>1. CASE s = {}
    BY <1>1, <2>1, ReplayUnfolds
  <2>2. CASE s # {}
    <3>1. Max(s) \in s
      BY <1>1, <2>2, FS_Subset, MaxIsMember
    <3>2. s \ {Max(s)} \in Same
      <4>. HIDE DEF Same
      <4>. QED
        BY <1>2, <3>1
    <3>3. ReplayOf(r)[s] = record(ReplayOf(r)[s \ {Max(s)}], r[Max(s)])
      BY <2>2, ReplayUnfolds
    <3>4. ReplayOf(q)[s] = record(ReplayOf(q)[s \ {Max(s)}], q[Max(s)])
      BY <1>1, <2>2, ReplayUnfolds
    <3>. QED
      BY <3>1, <3>2, <3>3, <3>4
  <2>. QED
    BY <2>1, <2>2
<1>3. DOMAIN q \in Same
  <2>. HIDE DEF Same
  <2>. QED
    BY <1>1, <1>2, SubsetInduction
<1>. QED
  BY <1>1, <1>3, ReplayUnfolds

LEMMA ReplayNothing ==
  ASSUME NEW q, DOMAIN q = {}
  PROVE  Replay(q) = EmptyTable
<1>1. IsFiniteSet(DOMAIN q) /\ DOMAIN q \subseteq Nat
  BY FS_EmptySet
<1>. QED
  BY <1>1, ReplayUnfolds

(* A replay of one packet more records it last.                            *)
LEMMA ReplayOneMore ==
  ASSUME NEW n \in Nat, NEW q, NEW r, DOMAIN q = 1 .. n, DOMAIN r = 1 .. n + 1,
         \A i \in 1 .. n : r[i] = q[i]
  PROVE  Replay(r) = record(Replay(q), r[n + 1])
<1>1. IsFiniteSet(DOMAIN r) /\ DOMAIN r \subseteq Nat /\ DOMAIN r # {}
  <2>1. IsFiniteSet(1 .. n + 1)
    BY FS_Interval
  <2>2. 1 .. n + 1 \subseteq Nat /\ 1 \in 1 .. n + 1
    OBVIOUS
  <2>. QED
    BY <2>1, <2>2
<1>2. Max(DOMAIN r) = n + 1
  BY <1>1, MaxIsMember
<1>3. DOMAIN r \ {n + 1} = DOMAIN q
  OBVIOUS
<1>4. Replay(r) = record(ReplayOf(r)[DOMAIN r \ {Max(DOMAIN r)}], r[Max(DOMAIN r)])
  BY <1>1, ReplayUnfolds
<1>5. ReplayOf(r)[DOMAIN q] = Replay(q)
  BY <1>1, ReplayAgrees
<1>. QED
  BY <1>2, <1>3, <1>4, <1>5

=============================================================================
