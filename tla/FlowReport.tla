----------------------------- MODULE FlowReport -----------------------------
(***************************************************************************)
(* What a run prints about its flows when it is over (render/flow.rs, with *)
(* the totals of flow/stats.rs and flow/mod.rs): a heading, an entry for   *)
(* each flow, a note about the packets in none, and one about the limit.   *)
(***************************************************************************)
EXTENDS FlowTable

CONSTANT ExactBelow   \* byte counts below it are printed to the byte; 10_000

ASSUME FlowReportAssumption == ExactBelow \in Nat

Either(flow, field) == saturating_add(flow.totals["AtoB"][field], flow.totals["BtoA"][field])

total_packets(flow) == Either(flow, "packets")
total_captured_bytes(flow) == Either(flow, "captured_bytes")
total_wire_bytes(flow) == Either(flow, "wire_bytes")

(* UntrackedCounts::total adds the fields in their order.                  *)
total(untracked) ==
  LET Plus(sum, reason) == saturating_add(sum, untracked[reason])
      network   == Plus(Plus(untracked["arp"], "icmp"), "later_fragments")
      transport == Plus(Plus(network, "undecoded"), "other_protocol")
  IN  Plus(transport, "over_flow_limit")

any(untracked) == total(untracked) > 0

(* Mutant: a count is dropped when it is 1, like a plural that is not one. *)
untracked_note_PluralsOnly(untracked) ==
  IF ~ any(untracked) THEN {}
  ELSE {[total   |-> total(untracked),
         reasons |-> [r \in {r \in Reason : untracked[r] > 1} |-> untracked[r]]]}

(* No note, or the total and the reasons that left anything out.           *)
untracked_note(untracked) ==
  IF ~ any(untracked) THEN {}
  ELSE {[total   |-> total(untracked),
         reasons |-> [r \in {r \in Reason : untracked[r] > 0} |-> untracked[r]]]}

(* To the byte, or rounded to a decimal of KB, MB, GB or TB; which figure  *)
(* the rounding comes to is left out.                                      *)
format_bytes(bytes) ==
  IF bytes < ExactBelow THEN [exact |-> TRUE, figure |-> bytes]
  ELSE [exact |-> FALSE, figure |-> 0]

(* The duration to a hundredth of a second, cut off; minutes are layout.   *)
format_duration(duration_) ==
  IF duration_ = {} THEN [known |-> FALSE, seconds |-> 0, hundredths |-> 0]
  ELSE LET micros == CHOOSE d \in duration_ : TRUE
       IN  [known      |-> TRUE,
            seconds    |-> micros \div MicrosPerSecond,
            hundredths |-> ((micros % MicrosPerSecond) * 100) \div MicrosPerSecond]

OneWay(flow, d) ==
  [packets |-> flow.totals[d].packets, bytes |-> format_bytes(flow.totals[d].wire_bytes)]

flow_entry(k, flow) ==
  [key      |-> k,
   packets  |-> total_packets(flow),
   bytes    |-> format_bytes(total_wire_bytes(flow)),
   duration |-> format_duration(duration(flow)),
   ways     |-> [d \in Direction |-> OneWay(flow, d)],
   captured |-> IF total_captured_bytes(flow) = total_wire_bytes(flow) THEN {}
                ELSE {format_bytes(total_captured_bytes(flow))},
   tcp      |-> IF k.protocol = "Tcp" THEN {flow.tcp} ELSE {}]

(* The report on a table whose flows came out in the order of `listing'.   *)
flow_table(listing) ==
  [flows   |-> Len(listing),
   entries |-> [i \in DOMAIN listing |-> flow_entry(listing[i], table.flows[listing[i]])],
   note    |-> untracked_note(table.untracked),
   limit   |-> IF is_full(table) THEN {MaxFlows} ELSE {}]

-----------------------------------------------------------------------------
(* What a reader of the report may conclude                                *)

(* Every packet of the run is in the printed numbers once: the entries and *)
(* the note add up to the packets there were, and the note to its total.   *)
CountsAddUp(report) ==
  /\ SumFunction([i \in DOMAIN report.entries |-> report.entries[i].packets])
       + SumFunction([n \in report.note |-> n.total]) = Len(log)
  /\ \A n \in report.note : SumFunction(n.reasons) = n.total

(* "A small flow's size is the kind of number an analyst wants to be able  *)
(* to add up": where the total is printed to the byte, so are its parts.   *)
EntryAddsUp(entry) ==
  LET there == entry.ways["AtoB"]
      back  == entry.ways["BtoA"]
  IN  /\ there.packets + back.packets = entry.packets
      /\ entry.bytes.exact =>
           /\ there.bytes.exact /\ back.bytes.exact
           /\ there.bytes.figure + back.bytes.figure = entry.bytes.figure

PacketsOf(k) == {PacketAt(i) : i \in Filed(k, "AtoB") \cup Filed(k, "BtoA")}

(* The line about the snapshot length is there exactly when it cut one of  *)
(* the flow's packets (a damaged file may claim to hold more of a packet   *)
(* than there was; of such a flow nothing is said here).                   *)
TruncationIsMentioned(entry) ==
  (\A p \in PacketsOf(entry.key) : p.caplen <= p.wirelen) =>
     (entry.captured # {} <=> \E p \in PacketsOf(entry.key) : p.caplen < p.wirelen)

(* A duration is called unknown for a first or last timestamp that is no   *)
(* point in time, or a range beyond a u64, and never because packets came  *)
(* out of order.                                                           *)
UnknownForOddStamps(entry) ==
  LET times == {p.timestamp : p \in PacketsOf(entry.key)}
      first == CHOOSE t \in times : \A u \in times : TimeLeq(t, u)
      last  == CHOOSE t \in times : \A u \in times : TimeLeq(u, t)
  IN  entry.duration.known <=>
        IsPointInTime(first) /\ IsPointInTime(last) /\ ~ TooFarApart(first, last)

(* The printed report is an account of the run it follows: as long as no   *)
(* counter has stopped climbing, its numbers add up to the packets that    *)
(* were offered, its parts to its totals, a cut packet and an odd timestamp *)
(* show, and whoever reads that packets were over the limit is told what   *)
(* the limit was.                                                          *)
ReportAddsUp ==
  \A listing \in flows_sorted(table.flows) :
    LET report == flow_table(listing)
    IN  /\ Len(log) <= CounterMax => CountsAddUp(report)
        /\ \A i \in DOMAIN report.entries :
             LET entry == report.entries[i]
                 flow  == table.flows[entry.key]
             IN  /\ entry.packets < CounterMax /\ total_wire_bytes(flow) < CounterMax =>
                      EntryAddsUp(entry) /\ TruncationIsMentioned(entry)
                 /\ UnknownForOddStamps(entry)
        /\ \A n \in report.note :
             "over_flow_limit" \in DOMAIN n.reasons => report.limit = {MaxFlows}
=============================================================================
