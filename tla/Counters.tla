------------------------------ MODULE Counters ------------------------------
(***************************************************************************)
(* The saturating u64 counters of CaptureTally (capture/stats.rs) and      *)
(* DirectionStats (flow/stats.rs): "a counter that stops climbing is       *)
(* wrong; a tool that aborts because a counter wrapped is worse".          *)
(***************************************************************************)
EXTENDS Integers

CONSTANT CounterMax   \* u64::MAX in the code; small for TLC

ASSUME CounterMaxAssumption == CounterMax \in Nat \ {0}

Counter == 0 .. CounterMax

(* Mutant: plain addition, on numbers that never end.                      *)
Saturate_Unbounded(n) == n

Saturate(n) == IF n > CounterMax THEN CounterMax ELSE n

saturating_add(n, m) == Saturate(n + m)

(* What both structs hold: packets, bytes kept and bytes on the wire.      *)
Totals == [packets: Counter, captured_bytes: Counter, wire_bytes: Counter]

ZeroTotals == [packets |-> 0, captured_bytes |-> 0, wire_bytes |-> 0]

AddPacket(totals, caplen, wirelen) ==
  [packets        |-> saturating_add(totals.packets, 1),
   captured_bytes |-> saturating_add(totals.captured_bytes, caplen),
   wire_bytes     |-> saturating_add(totals.wire_bytes, wirelen)]
=============================================================================
