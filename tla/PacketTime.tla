----------------------------- MODULE PacketTime -----------------------------
(***************************************************************************)
(* Packet timestamps and the span a run covers (capture/timestamp.rs and   *)
(* TimeSpan of capture/stats.rs).                                          *)
(*                                                                         *)
(* A timestamp is stored exactly as the driver reported it, so its         *)
(* microsecond part may lie outside one second; every conversion has to    *)
(* cope with that.  An Option<T> of the code is a set with at most one     *)
(* member: {} is None and {x} is Some(x).                                  *)
(***************************************************************************)
EXTENDS Integers

CONSTANTS
  MicrosPerSecond,   \* 1_000_000 in the code; small for TLC
  DurationMax        \* u64::MAX microseconds in the code; small for TLC

ASSUME MicrosAssumption ==
  /\ MicrosPerSecond \in Nat \ {0}
  /\ DurationMax \in Nat

PacketTimestamp == [seconds: Int, microseconds: Int]

from_parts(seconds, microseconds) ==
  [seconds |-> seconds, microseconds |-> microseconds]

(* The derived Ord of PacketTimestamp: seconds first, then microseconds.   *)
TimeLeq(t, u) ==
  \/ t.seconds < u.seconds
  \/ t.seconds = u.seconds /\ t.microseconds <= u.microseconds

MinTime(t, u) == IF TimeLeq(t, u) THEN t ELSE u
MaxTime(t, u) == IF TimeLeq(t, u) THEN u ELSE t

(* Whether the remainder lies inside one second.                           *)
IsPointInTime(t) == 0 <= t.microseconds /\ t.microseconds < MicrosPerSecond

Micros(t) == t.seconds * MicrosPerSecond + t.microseconds

micros_since_epoch(t) == IF IsPointInTime(t) THEN {Micros(t)} ELSE {}

(* The one subtraction both Flow::duration and TimeSpan::duration make:    *)
(* None when either end is no point in time, or when the i128 result does  *)
(* not fit a u64 because it is negative or too large.                      *)
Between(first, last) ==
  {d \in {m - n : m \in micros_since_epoch(last), n \in micros_since_epoch(first)} :
     0 <= d /\ d <= DurationMax}

TooFarApart(first, last) == Micros(last) - Micros(first) > DurationMax

-----------------------------------------------------------------------------
(* TimeSpan: the first and the last timestamp in order of ARRIVAL.         *)

EmptySpan == [first |-> {}, last |-> {}]

SpanRecord(span, t) ==
  [first |-> IF span.first = {} THEN {t} ELSE span.first, last |-> {t}]

span_duration(span) ==
  UNION {Between(f, l) : f \in span.first, l \in span.last}

is_monotonic(span) ==
  \A f \in span.first, l \in span.last :
     /\ IsPointInTime(f) /\ IsPointInTime(l)
     /\ Micros(l) >= Micros(f)
=============================================================================
