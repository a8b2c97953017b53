------------------------------- MODULE MCPump -------------------------------
(***************************************************************************)
(* Pump with packets that may arrive in or out of the order of their       *)
(* stamps, one of them stamped outside its second, and every kind of       *)
(* --count.                                                                *)
(***************************************************************************)
EXTENDS RunReport

Pkt(seconds, microseconds, caplen, wirelen) ==
  [timestamp |-> from_parts(seconds, microseconds), caplen |-> caplen, wirelen |-> wirelen]

MCPackets == {Pkt(1, 1, 1, 2), Pkt(0, 1, 1, 1), Pkt(0, 2, 0, 1)}

(* Second 1 is beyond what can be written as a date.                       *)
MCCalendar == {0}

MCDriverCounts == {0, 1}

(* No limit, zero, one and two.                                            *)
MCLimits == {{}, {0}, {1}, {2}}
=============================================================================
