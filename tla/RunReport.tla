----------------------------- MODULE RunReport ------------------------------
(***************************************************************************)
(* What a run says of itself before it starts and when it is over          *)
(* (render/capture.rs over the summaries of capture/stats.rs and the dates *)
(* of capture/timestamp.rs).  The clock on the wall, the names of the      *)
(* interface, the file and the link type, and all wording are left out.    *)
(***************************************************************************)
EXTENDS Pump, Functions

CONSTANTS
  Calendar,      \* the seconds OffsetDateTime can express as a date
  DriverCounts   \* the figures a driver may report

ASSUME RunReportAssumption ==
  /\ Calendar \subseteq Int
  /\ DriverCounts \subseteq Nat

-----------------------------------------------------------------------------
(* Dates (capture/timestamp.rs)                                            *)

(* Mutant: microseconds beyond the second are cut to size.                 *)
to_utc_CutToSize(t) ==
  IF t.seconds \notin Calendar THEN {}
  ELSE {[seconds |-> t.seconds, micros |-> t.microseconds % MicrosPerSecond]}

to_utc(t) ==
  IF ~ IsPointInTime(t) \/ t.seconds \notin Calendar THEN {}
  ELSE {[seconds |-> t.seconds, micros |-> t.microseconds]}

(* A date, or both numbers as they were reported in "[raw s.us]".          *)
format_datetime(t) ==
  IF to_utc(t) = {} THEN [raw |-> TRUE, seconds |-> t.seconds, micros |-> t.microseconds]
  ELSE LET date == CHOOSE d \in to_utc(t) : TRUE
       IN  [raw |-> FALSE, seconds |-> date.seconds, micros |-> date.micros]

-----------------------------------------------------------------------------
(* Headers and summaries (render/capture.rs)                               *)

NoLimit == [limited |-> FALSE, count |-> 0]

(* "stop after" of a live capture, "read" of a file: so many packets, or   *)
(* "Ctrl+C" and "whole file".                                              *)
stop_after(limit) ==
  IF limit = {} THEN NoLimit
  ELSE [limited |-> TRUE, count |-> CHOOSE n \in limit : TRUE]

(* The banner; flow mode is announced because it prints no packets.        *)
header == [stop_after |-> stop_after(config.limit), flow_mode |-> ~ config.listing]

stop_reason_phrase(reason) ==
  CASE reason = "CountReached" -> "packet count reached"
    [] reason = "Interrupted"  -> "interrupted by user"
    [] reason = "SourceEnded"  -> "capture source ended"
    [] reason = "OutputClosed" -> "output closed"
    [] reason = "ReadFailed"   -> "could not read any further"

(* "first packet", "last packet" and "capture span": nothing, a duration,  *)
(* or "unknown - the file's timestamps are not in order".                  *)
render_time_span(s) ==
  [first |-> {format_datetime(t) : t \in s.first},
   last  |-> {format_datetime(t) : t \in s.last},
   span  |-> IF s.first = {} \/ s.last = {} THEN [says |-> "no packets", micros |-> {}]
             ELSE IF span_duration(s) = {} THEN [says |-> "unknown", micros |-> {}]
             ELSE [says |-> "duration", micros |-> span_duration(s)]]

(* LiveCapture::run: a failed read leaves no summary to print.             *)
HasCaptureSummary == live /\ stop_reason # "ReadFailed"

(* The driver's own counters, or that they could not be read.              *)
DriverStats ==
  {[received |-> {}, dropped |-> {}, if_dropped |-> {}]}
    \cup [received: {{n} : n \in DriverCounts}, dropped: {{n} : n \in DriverCounts},
          if_dropped: {{n} : n \in DriverCounts}]

(* A zero that may mean "not reported" is annotated.                       *)
interface_drop_caveat(stats) == stats.if_dropped = {0}

capture_summary(stats) ==
  [finished       |-> stop_reason_phrase(stop_reason),
   packets        |-> tally.packets,
   captured_bytes |-> tally.captured_bytes,
   wire_bytes     |-> tally.wire_bytes,
   driver         |-> stats,
   caveat         |-> interface_drop_caveat(stats)]

(* FileSummary: the failure that ended reading early is part of it.        *)
read_error == stop_reason = "ReadFailed"

file_summary ==
  [finished       |-> stop_reason_phrase(stop_reason),
   packets        |-> tally.packets,
   captured_bytes |-> tally.captured_bytes,
   wire_bytes     |-> tally.wire_bytes,
   time           |-> render_time_span(span),
   rest_unread    |-> read_error]

-----------------------------------------------------------------------------
(* What a reader of the output may conclude                                *)

(* The evidence survives being printed: what was reported can be told from *)
(* what is shown, whether or not it was a date.                            *)
ToldFrom(shown, t) ==
  /\ shown.seconds = t.seconds /\ shown.micros = t.microseconds
  /\ ~ shown.raw => IsPointInTime(t)

(* The rows of a summary, against the packets that were read.              *)
CountsThePackets(summary) ==
  /\ summary.packets = Saturate(Len(taken))
  /\ summary.captured_bytes = Saturate(SumFunction([i \in DOMAIN taken |-> taken[i].caplen]))
  /\ summary.wire_bytes = Saturate(SumFunction([i \in DOMAIN taken |-> taken[i].wirelen]))

(* Header and summary agree on where the run was to stop.                  *)
EndsAsAnnounced(summary) ==
  LET announced == header.stop_after
  IN  /\ summary.finished = "packet count reached" =>
           announced.limited /\ summary.packets >= announced.count
      /\ announced.limited /\ announced.count > 0 => summary.packets <= announced.count
      /\ summary.finished = "output closed" => ~ header.flow_mode

(* A live capture ends by its count, by Ctrl+C or by a closed output; its  *)
(* source never "ends".  Missing driver statistics cost nothing else.      *)
CaptureSummaryIsTrue ==
  \A stats \in DriverStats :
    LET summary == capture_summary(stats)
    IN  /\ CountsThePackets(summary)
        /\ EndsAsAnnounced(summary)
        /\ summary.finished # "capture source ended"
        /\ summary.finished = "interrupted by user" => signals > 0
        /\ stats.if_dropped = {} => ~ summary.caveat

(* "whole file" and "capture source ended" together mean what they say; a  *)
(* damaged rest is mentioned; the first and the last packet are shown with *)
(* the stamps they came with, and a span is only given when it is the time *)
(* from the one to the other.                                              *)
FileSummaryIsTrue ==
  LET summary == file_summary
      time    == summary.time
  IN  /\ CountsThePackets(summary)
      /\ EndsAsAnnounced(summary)
      /\ summary.finished # "interrupted by user"
      /\ ~ header.stop_after.limited /\ summary.finished = "capture source ended" =>
           pending = << >> /\ ~ summary.rest_unread
      /\ summary.rest_unread <=> broken /\ summary.finished = "could not read any further"
      /\ taken = << >> <=> time.span.says = "no packets"
      /\ taken # << >> =>
           LET first == Head(taken).timestamp
               last  == taken[Len(taken)].timestamp
           IN  /\ \A shown \in time.first : ToldFrom(shown, first)
               /\ \A shown \in time.last : ToldFrom(shown, last)
               /\ time.span.says = "duration" =>
                    time.span.micros = {Micros(last) - Micros(first)}

(* What a run prints of itself is so: the rows count the packets there     *)
(* were, the phrase is why it ended and fits the header above it, times    *)
(* are the packets' own and no statistics are made up.                     *)
SummaryTellsTheRun ==
  pc = "done" =>
    /\ HasCaptureSummary => CaptureSummaryIsTrue
    /\ ~ live => FileSummaryIsTrue
    /\ SpanTellsWhenItCannotTell
=============================================================================
