-------------------------------- MODULE Pump --------------------------------
(***************************************************************************)
(* The packet pump (capture/pump.rs) with everything that runs beside it:  *)
(* the driver or file it reads, the Ctrl+C handler that stops a live       *)
(* capture from another thread (capture/live.rs), and the reader of        *)
(* standard output, who may go away.                                       *)
(*                                                                         *)
(* One iteration of the loop is two atomic steps, the flag check and the   *)
(* read with all that follows it, because the handler and the driver can   *)
(* move between them; a read that reports no more packets is followed by a *)
(* second look at the flag, which is a step of its own.  Inside the arm    *)
(* that handles a packet nothing shared is read except standard output.    *)
(***************************************************************************)
EXTENDS PacketTime, Counters, Sequences

CONSTANTS
  Packets,      \* what may be captured; only timestamp and lengths matter here
  Limits,       \* the --count values a user may give; {} is none at all
  MaxPackets,   \* bound of the model: packets the source ever delivers
  MaxSignals    \* bound of the model: how often Ctrl+C is pressed

ASSUME PumpAssumption ==
  /\ \A p \in Packets : /\ p.timestamp \in PacketTimestamp
                        /\ p.caplen \in Nat
                        /\ p.wirelen \in Nat
  /\ Limits \subseteq {{}} \cup {{n} : n \in Counter}
  /\ MaxPackets \in Nat
  /\ MaxSignals \in Nat

VARIABLES
  config,       \* how this run was started: source, limit, saving, listing
  pending,      \* packets the driver or the file holds and the loop has not read
  broken,       \* the interface went away, or the file's next record is cut
  outlet,       \* someone still reads standard output
  stop,         \* the flag shared with the handler
  brk,          \* libpcap's own break flag
  handler,      \* the calls CaptureInterrupter::interrupt has still to make
  signals,      \* how often Ctrl+C was pressed
  pc,           \* where the loop is
  tally,        \* CaptureTally
  span,         \* TimeSpan
  stop_reason,  \* why the loop ended, "None" until then
  sink,         \* packets given to the CaptureWriter
  handed,       \* what on_packet was given and accepted
  taken,        \* history: packets read, in order
  late          \* history: how many of them were read with the flag already set

worldVars   == <<pending, broken, outlet>>
handlerVars == <<stop, handler, signals>>
bookVars    == <<tally, span, sink, handed, taken, late>>
vars == <<config, worldVars, handlerVars, brk, pc, stop_reason, bookVars>>

Source == {"live", "file"}

StopReason == {"Interrupted", "CountReached", "SourceEnded", "OutputClosed", "ReadFailed"}

(* CaptureSettings::new refuses a count of zero, for a live capture; a     *)
(* file's --count is not checked.                                          *)
ValidCount(source, count) == source = "live" => count # {0}

(* A file is read without a flag to watch and without a sink to fill.      *)
Config ==
  {c \in [source: Source, limit: Limits, saving: BOOLEAN, listing: BOOLEAN] :
     /\ ValidCount(c.source, c.limit)
     /\ c.source = "file" => ~ c.saving}

live == config.source = "live"

-----------------------------------------------------------------------------
(* The interrupter                                                         *)

(* Mutant: the loop is woken before it can see the flag.                   *)
interrupt_BreakFirst == <<"breakloop", "store">>

(* The calls of interrupt(), in its order.                                 *)
interrupt == <<"store", "breakloop">>

(* interrupted(): a file read has no flag, so it is never interrupted.     *)
interrupted == live /\ stop

-----------------------------------------------------------------------------
Init ==
  /\ config \in Config
  /\ pending \in IF live THEN {<< >>}
                 ELSE UNION {[1 .. n -> Packets] : n \in 0 .. MaxPackets}
  /\ broken \in IF live THEN {FALSE} ELSE BOOLEAN
  /\ outlet = TRUE
  /\ stop = FALSE
  /\ brk = FALSE
  /\ handler = << >>
  /\ signals = 0
  /\ pc = "check"
  /\ tally = ZeroTotals
  /\ span = EmptySpan
  /\ stop_reason = "None"
  /\ sink = << >>
  /\ handed = << >>
  /\ taken = << >>
  /\ late = 0

Finish(reason) ==
  /\ pc' = "done"
  /\ stop_reason' = reason

GoTo(place) ==
  /\ pc' = place
  /\ UNCHANGED stop_reason

(* Mutant: the flag is only looked at once a read gives up.                *)
CheckStop_Skipped ==
  /\ pc = "check"
  /\ GoTo("reading")
  /\ UNCHANGED <<config, worldVars, handlerVars, brk, bookVars>>

(* The top of the loop.                                                    *)
CheckStop ==
  /\ pc = "check"
  /\ \/ interrupted /\ Finish("Interrupted")
     \/ ~ interrupted /\ GoTo("reading")
  /\ UNCHANGED <<config, worldVars, handlerVars, brk, bookVars>>

(* Mutant: one packet too many.                                            *)
limit_reached_OffByOne(totals) == \E n \in config.limit : totals.packets > n

limit_reached(totals) == \E n \in config.limit : totals.packets >= n

(* on_packet prints a line, which fails once nobody reads it; in flow mode *)
(* it fills the table and cannot fail.                                     *)
on_packet_fails == config.listing /\ ~ outlet

(* How the arm for a packet ends: the callback's verdict, then the limit.  *)
AfterPacket(totals) ==
  IF on_packet_fails THEN Finish("OutputClosed")
  ELSE IF limit_reached(totals) THEN Finish("CountReached")
  ELSE GoTo("check")

(* Mutant: saved only after the callback accepted it.                      *)
CopyToSink_AfterCallback(p) ==
  sink' = IF config.saving /\ ~ on_packet_fails THEN Append(sink, p) ELSE sink

(* The packet goes to the file before anything else looks at it, ...       *)
CopyToSink(p) == sink' = IF config.saving THEN Append(sink, p) ELSE sink

(* Mutant: numbered before it is counted.                                  *)
HandOn_NumberedEarly(p, totals) ==
  handed' = IF on_packet_fails THEN handed
            ELSE Append(handed, [number |-> tally.packets, packet |-> p])

(* ... is counted, and is then handed on under its number.                 *)
HandOn(p, totals) ==
  handed' = IF on_packet_fails THEN handed
            ELSE Append(handed, [number |-> totals.packets, packet |-> p])

ReadPacket ==
  /\ pc = "reading"
  /\ pending # << >>
  /\ LET p      == Head(pending)
         totals == AddPacket(tally, p.caplen, p.wirelen)
     IN  /\ CopyToSink(p)
         /\ tally' = totals
         /\ span' = SpanRecord(span, p.timestamp)
         /\ HandOn(p, totals)
         /\ AfterPacket(totals)
         /\ taken' = Append(taken, p)
  /\ pending' = Tail(pending)
  /\ late' = IF interrupted THEN late + 1 ELSE late
  /\ UNCHANGED <<config, broken, outlet, handlerVars, brk>>

(* Mutant: a timeout of 0, which libpcap reads as "wait forever".           *)
ReadTimeout_Never == FALSE

(* Nothing arrived within READ_TIMEOUT_MS.                                 *)
ReadTimeout ==
  /\ pc = "reading"
  /\ live
  /\ pending = << >>
  /\ GoTo("check")
  /\ UNCHANGED <<config, worldVars, handlerVars, brk, bookVars>>

(* pcap_breakloop makes a read give up, whether or not packets wait.       *)
ReadBroken ==
  /\ pc = "reading"
  /\ brk
  /\ brk' = FALSE
  /\ GoTo("ended")
  /\ UNCHANGED <<config, worldVars, handlerVars, bookVars>>

ReadEndOfFile ==
  /\ pc = "reading"
  /\ ~ live
  /\ pending = << >>
  /\ ~ broken
  /\ GoTo("ended")
  /\ UNCHANGED <<config, worldVars, handlerVars, brk, bookVars>>

(* Mutant: a failed read is tried again.                                   *)
ReadFailure_Retried ==
  /\ pc = "reading"
  /\ broken
  /\ live \/ pending = << >>
  /\ GoTo("check")
  /\ UNCHANGED <<config, worldVars, handlerVars, brk, bookVars>>

(* Any other pcap error: the interface went away, perhaps with packets     *)
(* undelivered, or the next record of the file is cut short.               *)
ReadFailure ==
  /\ pc = "reading"
  /\ broken
  /\ live \/ pending = << >>
  /\ Finish("ReadFailed")
  /\ UNCHANGED <<config, worldVars, handlerVars, brk, bookVars>>

(* Mutant: no second look at the flag.                                     *)
NoMorePackets_OneMeaning ==
  /\ pc = "ended"
  /\ Finish("Interrupted")
  /\ UNCHANGED <<config, worldVars, handlerVars, brk, bookVars>>

(* NoMorePackets: the end of a file and a broken read look the same, and   *)
(* the flag tells them apart.                                              *)
NoMorePackets ==
  /\ pc = "ended"
  /\ Finish(IF interrupted THEN "Interrupted" ELSE "SourceEnded")
  /\ UNCHANGED <<config, worldVars, handlerVars, brk, bookVars>>

Loop ==
  CheckStop \/ ReadPacket \/ ReadTimeout \/ ReadEndOfFile \/ ReadFailure \/ NoMorePackets

-----------------------------------------------------------------------------
(* What happens beside the loop                                            *)

(* Ctrl+C; the handler thread runs one interrupt() at a time.              *)
Signal ==
  /\ live
  /\ signals < MaxSignals
  /\ handler = << >>
  /\ signals' = signals + 1
  /\ handler' = interrupt
  /\ UNCHANGED <<config, worldVars, stop, brk, pc, stop_reason, bookVars>>

HandlerStep ==
  /\ handler # << >>
  /\ \/ Head(handler) = "store" /\ stop' = TRUE /\ UNCHANGED brk
     \/ Head(handler) = "breakloop" /\ brk' = TRUE /\ UNCHANGED stop
  /\ handler' = Tail(handler)
  /\ UNCHANGED <<config, worldVars, signals, pc, stop_reason, bookVars>>

Arrive(p) ==
  /\ live
  /\ ~ broken
  /\ Len(taken) + Len(pending) < MaxPackets
  /\ pending' = Append(pending, p)
  /\ UNCHANGED <<config, broken, outlet, handlerVars, brk, pc, stop_reason, bookVars>>

InterfaceGone ==
  /\ live
  /\ ~ broken
  /\ broken' = TRUE
  /\ UNCHANGED <<config, pending, outlet, handlerVars, brk, pc, stop_reason, bookVars>>

OutputCloses ==
  /\ outlet
  /\ outlet' = FALSE
  /\ UNCHANGED <<config, pending, broken, handlerVars, brk, pc, stop_reason, bookVars>>

Beside ==
  \/ Signal \/ HandlerStep \/ InterfaceGone \/ OutputCloses
  \/ \E p \in Packets : Arrive(p)

Next == Loop \/ ReadBroken \/ Beside

Spec == Init /\ [][Next]_vars

(* Every read returns, at the latest with its timeout, and both threads    *)
(* are scheduled.  That breakloop wakes a blocked read is not assumed: it  *)
(* "is not guaranteed on every libpcap version".                           *)
Fairness == WF_vars(Loop) /\ WF_vars(HandlerStep)

FairSpec == Spec /\ Fairness

-----------------------------------------------------------------------------
(* What a run must satisfy                                                 *)

Handed == [number: Counter, packet: Packets]

(* The type invariant: every counter stays inside its u64 and nothing but  *)
(* packets is saved, shown or counted.                                     *)
TypeOK ==
  /\ config \in Config
  /\ pending \in Seq(Packets)
  /\ broken \in BOOLEAN /\ outlet \in BOOLEAN
  /\ stop \in BOOLEAN /\ brk \in BOOLEAN
  /\ handler \in {<< >>, <<"breakloop">>, <<"store", "breakloop">>}
  /\ signals \in Nat
  /\ pc \in {"check", "reading", "ended", "done"}
  /\ tally \in Totals
  /\ span.first \in SUBSET PacketTimestamp /\ span.last \in SUBSET PacketTimestamp
  /\ stop_reason \in {"None"} \cup StopReason
  /\ sink \in Seq(Packets)
  /\ handed \in Seq(Handed)
  /\ taken \in Seq(Packets)
  /\ late \in Nat

(* A saved capture holds every packet the summary counts, in order, and no *)
(* other: also the one whose line could not be printed any more, and the   *)
(* one that met the limit.                                                 *)
SavedIsWhatWasCounted ==
  /\ config.saving => sink = taken
  /\ ~ config.saving => sink = << >>
  /\ tally.packets = Saturate(Len(taken))

(* Packets are handed on under consecutive numbers, none skipped; only the *)
(* very packet whose line failed is counted without having been shown.     *)
ShownInOrder ==
  /\ \A i \in 1 .. Len(handed) : /\ handed[i].packet = taken[i]
                                 /\ handed[i].number = Saturate(i)
  /\ Len(handed) = IF stop_reason = "OutputClosed" THEN Len(taken) - 1 ELSE Len(taken)

(* README: the capture stops at the next packet boundary.  Wherever Ctrl+C *)
(* lands between the check and the read, one packet at most still comes.   *)
AtMostOneLatePacket == late <= 1

(* The order of interrupt()'s two calls: a loop woken by breakloop always  *)
(* finds the flag set, so an interrupted capture is never reported as one  *)
(* whose source ended; a file reported so was read to its last packet.     *)
InterruptNeverMisreported ==
  stop_reason = "SourceEnded" => ~ live /\ pending = << >> /\ ~ broken

(* The reason a run gives for ending is what ended it.                     *)
ReasonIsTheCause ==
  /\ stop_reason = "Interrupted" => live /\ stop
  /\ stop_reason = "OutputClosed" => config.listing /\ ~ outlet
  /\ stop_reason = "ReadFailed" => broken /\ (live \/ pending = << >>)
  /\ stop_reason = "CountReached" => limit_reached(tally)
  /\ pc = "done" <=> stop_reason # "None"

(* A limit is never overrun, except that a count of zero lets one through. *)
NeverOverLimit ==
  \A n \in config.limit : Len(taken) <= IF n = 0 THEN 1 ELSE n

(* pump.rs: "Stop after this many packets."  README: analyse only the      *)
(* first N packets.                                                        *)
LimitIsTheMost == \A n \in config.limit : tally.packets <= n

(* stats.rs: "the span of time a run's packets cover".                     *)
SpanCoversThePackets ==
  \A i \in 1 .. Len(taken) :
     /\ \A f \in span.first : TimeLeq(f, taken[i].timestamp)
     /\ \A l \in span.last : TimeLeq(taken[i].timestamp, l)

(* What does hold of the span: it has a duration exactly when it is        *)
(* monotonic and not beyond a u64, and a run whose stamps are in order and *)
(* inside their seconds is monotonic.                                      *)
SpanTellsWhenItCannotTell ==
  /\ \A f \in span.first, l \in span.last :
        span_duration(span) # {} <=> is_monotonic(span) /\ ~ TooFarApart(f, l)
  /\ (\A i, j \in 1 .. Len(taken) :
        i < j => TimeLeq(taken[i].timestamp, taken[j].timestamp))
      /\ (\A i \in 1 .. Len(taken) : IsPointInTime(taken[i].timestamp))
      => is_monotonic(span)

(* The loop and the two threads keep the promise of Run, the abstract      *)
(* specification: seen from outside, packets are taken whole, one at a     *)
(* time and in order, the run ends once, the reason it gives is so, and    *)
(* one packet at most follows Ctrl+C.                                      *)
Promised ==
  INSTANCE Run WITH
    asked <- stop, saved <- sink, shown <- Len(handed)

KeepsThePromise == Promised!RunSpec

(* Ctrl+C ends the run, wherever the loop is and however quiet the         *)
(* interface, even where breakloop wakes nobody.                           *)
InterruptEndsRun == handler # << >> ~> pc = "done"

(* Reading a file ends, damaged or not.                                    *)
FileReadEnds == ~ live ~> pc = "done"
=============================================================================
