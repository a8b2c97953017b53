----------------------------- MODULE PumpProofs -----------------------------
(***************************************************************************)
(* Theorems about the pump, for every source, limit and number of packets  *)
(* and signals.                                                            *)
(***************************************************************************)
EXTENDS RunReport, MeasureProofs, SequenceTheorems

-----------------------------------------------------------------------------
(* What one packet does to the books                                       *)

ThePacket == Head(pending)
NewTotals == AddPacket(tally, ThePacket.caplen, ThePacket.wirelen)

LEMMA PacketStep ==
  ASSUME TypeOK, ReadPacket
  PROVE  /\ ThePacket \in Packets
         /\ ThePacket.timestamp \in PacketTimestamp
         /\ NewTotals \in Totals
         /\ pending' \in Seq(Packets)
         /\ tally' = NewTotals
         /\ taken' = Append(taken, ThePacket)
         /\ config.saving => sink' = Append(sink, ThePacket)
         /\ ~ config.saving => sink' = sink
<1>1. pending \in Seq(Packets) /\ pending # << >> /\ pending' = Tail(pending)
  BY DEF TypeOK, ReadPacket
<1>2. ThePacket \in Packets /\ pending' \in Seq(Packets)
  BY <1>1, HeadTailProperties DEF ThePacket
<1>3. NewTotals \in Totals
  BY <1>2, PumpAssumption, AddPacketType DEF NewTotals, TypeOK
<1>4. /\ tally' = NewTotals
      /\ taken' = Append(taken, ThePacket)
      /\ CopyToSink(ThePacket)
  BY DEF ReadPacket, ThePacket, NewTotals
<1>. QED
  BY <1>1, <1>2, <1>3, <1>4, PumpAssumption DEF CopyToSink

(* The two calls of interrupt(), each in its own step.                     *)
LEMMA HandlerMoves ==
  ASSUME TypeOK, HandlerStep
  PROVE  \/ /\ handler = <<"store", "breakloop">> /\ handler' = <<"breakloop">>
            /\ stop' = TRUE /\ brk' = brk
         \/ /\ handler = <<"breakloop">> /\ handler' = << >>
            /\ brk' = TRUE /\ stop' = stop
<1>1. handler = <<"store", "breakloop">> \/ handler = <<"breakloop">>
  BY DEF TypeOK, HandlerStep
<1>2. CASE handler = <<"store", "breakloop">>
  <2>1. Head(handler) = "store" /\ Tail(handler) = <<"breakloop">>
    BY <1>2
  <2>. QED
    BY <1>2, <2>1 DEF HandlerStep
<1>3. CASE handler = <<"breakloop">>
  <2>1. Head(handler) = "breakloop" /\ Tail(handler) = << >>
    BY <1>3
  <2>. QED
    BY <1>3, <2>1 DEF HandlerStep
<1>. QED
  BY <1>1, <1>2, <1>3

(* How the arm ends, by the three cases of its two tests.                  *)
LEMMA PacketVerdict ==
  ASSUME ReadPacket
  PROVE  /\ on_packet_fails =>
              /\ pc' = "done" /\ stop_reason' = "OutputClosed" /\ handed' = handed
         /\ ~ on_packet_fails =>
              /\ handed' = Append(handed, [number |-> NewTotals.packets, packet |-> ThePacket])
              /\ limit_reached(NewTotals) => pc' = "done" /\ stop_reason' = "CountReached"
              /\ ~ limit_reached(NewTotals) => pc' = "check" /\ stop_reason' = stop_reason
<1>1. HandOn(ThePacket, NewTotals) /\ AfterPacket(NewTotals)
  BY DEF ReadPacket, ThePacket, NewTotals
<1>. QED
  BY <1>1 DEF HandOn, AfterPacket, Finish, GoTo

-----------------------------------------------------------------------------
(* Types                                                                   *)

LEMMA TypeInit == Init => TypeOK
<1>. SUFFICES ASSUME Init PROVE TypeOK
  OBVIOUS
<1>1. pending \in Seq(Packets)
  <2>1. \/ pending = << >>
        \/ \E n \in 0 .. MaxPackets : pending \in [1 .. n -> Packets]
    BY DEF Init
  <2>2. CASE \E n \in 0 .. MaxPackets : pending \in [1 .. n -> Packets]
    <3>1. PICK n \in Nat : pending \in [1 .. n -> Packets]
      BY <2>2, PumpAssumption
    <3>. QED
      BY <3>1, SeqDef
  <2>. QED
    BY <2>1, <2>2, EmptySeq
<1>2. tally \in Totals
  BY CounterMaxAssumption DEF Init, ZeroTotals, Totals, Counter
<1>. QED
  BY <1>1, <1>2, EmptySeq DEF Init, TypeOK, EmptySpan

LEMMA SpanType ==
  ASSUME NEW s, s.first \in SUBSET PacketTimestamp, NEW t \in PacketTimestamp
  PROVE  /\ SpanRecord(s, t).first \in SUBSET PacketTimestamp
         /\ SpanRecord(s, t).last \in SUBSET PacketTimestamp
BY DEF SpanRecord

LEMMA TypeStep == TypeOK /\ [Next]_vars => TypeOK'
<1>. SUFFICES ASSUME TypeOK, [Next]_vars PROVE TypeOK'
  OBVIOUS
<1>. USE DEF worldVars, handlerVars, bookVars
<1>1. CASE CheckStop
  BY <1>1 DEF CheckStop, Finish, GoTo, StopReason, TypeOK
<1>2. CASE ReadPacket
  <2>1. /\ pc' \in {"check", "done"}
        /\ stop_reason' \in {stop_reason, "CountReached", "OutputClosed"}
    BY <1>2, PacketVerdict
  <2>2. [number |-> NewTotals.packets, packet |-> ThePacket] \in Handed
    BY <1>2, PacketStep DEF Totals, Handed
  <2>3. handed' \in Seq(Handed)
    <3>1. handed \in Seq(Handed)
      BY DEF TypeOK
    <3>2. \/ handed' = handed
          \/ handed' = Append(handed, [number |-> NewTotals.packets, packet |-> ThePacket])
      BY <1>2, PacketVerdict
    <3>. QED
      BY <2>2, <3>1, <3>2, AppendProperties
  <2>4. sink' \in Seq(Packets) /\ taken' \in Seq(Packets)
    <3>1. sink \in Seq(Packets) /\ taken \in Seq(Packets)
      BY DEF TypeOK
    <3>2. /\ ThePacket \in Packets
          /\ sink' \in {sink, Append(sink, ThePacket)}
          /\ taken' = Append(taken, ThePacket)
      BY <1>2, PacketStep
    <3>3. /\ Append(sink, ThePacket) \in Seq(Packets)
          /\ Append(taken, ThePacket) \in Seq(Packets)
      BY <3>1, <3>2, AppendProperties
    <3>. QED
      BY <3>1, <3>2, <3>3
  <2>5. span' = SpanRecord(span, ThePacket.timestamp)
    BY <1>2 DEF ReadPacket, ThePacket
  <2>6. span'.first \in SUBSET PacketTimestamp /\ span'.last \in SUBSET PacketTimestamp
    BY <1>2, <2>5, PacketStep, SpanType DEF TypeOK
  <2>7. late' \in Nat
    BY <1>2 DEF ReadPacket, TypeOK
  <2>8. UNCHANGED <<config, broken, outlet, stop, handler, signals, brk>>
    BY <1>2 DEF ReadPacket
  <2>. QED
    BY <1>2, <2>1, <2>3, <2>4, <2>6, <2>7, <2>8, PacketStep DEF TypeOK, StopReason
<1>3. CASE ReadTimeout
  BY <1>3 DEF ReadTimeout, GoTo, TypeOK
<1>4. CASE ReadEndOfFile
  BY <1>4 DEF ReadEndOfFile, GoTo, TypeOK
<1>5. CASE ReadFailure
  BY <1>5 DEF ReadFailure, Finish, StopReason, TypeOK
<1>6. CASE NoMorePackets
  BY <1>6 DEF NoMorePackets, Finish, StopReason, TypeOK
<1>7. CASE ReadBroken
  BY <1>7 DEF ReadBroken, GoTo, TypeOK
<1>8. CASE Signal
  BY <1>8 DEF Signal, interrupt, TypeOK
<1>9. CASE HandlerStep
  <2>1. /\ handler' \in {<< >>, <<"breakloop">>}
        /\ stop' \in BOOLEAN /\ brk' \in BOOLEAN
    BY <1>9, HandlerMoves DEF TypeOK
  <2>2. UNCHANGED <<config, worldVars, signals, pc, stop_reason, bookVars>>
    BY <1>9 DEF HandlerStep
  <2>. QED
    BY <2>1, <2>2 DEF TypeOK
<1>10. CASE InterfaceGone
  BY <1>10 DEF InterfaceGone, TypeOK
<1>11. CASE OutputCloses
  BY <1>11 DEF OutputCloses, TypeOK
<1>12. ASSUME NEW p \in Packets, Arrive(p) PROVE TypeOK'
  BY <1>12 DEF Arrive, TypeOK
<1>13. CASE UNCHANGED vars
  BY <1>13 DEF vars, TypeOK
<1>. QED
  BY <1>1, <1>2, <1>3, <1>4, <1>5, <1>6, <1>7, <1>8, <1>9, <1>10, <1>11, <1>12, <1>13
  DEF Next, Loop, Beside

(* Counters stay inside their u64 and nothing but packets is ever saved,   *)
(* handed on or counted.                                                   *)
THEOREM TypeCorrect == Spec => []TypeOK
<1>. QED
  BY TypeInit, TypeStep, PTL DEF Spec
-----------------------------------------------------------------------------
(* Why a run ended                                                         *)

(* The break flag is never up without the stop flag, in any moment of the  *)
(* handler: what makes the second look at the flag conclusive.             *)
BreakFollowsFlag ==
  /\ brk => stop
  /\ handler = <<"breakloop">> => stop
  /\ ~ live => ~ brk /\ handler = << >>
  /\ pc = "ended" /\ live => stop
  /\ pc = "ended" /\ ~ live => pending = << >> /\ ~ broken

CauseInv == BreakFollowsFlag /\ ReasonIsTheCause /\ InterruptNeverMisreported

LEMMA CauseInit == Init => CauseInv
BY DEF Init, CauseInv, BreakFollowsFlag, ReasonIsTheCause, InterruptNeverMisreported

LEMMA CauseStep == TypeOK /\ CauseInv /\ [Next]_vars => CauseInv'
<1>. SUFFICES ASSUME TypeOK, CauseInv, [Next]_vars PROVE CauseInv'
  OBVIOUS
<1>. USE DEF worldVars, handlerVars, bookVars, CauseInv, BreakFollowsFlag,
             ReasonIsTheCause, InterruptNeverMisreported, live, limit_reached
<1>1. CASE CheckStop
  BY <1>1 DEF CheckStop, Finish, GoTo, interrupted
<1>2. CASE ReadPacket
  <2>1. UNCHANGED <<config, broken, outlet, stop, handler, brk>> /\ pc = "reading"
    BY <1>2 DEF ReadPacket
  <2>2. stop_reason = "None"
    BY <2>1
  <2>3. CASE on_packet_fails
    BY <1>2, <2>1, <2>3, PacketVerdict DEF on_packet_fails
  <2>4. CASE ~ on_packet_fails /\ limit_reached(NewTotals)
    <3>1. tally' = NewTotals
      BY <1>2, PacketStep
    <3>2. pc' = "done" /\ stop_reason' = "CountReached"
      BY <1>2, <2>4, PacketVerdict
    <3>3. limit_reached(tally')
      BY <2>4, <3>1
    <3>. QED
      BY <2>1, <3>2, <3>3
  <2>5. CASE ~ on_packet_fails /\ ~ limit_reached(NewTotals)
    BY <1>2, <2>1, <2>2, <2>5, PacketVerdict
  <2>. QED
    BY <2>3, <2>4, <2>5
<1>3. CASE ReadTimeout
  BY <1>3 DEF ReadTimeout, GoTo
<1>4. CASE ReadEndOfFile
  BY <1>4 DEF ReadEndOfFile, GoTo
<1>5. CASE ReadFailure
  BY <1>5 DEF ReadFailure, Finish
<1>6. CASE NoMorePackets
  BY <1>6 DEF NoMorePackets, Finish, interrupted
<1>7. CASE ReadBroken
  BY <1>7 DEF ReadBroken, GoTo
<1>8. CASE Signal
  BY <1>8 DEF Signal, interrupt
<1>9. CASE HandlerStep
  <2>1. UNCHANGED <<config, pending, broken, outlet, pc, stop_reason, tally>>
    BY <1>9 DEF HandlerStep
  <2>2. live
    BY <1>9 DEF HandlerStep
  <2>3. CASE stop' = TRUE /\ brk' = brk
    BY <2>1, <2>2, <2>3
  <2>4. CASE /\ handler = <<"breakloop">> /\ handler' = << >>
             /\ brk' = TRUE /\ stop' = stop
    <3>1. stop'
      BY <2>4
    <3>. QED
      BY <2>1, <2>2, <3>1
  <2>. QED
    BY <1>9, <2>3, <2>4, HandlerMoves
<1>10. CASE InterfaceGone
  BY <1>10 DEF InterfaceGone
<1>11. CASE OutputCloses
  BY <1>11 DEF OutputCloses
<1>12. ASSUME NEW p \in Packets, Arrive(p) PROVE CauseInv'
  BY <1>12 DEF Arrive
<1>13. CASE UNCHANGED vars
  BY <1>13 DEF vars
<1>. QED
  BY <1>1, <1>2, <1>3, <1>4, <1>5, <1>6, <1>7, <1>8, <1>9, <1>10, <1>11, <1>12, <1>13
  DEF Next, Loop, Beside

LEMMA CauseAlways == Spec => []CauseInv
<1>. QED
  BY CauseInit, CauseStep, TypeCorrect, PTL DEF Spec

(* Ctrl+C is never mistaken for the end of the source, and a file is only  *)
(* said to have ended once all of it was read.                             *)
THEOREM InterruptsAreReported == Spec => []InterruptNeverMisreported
<1>1. CauseInv => InterruptNeverMisreported
  BY DEF CauseInv
<1>. QED
  BY <1>1, CauseAlways, PTL

(* Whatever reason a run reports did happen.                               *)
THEOREM ReasonsAreTrue == Spec => []ReasonIsTheCause
<1>1. CauseInv => ReasonIsTheCause
  BY DEF CauseInv
<1>. QED
  BY <1>1, CauseAlways, PTL

-----------------------------------------------------------------------------
(* Stopping at the next packet                                             *)

(* A late packet leads back to the check, and the check ends the run.      *)
LateInv == late = 0 \/ (late = 1 /\ interrupted /\ pc \in {"check", "done"})

LEMMA LateStep == TypeOK /\ LateInv /\ [Next]_vars => LateInv'
<1>. SUFFICES ASSUME TypeOK, LateInv, [Next]_vars PROVE LateInv'
  OBVIOUS
<1>. USE DEF worldVars, handlerVars, bookVars, LateInv, interrupted, live
<1>1. CASE CheckStop
  BY <1>1 DEF CheckStop, Finish, GoTo
<1>2. CASE ReadPacket
  <2>1. /\ pc = "reading"
        /\ late' = IF interrupted THEN late + 1 ELSE late
        /\ UNCHANGED <<config, stop>>
    BY <1>2 DEF ReadPacket
  <2>2. pc' \in {"check", "done"}
    BY <1>2, PacketVerdict
  <2>. QED
    BY <2>1, <2>2
<1>3. CASE ReadTimeout
  BY <1>3 DEF ReadTimeout, GoTo
<1>4. CASE ReadEndOfFile
  BY <1>4 DEF ReadEndOfFile, GoTo
<1>5. CASE ReadFailure
  BY <1>5 DEF ReadFailure, Finish
<1>6. CASE NoMorePackets
  BY <1>6 DEF NoMorePackets, Finish
<1>7. CASE ReadBroken
  BY <1>7 DEF ReadBroken, GoTo
<1>8. CASE Signal
  BY <1>8 DEF Signal
<1>9. CASE HandlerStep
  <2>1. UNCHANGED <<config, pc, late>>
    BY <1>9 DEF HandlerStep
  <2>. QED
    BY <1>9, <2>1, HandlerMoves
<1>10. CASE InterfaceGone
  BY <1>10 DEF InterfaceGone
<1>11. CASE OutputCloses
  BY <1>11 DEF OutputCloses
<1>12. ASSUME NEW p \in Packets, Arrive(p) PROVE LateInv'
  BY <1>12 DEF Arrive
<1>13. CASE UNCHANGED vars
  BY <1>13 DEF vars
<1>. QED
  BY <1>1, <1>2, <1>3, <1>4, <1>5, <1>6, <1>7, <1>8, <1>9, <1>10, <1>11, <1>12, <1>13
  DEF Next, Loop, Beside

(* However fast packets arrive and wherever the flag is raised, at most    *)
(* one packet is still taken.                                              *)
THEOREM StopsAtTheNextPacket == Spec => []AtMostOneLatePacket
<1>1. Init => LateInv
  BY DEF Init, LateInv
<1>2. LateInv => AtMostOneLatePacket
  BY DEF LateInv, AtMostOneLatePacket
<1>. QED
  BY <1>1, <1>2, LateStep, TypeCorrect, PTL DEF Spec
-----------------------------------------------------------------------------
(* The books agree                                                         *)

(* Only reading a packet touches the books.                                *)
LEMMA BooksOnlyByPacket ==
  ASSUME [Next]_vars
  PROVE  /\ config' = config
         /\ ReadPacket \/ UNCHANGED bookVars
<1>. USE DEF worldVars, handlerVars, bookVars
<1>1. CASE Loop \/ ReadBroken
  BY <1>1 DEF Loop, CheckStop, ReadPacket, ReadTimeout, ReadEndOfFile, ReadFailure,
              NoMorePackets, ReadBroken
<1>2. CASE Beside
  BY <1>2 DEF Beside, Signal, HandlerStep, InterfaceGone, OutputCloses, Arrive
<1>3. CASE UNCHANGED vars
  BY <1>3 DEF vars
<1>. QED
  BY <1>1, <1>2, <1>3 DEF Next

LEMMA TakenStep ==
  ASSUME TypeOK, ReadPacket
  PROVE  /\ Len(taken) \in Nat
         /\ Len(taken') = Len(taken) + 1
         /\ taken'[Len(taken) + 1] = ThePacket
         /\ \A i \in 1 .. Len(taken) : taken'[i] = taken[i]
<1>1. /\ taken \in Seq(Packets)
      /\ ThePacket \in Packets /\ taken' = Append(taken, ThePacket)
  BY PacketStep DEF TypeOK
<1>. QED
  BY <1>1, AppendProperties, LenProperties

(* One more packet, counted with saturation.                               *)
LEMMA CountStep ==
  ASSUME TypeOK, SavedIsWhatWasCounted, ReadPacket
  PROVE  tally'.packets = Saturate(Len(taken) + 1)
<1>1. tally'.packets = saturating_add(tally.packets, 1)
  BY PacketStep DEF NewTotals, AddPacket
<1>2. tally.packets = Saturate(Len(taken))
  BY DEF SavedIsWhatWasCounted
<1>. QED
  BY <1>1, <1>2, TakenStep, SaturateStep

LEMMA SavedStep == TypeOK /\ SavedIsWhatWasCounted /\ [Next]_vars => SavedIsWhatWasCounted'
<1>. SUFFICES ASSUME TypeOK, SavedIsWhatWasCounted, [Next]_vars
              PROVE  SavedIsWhatWasCounted'
  OBVIOUS
<1>1. CASE ReadPacket
  <2>1. config' = config
    BY BooksOnlyByPacket
  <2>2. tally'.packets = Saturate(Len(taken'))
    BY <1>1, CountStep, TakenStep
  <2>3. config.saving => sink' = taken'
    BY <1>1, PacketStep DEF SavedIsWhatWasCounted
  <2>4. ~ config.saving => sink' = << >>
    BY <1>1, PacketStep DEF SavedIsWhatWasCounted
  <2>. QED
    BY <2>1, <2>2, <2>3, <2>4 DEF SavedIsWhatWasCounted, Saturate
<1>2. CASE UNCHANGED bookVars
  BY <1>2, BooksOnlyByPacket DEF bookVars, SavedIsWhatWasCounted, Saturate
<1>. QED
  BY <1>1, <1>2, BooksOnlyByPacket

(* The saved file and the summary never disagree, however the run ends.    *)
THEOREM SavedMatchesSummary == Spec => []SavedIsWhatWasCounted
<1>1. Init => SavedIsWhatWasCounted
  <2>. SUFFICES ASSUME Init PROVE SavedIsWhatWasCounted
    OBVIOUS
  <2>1. Len(taken) = 0 /\ tally.packets = 0 /\ sink = << >> /\ taken = << >>
    BY DEF Init, ZeroTotals
  <2>. QED
    BY <2>1, CounterMaxAssumption DEF SavedIsWhatWasCounted, Saturate
<1>. QED
  BY <1>1, SavedStep, TypeCorrect, PTL DEF Spec

LEMMA ShownStep ==
  TypeOK /\ SavedIsWhatWasCounted /\ CauseInv /\ ShownInOrder /\ [Next]_vars => ShownInOrder'
<1>. SUFFICES ASSUME TypeOK, SavedIsWhatWasCounted, CauseInv, ShownInOrder, [Next]_vars
              PROVE  ShownInOrder'
  OBVIOUS
<1>1. CASE ReadPacket
  <2>1. stop_reason = "None" /\ Len(handed) = Len(taken)
    BY <1>1 DEF ReadPacket, CauseInv, ReasonIsTheCause, ShownInOrder
  <2>2. CASE on_packet_fails
    <3>1. handed' = handed /\ stop_reason' = "OutputClosed"
      BY <1>1, <2>2, PacketVerdict
    <3>2. \A i \in 1 .. Len(handed) : taken'[i] = taken[i]
      BY <1>1, <2>1, TakenStep
    <3>3. Len(handed') = Len(taken') - 1
      BY <1>1, <2>1, <3>1, TakenStep
    <3>4. \A i \in 1 .. Len(handed) : /\ handed[i].packet = taken[i]
                                      /\ handed[i].number = Saturate(i)
      BY DEF ShownInOrder
    <3>. QED
      BY <3>1, <3>2, <3>3, <3>4 DEF ShownInOrder, Saturate
  <2>3. CASE ~ on_packet_fails
    <3>. DEFINE entry == [number |-> NewTotals.packets, packet |-> ThePacket]
    <3>1. handed' = Append(handed, entry) /\ stop_reason' \in {"None", "CountReached"}
      BY <1>1, <2>1, <2>3, PacketVerdict
    <3>2. entry \in Handed /\ handed \in Seq(Handed)
      BY <1>1, PacketStep DEF TypeOK, Handed, Totals
    <3>3. /\ Len(handed') = Len(handed) + 1
          /\ handed'[Len(handed) + 1] = entry
          /\ \A i \in 1 .. Len(handed) : handed'[i] = handed[i]
      BY <3>1, <3>2, AppendProperties
    <3>4. entry.number = Saturate(Len(taken) + 1) /\ entry.packet = ThePacket
      BY <1>1, CountStep, PacketStep
    <3>. HIDE DEF entry
    <3>5. ASSUME NEW i \in 1 .. Len(handed')
          PROVE  handed'[i].packet = taken'[i] /\ handed'[i].number = Saturate(i)
      <4>1. i \in 1 .. Len(handed) \/ i = Len(handed) + 1
        BY <3>3, <2>1, <1>1, TakenStep
      <4>2. CASE i \in 1 .. Len(handed)
        BY <4>2, <3>3, <1>1, <2>1, TakenStep DEF ShownInOrder
      <4>3. CASE i = Len(handed) + 1
        BY <4>3, <3>3, <3>4, <1>1, <2>1, TakenStep
      <4>. QED
        BY <4>1, <4>2, <4>3
    <3>6. Len(handed') = Len(taken')
      BY <1>1, <2>1, <3>3, TakenStep
    <3>. QED
      BY <3>1, <3>5, <3>6 DEF ShownInOrder, Saturate
  <2>. QED
    BY <2>2, <2>3
<1>2. CASE ~ ReadPacket /\ UNCHANGED bookVars
  <2>1. stop_reason' = "OutputClosed" <=> stop_reason = "OutputClosed"
    <3>1. CASE Loop \/ ReadBroken
      BY <3>1, <1>2 DEF Loop, CheckStop, ReadTimeout, ReadEndOfFile, ReadFailure,
        NoMorePackets, ReadBroken, Finish, GoTo, CauseInv, ReasonIsTheCause
    <3>2. CASE Beside
      BY <3>2 DEF Beside, Signal, HandlerStep, InterfaceGone, OutputCloses, Arrive
    <3>3. CASE UNCHANGED vars
      BY <3>3 DEF vars
    <3>. QED
      BY <3>1, <3>2, <3>3 DEF Next
  <2>. QED
    BY <1>2, <2>1 DEF bookVars, ShownInOrder, Saturate
<1>. QED
  BY <1>1, <1>2, BooksOnlyByPacket

(* Every packet read is handed on under its own number, with no gap and no *)
(* repetition; only the one whose line failed is missing.                  *)
THEOREM NumbersHaveNoGaps == Spec => []ShownInOrder
<1>1. Init => ShownInOrder
  BY DEF Init, ShownInOrder
<1>. QED
  BY <1>1, ShownStep, SavedMatchesSummary, CauseAlways, TypeCorrect, PTL DEF Spec

-----------------------------------------------------------------------------
(* The limit                                                               *)

LimitInv ==
  /\ NeverOverLimit
  /\ pc # "done" => \A n \in config.limit : Len(taken) < n \/ Len(taken) = 0

LEMMA LimitType ==
  ASSUME TypeOK, NEW n \in config.limit
  PROVE  n \in Counter
<1>1. config.limit \in Limits
  BY DEF TypeOK, Config
<1>2. config.limit \in {{}} \cup {{m} : m \in Counter}
  BY <1>1, PumpAssumption
<1>. QED
  BY <1>2

LEMMA LimitStep ==
  TypeOK /\ SavedIsWhatWasCounted /\ LimitInv /\ [Next]_vars => LimitInv'
<1>. SUFFICES ASSUME TypeOK, SavedIsWhatWasCounted, LimitInv, [Next]_vars
              PROVE  LimitInv'
  OBVIOUS
<1>1. config' = config
  BY BooksOnlyByPacket
<1>2. CASE ReadPacket
  <2>1. pc # "done" /\ Len(taken) \in Nat /\ Len(taken') = Len(taken) + 1
    BY <1>2, TakenStep DEF ReadPacket
  <2>2. ASSUME NEW n \in config.limit
        PROVE  Len(taken') <= IF n = 0 THEN 1 ELSE n
    BY <2>1, <2>2, LimitType DEF LimitInv, Counter
  <2>3. ASSUME NEW n \in config.limit, pc' # "done"
        PROVE  Len(taken') < n
    <3>1. ~ limit_reached(NewTotals)
      BY <1>2, <2>3, PacketVerdict
    <3>2. NewTotals.packets = Saturate(Len(taken) + 1)
      BY <1>2, CountStep, PacketStep
    <3>3. ~ (Saturate(Len(taken) + 1) >= n)
      BY <3>1, <3>2 DEF limit_reached
    <3>. QED
      BY <2>1, <3>3, LimitType, CounterMaxAssumption DEF Saturate, Counter
  <2>. QED
    BY <1>1, <2>2, <2>3 DEF LimitInv, NeverOverLimit
<1>3. CASE UNCHANGED bookVars
  <2>1. pc = "done" => pc' = "done"
    <3>1. CASE Loop \/ ReadBroken
      BY <3>1 DEF Loop, CheckStop, ReadPacket, ReadTimeout, ReadEndOfFile, ReadFailure,
        NoMorePackets, ReadBroken
    <3>2. CASE Beside
      BY <3>2 DEF Beside, Signal, HandlerStep, InterfaceGone, OutputCloses, Arrive
    <3>3. CASE UNCHANGED vars
      BY <3>3 DEF vars
    <3>. QED
      BY <3>1, <3>2, <3>3 DEF Next
  <2>. QED
    BY <1>1, <1>3, <2>1 DEF bookVars, LimitInv, NeverOverLimit
<1>. QED
  BY <1>2, <1>3, BooksOnlyByPacket

(* A run with a limit N >= 1 never reads a packet past the N-th, even when *)
(* N is the largest number its counter can hold.                           *)
THEOREM LimitHolds == Spec => []NeverOverLimit
<1>1. Init => LimitInv
  <2>. SUFFICES ASSUME Init PROVE LimitInv
    OBVIOUS
  <2>1. Len(taken) = 0 /\ TypeOK
    BY TypeInit DEF Init
  <2>. QED
    BY <2>1, LimitType DEF LimitInv, NeverOverLimit, Counter
<1>2. LimitInv => NeverOverLimit
  BY DEF LimitInv
<1>. QED
  BY <1>1, <1>2, LimitStep, SavedMatchesSummary, TypeCorrect, PTL DEF Spec

-----------------------------------------------------------------------------
(* The promise of Run                                                      *)

(* What a step of the pump is seen to do, by kind of step.                 *)
RunInv ==
  /\ TypeOK /\ CauseInv /\ LateInv /\ SavedIsWhatWasCounted /\ ShownInOrder
  /\ ~ live => ~ stop

(* A file read is never asked to stop.                                     *)
LEMMA FileNeverAsked ==
  TypeOK /\ CauseInv /\ (~ live => ~ stop) /\ [Next]_vars => (~ live => ~ stop)'
<1>. SUFFICES ASSUME TypeOK, CauseInv, ~ live => ~ stop, [Next]_vars
              PROVE  (~ live => ~ stop)'
  OBVIOUS
<1>1. config' = config
  BY BooksOnlyByPacket
<1>2. stop' = stop \/ handler # << >>
  <2>. USE DEF worldVars, handlerVars, bookVars
  <2>1. CASE Loop \/ ReadBroken
    BY <2>1 DEF Loop, CheckStop, ReadPacket, ReadTimeout, ReadEndOfFile, ReadFailure,
                NoMorePackets, ReadBroken
  <2>2. CASE Beside
    BY <2>2 DEF Beside, Signal, HandlerStep, InterfaceGone, OutputCloses, Arrive
  <2>3. CASE UNCHANGED vars
    BY <2>3 DEF vars
  <2>. QED
    BY <2>1, <2>2, <2>3 DEF Next
<1>. QED
  BY <1>1, <1>2 DEF CauseInv, BreakFollowsFlag, live

LEMMA RunAlways == Spec => []RunInv
<1>1. Init => (~ live => ~ stop)
  BY DEF Init
<1>2. Init => LateInv
  BY DEF Init, LateInv
<1>3. TypeOK /\ CauseInv /\ LateInv /\ SavedIsWhatWasCounted /\ ShownInOrder
        /\ (~ live => ~ stop) <=> RunInv
  BY DEF RunInv
<1>. QED
  BY <1>1, <1>2, <1>3, FileNeverAsked, LateStep, TypeCorrect, CauseAlways,
     SavedMatchesSummary, NumbersHaveNoGaps, PTL DEF Spec

LEMMA PromisedStart == Init => Promised!StartRun
<1>. SUFFICES ASSUME Init PROVE Promised!StartRun
  OBVIOUS
<1>1. TypeOK
  BY TypeInit
<1>2. config \in [source: {"live", "file"}, limit: Limits, saving: BOOLEAN, listing: BOOLEAN]
  BY <1>1 DEF TypeOK, Config, Source
<1>3. Len(handed) = 0
  BY DEF Init
<1>. QED
  BY <1>1, <1>2, <1>3 DEF Init, TypeOK, live, Promised!StartRun, Promised!isLive

(* A packet, however many books it goes through, is taken whole.           *)
LEMMA TakenWhole == RunInv /\ ReadPacket => Promised!Take
<1>. SUFFICES ASSUME RunInv, ReadPacket PROVE Promised!Take
  OBVIOUS
<1>. USE DEF RunInv
<1>1. /\ stop_reason = "None" /\ pc = "reading" /\ pending # << >> /\ pending' = Tail(pending)
      /\ taken' = Append(taken, Head(pending))
      /\ UNCHANGED <<config, broken, outlet, stop>>
  BY DEF ReadPacket, worldVars, handlerVars, CauseInv, ReasonIsTheCause
<1>2. sink' = IF config.saving THEN taken' ELSE << >>
  BY PacketStep DEF SavedIsWhatWasCounted, ThePacket
<1>3. late = 0 /\ late' = IF stop THEN 1 ELSE late
  BY <1>1 DEF ReadPacket, LateInv, interrupted
<1>4. Len(handed) = Len(taken) /\ Len(taken') = Len(taken) + 1 /\ Len(taken) \in Nat
  BY <1>1, TakenStep DEF ShownInOrder
<1>5. CASE on_packet_fails
  <2>1. stop_reason' = "OutputClosed" /\ handed' = handed
    BY <1>5, PacketVerdict
  <2>. QED
    BY <1>1, <1>2, <1>3, <1>5, <2>1 DEF on_packet_fails, Promised!Take
<1>6. CASE ~ on_packet_fails
  <2>. DEFINE entry == [number |-> NewTotals.packets, packet |-> ThePacket]
  <2>1. handed' = Append(handed, entry)
    BY <1>6, PacketVerdict
  <2>2. Len(handed') = Len(taken')
    <3>1. handed \in Seq(Handed) /\ entry \in Handed
      BY PacketStep DEF TypeOK, Handed, Totals
    <3>. QED
      BY <1>4, <2>1, <3>1, AppendProperties
  <2>3. limit_reached(NewTotals) <=> \E n \in config.limit : Len(taken') >= n
    <3>1. NewTotals.packets = Saturate(Len(taken'))
      BY <1>4, CountStep, PacketStep
    <3>2. ASSUME NEW n \in config.limit
          PROVE  NewTotals.packets >= n <=> Len(taken') >= n
      <4>1. n \in Counter
        BY PumpAssumption DEF TypeOK, Config
      <4>. QED
        BY <1>4, <3>1, <4>1, CounterMaxAssumption DEF Saturate, Counter
    <3>. QED
      BY <3>2 DEF limit_reached
  <2>4. stop_reason' = IF \E n \in config.limit : Len(taken') >= n
                         THEN "CountReached" ELSE "None"
    <3>1. CASE limit_reached(NewTotals)
      BY <1>6, <2>3, <3>1, PacketVerdict
    <3>2. CASE ~ limit_reached(NewTotals)
      BY <1>1, <1>6, <2>3, <3>2, PacketVerdict
    <3>. QED
      BY <3>1, <3>2
  <2>. QED
    BY <1>1, <1>2, <1>3, <1>6, <2>2, <2>4 DEF on_packet_fails, Promised!Take
<1>. QED
  BY <1>5, <1>6

LEMMA PromisedStep == RunInv /\ [Next]_vars => [Promised!RunNext]_(Promised!runVars)
<1>. SUFFICES ASSUME RunInv, [Next]_vars PROVE [Promised!RunNext]_(Promised!runVars)
  OBVIOUS
<1>. USE DEF RunInv, worldVars, handlerVars, bookVars, Promised!runVars, Promised!world,
             Promised!promise
<1>1. CASE CheckStop
  <2>1. CASE interrupted /\ Finish("Interrupted")
    <3>1. stop_reason = "None"
      BY <1>1 DEF CheckStop, CauseInv, ReasonIsTheCause
    <3>2. Promised!End("Interrupted")
      BY <1>1, <2>1, <3>1
      DEF CheckStop, Finish, interrupted, live, Promised!End, Promised!isLive
    <3>. QED
      BY <3>2 DEF Promised!RunNext
  <2>2. CASE GoTo("reading")
    BY <1>1, <2>2 DEF CheckStop, GoTo
  <2>. QED
    BY <1>1, <2>1, <2>2 DEF CheckStop
<1>2. CASE ReadPacket
  BY <1>2, TakenWhole DEF Promised!RunNext
<1>3. CASE ReadTimeout \/ ReadEndOfFile \/ ReadBroken
  BY <1>3 DEF ReadTimeout, ReadEndOfFile, ReadBroken, GoTo
<1>4. CASE ReadFailure
  <2>1. stop_reason = "None"
    BY <1>4 DEF ReadFailure, CauseInv, ReasonIsTheCause
  <2>2. Promised!End("ReadFailed")
    BY <1>4, <2>1 DEF ReadFailure, Finish, live, Promised!End, Promised!isLive
  <2>. QED
    BY <2>2 DEF Promised!RunNext
<1>5. CASE NoMorePackets
  <2>1. stop_reason = "None"
    BY <1>5 DEF NoMorePackets, CauseInv, ReasonIsTheCause
  <2>2. CASE interrupted
    <3>1. Promised!End("Interrupted")
      BY <1>5, <2>1, <2>2
      DEF NoMorePackets, Finish, interrupted, live, Promised!End, Promised!isLive
    <3>. QED
      BY <3>1 DEF Promised!RunNext
  <2>3. CASE ~ interrupted
    <3>1. ~ live /\ pending = << >> /\ ~ broken
      BY <1>5, <2>3 DEF NoMorePackets, interrupted, CauseInv, BreakFollowsFlag
    <3>2. Promised!End("SourceEnded")
      BY <1>5, <2>1, <2>3, <3>1
      DEF NoMorePackets, Finish, live, Promised!End, Promised!isLive
    <3>. QED
      BY <3>2 DEF Promised!RunNext
  <2>. QED
    BY <2>2, <2>3
<1>6. CASE Signal
  BY <1>6 DEF Signal
<1>7. CASE HandlerStep
  <2>1. /\ stop' \in {stop, TRUE}
        /\ UNCHANGED <<config, pending, broken, outlet, stop_reason, sink, handed, taken, late>>
    BY <1>7 DEF HandlerStep
  <2>2. live
    BY <1>7 DEF HandlerStep, CauseInv, BreakFollowsFlag
  <2>3. stop' = stop \/ Promised!Ask
    BY <2>1, <2>2 DEF live, Promised!Ask, Promised!isLive
  <2>. QED
    BY <2>1, <2>3 DEF Promised!RunNext
<1>8. CASE InterfaceGone
  <2>1. Promised!Fail
    BY <1>8 DEF InterfaceGone, live, Promised!Fail, Promised!isLive
  <2>. QED
    BY <2>1 DEF Promised!RunNext
<1>9. CASE OutputCloses
  <2>1. Promised!Close
    BY <1>9 DEF OutputCloses, Promised!Close
  <2>. QED
    BY <2>1 DEF Promised!RunNext
<1>10. ASSUME NEW p \in Packets, Arrive(p) PROVE Promised!Deliver
  BY <1>10 DEF Arrive, live, Promised!Deliver, Promised!isLive
<1>11. CASE \E p \in Packets : Arrive(p)
  BY <1>10, <1>11 DEF Promised!RunNext
<1>12. CASE UNCHANGED vars
  BY <1>12 DEF vars
<1>. QED
  BY <1>1, <1>2, <1>3, <1>4, <1>5, <1>6, <1>7, <1>8, <1>9, <1>11, <1>12
  DEF Next, Loop, Beside

(* The pump with its loop, its two threads and its flags implements the    *)
(* abstract run: packets whole and in order, one true reason, and no more  *)
(* than one packet after Ctrl+C.                                           *)
THEOREM PumpKeepsThePromise == Spec => KeepsThePromise
<1>. QED
  BY PromisedStart, PromisedStep, RunAlways, PTL DEF Spec, KeepsThePromise, Promised!RunSpec

-----------------------------------------------------------------------------
(* What the books say of the packets                                       *)

Caplens == [i \in DOMAIN taken |-> taken[i].caplen]
Wirelens == [i \in DOMAIN taken |-> taken[i].wirelen]

(* The two byte counters are sums over all packets read, cut off at their  *)
(* greatest value; the span is that of the first and the last of them.     *)
BytesInv ==
  /\ tally.captured_bytes = Saturate(SumFunction(Caplens))
  /\ tally.wire_bytes = Saturate(SumFunction(Wirelens))

SpanInv ==
  /\ Len(taken) = 0 => span = EmptySpan
  /\ Len(taken) > 0 => /\ span.first = {taken[1].timestamp}
                       /\ span.last = {taken[Len(taken)].timestamp}

(* Nobody asks the run to stop but the user.                               *)
AskedInv == (stop \/ handler # << >>) => signals > 0

LEMMA TakenPackets ==
  ASSUME TypeOK
  PROVE  /\ Len(taken) \in Nat /\ DOMAIN taken = 1 .. Len(taken)
         /\ \A i \in 1 .. Len(taken) : /\ taken[i].timestamp \in PacketTimestamp
                                       /\ taken[i].caplen \in Nat
                                       /\ taken[i].wirelen \in Nat
<1>1. taken \in Seq(Packets)
  BY DEF TypeOK
<1>2. Len(taken) \in Nat /\ DOMAIN taken = 1 .. Len(taken)
  BY <1>1, LenProperties
<1>3. \A i \in 1 .. Len(taken) : taken[i] \in Packets
  BY <1>1, ElementOfSeq
<1>. QED
  BY <1>2, <1>3, PumpAssumption

(* A sum over a list that grows at its end.                                *)
LEMMA SumOfOneMore ==
  ASSUME NEW n \in Nat, NEW f, NEW g, DOMAIN f = 1 .. n, DOMAIN g = 1 .. (n + 1),
         \A i \in 1 .. n : f[i] \in Nat /\ g[i] = f[i], g[n + 1] \in Nat
  PROVE  SumFunction(f) \in Nat /\ SumFunction(g) = g[n + 1] + SumFunction(f)
<1>1. IsFiniteSet(1 .. n)
  BY FS_Interval
<1>2. 1 .. (n + 1) = (1 .. n) \cup {n + 1} /\ n + 1 \notin 1 .. n
  OBVIOUS
<1>. QED
  BY <1>1, <1>2, SumGrows

LEMMA BytesStep == TypeOK /\ BytesInv /\ [Next]_vars => BytesInv'
<1>. SUFFICES ASSUME TypeOK, BytesInv, [Next]_vars PROVE BytesInv'
  OBVIOUS
<1>1. CASE ReadPacket
  <2>. DEFINE n == Len(taken)
  <2>1. /\ n \in Nat /\ DOMAIN taken = 1 .. n
        /\ \A i \in 1 .. n : taken[i].caplen \in Nat /\ taken[i].wirelen \in Nat
    BY TakenPackets
  <2>2. /\ Len(taken') = n + 1
        /\ taken'[n + 1] = ThePacket
        /\ \A i \in 1 .. n : taken'[i] = taken[i]
    BY <1>1, TakenStep
  <2>3. ThePacket.caplen \in Nat /\ ThePacket.wirelen \in Nat
    BY <1>1, PacketStep, PumpAssumption
  <2>4. DOMAIN taken' = 1 .. (n + 1)
    <3>1. TypeOK'
      BY TypeStep
    <3>2. taken' \in Seq(Packets)
      BY <3>1 DEF TypeOK
    <3>. QED
      BY <2>2, <3>2, LenProperties
  <2>5. /\ SumFunction(Caplens) \in Nat
        /\ SumFunction(Caplens') = ThePacket.caplen + SumFunction(Caplens)
    <3>1. DOMAIN Caplens = 1 .. n /\ DOMAIN Caplens' = 1 .. (n + 1)
      BY <2>1, <2>4 DEF Caplens
    <3>2. \A i \in 1 .. n : Caplens[i] \in Nat /\ Caplens'[i] = Caplens[i]
      BY <2>1, <2>2, <2>4 DEF Caplens
    <3>3. Caplens'[n + 1] = ThePacket.caplen
      BY <2>1, <2>2, <2>4 DEF Caplens
    <3>. HIDE DEF n
    <3>. QED
      BY <2>1, <2>3, <3>1, <3>2, <3>3, SumOfOneMore, SMTT(30)
  <2>6. /\ SumFunction(Wirelens) \in Nat
        /\ SumFunction(Wirelens') = ThePacket.wirelen + SumFunction(Wirelens)
    <3>1. DOMAIN Wirelens = 1 .. n /\ DOMAIN Wirelens' = 1 .. (n + 1)
      BY <2>1, <2>4 DEF Wirelens
    <3>2. \A i \in 1 .. n : Wirelens[i] \in Nat /\ Wirelens'[i] = Wirelens[i]
      BY <2>1, <2>2, <2>4 DEF Wirelens
    <3>3. Wirelens'[n + 1] = ThePacket.wirelen
      BY <2>1, <2>2, <2>4 DEF Wirelens
    <3>. HIDE DEF n
    <3>. QED
      BY <2>1, <2>3, <3>1, <3>2, <3>3, SumOfOneMore, SMTT(30)
  <2>7. /\ tally'.captured_bytes = saturating_add(tally.captured_bytes, ThePacket.caplen)
        /\ tally'.wire_bytes = saturating_add(tally.wire_bytes, ThePacket.wirelen)
    BY <1>1, PacketStep DEF NewTotals, AddPacket
  <2>8. /\ saturating_add(tally.captured_bytes, ThePacket.caplen) = Saturate(SumFunction(Caplens'))
        /\ saturating_add(tally.wire_bytes, ThePacket.wirelen) = Saturate(SumFunction(Wirelens'))
    BY <2>3, <2>5, <2>6, SaturateAdd DEF BytesInv
  <2>. QED
    BY <2>7, <2>8 DEF BytesInv, Saturate
<1>2. CASE UNCHANGED bookVars
  BY <1>2 DEF bookVars, BytesInv, Caplens, Wirelens, Saturate
<1>. QED
  BY <1>1, <1>2, BooksOnlyByPacket

LEMMA SpanStep == TypeOK /\ SpanInv /\ [Next]_vars => SpanInv'
<1>. SUFFICES ASSUME TypeOK, SpanInv, [Next]_vars PROVE SpanInv'
  OBVIOUS
<1>1. CASE ReadPacket
  <2>1. span' = SpanRecord(span, ThePacket.timestamp)
    BY <1>1 DEF ReadPacket, ThePacket
  <2>2. /\ Len(taken) \in Nat /\ Len(taken') = Len(taken) + 1
        /\ taken'[Len(taken) + 1] = ThePacket
        /\ \A i \in 1 .. Len(taken) : taken'[i] = taken[i]
    BY <1>1, TakenStep
  <2>3. span'.last = {taken'[Len(taken')].timestamp}
    BY <2>1, <2>2 DEF SpanRecord
  <2>4. span'.first = {taken'[1].timestamp}
    <3>1. CASE Len(taken) = 0
      BY <2>1, <2>2, <3>1 DEF SpanRecord, SpanInv, EmptySpan
    <3>2. CASE Len(taken) > 0
      BY <2>1, <2>2, <3>2, SMTT(30) DEF SpanRecord, SpanInv
    <3>. QED
      BY <2>2, <3>1, <3>2
  <2>. QED
    BY <2>2, <2>3, <2>4 DEF SpanInv
<1>2. CASE UNCHANGED bookVars
  BY <1>2 DEF bookVars, SpanInv
<1>. QED
  BY <1>1, <1>2, BooksOnlyByPacket

LEMMA AskedStep == TypeOK /\ AskedInv /\ [Next]_vars => AskedInv'
<1>. SUFFICES ASSUME TypeOK, AskedInv, [Next]_vars PROVE AskedInv'
  OBVIOUS
<1>. USE DEF worldVars, handlerVars, bookVars, AskedInv
<1>1. CASE Loop \/ ReadBroken
  BY <1>1 DEF Loop, CheckStop, ReadPacket, ReadTimeout, ReadEndOfFile, ReadFailure,
              NoMorePackets, ReadBroken
<1>2. CASE Signal
  BY <1>2 DEF Signal, TypeOK
<1>3. CASE HandlerStep
  BY <1>3 DEF HandlerStep
<1>4. CASE InterfaceGone \/ OutputCloses \/ \E p \in Packets : Arrive(p)
  BY <1>4 DEF InterfaceGone, OutputCloses, Arrive
<1>5. CASE UNCHANGED vars
  BY <1>5 DEF vars
<1>. QED
  BY <1>1, <1>2, <1>3, <1>4, <1>5 DEF Next, Beside

LEMMA BooksStart == Init => BytesInv /\ SpanInv /\ AskedInv
<1>. SUFFICES ASSUME Init PROVE BytesInv /\ SpanInv /\ AskedInv
  OBVIOUS
<1>1. /\ Len(taken) = 0 /\ DOMAIN taken = {}
      /\ tally.captured_bytes = 0 /\ tally.wire_bytes = 0
      /\ span = EmptySpan /\ ~ stop /\ handler = << >>
  BY DEF Init, ZeroTotals
<1>2. SumFunction(Caplens) = 0 /\ SumFunction(Wirelens) = 0
  <2>1. DOMAIN Caplens = {} /\ DOMAIN Wirelens = {}
    BY <1>1 DEF Caplens, Wirelens
  <2>. QED
    BY <2>1, SumOfNothing
<1>3. Saturate(0) = 0
  BY CounterMaxAssumption DEF Saturate
<1>. QED
  BY <1>1, <1>2, <1>3 DEF BytesInv, SpanInv, AskedInv

-----------------------------------------------------------------------------
(* What a summary says of them                                             *)

(* All the theorems above, and what the summary needs besides.             *)
TellInv ==
  /\ TypeOK /\ CauseInv /\ SavedIsWhatWasCounted /\ NeverOverLimit
  /\ BytesInv /\ SpanInv /\ AskedInv

LEMMA TellAlways == Spec => []TellInv
<1>1. TypeOK /\ CauseInv /\ SavedIsWhatWasCounted /\ NeverOverLimit
        /\ BytesInv /\ SpanInv /\ AskedInv <=> TellInv
  BY DEF TellInv
<1>. QED
  BY <1>1, BooksStart, BytesStep, SpanStep, AskedStep, TypeCorrect, CauseAlways,
     SavedMatchesSummary, LimitHolds, PTL DEF Spec

(* The phrases are told apart.                                             *)
LEMMA PhraseTellsReason ==
  ASSUME NEW reason \in StopReason
  PROVE  /\ stop_reason_phrase(reason) = "packet count reached" <=> reason = "CountReached"
         /\ stop_reason_phrase(reason) = "interrupted by user" <=> reason = "Interrupted"
         /\ stop_reason_phrase(reason) = "capture source ended" <=> reason = "SourceEnded"
         /\ stop_reason_phrase(reason) = "output closed" <=> reason = "OutputClosed"
         /\ stop_reason_phrase(reason) = "could not read any further" <=> reason = "ReadFailed"
<1>1. CASE reason = "CountReached"
  <2>1. stop_reason_phrase(reason) = "packet count reached"
    BY <1>1, Zenon DEF stop_reason_phrase
  <2>. QED
    BY <1>1, <2>1
<1>2. CASE reason = "Interrupted"
  <2>1. stop_reason_phrase(reason) = "interrupted by user"
    BY <1>2, Zenon DEF stop_reason_phrase
  <2>. QED
    BY <1>2, <2>1
<1>3. CASE reason = "SourceEnded"
  <2>1. stop_reason_phrase(reason) = "capture source ended"
    BY <1>3, Zenon DEF stop_reason_phrase
  <2>. QED
    BY <1>3, <2>1
<1>4. CASE reason = "OutputClosed"
  <2>1. stop_reason_phrase(reason) = "output closed"
    BY <1>4, Zenon DEF stop_reason_phrase
  <2>. QED
    BY <1>4, <2>1
<1>5. CASE reason = "ReadFailed"
  <2>1. stop_reason_phrase(reason) = "could not read any further"
    BY <1>5, Zenon DEF stop_reason_phrase
  <2>. QED
    BY <1>5, <2>1
<1>. QED
  BY <1>1, <1>2, <1>3, <1>4, <1>5 DEF StopReason

(* A date, or the two raw numbers: either shows what was reported.         *)
LEMMA ShownAsReported ==
  ASSUME NEW t
  PROVE  ToldFrom(format_datetime(t), t)
<1>1. CASE to_utc(t) = {}
  BY <1>1 DEF format_datetime, ToldFrom
<1>2. CASE to_utc(t) # {}
  <2>. DEFINE date == [seconds |-> t.seconds, micros |-> t.microseconds]
  <2>1. IsPointInTime(t) /\ to_utc(t) = {date}
    BY <1>2 DEF to_utc
  <2>2. (CHOOSE d \in to_utc(t) : TRUE) = date
    BY <2>1
  <2>3. format_datetime(t) = [raw |-> FALSE, seconds |-> date.seconds, micros |-> date.micros]
    BY <1>2, <2>2 DEF format_datetime
  <2>. QED
    BY <2>1, <2>3 DEF ToldFrom
<1>. QED
  BY <1>1, <1>2

(* A duration is the one difference, or there is none.                     *)
LEMMA BetweenTwo ==
  ASSUME NEW t \in PacketTimestamp, NEW u \in PacketTimestamp
  PROVE  /\ Micros(u) - Micros(t) \in Int
         /\ Between(t, u) # {} => Between(t, u) = {Micros(u) - Micros(t)}
         /\ Between(t, u) # {} <=> /\ IsPointInTime(t) /\ IsPointInTime(u)
                                   /\ Micros(u) >= Micros(t)
                                   /\ ~ TooFarApart(t, u)
<1>1. Micros(u) \in Int /\ Micros(t) \in Int /\ DurationMax \in Int
  BY MicrosAssumption DEF Micros, PacketTimestamp
<1>2. CASE IsPointInTime(t) /\ IsPointInTime(u)
  <2>1. micros_since_epoch(u) = {Micros(u)} /\ micros_since_epoch(t) = {Micros(t)}
    BY <1>2 DEF micros_since_epoch
  <2>2. Between(t, u) =
          {d \in {Micros(u) - Micros(t)} : 0 <= d /\ d <= DurationMax}
    BY <2>1 DEF Between
  <2>. QED
    BY <1>1, <1>2, <2>2 DEF TooFarApart
<1>3. CASE ~ IsPointInTime(t) \/ ~ IsPointInTime(u)
  BY <1>1, <1>3 DEF Between, micros_since_epoch
<1>. QED
  BY <1>2, <1>3

LEMMA SpanDuration ==
  ASSUME NEW s, NEW f, NEW l, s.first = {f}, s.last = {l}
  PROVE  span_duration(s) = Between(f, l)
BY DEF span_duration

LEMMA SpanTells ==
  ASSUME TypeOK, SpanInv
  PROVE  SpanTellsWhenItCannotTell
<1>1. /\ Len(taken) \in Nat
      /\ \A i \in 1 .. Len(taken) : taken[i].timestamp \in PacketTimestamp
  BY TakenPackets
<1>2. CASE Len(taken) = 0
  <2>1. span.first = {} /\ span.last = {}
    BY <1>2 DEF SpanInv, EmptySpan
  <2>. QED
    BY <2>1 DEF SpanTellsWhenItCannotTell, is_monotonic
<1>3. CASE Len(taken) > 0
  <2>. DEFINE f == taken[1].timestamp
              l == taken[Len(taken)].timestamp
  <2>1. span.first = {f} /\ span.last = {l}
    BY <1>3 DEF SpanInv
  <2>2. f \in PacketTimestamp /\ l \in PacketTimestamp
    BY <1>1, <1>3
  <2>3. is_monotonic(span) <=> IsPointInTime(f) /\ IsPointInTime(l) /\ Micros(l) >= Micros(f)
    <3>. HIDE DEF f, l
    <3>. QED
      BY <2>1 DEF is_monotonic
  <2>4. span_duration(span) # {} <=> is_monotonic(span) /\ ~ TooFarApart(f, l)
    <3>. HIDE DEF f, l
    <3>. QED
      BY <2>1, <2>2, <2>3, SpanDuration, BetweenTwo
  <2>5. ASSUME \A i, j \in 1 .. Len(taken) :
                 i < j => TimeLeq(taken[i].timestamp, taken[j].timestamp),
               \A i \in 1 .. Len(taken) : IsPointInTime(taken[i].timestamp)
        PROVE  is_monotonic(span)
    <3>1. IsPointInTime(f) /\ IsPointInTime(l)
      BY <1>1, <1>3, <2>5
    <3>2. TimeLeq(f, l)
      <4>1. CASE Len(taken) = 1
        <5>1. f = l /\ f.microseconds \in Int
          BY <2>2, <4>1 DEF PacketTimestamp
        <5>. QED
          BY <5>1 DEF TimeLeq
      <4>2. CASE 1 < Len(taken)
        <5>1. 1 \in 1 .. Len(taken) /\ Len(taken) \in 1 .. Len(taken)
          BY <1>1, <1>3
        <5>. QED
          BY <2>5, <4>2, <5>1
      <4>. QED
        BY <1>1, <1>3, <4>1, <4>2
    <3>3. Micros(l) >= Micros(f)
      <4>1. Micros(l) \in Int /\ Micros(f) \in Int
        <5>1. /\ l.seconds \in Int /\ l.microseconds \in Int
              /\ f.seconds \in Int /\ f.microseconds \in Int
          BY <2>2 DEF PacketTimestamp
        <5>. HIDE DEF f, l
        <5>. QED
          BY <5>1, MicrosAssumption DEF Micros
      <4>2. Micros(l) - Micros(f) >= 0
        <5>. HIDE DEF f, l
        <5>. QED
          BY <2>2, <3>1, <3>2, OrderAgreesWithMicros
      <4>. QED
        BY <4>1, <4>2
    <3>. QED
      BY <2>3, <3>1, <3>3
  <2>6. \A g \in span.first, m \in span.last :
          span_duration(span) # {} <=> is_monotonic(span) /\ ~ TooFarApart(g, m)
    <3>. HIDE DEF f, l
    <3>. QED
      BY <2>1, <2>4
  <2>. QED
    BY <2>5, <2>6, Zenon DEF SpanTellsWhenItCannotTell
<1>. QED
  BY <1>1, <1>2, <1>3

(* A limit is none, or one number, which the header names.                 *)
LEMMA Announced ==
  ASSUME TypeOK
  PROVE  LET stops == header.stop_after
         IN  /\ stops.limited <=> config.limit # {}
             /\ \A n \in config.limit : stops.count = n
             /\ header.flow_mode <=> ~ config.listing
<1>1. header.stop_after = stop_after(config.limit) /\ header.flow_mode = ~ config.listing
  BY DEF header
<1>2. config.limit = {} \/ \E n \in Counter : config.limit = {n}
  BY PumpAssumption DEF TypeOK, Config
<1>3. CASE config.limit = {}
  <2>1. header.stop_after.limited = FALSE
    BY <1>1, <1>3 DEF stop_after, NoLimit
  <2>. QED
    BY <1>1, <1>3, <2>1
<1>4. ASSUME NEW n \in Counter, config.limit = {n}
      PROVE  header.stop_after.limited = TRUE /\ header.stop_after.count = n
  <2>1. header.stop_after = [limited |-> TRUE, count |-> CHOOSE m \in {n} : TRUE]
    BY <1>1, <1>4 DEF stop_after
  <2>. QED
    BY <2>1
<1>. QED
  BY <1>1, <1>2, <1>3, <1>4

LEMMA CountsAreSums ==
  ASSUME TellInv, NEW summary,
         summary.packets = tally.packets,
         summary.captured_bytes = tally.captured_bytes,
         summary.wire_bytes = tally.wire_bytes
  PROVE  CountsThePackets(summary)
BY DEF TellInv, CountsThePackets, SavedIsWhatWasCounted, BytesInv, Caplens, Wirelens

LEMMA EndsWhereItSaid ==
  ASSUME TellInv, stop_reason \in StopReason, NEW summary,
         summary.packets = tally.packets,
         summary.finished = stop_reason_phrase(stop_reason)
  PROVE  EndsAsAnnounced(summary)
<1>. DEFINE stops == header.stop_after
<1>1. /\ stops.limited <=> config.limit # {}
      /\ \A n \in config.limit : stops.count = n
      /\ header.flow_mode <=> ~ config.listing
  BY Announced DEF TellInv
<1>2. summary.finished = "packet count reached" => stop_reason = "CountReached"
  BY PhraseTellsReason
<1>3. summary.finished = "output closed" => stop_reason = "OutputClosed"
  BY PhraseTellsReason
<1>4. ReasonIsTheCause
  BY DEF TellInv, CauseInv
<1>5. ASSUME summary.finished = "packet count reached"
      PROVE  stops.limited /\ summary.packets >= stops.count
  <2>1. PICK n \in config.limit : tally.packets >= n
    BY <1>2, <1>4, <1>5 DEF ReasonIsTheCause, limit_reached
  <2>2. config.limit # {} /\ stops.count = n
    BY <1>1, <2>1
  <2>. HIDE DEF stops
  <2>. QED
    BY <1>1, <2>1, <2>2
<1>6. ASSUME stops.limited, stops.count > 0
      PROVE  summary.packets <= stops.count
  <2>1. PICK n \in config.limit : stops.count = n
    BY <1>1, <1>6
  <2>2. n \in Nat /\ n > 0
    BY <1>6, <2>1, LimitType DEF TellInv, Counter
  <2>3. Len(taken) \in Nat /\ Len(taken) <= n
    BY <2>1, <2>2, TakenPackets DEF TellInv, NeverOverLimit
  <2>4. tally.packets = Saturate(Len(taken))
    BY DEF TellInv, SavedIsWhatWasCounted
  <2>5. Saturate(Len(taken)) <= n
    BY <2>2, <2>3, CounterMaxAssumption DEF Saturate
  <2>. QED
    BY <2>1, <2>4, <2>5
<1>7. ASSUME summary.finished = "output closed"
      PROVE  ~ header.flow_mode
  BY <1>1, <1>3, <1>4, <1>7 DEF ReasonIsTheCause
<1>. HIDE DEF stops
<1>8. /\ summary.finished = "packet count reached" => stops.limited /\ summary.packets >= stops.count
      /\ stops.limited /\ stops.count > 0 => summary.packets <= stops.count
      /\ summary.finished = "output closed" => ~ header.flow_mode
  BY <1>5, <1>6, <1>7
<1>. QED
  BY <1>8, Zenon DEF EndsAsAnnounced, stops

LEMMA CaptureTold ==
  ASSUME TellInv, stop_reason \in StopReason, live
  PROVE  CaptureSummaryIsTrue
<1>1. SUFFICES ASSUME NEW stats \in DriverStats
      PROVE  LET summary == capture_summary(stats)
             IN  /\ CountsThePackets(summary)
                 /\ EndsAsAnnounced(summary)
                 /\ summary.finished # "capture source ended"
                 /\ summary.finished = "interrupted by user" => signals > 0
                 /\ stats.if_dropped = {} => ~ summary.caveat
  BY DEF CaptureSummaryIsTrue
<1>. DEFINE summary == capture_summary(stats)
<1>2. /\ summary.packets = tally.packets
      /\ summary.captured_bytes = tally.captured_bytes
      /\ summary.wire_bytes = tally.wire_bytes
      /\ summary.finished = stop_reason_phrase(stop_reason)
      /\ summary.caveat = interface_drop_caveat(stats)
  BY DEF capture_summary
<1>. HIDE DEF summary
<1>3. CountsThePackets(summary)
  BY <1>2, CountsAreSums
<1>4. EndsAsAnnounced(summary)
  BY <1>2, EndsWhereItSaid
<1>5. summary.finished # "capture source ended"
  <2>1. stop_reason # "SourceEnded"
    BY DEF TellInv, CauseInv, InterruptNeverMisreported
  <2>. QED
    BY <1>2, <2>1, PhraseTellsReason
<1>6. summary.finished = "interrupted by user" => signals > 0
  <2>1. stop_reason = "Interrupted" => signals > 0
    BY DEF TellInv, CauseInv, ReasonIsTheCause, AskedInv
  <2>. QED
    BY <1>2, <2>1, PhraseTellsReason
<1>7. stats.if_dropped = {} => ~ summary.caveat
  BY <1>2 DEF interface_drop_caveat
<1>. QED
  BY <1>3, <1>4, <1>5, <1>6, <1>7, Zenon DEF summary

LEMMA TimesTold ==
  ASSUME TellInv
  PROVE  LET time == render_time_span(span)
         IN  /\ taken = << >> <=> time.span.says = "no packets"
             /\ taken # << >> =>
                  LET first == Head(taken).timestamp
                      last  == taken[Len(taken)].timestamp
                  IN  /\ \A shown \in time.first : ToldFrom(shown, first)
                      /\ \A shown \in time.last : ToldFrom(shown, last)
                      /\ time.span.says = "duration" =>
                           time.span.micros = {Micros(last) - Micros(first)}
<1>. DEFINE time == render_time_span(span)
<1>1. /\ Len(taken) \in Nat
      /\ \A i \in 1 .. Len(taken) : taken[i].timestamp \in PacketTimestamp
  BY TakenPackets DEF TellInv
<1>2. CASE Len(taken) = 0
  <2>1. taken = << >>
    BY <1>2, EmptySeq DEF TellInv, TypeOK
  <2>2. span.first = {}
    BY <1>2 DEF TellInv, SpanInv, EmptySpan
  <2>3. time.span.says = "no packets"
    BY <2>2 DEF render_time_span
  <2>. QED
    BY <2>1, <2>3
<1>3. CASE Len(taken) > 0
  <2>0. taken # << >> /\ Head(taken) = taken[1]
    BY <1>3, HeadTailProperties DEF TellInv, TypeOK
  <2>. DEFINE f == taken[1].timestamp
              l == taken[Len(taken)].timestamp
  <2>1. span.first = {f} /\ span.last = {l}
    BY <1>3 DEF TellInv, SpanInv
  <2>2. f \in PacketTimestamp /\ l \in PacketTimestamp
    BY <1>1, <1>3
  <2>. HIDE DEF f, l
  <2>3. span_duration(span) = Between(f, l)
    BY <2>1, SpanDuration
  <2>4. time.first = {format_datetime(f)} /\ time.last = {format_datetime(l)}
    BY <2>1 DEF render_time_span
  <2>5. time.span = IF Between(f, l) = {} THEN [says |-> "unknown", micros |-> {}]
                    ELSE [says |-> "duration", micros |-> Between(f, l)]
    BY <2>1, <2>3 DEF render_time_span
  <2>. HIDE DEF time
  <2>6. time.span.says # "no packets"
    BY <2>5
  <2>7. time.span.says = "duration" => time.span.micros = {Micros(l) - Micros(f)}
    <3>1. CASE Between(f, l) = {}
      BY <2>5, <3>1
    <3>2. CASE Between(f, l) # {}
      BY <2>2, <2>5, <3>2, BetweenTwo
    <3>. QED
      BY <3>1, <3>2
  <2>8. /\ \A shown \in time.first : ToldFrom(shown, f)
        /\ \A shown \in time.last : ToldFrom(shown, l)
    BY <2>4, ShownAsReported
  <2>. QED
    BY <2>0, <2>6, <2>7, <2>8, Zenon DEF f, l, time
<1>4. Len(taken) = 0 \/ Len(taken) > 0
  BY <1>1
<1>. QED
  BY <1>2, <1>3, <1>4, Zenon

LEMMA FileTold ==
  ASSUME TellInv, stop_reason \in StopReason, ~ live
  PROVE  FileSummaryIsTrue
<1>. DEFINE summary == file_summary
<1>1. /\ summary.packets = tally.packets
      /\ summary.captured_bytes = tally.captured_bytes
      /\ summary.wire_bytes = tally.wire_bytes
      /\ summary.finished = stop_reason_phrase(stop_reason)
      /\ summary.time = render_time_span(span)
      /\ summary.rest_unread = (stop_reason = "ReadFailed")
  BY DEF file_summary, read_error
<1>2. ReasonIsTheCause /\ InterruptNeverMisreported
  BY DEF TellInv, CauseInv
<1>. HIDE DEF summary
<1>3. CountsThePackets(summary)
  BY <1>1, CountsAreSums
<1>4. EndsAsAnnounced(summary)
  BY <1>1, EndsWhereItSaid
<1>5. summary.finished # "interrupted by user"
  BY <1>1, <1>2, PhraseTellsReason DEF ReasonIsTheCause
<1>6. summary.finished = "capture source ended" => pending = << >> /\ ~ summary.rest_unread
  <2>1. summary.finished = "capture source ended" => stop_reason = "SourceEnded"
    BY <1>1, PhraseTellsReason
  <2>. QED
    BY <1>1, <1>2, <2>1 DEF InterruptNeverMisreported
<1>7. summary.rest_unread <=> broken /\ summary.finished = "could not read any further"
  <2>1. summary.finished = "could not read any further" <=> stop_reason = "ReadFailed"
    BY <1>1, PhraseTellsReason
  <2>. QED
    BY <1>1, <1>2, <2>1 DEF ReasonIsTheCause
<1>. DEFINE time == render_time_span(span)
<1>8. /\ taken = << >> <=> time.span.says = "no packets"
      /\ taken # << >> =>
           /\ \A shown \in time.first : ToldFrom(shown, Head(taken).timestamp)
           /\ \A shown \in time.last : ToldFrom(shown, taken[Len(taken)].timestamp)
           /\ time.span.says = "duration" =>
                time.span.micros = {Micros(taken[Len(taken)].timestamp)
                                      - Micros(Head(taken).timestamp)}
  BY TimesTold, Zenon
<1>9. summary.time = time
  BY <1>1
<1>. HIDE DEF time
<1>. QED
  BY <1>3, <1>4, <1>5, <1>6, <1>7, <1>8, <1>9, Zenon DEF FileSummaryIsTrue, summary

(* Whatever ended the run, its last words are true: the rows are sums over *)
(* all packets read, cut off only where a counter is; the phrase names the *)
(* cause and fits the limit in the header; the times are the stamps the    *)
(* first and the last packet came with, and a duration is never given for  *)
(* stamps that have none.                                                  *)
THEOREM SummaryIsTrue == Spec => []SummaryTellsTheRun
<1>1. TellInv => SummaryTellsTheRun
  <2>. SUFFICES ASSUME TellInv, pc = "done"
                PROVE  /\ HasCaptureSummary => CaptureSummaryIsTrue
                       /\ ~ live => FileSummaryIsTrue
                       /\ SpanTellsWhenItCannotTell
    BY DEF SummaryTellsTheRun
  <2>1. stop_reason \in StopReason
    BY DEF TellInv, TypeOK, CauseInv, ReasonIsTheCause
  <2>2. HasCaptureSummary => CaptureSummaryIsTrue
    BY <2>1, CaptureTold DEF HasCaptureSummary
  <2>3. SpanTellsWhenItCannotTell
    BY SpanTells DEF TellInv
  <2>. QED
    BY <2>1, <2>2, <2>3, FileTold
<1>. QED
  BY <1>1, TellAlways, PTL
=============================================================================
