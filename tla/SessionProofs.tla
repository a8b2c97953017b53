--------------------------- MODULE SessionProofs ----------------------------
(***************************************************************************)
(* Theorems about a whole session: it is a pump, so that everything proved *)
(* of the pump holds of it, and its exit tells what became of the packets. *)
(***************************************************************************)
EXTENDS Session, PumpProofs

-----------------------------------------------------------------------------
(* A session is a pump                                                     *)

LEMMA SessionStepIsAPumpStep == [SessionNext]_allVars => [Next]_vars
<1>. SUFFICES ASSUME [SessionNext]_allVars PROVE [Next]_vars
  OBVIOUS
<1>1. CASE Statement
  <2>1. CASE RunLoop
    BY <2>1 DEF RunLoop, Next
  <2>2. CASE ~ RunLoop
    BY <1>1, <2>2 DEF Statement, Validate, CheckPath, CreateFile, OpenSource, PrintHeader, PrintWarning,
      OpenSavefile, Arm, Return, PrintSummary, PrintTable, Flush, PrintWritten, Verdict, At
  <2>. QED
    BY <2>1, <2>2
<1>2. CASE WokenByBreak
  BY <1>2 DEF WokenByBreak, Next
<1>3. CASE HandlerRuns
  BY <1>3 DEF HandlerRuns, Next, Beside
<1>4. CASE Meanwhile
  BY <1>4 DEF Meanwhile, Next, Beside
<1>5. CASE CtrlCKills \/ SomeoneCreates
  BY <1>5 DEF CtrlCKills, SomeoneCreates
<1>6. CASE UNCHANGED allVars
  BY <1>6 DEF allVars
<1>. QED
  BY <1>1, <1>2, <1>3, <1>4, <1>5, <1>6 DEF SessionNext

(* main.rs around the pump is still the pump: what comes before and after  *)
(* the loop disturbs nothing the loop relies on, so every theorem about    *)
(* Pump is a theorem about Session.                                        *)
THEOREM SessionIsAPump == SessionSpec => RunIsAPump
<1>1. SessionInit => Init
  BY DEF SessionInit
<1>. QED
  BY <1>1, SessionStepIsAPumpStep, PTL DEF SessionSpec, RunIsAPump, Spec

-----------------------------------------------------------------------------
(* What a session has done by the time it is at a statement                *)

Early == {"settings", "check", "create", "open", "header", "warning", "savefile", "arm"}
Reporting == {"summary", "table", "flush", "written", "verdict"}

(* The loop has not run, or has come to an end that is worth a report.     *)
LoopInv ==
  /\ phase \in Early => stop_reason = "None"
  /\ phase \in Reporting => pc = "done" /\ (live => stop_reason # "ReadFailed")
  /\ phase \in Reporting \ {"summary"} => stop_reason # "OutputClosed"

PrintedInv ==
  /\ phase \in {"warning", "savefile", "arm", "run"} \cup Reporting => "header" \in printed
  /\ phase \in Reporting \ {"summary"} => "summary" \in printed
  /\ phase \in Reporting \ {"summary", "table"} => config.listing \/ "table" \in printed
  /\ phase = "verdict" /\ config.saving => "written" \in printed
  /\ phase \in {"check", "create", "flush", "written"} => config.saving

SavedInv == phase \in {"written", "verdict"} /\ config.saving => file = Ours(sink)

EndInv == SuccessIsTheWholeStory /\ CapturedPacketsSurvive /\ DamageIsReportedAndFails

StoryInv ==
  /\ phase = "over" <=> exit # "none"
  /\ LoopInv /\ PrintedInv /\ SavedInv /\ EndInv

(* The errors are listed, and none of them is another outcome.             *)
USE DEF failed, NetSentryError, InterfaceError, SettingsError, CaptureError, FileError, WriteError

(* What the theorems about Pump contribute.                                *)
PumpInv == TypeOK /\ ReasonIsTheCause /\ SavedIsWhatWasCounted

LEMMA OnlyLiveIsSaved == TypeOK /\ config.saving => live
BY DEF TypeOK, Config, Source, live

LEMMA StoryInit == SessionInit => StoryInv
BY DEF SessionInit, Init, Config, StoryInv, LoopInv, PrintedInv, SavedInv, EndInv,
  SuccessIsTheWholeStory, CapturedPacketsSurvive, DamageIsReportedAndFails, Early, Reporting

(* A step that leaves the session's own state alone, and the run's result. *)
LEMMA QuietStep ==
  ASSUME StoryInv, UNCHANGED <<sessionVars, config, sink, taken>>,
         phase = "over" => UNCHANGED <<broken, pending>>,
         phase \in Early \cup Reporting \cup {"over"} => UNCHANGED <<pc, stop_reason>>
  PROVE  StoryInv'
<1>1. UNCHANGED <<phase, file, printed, exit, config, sink, taken, live>>
  BY DEF sessionVars, fileVars, live
<1>2. UNCHANGED EndInv
  <2>1. CASE phase = "over"
    BY <1>1, <2>1 DEF EndInv, SuccessIsTheWholeStory, CapturedPacketsSurvive, DamageIsReportedAndFails
  <2>2. CASE phase # "over"
    BY <1>1, <2>2 DEF StoryInv, EndInv, SuccessIsTheWholeStory, CapturedPacketsSurvive,
      DamageIsReportedAndFails
  <2>. QED
    BY <2>1, <2>2
<1>3. LoopInv'
  BY <1>1 DEF StoryInv, LoopInv, Early, Reporting
<1>. QED
  BY <1>1, <1>2, <1>3 DEF StoryInv, PrintedInv, SavedInv, Reporting

LEMMA StatementStep ==
  ASSUME PumpInv, StoryInv, Statement, ~ RunLoop
  PROVE  StoryInv'
<1>. USE DEF Early, Reporting, Proceed, Leave
<1>0. /\ UNCHANGED <<vars, config, pc, stop_reason, sink, taken, live, outlet, broken, pending>>
      /\ config.saving => live /\ sink = taken
  BY OnlyLiveIsSaved DEF Statement, Validate, CheckPath, CreateFile, OpenSource, PrintHeader, PrintWarning,
    OpenSavefile, Arm, Return, PrintSummary, PrintTable, Flush, PrintWritten, Verdict, At, vars,
    worldVars, bookVars, live, PumpInv, SavedIsWhatWasCounted
<1>. USE DEF StoryInv, LoopInv, PrintedInv, SavedInv, EndInv, SuccessIsTheWholeStory,
  CapturedPacketsSurvive, DamageIsReportedAndFails
<1>14. CASE Validate
  BY <1>0, <1>14 DEF Validate, At
<1>1. CASE CheckPath
  BY <1>0, <1>1 DEF CheckPath, At
<1>2. CASE CreateFile
  BY <1>0, <1>2 DEF CreateFile, At
<1>3. CASE OpenSource
  BY <1>0, <1>3 DEF OpenSource, OpenError, At
<1>4. CASE PrintHeader
  BY <1>0, <1>4 DEF PrintHeader, PrintOut, At
<1>5. CASE PrintWarning
  BY <1>0, <1>5 DEF PrintWarning, PrintOut, At
<1>6. CASE OpenSavefile
  BY <1>0, <1>6 DEF OpenSavefile, At
<1>7. CASE Arm
  BY <1>0, <1>7 DEF Arm, At
<1>8. CASE Return
  BY <1>0, <1>8 DEF Return, At, CloseFile, HasWriter
<1>9. CASE PrintSummary
  BY <1>0, <1>9 DEF PrintSummary, PrintOut, At, AfterReport, CloseFile, HasWriter, PumpInv, ReasonIsTheCause
<1>10. CASE PrintTable
  BY <1>0, <1>10 DEF PrintTable, PrintOut, At, AfterReport, CloseFile, HasWriter
<1>11. CASE Flush
  BY <1>0, <1>11 DEF Flush, At
<1>12. CASE PrintWritten
  BY <1>0, <1>12 DEF PrintWritten, PrintOut, At, CloseFile, HasWriter
<1>13. CASE Verdict
  <2>1. /\ stop_reason \in StopReason \ {"OutputClosed"}
        /\ stop_reason = "ReadFailed" => broken /\ (live \/ pending = << >>)
    BY <1>13 DEF Verdict, At, PumpInv, TypeOK, ReasonIsTheCause
  <2>. QED
    BY <1>0, <1>13, <2>1 DEF Verdict, At, StopReason
<1>. QED
  BY <1>1, <1>2, <1>3, <1>4, <1>5, <1>6, <1>7, <1>8, <1>9, <1>10, <1>11, <1>12, <1>13, <1>14 DEF Statement

LEMMA StoryStep == PumpInv /\ StoryInv /\ [SessionNext]_allVars => StoryInv'
<1>. SUFFICES ASSUME PumpInv, StoryInv, [SessionNext]_allVars PROVE StoryInv'
  OBVIOUS
<1>1. CASE Statement /\ ~ RunLoop
  BY <1>1, StatementStep
<1>2. CASE RunLoop \/ WokenByBreak
  <2>1. /\ phase = "run" /\ exit = "none"
        /\ UNCHANGED <<fileVars, phase, printed, exit, live, config>>
    BY <1>2 DEF RunLoop, WokenByBreak, Running, StoryInv, Loop, CheckStop, ReadPacket, ReadTimeout,
      ReadEndOfFile, ReadFailure, NoMorePackets, ReadBroken, live
  <2>. QED
    BY <2>1 DEF StoryInv, LoopInv, PrintedInv, SavedInv, EndInv, SuccessIsTheWholeStory,
      CapturedPacketsSurvive, DamageIsReportedAndFails, Early, Reporting
<1>3. CASE HandlerRuns \/ Meanwhile
  <2>1. /\ UNCHANGED <<sessionVars, config, sink, taken, pc, stop_reason>>
        /\ phase # "over"
    BY <1>3 DEF Armed, HandlerRuns, Meanwhile, HandlerStep, OutputCloses, InterfaceGone, Arrive, Signal,
      bookVars
  <2>. QED
    BY <2>1, QuietStep
<1>4. CASE UNCHANGED allVars
  <2>1. UNCHANGED <<sessionVars, config, sink, taken, pc, stop_reason, broken, pending>>
    BY <1>4 DEF allVars, vars, worldVars, bookVars
  <2>. QED
    BY <2>1, QuietStep
<1>5. CASE CtrlCKills
  BY <1>5 DEF CtrlCKills, Leave, StoryInv, LoopInv, PrintedInv, SavedInv, EndInv, Early, Reporting,
    SuccessIsTheWholeStory, CapturedPacketsSurvive, DamageIsReportedAndFails
<1>6. CASE SomeoneCreates
  <2>1. /\ phase # "over"
        /\ file = Nothing
        /\ UNCHANGED <<phase, printed, exit, config, sink, taken, live, pc, stop_reason>>
    BY <1>6 DEF SomeoneCreates, vars, bookVars, live
  <2>2. file # Ours(sink)
    BY <2>1 DEF Nothing, Ours
  <2>. QED
    BY <2>1, <2>2 DEF StoryInv, LoopInv, PrintedInv, SavedInv, EndInv, Early, Reporting,
      SuccessIsTheWholeStory, CapturedPacketsSurvive, DamageIsReportedAndFails
<1>. QED
  BY <1>1, <1>2, <1>3, <1>4, <1>5, <1>6 DEF SessionNext, Statement

LEMMA PumpInvAlways == SessionSpec => []PumpInv
BY SessionIsAPump, TypeCorrect, ReasonsAreTrue, SavedMatchesSummary, PTL DEF RunIsAPump, PumpInv

LEMMA StoryAlways == SessionSpec => []StoryInv
BY StoryInit, StoryStep, PumpInvAlways, PTL DEF SessionSpec

(* Exit code 0 means that the source was read to a proper end, that the    *)
(* whole report was printed and that a saved capture is complete.          *)
THEOREM SuccessMeansSuccess == SessionSpec => []SuccessIsTheWholeStory
<1>1. StoryInv => SuccessIsTheWholeStory
  BY DEF StoryInv, EndInv
<1>. QED
  BY <1>1, StoryAlways, PTL

(* An interface that goes away, and a standard output that closes, leave a *)
(* complete file of the packets captured so far.                           *)
THEOREM FailureKeepsThePackets == SessionSpec => []CapturedPacketsSurvive
<1>1. StoryInv => CapturedPacketsSurvive
  BY DEF StoryInv, EndInv
<1>. QED
  BY <1>1, StoryAlways, PTL

(* A damaged capture file fails the command, after everything readable was *)
(* reported.                                                               *)
THEOREM DamageFailsTheCommand == SessionSpec => []DamageIsReportedAndFails
<1>1. StoryInv => DamageIsReportedAndFails
  BY DEF StoryInv, EndInv
<1>. QED
  BY <1>1, StoryAlways, PTL

-----------------------------------------------------------------------------
(* The file that was there                                                 *)

(* A session that saw a file and may not overwrite it is over.             *)
SeenInv == exists = "yes" /\ ~ overwrite => phase = "over"

LEMMA ExistsStep ==
  ASSUME [SessionNext]_allVars, ~ CheckPath
  PROVE  UNCHANGED <<exists, overwrite>> /\ (phase = "over" => UNCHANGED <<phase, file>>)
<1>1. CASE Statement
  BY <1>1 DEF Statement, Validate, CreateFile, OpenSource, PrintHeader, PrintWarning, OpenSavefile, Arm,
    RunLoop, Running, Return, PrintSummary, PrintTable, Flush, PrintWritten, Verdict, PrintOut, At, fileVars
<1>2. CASE WokenByBreak \/ HandlerRuns \/ Meanwhile \/ CtrlCKills \/ SomeoneCreates
  BY <1>2 DEF WokenByBreak, Running, HandlerRuns, Meanwhile, CtrlCKills, SomeoneCreates,
    sessionVars, fileVars
<1>3. CASE UNCHANGED allVars
  BY <1>3 DEF allVars, sessionVars, fileVars
<1>. QED
  BY <1>1, <1>2, <1>3 DEF SessionNext

LEMMA SeenStep ==
  SeenInv /\ [SessionNext]_allVars => SeenInv' /\ (exists' = "yes" /\ ~ overwrite => UNCHANGED file)
<1>. SUFFICES ASSUME SeenInv, [SessionNext]_allVars
              PROVE  SeenInv' /\ (exists' = "yes" /\ ~ overwrite => UNCHANGED file)
  OBVIOUS
<1>1. CASE CheckPath
  BY <1>1 DEF CheckPath, At, Leave, Proceed, SeenInv
<1>2. CASE ~ CheckPath
  BY <1>2, ExistsStep DEF SeenInv
<1>. QED
  BY <1>1, <1>2

(* Without --overwrite a file seen at the check is safe from every later   *)
(* statement, libpcap's own truncating open included.                      *)
THEOREM SeenFilesAreKept == SessionSpec => FileSeenIsKept
<1>1. SessionInit => SeenInv
  BY DEF SessionInit, SeenInv
<1>. QED
  BY <1>1, SeenStep, PTL DEF SessionSpec, FileSeenIsKept

-----------------------------------------------------------------------------
(* The table                                                               *)

(* What FlowTableProofs shows of any table holds of the session's.  Its    *)
(* definitions come in a second time this way, and are the same.           *)
Facts == INSTANCE FlowTableProofs WITH log <- RecordedLog

LEMMA SameAssumption == Facts!FlowTableAssumption
BY SessionAssumption
DEF Flows!FlowTableAssumption, Facts!FlowTableAssumption, Flows!Packet, Facts!Packet,
    Flows!Shape, Facts!Shape, Flows!Endpoint, Facts!Endpoint, Flows!TcpFlag, Facts!TcpFlag,
    Flows!PacketTimestamp, Facts!PacketTimestamp

LEMMA SameTable ==
  /\ Flows!EmptyTable = Facts!EmptyTable
  /\ Flows!TableTypeOK = Facts!TableTypeOK /\ Flows!TableTypeOK' = Facts!TableTypeOK'
<1>1. Flows!EmptyTable = Facts!EmptyTable
  BY DEF Flows!EmptyTable, Facts!EmptyTable, Flows!Reason, Facts!Reason
<1>2. Flows!TableTypeOK = Facts!TableTypeOK /\ Flows!TableTypeOK' = Facts!TableTypeOK'
  BY DEF Flows!TableTypeOK, Facts!TableTypeOK, Flows!FlowKey, Facts!FlowKey,
    Flows!FlowProtocol, Facts!FlowProtocol, Flows!Endpoint, Facts!Endpoint,
    Flows!IsFiniteSet, Facts!IsFiniteSet, Flows!Flow, Facts!Flow,
    Flows!PacketTimestamp, Facts!PacketTimestamp, Flows!Direction, Facts!Direction,
    Flows!Totals, Facts!Totals, Flows!Counter, Facts!Counter, Flows!TcpFlag, Facts!TcpFlag,
    Flows!TcpDirectionFacts, Facts!TcpDirectionFacts, Flows!Reason, Facts!Reason
<1>. QED
  BY <1>1, <1>2

LEMMA SameTabulated ==
  /\ Flows!PacketsTabulated = Facts!PacketsTabulated
  /\ Flows!PacketsTabulated' = Facts!PacketsTabulated'
BY DEF Flows!PacketsTabulated, Facts!PacketsTabulated, Flows!PacketsIn, Facts!PacketsIn,
  Flows!SumFunction, Facts!SumFunction, Flows!SumFunctionOnSet, Facts!SumFunctionOnSet,
  Flows!FoldFunctionOnSet, Facts!FoldFunctionOnSet, Flows!MapThenFoldSet, Facts!MapThenFoldSet

LEMMA SameRecord ==
  ASSUME NEW t, NEW p
  PROVE  /\ Flows!Outcome(t, p) = Facts!Outcome(t, p)
         /\ TheTable!Outcome(t, p) = Facts!Outcome(t, p)
         /\ Flows!record(t, p) = Facts!record(t, p)
         /\ TheTable!record(t, p) = Facts!record(t, p)
BY DEF
  Flows!record, TheTable!record, Facts!record, Flows!Outcome, TheTable!Outcome, Facts!Outcome,
  Flows!FormsFlow, TheTable!FormsFlow, Facts!FormsFlow, Flows!FlowProtocol,
  TheTable!FlowProtocol, Facts!FlowProtocol, Flows!KeyOf, TheTable!KeyOf, Facts!KeyOf,
  Flows!DirectionOf, TheTable!DirectionOf, Facts!DirectionOf, Flows!from_packet,
  TheTable!from_packet, Facts!from_packet, Flows!canonical, TheTable!canonical,
  Facts!canonical, Flows!EndpointLeq, TheTable!EndpointLeq, Facts!EndpointLeq, Flows!is_full,
  TheTable!is_full, Facts!is_full, Flows!Cardinality, TheTable!Cardinality, Facts!Cardinality,
  Flows!CountUntracked, TheTable!CountUntracked, Facts!CountUntracked, Flows!untracked_reason,
  TheTable!untracked_reason, Facts!untracked_reason, Flows!Track, TheTable!Track, Facts!Track,
  Flows!FlowOrNew, TheTable!FlowOrNew, Facts!FlowOrNew, Flows!NewFlow, TheTable!NewFlow,
  Facts!NewFlow, Flows!FlowRecord, TheTable!FlowRecord, Facts!FlowRecord, Flows!Direction,
  TheTable!Direction, Facts!Direction, Flows!ZeroTotals, TheTable!ZeroTotals, Facts!ZeroTotals,
  Flows!NoFacts, TheTable!NoFacts, Facts!NoFacts, Flows!MinTime, TheTable!MinTime,
  Facts!MinTime, Flows!MaxTime, TheTable!MaxTime, Facts!MaxTime, Flows!TimeLeq,
  TheTable!TimeLeq, Facts!TimeLeq, Flows!AddPacket, TheTable!AddPacket, Facts!AddPacket,
  Flows!AddFlags, TheTable!AddFlags, Facts!AddFlags, Flows!CountIf, TheTable!CountIf,
  Facts!CountIf, Flows!saturating_add, TheTable!saturating_add, Facts!saturating_add,
  Flows!Saturate, TheTable!Saturate, Facts!Saturate

(* A replay, as FoldLeft defines it.                                       *)
FlowsTable(h, q) ==
  h = [s \in SUBSET DOMAIN q |->
         IF s = {} THEN Flows!EmptyTable
         ELSE Flows!record(h[s \ {Flows!Max(s)}], q[Flows!Max(s)])]

LEMMA SameReplay ==
  ASSUME NEW q
  PROVE  Flows!Replay(q) = Facts!Replay(q)
<1>1. \A h : FlowsTable(h, q) <=> Facts!ReplayTable(h, q)
  <2>1. \A s : Flows!Max(s) = Facts!Max(s)
    BY DEF Flows!Max, Facts!Max
  <2>2. \A t, p : Flows!record(t, p) = Facts!record(t, p)
    BY SameRecord
  <2>. QED
    BY <2>1, <2>2, SameTable DEF FlowsTable, Facts!ReplayTable
<1>2. (CHOOSE h : FlowsTable(h, q)) = (CHOOSE h : Facts!ReplayTable(h, q))
  BY <1>1, Zenon
<1>3. Flows!Replay(q) = (CHOOSE h : FlowsTable(h, q))[DOMAIN q]
  BY DEF Flows!Replay, Flows!FoldLeft, Flows!MapThenFoldSet, FlowsTable
<1>4. Facts!Replay(q) = (CHOOSE h : Facts!ReplayTable(h, q))[DOMAIN q]
  BY DEF Facts!Replay, Facts!FoldLeft, Facts!MapThenFoldSet, Facts!ReplayTable
<1>. QED
  BY <1>2, <1>3, <1>4, Zenon

LEMMA EmptyTableCounts ==
  table = Flows!EmptyTable => Flows!TableTypeOK /\ Flows!PacketsTabulated = 0
BY SameAssumption, SameTable, SameTabulated, Facts!NothingTabulated,
   MicrosAssumption, CounterMaxAssumption DEF Facts!FlowTableAssumption

LEMMA TableRecords ==
  ASSUME Flows!TableTypeOK, NEW p \in Packets, table' = Flows!record(table, p)
  PROVE  /\ Flows!TableTypeOK'
         /\ Flows!PacketsTabulated < CounterMax =>
              Flows!PacketsTabulated' = Flows!PacketsTabulated + 1
<1>1. Facts!TableTypeOK /\ table' = Facts!record(table, p)
  BY SameTable, SameRecord
<1>2. Facts!TableTypeOK'
  BY <1>1, SameAssumption, Facts!RecordKeepsType, MicrosAssumption, CounterMaxAssumption
  DEF Facts!FlowTableAssumption
<1>3. Facts!PacketsTabulated < CounterMax =>
        Facts!PacketsTabulated' = Facts!PacketsTabulated + 1
  BY <1>1, SameAssumption, Facts!RecordCountsOnce, MicrosAssumption, CounterMaxAssumption
  DEF Facts!FlowTableAssumption
<1>. QED
  BY <1>2, <1>3, SameTable, SameTabulated

TableInv ==
  /\ Flows!TableTypeOK
  /\ ~ config.listing /\ Len(taken) <= CounterMax => Flows!PacketsTabulated = Len(taken)

(* The table changes with the packets taken, or not at all.                *)
LEMMA TableMoves ==
  ASSUME TypeOK, [SessionNext]_allVars
  PROVE  \/ ReadPacket /\ table' = IF ~ config.listing
                                     THEN Flows!record(table, ThePacket) ELSE table
         \/ UNCHANGED <<taken, table>>
<1>1. CASE RunLoop \/ WokenByBreak
  <2>1. (Loop \/ ReadBroken) /\ Tabulate
    BY <1>1 DEF RunLoop, WokenByBreak, Running
  <2>2. CASE ReadPacket
    <3>1. Len(taken') # Len(taken)
      BY <2>2, TakenStep
    <3>. QED
      BY <2>1, <2>2, <3>1, Zenon DEF Tabulate, ThePacket
  <2>3. CASE ~ ReadPacket
    <3>1. taken' = taken
      BY <2>1, <2>3 DEF Loop, CheckStop, ReadTimeout, ReadEndOfFile, ReadFailure,
        NoMorePackets, ReadBroken, bookVars
    <3>. QED
      BY <2>1, <3>1 DEF Tabulate
  <2>. QED
    BY <2>2, <2>3
<1>2. CASE Statement /\ ~ RunLoop
  BY <1>2 DEF Statement, Validate, CheckPath, CreateFile, OpenSource, PrintHeader, PrintWarning,
    OpenSavefile, Arm, Return, PrintSummary, PrintTable, Flush, PrintWritten, Verdict, At,
    vars, bookVars
<1>3. CASE HandlerRuns \/ Meanwhile
  BY <1>3 DEF HandlerRuns, Meanwhile, HandlerStep, OutputCloses, InterfaceGone, Arrive, Signal,
    bookVars, sessionVars
<1>4. CASE CtrlCKills \/ SomeoneCreates \/ UNCHANGED allVars
  BY <1>4 DEF CtrlCKills, SomeoneCreates, allVars, vars, bookVars, sessionVars
<1>. QED
  BY <1>1, <1>2, <1>3, <1>4 DEF SessionNext, Statement

LEMMA TableStep == TypeOK /\ TableInv /\ [SessionNext]_allVars => TableInv'
<1>. SUFFICES ASSUME TypeOK, TableInv, [SessionNext]_allVars PROVE TableInv'
  OBVIOUS
<1>1. config' = config
  BY SessionStepIsAPumpStep, BooksOnlyByPacket
<1>2. CASE UNCHANGED <<taken, table>>
  <2>1. Flows!TableTypeOK' = Flows!TableTypeOK /\ Flows!PacketsTabulated' = Flows!PacketsTabulated
    <3>1. table' = table
      BY <1>2
    <3>. QED
      BY <3>1 DEF Flows!TableTypeOK, Flows!PacketsTabulated, Flows!PacketsIn
  <2>. QED
    BY <1>1, <1>2, <2>1 DEF TableInv
<1>3. CASE ReadPacket /\ config.listing /\ table' = table
  BY <1>1, <1>3 DEF TableInv, Flows!TableTypeOK
<1>4. CASE ReadPacket /\ ~ config.listing /\ table' = Flows!record(table, ThePacket)
  <2>1. /\ Len(taken) \in Nat /\ Len(taken') = Len(taken) + 1
        /\ ThePacket \in Packets
    BY <1>4, TakenStep, PacketStep
  <2>2. /\ Flows!TableTypeOK'
        /\ Flows!PacketsTabulated < CounterMax =>
             Flows!PacketsTabulated' = Flows!PacketsTabulated + 1
    BY <1>4, <2>1, TableRecords DEF TableInv
  <2>3. Len(taken) < CounterMax => Flows!PacketsTabulated = Len(taken)
    BY <1>4, <2>1, CounterMaxAssumption DEF TableInv
  <2>4. Len(taken') <= CounterMax => Flows!PacketsTabulated' = Len(taken')
    BY <2>1, <2>2, <2>3, CounterMaxAssumption
  <2>. QED
    BY <2>2, <2>4 DEF TableInv
<1>. QED
  BY <1>2, <1>3, <1>4, TableMoves

LEMMA TableAlways == SessionSpec => []TableInv
<1>1. SessionInit => TableInv
  <2>. SUFFICES ASSUME SessionInit PROVE TableInv
    OBVIOUS
  <2>1. Len(taken) = 0 /\ table = Flows!EmptyTable
    BY DEF SessionInit, Init
  <2>. QED
    BY <2>1, EmptyTableCounts DEF TableInv
<1>. QED
  BY <1>1, TableStep, PumpInvAlways, PTL DEF SessionSpec, PumpInv

(* The flows and the packets that formed none add up to the packets of the *)
(* summary, whichever packet ended the run and however full the table was. *)
THEOREM ReportsAgree == SessionSpec => []TableMatchesSummary
<1>1. PumpInv /\ TableInv => TableMatchesSummary
  <2>. SUFFICES ASSUME PumpInv, TableInv, ~ config.listing, Len(taken) < CounterMax
                PROVE  Flows!PacketsTabulated = tally.packets
    BY DEF TableMatchesSummary
  <2>1. Len(taken) \in Nat
    BY TakenPackets DEF PumpInv
  <2>2. tally.packets = Saturate(Len(taken))
    BY DEF PumpInv, SavedIsWhatWasCounted
  <2>3. tally.packets = Len(taken) /\ Len(taken) <= CounterMax
    BY <2>1, <2>2, CounterMaxAssumption DEF Saturate
  <2>. QED
    BY <2>3 DEF TableInv
<1>. QED
  BY <1>1, TableAlways, PumpInvAlways, PTL

-----------------------------------------------------------------------------
(* A session fills a flow table                                            *)

LEMMA PrefixesStay ==
  ASSUME NEW S, NEW q \in Seq(S), NEW p \in S
  PROVE  /\ SubSeq(q, 1, Len(q)) = q
         /\ \A n \in 0 .. Len(q) : SubSeq(Append(q, p), 1, n) = SubSeq(q, 1, n)
OBVIOUS

(* RecordedLog, of any packets.                                            *)
LogOf(q) ==
  [i \in 1 .. Len(q) |->
     [packet |-> q[i], outcome |-> Flows!Outcome(Flows!Replay(SubSeq(q, 1, i - 1)), q[i])]]

LEMMA LogGrows ==
  ASSUME NEW q \in Seq(Packets), NEW p \in Packets
  PROVE  LogOf(Append(q, p)) =
           Append(LogOf(q), [packet |-> p, outcome |-> Flows!Outcome(Flows!Replay(q), p)])
<1>. DEFINE r == Append(q, p)
            Entry(s, i) == [packet  |-> s[i],
                            outcome |-> Flows!Outcome(Flows!Replay(SubSeq(s, 1, i - 1)), s[i])]
<1>. SUFFICES ASSUME NEW n, n = Len(q)
              PROVE  LogOf(r) = Append(LogOf(q), [packet  |-> p,
                                                  outcome |-> Flows!Outcome(Flows!Replay(q), p)])
  OBVIOUS
<1>0. /\ SubSeq(q, 1, n) = q
      /\ \A m \in 0 .. n : SubSeq(r, 1, m) = SubSeq(q, 1, m)
  BY PrefixesStay
<1>1. n \in Nat /\ r \in Seq(Packets) /\ Len(r) = n + 1 /\ r[n + 1] = p
  BY AppendProperties, LenProperties
<1>2. \A i \in 1 .. n : r[i] = q[i]
  BY AppendProperties
<1>3. \A i \in 1 .. n + 1 : SubSeq(r, 1, i - 1) = SubSeq(q, 1, i - 1)
  <2>1. \A i \in 1 .. n + 1 : i - 1 \in 0 .. n
    BY <1>1
  <2>. HIDE DEF r
  <2>. QED
    BY <1>0, <2>1
<1>4. \A i \in 1 .. n : SubSeq(r, 1, i - 1) = SubSeq(q, 1, i - 1)
  <2>1. \A i \in 1 .. n : i \in 1 .. n + 1
    BY <1>1
  <2>. HIDE DEF r
  <2>. QED
    BY <1>3, <2>1, Zenon
<1>5. \A i \in 1 .. n : Entry(r, i) = Entry(q, i)
  <2>. HIDE DEF r
  <2>. QED
    BY <1>2, <1>4, Zenon
<1>6. Entry(r, n + 1) = [packet |-> p, outcome |-> Flows!Outcome(Flows!Replay(q), p)]
  <2>. HIDE DEF r
  <2>1. n + 1 - 1 = n /\ n \in 0 .. n
    BY <1>1
  <2>2. SubSeq(r, 1, n) = SubSeq(q, 1, n)
    BY <1>0, <2>1, Zenon
  <2>3. SubSeq(r, 1, n + 1 - 1) = q
    BY <1>0, <2>1, <2>2, Zenon
  <2>4. Flows!Replay(SubSeq(r, 1, n + 1 - 1)) = Flows!Replay(q)
    BY <2>3, Zenon
  <2>5. r[n + 1] = p
    BY <1>1
  <2>. QED
    BY <2>4, <2>5
<1>7. LogOf(r) = [i \in 1 .. n + 1 |-> Entry(r, i)] /\ LogOf(q) = [i \in 1 .. n |-> Entry(q, i)]
  BY <1>1 DEF LogOf
<1>. HIDE DEF r, Entry
<1>8. Append(LogOf(q), Entry(r, n + 1)) = [i \in 1 .. n + 1 |-> Entry(r, i)]
  BY <1>1, <1>5, <1>7
<1>. QED
  BY <1>6, <1>7, <1>8

(* The table is what the packets taken make of an empty one, and no more   *)
(* of them come than the model has room for.                               *)
ReplayInv ==
  /\ table = IF config.listing THEN Flows!EmptyTable ELSE Flows!Replay(taken)
  /\ Len(taken) + Len(pending) <= MaxPackets

LEMMA RoomIsKept ==
  ASSUME TypeOK, [Next]_vars, Len(taken) + Len(pending) <= MaxPackets
  PROVE  Len(taken') + Len(pending') <= MaxPackets
<1>1. CASE ReadPacket
  <2>1. Len(taken) \in Nat /\ Len(taken') = Len(taken) + 1
    BY <1>1, TakenStep
  <2>2. Len(pending) \in Nat \ {0} /\ Len(pending') = Len(pending) - 1
    BY <1>1, HeadTailProperties, EmptySeq, LenProperties DEF ReadPacket, TypeOK
  <2>. QED
    BY <2>1, <2>2
<1>2. CASE \E p \in Packets : Arrive(p)
  <2>1. PICK p \in Packets : Arrive(p)
    BY <1>2
  <2>2. Len(taken) \in Nat /\ Len(pending) \in Nat /\ Len(pending') = Len(pending) + 1
    BY <2>1, AppendProperties, LenProperties DEF Arrive, TypeOK
  <2>3. taken' = taken /\ Len(taken) + Len(pending) < MaxPackets
    BY <2>1 DEF Arrive, bookVars
  <2>. QED
    BY <2>2, <2>3, PumpAssumption
<1>3. CASE ~ ReadPacket /\ ~ \E p \in Packets : Arrive(p)
  <2>1. pending' = pending /\ taken' = taken
    BY <1>3 DEF Next, Loop, Beside, CheckStop, ReadTimeout, ReadEndOfFile, ReadFailure,
      NoMorePackets, ReadBroken, HandlerStep, OutputCloses, InterfaceGone, Signal,
      vars, worldVars, bookVars
  <2>. QED
    BY <2>1
<1>. QED
  BY <1>1, <1>2, <1>3

LEMMA ReplayInit == SessionInit => ReplayInv
<1>. SUFFICES ASSUME SessionInit PROVE ReplayInv
  OBVIOUS
<1>1. taken = << >> /\ table = Flows!EmptyTable
  BY DEF SessionInit, Init
<1>2. Flows!Replay(taken) = Flows!EmptyTable
  <2>1. DOMAIN taken = {}
    BY <1>1
  <2>. QED
    BY <2>1, SameAssumption, SameTable, SameReplay, Facts!ReplayNothing, MicrosAssumption,
       CounterMaxAssumption DEF Facts!FlowTableAssumption
<1>3. Len(pending) <= MaxPackets
  <2>1. CASE live
    BY <2>1, PumpAssumption DEF SessionInit, Init
  <2>2. CASE ~ live
    <3>1. PICK n \in 0 .. MaxPackets : pending \in [1 .. n -> Packets]
      BY <2>2 DEF SessionInit, Init
    <3>2. Len(pending) = n
      BY <3>1, PumpAssumption
    <3>. QED
      BY <3>2, PumpAssumption
  <2>. QED
    BY <2>1, <2>2
<1>4. Len(pending) \in Nat
  BY LenProperties, TypeInit DEF SessionInit, TypeOK
<1>. QED
  BY <1>1, <1>2, <1>3, <1>4, PumpAssumption DEF ReplayInv

(* A packet taken in flow mode is a packet recorded, at the table that the *)
(* packets before it have left.                                            *)
LEMMA TakenIsRecorded ==
  ASSUME TypeOK, ReplayInv, [SessionNext]_allVars, ReadPacket, ~ config.listing,
         table' = Flows!record(table, ThePacket)
  PROVE  /\ table' = Flows!Replay(taken')
         /\ TheTable!Next
<1>1. /\ taken \in Seq(Packets) /\ ThePacket \in Packets
      /\ taken' = Append(taken, ThePacket) /\ config' = config
  BY PacketStep, SessionStepIsAPumpStep, BooksOnlyByPacket DEF TypeOK
<1>2. table = Flows!Replay(taken)
  BY DEF ReplayInv
<1>3. table' = Flows!Replay(taken')
  <2>. SUFFICES ASSUME NEW n, n = Len(taken)
                PROVE  table' = Flows!Replay(taken')
    OBVIOUS
  <2>1. /\ n \in Nat /\ DOMAIN taken = 1 .. n /\ DOMAIN taken' = 1 .. n + 1
        /\ \A i \in 1 .. n : taken'[i] = taken[i]
        /\ taken'[n + 1] = ThePacket
    BY <1>1, AppendProperties, LenProperties
  <2>2. Facts!Replay(taken') = Facts!record(Facts!Replay(taken), taken'[n + 1])
    BY <2>1, SameAssumption, Facts!ReplayOneMore, MicrosAssumption, CounterMaxAssumption
    DEF Facts!FlowTableAssumption
  <2>. QED
    BY <1>2, <2>1, <2>2, SameReplay, SameRecord
<1>4. Len(RecordedLog) < MaxPackets
  <2>1. Len(RecordedLog) = Len(taken)
    BY <1>1, LenProperties DEF RecordedLog
  <2>2. Len(taken) \in Nat /\ Len(pending) \in Nat \ {0}
    BY LenProperties, EmptySeq DEF ReadPacket, TypeOK
  <2>. QED
    BY <2>1, <2>2, PumpAssumption DEF ReplayInv
<1>5. RecordedLog' = Append(RecordedLog, [packet  |-> ThePacket,
                                          outcome |-> TheTable!Outcome(table, ThePacket)])
  <2>1. RecordedLog = LogOf(taken) /\ RecordedLog' = LogOf(taken')
    BY <1>1 DEF RecordedLog, LogOf
  <2>2. LogOf(taken') = Append(LogOf(taken), [packet  |-> ThePacket,
                                              outcome |-> Flows!Outcome(table, ThePacket)])
    BY <1>1, <1>2, LogGrows
  <2>. QED
    BY <2>1, <2>2, SameRecord
<1>6. table' = TheTable!record(table, ThePacket)
  BY SameRecord
<1>. QED
  BY <1>1, <1>3, <1>4, <1>5, <1>6 DEF TheTable!Next, TheTable!Record

LEMMA TableIsRecorded ==
  ASSUME TypeOK, ReplayInv, [SessionNext]_allVars
  PROVE  ReplayInv' /\ [TheTable!Next]_(TheTable!vars)
<1>1. Len(taken') + Len(pending') <= MaxPackets /\ config' = config
  BY RoomIsKept, SessionStepIsAPumpStep, BooksOnlyByPacket DEF ReplayInv
<1>2. CASE UNCHANGED <<taken, table>>
  <2>1. RecordedLog' = RecordedLog
    BY <1>1, <1>2 DEF RecordedLog
  <2>. QED
    BY <1>1, <1>2, <2>1 DEF ReplayInv, TheTable!vars
<1>3. CASE ReadPacket /\ config.listing /\ table' = table
  <2>1. RecordedLog' = RecordedLog
    BY <1>1, <1>3 DEF RecordedLog
  <2>. QED
    BY <1>1, <1>3, <2>1 DEF ReplayInv, TheTable!vars
<1>4. CASE ReadPacket /\ ~ config.listing /\ table' = Flows!record(table, ThePacket)
  BY <1>1, <1>4, TakenIsRecorded DEF ReplayInv
<1>. QED
  BY <1>2, <1>3, <1>4, TableMoves

(* A session implements both of its parts: main.rs around the loop is a    *)
(* pump, and what its callback does to the table, from the packets it is   *)
(* handed, is what FlowTable does to the packets it is offered.            *)
THEOREM SessionImplementsItsParts == SessionSpec => PartsBehaveAsSpecified
<1>1. SessionInit => TheTable!Init
  <2>. SUFFICES ASSUME SessionInit PROVE TheTable!Init
    OBVIOUS
  <2>1. taken = << >> /\ table = Flows!EmptyTable
    BY DEF SessionInit, Init
  <2>2. RecordedLog = << >>
    BY <2>1 DEF RecordedLog
  <2>3. Flows!EmptyTable = TheTable!EmptyTable
    BY DEF Flows!EmptyTable, TheTable!EmptyTable, Flows!Reason, TheTable!Reason
  <2>. QED
    BY <2>1, <2>2, <2>3 DEF TheTable!Init
<1>2. TypeOK /\ ReplayInv /\ [SessionNext]_allVars
        => ReplayInv' /\ [TheTable!Next]_(TheTable!vars)
  BY TableIsRecorded
<1>3. SessionSpec => TheTable!Spec
  BY <1>1, <1>2, ReplayInit, PumpInvAlways, PTL DEF SessionSpec, PumpInv, TheTable!Spec
<1>. QED
  BY <1>3, SessionIsAPump, PTL DEF PartsBehaveAsSpecified

(* So what is proved of every flow table holds of the one a session fills, *)
(* of the packets it took: each is counted once, no conversation is listed *)
(* in part, the first ones to appear are those listed, and a flow is the   *)
(* summary of its packets, in whatever order they came.                    *)
THEOREM SessionsFlowsAreTrue ==
  SessionSpec => [](/\ Facts!EveryPacketCounted /\ Facts!NoPartialFlow
                    /\ Facts!FirstConversationsKept /\ Facts!FlowsSummariseTheirPackets)
<1>1. TheTable!Init => Facts!Init
  BY DEF TheTable!Init, Facts!Init, TheTable!EmptyTable, Facts!EmptyTable,
    TheTable!Reason, Facts!Reason
<1>2. [TheTable!Next]_(TheTable!vars) => [Facts!Next]_(Facts!vars)
  BY SameRecord DEF TheTable!Next, Facts!Next, TheTable!Record, Facts!Record,
    TheTable!vars, Facts!vars
<1>3. TheTable!Spec => Facts!Spec
  BY <1>1, <1>2, PTL DEF TheTable!Spec, Facts!Spec
<1>4. /\ Facts!Spec => []Facts!EveryPacketCounted
      /\ Facts!Spec => []Facts!NoPartialFlow
      /\ Facts!Spec => []Facts!FirstConversationsKept
      /\ Facts!Spec => []Facts!FlowsSummariseTheirPackets
  BY SameAssumption, MicrosAssumption, CounterMaxAssumption, Facts!NothingGoesMissing,
     Facts!ConversationsAreWhole, Facts!LimitKeepsTheFirst, Facts!OrderWithinAFlowIsIrrelevant
  DEF Facts!FlowTableAssumption
<1>. QED
  BY <1>3, <1>4, SessionImplementsItsParts, PTL DEF PartsBehaveAsSpecified

-----------------------------------------------------------------------------
(* Types                                                                   *)

(* What the session keeps besides the pump and the table.                  *)
FrameInv ==
  /\ overwrite \in BOOLEAN /\ exists \in Answer
  /\ phase \in Phase /\ exit \in Exit
  /\ file.owner \in {"nobody", "someone", "us"} /\ file.packets \in Seq(Packets)
  /\ printed \subseteq {"header", "warning", "summary", "table", "written"}

LEMMA OwnFile ==
  ASSUME NEW q, q \in Seq(Packets)
  PROVE  /\ Ours(q).owner \in {"nobody", "someone", "us"} /\ Ours(q).packets \in Seq(Packets)
         /\ \A n \in 0 .. Len(q) : SubSeq(q, 1, n) \in Seq(Packets)
<1>1. Ours(q).owner \in {"nobody", "someone", "us"} /\ Ours(q).packets \in Seq(Packets)
  BY DEF Ours
<1>2. Len(q) \in Nat /\ \A i \in 1 .. Len(q) : q[i] \in Packets
  BY ElementOfSeq, LenProperties
<1>3. ASSUME NEW n \in 0 .. Len(q)
      PROVE  SubSeq(q, 1, n) \in Seq(Packets)
  <2>1. \A i \in 1 .. n : q[i] \in Packets
    BY <1>2, <1>3
  <2>. QED
    BY <1>2, <1>3, <2>1, SubSeqProperties
<1>. QED
  BY <1>1, <1>3

(* Every way out is one of the exits, every statement one of the phases.   *)
LEMMA FrameStatement ==
  ASSUME TypeOK, FrameInv, Statement, ~ RunLoop
  PROVE  FrameInv'
<1>1. sink \in Seq(Packets) /\ << >> \in Seq(Packets)
  BY EmptySeq DEF TypeOK
<1>2. /\ Ours(sink).owner \in {"nobody", "someone", "us"} /\ Ours(sink).packets \in Seq(Packets)
      /\ Ours(<< >>).owner \in {"nobody", "someone", "us"}
      /\ Ours(<< >>).packets \in Seq(Packets)
  BY <1>1, OwnFile
<1>. USE DEF FrameInv, Phase, Exit, Proceed, Leave, At
<1>3. CASE Validate
  BY <1>3 DEF Validate
<1>4. CASE CheckPath
  <2>1. exists' \in Answer /\ UNCHANGED <<overwrite, file, printed>>
    BY <1>4 DEF CheckPath, Answer
  <2>2. phase' \in Phase /\ exit' \in Exit
    BY <1>4 DEF CheckPath
  <2>. QED
    BY <2>1, <2>2
<1>5. CASE CreateFile
  BY <1>2, <1>5 DEF CreateFile
<1>6. CASE OpenSource
  BY <1>6 DEF OpenSource, OpenError
<1>7. CASE PrintHeader
  BY <1>2, <1>7 DEF PrintHeader, PrintOut, CloseFile
<1>8. CASE PrintWarning
  BY <1>2, <1>8 DEF PrintWarning, PrintOut, CloseFile
<1>9. CASE OpenSavefile
  BY <1>2, <1>9 DEF OpenSavefile
<1>10. CASE Arm
  BY <1>2, <1>10 DEF Arm, CloseFile
<1>11. CASE Return
  BY <1>2, <1>11 DEF Return, CloseFile
<1>12. CASE PrintSummary
  BY <1>2, <1>12 DEF PrintSummary, PrintOut, CloseFile, AfterReport
<1>13. CASE PrintTable
  BY <1>2, <1>13 DEF PrintTable, PrintOut, CloseFile, AfterReport
<1>14. CASE Flush
  <2>1. CASE file' = Ours(sink) /\ Proceed("written")
    BY <1>2, <1>14, <2>1 DEF Flush
  <2>2. CASE \E n \in 0 .. Len(sink) : file' = Ours(SubSeq(sink, 1, n))
    <3>1. PICK n \in 0 .. Len(sink) : file' = Ours(SubSeq(sink, 1, n))
      BY <2>2
    <3>2. SubSeq(sink, 1, n) \in Seq(Packets)
      BY <1>1, OwnFile
    <3>3. file'.owner \in {"nobody", "someone", "us"} /\ file'.packets \in Seq(Packets)
      BY <3>1, <3>2, OwnFile
    <3>. QED
      BY <1>14, <3>3 DEF Flush
  <2>. QED
    BY <1>14, <2>1, <2>2 DEF Flush
<1>15. CASE PrintWritten
  BY <1>2, <1>15 DEF PrintWritten, PrintOut, CloseFile
<1>16. CASE Verdict
  BY <1>16 DEF Verdict
<1>. QED
  BY <1>3, <1>4, <1>5, <1>6, <1>7, <1>8, <1>9, <1>10, <1>11, <1>12, <1>13, <1>14, <1>15,
     <1>16 DEF Statement

LEMMA FrameStep == TypeOK /\ FrameInv /\ [SessionNext]_allVars => FrameInv'
<1>. SUFFICES ASSUME TypeOK, FrameInv, [SessionNext]_allVars PROVE FrameInv'
  OBVIOUS
<1>1. CASE Statement /\ ~ RunLoop
  BY <1>1, FrameStatement
<1>2. CASE RunLoop \/ WokenByBreak
  BY <1>2 DEF RunLoop, WokenByBreak, Running, FrameInv, fileVars
<1>3. CASE HandlerRuns \/ Meanwhile
  BY <1>3 DEF HandlerRuns, Meanwhile, FrameInv, sessionVars, fileVars
<1>4. CASE CtrlCKills
  BY <1>4 DEF CtrlCKills, Leave, FrameInv, Phase, Exit, fileVars
<1>5. CASE SomeoneCreates
  BY <1>5, EmptySeq DEF SomeoneCreates, Someones, FrameInv
<1>6. CASE UNCHANGED allVars
  BY <1>6 DEF allVars, FrameInv, sessionVars, fileVars
<1>. QED
  BY <1>1, <1>2, <1>3, <1>4, <1>5, <1>6 DEF SessionNext, Statement

(* In every state of every session each part has its type, the flow table  *)
(* with its saturating counters and the output file included, and a        *)
(* session is over exactly when it has an exit.                            *)
THEOREM SessionTypeCorrect == SessionSpec => []SessionTypeOK
<1>1. SessionInit => FrameInv
  <2>. SUFFICES ASSUME SessionInit PROVE FrameInv
    OBVIOUS
  <2>1. file = Nothing \/ file = Someones
    BY DEF SessionInit
  <2>2. file.owner \in {"nobody", "someone", "us"} /\ file.packets \in Seq(Packets)
    <3>1. << >> \in Seq(Packets)
      BY EmptySeq
    <3>2. /\ Nothing.owner = "nobody" /\ Nothing.packets = << >>
          /\ Someones.owner = "someone" /\ Someones.packets = << >>
      BY DEF Nothing, Someones
    <3>3. file.owner \in {"nobody", "someone"} /\ file.packets = << >>
      BY <2>1, <3>2
    <3>. QED
      BY <3>1, <3>3
  <2>3. overwrite \in BOOLEAN /\ exists \in Answer /\ printed = {} /\ exit = "none"
    BY DEF SessionInit, Answer
  <2>4. phase = "settings" \/ phase = "open"
    BY DEF SessionInit
  <2>. QED
    BY <2>2, <2>3, <2>4 DEF FrameInv, Phase, Exit
<1>2. FrameInv /\ StoryInv /\ TableInv => SessionTypeOK
  BY DEF FrameInv, StoryInv, TableInv, SessionTypeOK
<1>. QED
  BY <1>1, <1>2, FrameStep, StoryAlways, TableAlways, PumpInvAlways, PTL
  DEF SessionSpec, PumpInv
=============================================================================
