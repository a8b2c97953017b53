------------------------------ MODULE Session -------------------------------
(***************************************************************************)
(* One run of `netsentry capture' or `netsentry read' (main.rs) from the   *)
(* arguments to the exit code: the pump in the middle, the flow table its  *)
(* callback fills, the output file (capture/writer.rs) it copies packets   *)
(* into, and the statements before and after it, each of which may fail.   *)
(*                                                                         *)
(* Every statement that can fail, or between which the world can change,   *)
(* is a step.  print! panics once nobody reads standard output; a panic or *)
(* an early return drops the writer, which closes its file.                *)
(***************************************************************************)
EXTENDS Pump, Errors

CONSTANTS
  Address, Port,   \* what FlowTable says of the packets' endpoints
  MaxFlows         \* --max-flows

VARIABLES
  overwrite,   \* --overwrite was given
  phase,       \* the statement of run_capture or run_read that comes next
  exists,      \* what try_exists said of the output path
  file,        \* the output path: whose file is there, and the packets in it
  table,       \* the FlowTable, filled if --flows was given
  printed,     \* what was printed besides packet lines
  exit         \* how the process ended

fileVars == <<overwrite, exists, file>>
sessionVars == <<fileVars, phase, table, printed, exit>>
allVars == <<vars, sessionVars>>

Flows == INSTANCE FlowTable WITH log <- << >>

ASSUME SessionAssumption == Flows!FlowTableAssumption

Phase ==
  {"settings", "check", "create", "open", "header", "warning", "savefile", "arm", "run",
   "summary", "table", "flush", "written", "verdict", "over"}

(* An error is exit code 1 and its report.                                 *)
Exit == {"none", "ok", "panicked", "killed"} \cup NetSentryError

failed == exit \in NetSentryError

(* What try_exists can say; it may also fail to find out.                  *)
Answer == {"yes", "no", "unknown"}

(* nobody's: there is no file.                                             *)
Nothing == [owner |-> "nobody", packets |-> << >>]
Ours(packets) == [owner |-> "us", packets |-> packets]
Someones == [owner |-> "someone", packets |-> << >>]

SessionInit ==
  /\ Init
  /\ overwrite \in IF config.saving THEN BOOLEAN ELSE {FALSE}
  /\ phase = IF live THEN "settings" ELSE "open"
  /\ exists = "unknown"
  /\ file \in IF config.saving THEN {Nothing, Someones} ELSE {Nothing}
  /\ table = Flows!EmptyTable
  /\ printed = {}
  /\ exit = "none"

-----------------------------------------------------------------------------
(* Going on, and going away                                                *)

At(statement) == phase = statement /\ UNCHANGED <<vars, overwrite, table>>

Proceed(statement) == phase' = statement /\ UNCHANGED exit

Leave(how) == phase' = "over" /\ exit' = how

(* Whether a CaptureWriter is alive, to be dropped on the way out.         *)
HasWriter ==
  config.saving /\ phase \in {"arm", "run", "summary", "table", "flush", "written"}

CloseFile == file' = IF HasWriter THEN Ours(sink) ELSE file

PrintOut(what, next) ==
  /\ \/ outlet /\ printed' = printed \cup {what} /\ Proceed(next) /\ UNCHANGED file
     \/ ~ outlet /\ Leave("panicked") /\ CloseFile /\ UNCHANGED printed
  /\ UNCHANGED exists

-----------------------------------------------------------------------------
(* Before the loop                                                         *)

(* What the user asked for is checked before anything is touched: the      *)
(* numbers, and that libpcap can be given the path at all.                 *)
Validate ==
  /\ At("settings")
  /\ \/ Proceed(IF config.saving THEN "check" ELSE "open")
     \/ \E error \in SettingsError : Leave(error)
     \/ config.saving /\ Leave("PathNotUtf8")
  /\ UNCHANGED <<exists, file, printed>>

(* Mutant: an existing file is not refused.                                *)
CheckPath_Replaced ==
  /\ At("check")
  /\ exists' = IF file.owner # "nobody" THEN "yes" ELSE "no"
  /\ Proceed("create")
  /\ UNCHANGED <<file, printed>>

(* prepare_capture_file: an existing file is refused, unless the question  *)
(* whether there is one fails ...                                          *)
CheckPath ==
  /\ At("check")
  /\ exists' \in {IF file.owner # "nobody" THEN "yes" ELSE "no", "unknown"}
  /\ IF exists' = "yes" /\ ~ overwrite THEN Leave("OutputFileExists") ELSE Proceed("create")
  /\ UNCHANGED <<file, printed>>

(* ... and otherwise one is created, or truncated, whatever is there by    *)
(* now.                                                                    *)
CreateFile ==
  /\ At("create")
  /\ \/ Proceed("open") /\ file' = Ours(<< >>)
     \/ Leave("OutputFileUnwritable") /\ UNCHANGED file
  /\ UNCHANGED <<exists, printed>>

OpenError ==
  IF live THEN InterfaceError \cup {"CapturePermissionDenied", "CaptureOpen"}
          ELSE FileError \ {"CaptureFileCorrupt"}

(* Finding and opening the interface, or opening the file to read.         *)
OpenSource ==
  /\ At("open")
  /\ Proceed("header") \/ \E error \in OpenError : Leave(error)
  /\ UNCHANGED <<exists, file, printed>>

PrintHeader ==
  /\ At("header")
  /\ PrintOut("header", IF ~ live THEN "run" ELSE IF config.saving THEN "warning" ELSE "arm")

PrintWarning == At("warning") /\ PrintOut("warning", "savefile")

(* open_savefile: libpcap opens the path for itself and truncates it.      *)
OpenSavefile ==
  /\ At("savefile")
  /\ \/ Proceed("arm") /\ file' = Ours(<< >>)
     \/ Leave("CaptureWriteOpen") /\ UNCHANGED file
  /\ UNCHANGED <<exists, printed>>

(* ctrlc::set_handler                                                      *)
Arm ==
  /\ At("arm")
  /\ \/ Proceed("run") /\ UNCHANGED file
     \/ Leave("SignalHandler") /\ CloseFile
  /\ UNCHANGED <<exists, printed>>

-----------------------------------------------------------------------------
(* The loop, and what becomes of its result                                *)

(* Mutant: the packet that ends the run is not recorded.                   *)
Tabulate_NotTheLast ==
  table' = IF ~ config.listing /\ taken' # taken /\ pc' # "done"
             THEN Flows!record(table, Head(pending)) ELSE table

(* The callback, which in flow mode records the packet just read.          *)
Tabulate ==
  table' = IF ~ config.listing /\ taken' # taken
             THEN Flows!record(table, Head(pending)) ELSE table

Running ==
  /\ phase = "run"
  /\ Tabulate
  /\ UNCHANGED <<fileVars, phase, printed, exit>>

RunLoop == Loop /\ Running
WokenByBreak == ReadBroken /\ Running

(* Mutants: a damaged file is as little worth reporting as a failed        *)
(* capture; the flag is cleared for a next run.                            *)
Return_Discarded ==
  /\ At("run")
  /\ pc = "done"
  /\ IF stop_reason = "ReadFailed" THEN Leave("CaptureRead") /\ CloseFile
     ELSE Proceed("summary") /\ UNCHANGED file
  /\ UNCHANGED <<exists, printed>>

Return_FlagCleared ==
  /\ phase = "run"
  /\ pc = "done"
  /\ stop' = FALSE
  /\ IF live /\ stop_reason = "ReadFailed" THEN Leave("CaptureRead") /\ CloseFile
     ELSE Proceed("summary") /\ UNCHANGED file
  /\ UNCHANGED <<config, worldVars, handler, signals, brk, pc, stop_reason, bookVars,
                 overwrite, table, exists, printed>>

(* LiveCapture::run turns a failed read into an error, which ends          *)
(* run_capture; CaptureFile::run keeps it for later.                       *)
Return ==
  /\ At("run")
  /\ pc = "done"
  /\ IF live /\ stop_reason = "ReadFailed" THEN Leave("CaptureRead") /\ CloseFile
     ELSE Proceed("summary") /\ UNCHANGED file
  /\ UNCHANGED <<exists, printed>>

-----------------------------------------------------------------------------
(* After the loop                                                          *)

AfterReport == IF config.saving THEN "flush" ELSE "verdict"

PrintSummary ==
  At("summary") /\ PrintOut("summary", IF config.listing THEN AfterReport ELSE "table")

PrintTable == At("table") /\ PrintOut("table", AfterReport)

(* Packets still buffered reach the disk, or only some of them do.         *)
Flush ==
  /\ At("flush")
  /\ \/ Proceed("written") /\ file' = Ours(sink)
     \/ /\ Leave("CaptureWriteFailed")
        /\ \E n \in 0 .. Len(sink) : file' = Ours(SubSeq(sink, 1, n))
  /\ UNCHANGED <<exists, printed>>

PrintWritten == At("written") /\ PrintOut("written", "verdict")

(* Mutant: a damaged file is reported and forgotten.                       *)
Verdict_Always ==
  /\ At("verdict")
  /\ Leave("ok")
  /\ UNCHANGED <<exists, file, printed>>

(* A damaged file fails the command after everything was reported.         *)
Verdict ==
  /\ At("verdict")
  /\ Leave(IF stop_reason = "ReadFailed" THEN "CaptureFileCorrupt" ELSE "ok")
  /\ UNCHANGED <<exists, file, printed>>

Statement ==
  \/ Validate \/ CheckPath \/ CreateFile \/ OpenSource
  \/ PrintHeader \/ PrintWarning \/ OpenSavefile \/ Arm
  \/ RunLoop \/ Return
  \/ PrintSummary \/ PrintTable \/ Flush \/ PrintWritten \/ Verdict

-----------------------------------------------------------------------------
(* What happens beside it                                                  *)

(* The handler is installed last, and only for a live capture.             *)
Armed == live /\ phase \in {"run", "summary", "table", "flush", "written", "verdict"}

(* The handle is open, and there is still something to read from it.       *)
Opened == phase \in {"header", "warning", "savefile", "arm", "run"}

HandlerRuns == Armed /\ HandlerStep /\ UNCHANGED sessionVars

Meanwhile ==
  /\ phase # "over"
  /\ \/ OutputCloses
     \/ Opened /\ (InterfaceGone \/ \E p \in Packets : Arrive(p))
     \/ Armed /\ Signal
  /\ UNCHANGED sessionVars

(* Without a handler Ctrl+C ends the process where it is.                  *)
CtrlCKills ==
  /\ phase # "over"
  /\ ~ Armed
  /\ Leave("killed")
  /\ UNCHANGED <<vars, fileVars, table, printed>>

(* Another process creates a file of that name.                            *)
SomeoneCreates ==
  /\ phase # "over"
  /\ config.saving
  /\ file = Nothing
  /\ file' = Someones
  /\ UNCHANGED <<vars, overwrite, exists, phase, table, printed, exit>>

SessionNext ==
  Statement \/ WokenByBreak \/ HandlerRuns \/ Meanwhile \/ CtrlCKills \/ SomeoneCreates

SessionSpec == SessionInit /\ [][SessionNext]_allVars

(* As in Pump: a woken read is not promised; every other statement comes   *)
(* to its end.                                                             *)
FairSession == SessionSpec /\ WF_allVars(Statement) /\ WF_allVars(HandlerRuns)

-----------------------------------------------------------------------------
(* What a session must satisfy                                             *)

(* The type invariant of what the session adds to the pump.                *)
SessionTypeOK ==
  /\ overwrite \in BOOLEAN /\ exists \in Answer
  /\ phase \in Phase /\ exit \in Exit
  /\ phase = "over" <=> exit # "none"
  /\ file.owner \in {"nobody", "someone", "us"} /\ file.packets \in Seq(Packets)
  /\ Flows!TableTypeOK
  /\ printed \subseteq {"header", "warning", "summary", "table", "written"}

RunIsAPump == Spec

(* The packets the table was given, each with the outcome it met at the    *)
(* table that those before it had left.                                    *)
RecordedLog ==
  IF config.listing THEN << >>
  ELSE [i \in 1 .. Len(taken) |->
          [packet  |-> taken[i],
           outcome |-> Flows!Outcome(Flows!Replay(SubSeq(taken, 1, i - 1)), taken[i])]]

TheTable == INSTANCE FlowTable WITH log <- RecordedLog

(* Whatever happens around the loop, what it does is what Pump says, and   *)
(* what its callback does to the table is what FlowTable says: the         *)
(* statements before and after disturb nothing of either, so that all that *)
(* holds of every pump and of every flow table holds of every session.     *)
PartsBehaveAsSpecified == RunIsAPump /\ TheTable!Spec

(* The two reports of a run agree: the flows and the packets that formed   *)
(* none add up to the packets the summary counts, at every moment, while   *)
(* no counter has reached its maximum.                                     *)
TableMatchesSummary ==
  ~ config.listing /\ Len(taken) < CounterMax => Flows!PacketsTabulated = tally.packets

(* Exit code 0 is the whole story: the source was read to a proper end,    *)
(* everything there is to report was printed, and a saved capture is       *)
(* complete.                                                               *)
SuccessIsTheWholeStory ==
  exit = "ok" =>
    /\ stop_reason \in {"Interrupted", "CountReached", "SourceEnded"}
    /\ {"header", "summary"} \subseteq printed
    /\ ~ config.listing => "table" \in printed
    /\ config.saving => "written" \in printed /\ file = Ours(taken)

(* Packets that were captured survive a run that ends badly, unless it is  *)
(* the file itself that fails: an interface that goes away and an output   *)
(* that closes leave a complete file behind.                               *)
CapturedPacketsSurvive ==
  (failed \/ exit = "panicked") /\ config.saving /\ stop_reason # "None" =>
     \/ file = Ours(taken)
     \/ "summary" \in printed /\ exit = "CaptureWriteFailed"

(* README: a damaged capture is reported for what it still contains, and   *)
(* the exit code is still non-zero.  What the error says is so: the        *)
(* packets it calls read were reported, and the rest is what is damaged.   *)
DamageIsReportedAndFails ==
  /\ ~ live /\ stop_reason = "ReadFailed" /\ (exit = "ok" \/ failed) =>
        exit = "CaptureFileCorrupt"
  /\ exit = "CaptureFileCorrupt" =>
        /\ ~ live /\ broken /\ pending = << >>
        /\ "summary" \in printed
        /\ ~ config.listing => "table" \in printed

(* A file that was there when the path was checked is never touched,       *)
(* neither then nor by anything the session does later, unless --overwrite *)
(* was given.                                                              *)
FileSeenIsKept == [][exists' = "yes" /\ ~ overwrite => UNCHANGED file]_allVars

(* README: Ctrl+C stops the capture and still prints its summary, unless   *)
(* nobody reads it or the interface failed first.                          *)
InterruptedStillSummarises ==
  handler # << >> ~>
    exit # "none" /\ ("summary" \in printed \/ ~ outlet \/ stop_reason = "ReadFailed")

(* live.rs: after a read failure "there is no partial file to salvage".    *)
NoPartialFile ==
  live /\ stop_reason = "ReadFailed" /\ exit # "none" => file.packets = << >>

(* README: an existing file is refused, not replaced, unless --overwrite.  *)
(* So should one be that came to exist after the path was checked and      *)
(* truly found free.  (Where the check itself failed, nothing is claimed.) *)
OthersFilesUntouched ==
  [][file = Someones /\ exists = "no" /\ ~ overwrite => UNCHANGED file]_allVars
=============================================================================
