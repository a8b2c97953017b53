--------------------------- MODULE StartingProofs ---------------------------
(***************************************************************************)
(* That starting implements the opening of a session: what Session says of *)
(* everything before the first packet is true of the calls of Startup.     *)
(***************************************************************************)
EXTENDS StartupProofs

-----------------------------------------------------------------------------
(* What StartedSession sees of the state.                                  *)
ConfigSeen ==
  [source  |-> IF capturing THEN "live" ELSE "file",
   limit   |-> IF args.command = "list" \/ (capturing /\ args.count = {0})
                 THEN {} ELSE args.count,
   saving  |-> saving,
   listing |-> listing]

PhaseSeen ==
  CASE args.command = "list" -> "open"
    [] args.command # "list" /\ exit # "none" -> "over"
    [] args.command # "list" /\ exit = "none" /\ todo = << >> -> "header"
    [] args.command # "list" /\ exit = "none" /\ todo # << >> ->
         CASE Head(todo) \in {"settings", "path"} -> "settings"
           [] Head(todo) \in {"check", "create"} -> Head(todo)
           [] OTHER -> "open"

ExitSeen == IF args.command = "list" THEN "none" ELSE exit

FileSeen == [owner |-> target, packets |-> << >>]

LEMMA ConfigFits ==
  ASSUME args \in Command
  PROVE  ConfigSeen \in StartedSession!Config
<1>1. /\ saving \in BOOLEAN /\ listing \in BOOLEAN
      /\ capturing \in BOOLEAN
  BY DEF saving, listing, capturing, Command, CaptureArgs, ReadArgs, FlowArgs
<1>2. ConfigSeen.limit \in Count
  BY DEF ConfigSeen, Command, CaptureArgs, ReadArgs, Count, capturing
<1>3. ConfigSeen.source = "live" => ConfigSeen.limit # {0}
  BY DEF ConfigSeen, capturing
<1>4. ConfigSeen.source = "file" => ~ ConfigSeen.saving
  BY DEF ConfigSeen, capturing, saving
<1>5. ConfigSeen \in [source: {"live", "file"}, limit: Count, saving: BOOLEAN, listing: BOOLEAN]
  BY <1>1, <1>2 DEF ConfigSeen
<1>. QED
  BY <1>3, <1>4, <1>5
  DEF StartedSession!Config, StartedSession!Source, StartedSession!ValidCount

LEMMA NoFlows == StartedSession!Flows!EmptyTable
  = [flows     |-> << >>,
     untracked |-> [reason \in {"arp", "icmp", "later_fragments", "undecoded",
                                "other_protocol", "over_flow_limit"} |-> 0]]
<1>1. [k \in {} |-> 0] = << >>
  OBVIOUS
<1>. QED
  BY <1>1 DEF StartedSession!Flows!EmptyTable, StartedSession!Flows!Reason

LEMMA Begins ==
  /\ Head(run_capture) = "settings" /\ run_capture # << >>
  /\ Head(run_read) = "open file" /\ run_read # << >>
BY DEF run_capture, run_read

LEMMA InitSeen == Init => StartedSession!SessionInit
<1>. SUFFICES ASSUME Init
              PROVE  StartedSession!SessionInit
  OBVIOUS
<1>1. args \in Command /\ args \in Commands
  BY StartupAssumption DEF Init
<1>2. saving \in BOOLEAN /\ listing \in BOOLEAN /\ capturing \in BOOLEAN
  BY <1>1 DEF saving, listing, capturing, Command, CaptureArgs, ReadArgs, FlowArgs
<1>3. StartedSession!Init
  <2>1. ConfigSeen \in StartedSession!Config
    BY <1>1, ConfigFits
  <2>2. << >> \in UNION {[1 .. n -> {}] : n \in 0 .. 0}
    <3>1. << >> \in [1 .. 0 -> {}]
      OBVIOUS
    <3>. QED
      BY <3>1
  <2>. QED
    BY <2>1, <2>2
    DEF StartedSession!Init, StartedSession!live, StartedSession!ZeroTotals,
        StartedSession!EmptySpan, ConfigSeen
<1>4. (saving /\ args.overwrite) \in IF saving THEN BOOLEAN ELSE {FALSE}
  BY <1>1, <1>2 DEF saving, capturing, Command, CaptureArgs, ReadArgs
<1>5. PhaseSeen = IF ConfigSeen.source = "live" THEN "settings" ELSE "open"
  <2>1. ConfigSeen.source = IF args.command = "capture" THEN "live" ELSE "file"
    BY DEF ConfigSeen, capturing
  <2>2. args.command \in {"capture", "read", "list"} /\ exit = "none"
    BY <1>1 DEF Command, CaptureArgs, ReadArgs, Init
  <2>3. CASE args.command = "capture"
    <3>1. todo = run_capture
      BY <2>3 DEF Init
    <3>. QED
      BY <2>1, <2>2, <2>3, <3>1, Begins, Zenon DEF PhaseSeen
  <2>4. CASE args.command = "read"
    <3>1. todo = run_read
      BY <2>4 DEF Init
    <3>. QED
      BY <2>1, <2>2, <2>4, <3>1, Begins, Zenon DEF PhaseSeen
  <2>5. CASE args.command = "list"
    BY <2>1, <2>5 DEF PhaseSeen
  <2>. QED
    BY <2>2, <2>3, <2>4, <2>5
<1>6. FileSeen \in IF saving THEN {StartedSession!Nothing, StartedSession!Someones}
                   ELSE {StartedSession!Nothing}
  BY <1>2 DEF Init, FileSeen, StartedSession!Nothing, StartedSession!Someones
<1>7. exists = "unknown" /\ ExitSeen = "none"
  BY DEF Init, ExitSeen
<1>. QED
  BY <1>3, <1>4, <1>5, <1>6, <1>7, NoFlows
  DEF StartedSession!SessionInit, StartedSession!live, ConfigSeen, PhaseSeen, FileSeen, ExitSeen

(* The statements of a session, by what is seen of them.                   *)

LEMMA StutterSeen ==
  ASSUME UNCHANGED <<args, exists, target>>, PhaseSeen' = PhaseSeen, ExitSeen' = ExitSeen
  PROVE  UNCHANGED StartedSession!allVars
BY DEF StartedSession!allVars, StartedSession!sessionVars, StartedSession!fileVars,
       StartedSession!vars, StartedSession!worldVars, StartedSession!handlerVars,
       StartedSession!bookVars, PhaseSeen, ExitSeen, saving, capturing, listing

LEMMA ValidateSeen ==
  ASSUME UNCHANGED <<args, exists, target>>, PhaseSeen = "settings",
         \/ PhaseSeen' = (IF saving THEN "check" ELSE "open") /\ ExitSeen' = ExitSeen
         \/ PhaseSeen' = "over" /\ ExitSeen' \in SettingsError
         \/ saving /\ PhaseSeen' = "over" /\ ExitSeen' = "PathNotUtf8"
  PROVE  StartedSession!Validate
BY DEF StartedSession!Validate, StartedSession!At, StartedSession!Proceed, StartedSession!Leave,
       StartedSession!vars, StartedSession!worldVars, StartedSession!handlerVars,
       StartedSession!bookVars, StartedSession!SettingsError, SettingsError,
       PhaseSeen, ExitSeen, saving, capturing, listing

LEMMA CheckPathSeen ==
  ASSUME UNCHANGED <<args, target>>, PhaseSeen = "check", saving,
         exists' \in {IF target # "nobody" THEN "yes" ELSE "no", "unknown"},
         IF exists' = "yes" /\ ~ args.overwrite
           THEN PhaseSeen' = "over" /\ ExitSeen' = "OutputFileExists"
           ELSE PhaseSeen' = "create" /\ ExitSeen' = ExitSeen
  PROVE  StartedSession!CheckPath
BY DEF StartedSession!CheckPath, StartedSession!At, StartedSession!Proceed, StartedSession!Leave,
       StartedSession!vars, StartedSession!worldVars, StartedSession!handlerVars,
       StartedSession!bookVars, PhaseSeen, ExitSeen, saving, capturing, listing

LEMMA CreateFileSeen ==
  ASSUME UNCHANGED <<args, exists>>, PhaseSeen = "create",
         \/ PhaseSeen' = "open" /\ ExitSeen' = ExitSeen /\ target' = "us"
         \/ PhaseSeen' = "over" /\ ExitSeen' = "OutputFileUnwritable" /\ target' = target
  PROVE  StartedSession!CreateFile
BY DEF StartedSession!CreateFile, StartedSession!At, StartedSession!Proceed,
       StartedSession!Leave, StartedSession!Ours,
       StartedSession!vars, StartedSession!worldVars, StartedSession!handlerVars,
       StartedSession!bookVars, PhaseSeen, ExitSeen, saving, capturing, listing

LEMMA OpenSourceSeen ==
  ASSUME UNCHANGED <<args, exists, target>>, PhaseSeen = "open",
         \/ PhaseSeen' = "header" /\ ExitSeen' = ExitSeen
         \/ PhaseSeen' = "over" /\ ExitSeen' \in StartedSession!OpenError
  PROVE  StartedSession!OpenSource
BY DEF StartedSession!OpenSource, StartedSession!At, StartedSession!Proceed, StartedSession!Leave,
       StartedSession!vars, StartedSession!worldVars, StartedSession!handlerVars,
       StartedSession!bookVars, PhaseSeen, ExitSeen, saving, capturing, listing

LEMMA SomeoneCreatesSeen ==
  ASSUME UNCHANGED <<args, exists>>, PhaseSeen' = PhaseSeen, ExitSeen' = ExitSeen,
         PhaseSeen # "over", saving, target = "nobody", target' = "someone"
  PROVE  StartedSession!SomeoneCreates
BY DEF StartedSession!SomeoneCreates, StartedSession!Nothing, StartedSession!Someones,
       StartedSession!vars, StartedSession!worldVars, StartedSession!handlerVars,
       StartedSession!bookVars, PhaseSeen, ExitSeen, saving, capturing, listing

(* What run_capture calls after the call that comes next.                  *)
SavingAgendas ==
  {<<"settings", "path", "check", "create", "list", "resolve", "open">>,
   <<"path", "check", "create", "list", "resolve", "open">>,
   <<"check", "create", "list", "resolve", "open">>,
   <<"create", "list", "resolve", "open">>,
   <<"list", "resolve", "open">>, <<"resolve", "open">>, <<"open">>, << >>}

PlainAgendas ==
  {<<"settings", "list", "resolve", "open">>,
   <<"list", "resolve", "open">>, <<"resolve", "open">>, <<"open">>, << >>}

Planned ==
  args.command = "capture" => todo \in IF saving THEN SavingAgendas ELSE PlainAgendas

LEMMA SavingInOrder ==
  ASSUME NEW s \in SavingAgendas, s # << >>
  PROVE  /\ Tail(s) \in SavingAgendas
         /\ Head(s) # "open" => Tail(s) # << >>
         /\ Head(s) = "open" => Tail(s) = << >>
         /\ Head(s) = "settings" => Head(Tail(s)) = "path"
         /\ Head(s) = "path" => Head(Tail(s)) = "check"
         /\ Head(s) = "check" => Head(Tail(s)) = "create"
         /\ Head(s) = "create" => Head(Tail(s)) = "list"
         /\ Head(s) = "list" => Head(Tail(s)) = "resolve"
         /\ Head(s) = "resolve" => Head(Tail(s)) = "open"
<1>1. CASE s = <<"settings", "path", "check", "create", "list", "resolve", "open">>
  <2>1. Tail(s) = <<"path", "check", "create", "list", "resolve", "open">>
    BY <1>1
  <2>. QED
    BY <1>1, <2>1 DEF SavingAgendas
<1>2. CASE s = <<"path", "check", "create", "list", "resolve", "open">>
  <2>1. Tail(s) = <<"check", "create", "list", "resolve", "open">>
    BY <1>2
  <2>. QED
    BY <1>2, <2>1 DEF SavingAgendas
<1>3. CASE s = <<"check", "create", "list", "resolve", "open">>
  <2>1. Tail(s) = <<"create", "list", "resolve", "open">>
    BY <1>3
  <2>. QED
    BY <1>3, <2>1 DEF SavingAgendas
<1>4. CASE s = <<"create", "list", "resolve", "open">>
  <2>1. Tail(s) = <<"list", "resolve", "open">>
    BY <1>4
  <2>. QED
    BY <1>4, <2>1 DEF SavingAgendas
<1>5. CASE s = <<"list", "resolve", "open">>
  <2>1. Tail(s) = <<"resolve", "open">>
    BY <1>5
  <2>. QED
    BY <1>5, <2>1 DEF SavingAgendas
<1>6. CASE s = <<"resolve", "open">>
  <2>1. Tail(s) = <<"open">>
    BY <1>6
  <2>. QED
    BY <1>6, <2>1 DEF SavingAgendas
<1>7. CASE s = <<"open">>
  <2>1. Tail(s) = << >>
    BY <1>7
  <2>. QED
    BY <1>7, <2>1 DEF SavingAgendas
<1>. QED
  BY <1>1, <1>2, <1>3, <1>4, <1>5, <1>6, <1>7 DEF SavingAgendas

LEMMA PlainInOrder ==
  ASSUME NEW s \in PlainAgendas, s # << >>
  PROVE  /\ Tail(s) \in PlainAgendas
         /\ Head(s) \in {"settings", "list", "resolve", "open"}
         /\ Head(s) # "open" => Tail(s) # << >>
         /\ Head(s) = "open" => Tail(s) = << >>
         /\ Head(s) = "settings" => Head(Tail(s)) = "list"
         /\ Head(s) = "list" => Head(Tail(s)) = "resolve"
         /\ Head(s) = "resolve" => Head(Tail(s)) = "open"
<1>1. CASE s = <<"settings", "list", "resolve", "open">>
  <2>1. Tail(s) = <<"list", "resolve", "open">>
    BY <1>1
  <2>. QED
    BY <1>1, <2>1 DEF PlainAgendas
<1>2. CASE s = <<"list", "resolve", "open">>
  <2>1. Tail(s) = <<"resolve", "open">>
    BY <1>2
  <2>. QED
    BY <1>2, <2>1 DEF PlainAgendas
<1>3. CASE s = <<"resolve", "open">>
  <2>1. Tail(s) = <<"open">>
    BY <1>3
  <2>. QED
    BY <1>3, <2>1 DEF PlainAgendas
<1>4. CASE s = <<"open">>
  <2>1. Tail(s) = << >>
    BY <1>4
  <2>. QED
    BY <1>4, <2>1 DEF PlainAgendas
<1>. QED
  BY <1>1, <1>2, <1>3, <1>4 DEF PlainAgendas

LEMMA InitPlanned == Init => Planned
BY DEF Init, Planned, run_capture, SavingAgendas, PlainAgendas, saving, capturing

LEMMA PlannedKept ==
  ASSUME Planned, UNCHANGED args,
         \/ todo' = todo
         \/ todo' = << >>
         \/ todo # << >> /\ todo' = Tail(todo)
         \/ args.command = "read"
  PROVE  Planned'
<1>1. << >> \in SavingAgendas /\ << >> \in PlainAgendas
  BY DEF SavingAgendas, PlainAgendas
<1>. QED
  BY <1>1, SavingInOrder, PlainInOrder DEF Planned, saving, capturing

LEMMA PhaseIs ==
  ASSUME args.command # "list"
  PROVE  /\ ExitSeen = exit
         /\ exit # "none" => PhaseSeen = "over"
         /\ exit = "none" /\ todo = << >> => PhaseSeen = "header"
         /\ exit = "none" /\ todo # << >> =>
              PhaseSeen = IF Head(todo) \in {"settings", "path"} THEN "settings"
                          ELSE IF Head(todo) \in {"check", "create"} THEN Head(todo)
                          ELSE "open"
BY DEF PhaseSeen, ExitSeen

LEMMA PhaseIsNext ==
  ASSUME args'.command # "list"
  PROVE  /\ ExitSeen' = exit'
         /\ exit' # "none" => PhaseSeen' = "over"
         /\ exit' = "none" /\ todo' = << >> => PhaseSeen' = "header"
         /\ exit' = "none" /\ todo' # << >> =>
              PhaseSeen' = IF Head(todo') \in {"settings", "path"} THEN "settings"
                           ELSE IF Head(todo') \in {"check", "create"} THEN Head(todo')
                           ELSE "open"
BY DEF PhaseSeen, ExitSeen

LEMMA ListingSeen ==
  ASSUME args.command = "list", UNCHANGED <<args, exists, target>>
  PROVE  UNCHANGED StartedSession!allVars
<1>1. PhaseSeen = "open" /\ PhaseSeen' = "open" /\ ExitSeen = "none" /\ ExitSeen' = "none"
  BY DEF PhaseSeen, ExitSeen
<1>. QED
  BY <1>1, StutterSeen

(* Every call but the first three is a failure to open the source, or is   *)
(* followed by another one, or was the last.                               *)
LEMMA OpeningSeen ==
  ASSUME UNCHANGED <<args, exists, target>>, args.command # "list",
         exit = "none", todo # << >>,
         Head(todo) \notin {"settings", "path", "check", "create"},
         \/ /\ exit' = "none"
            /\ todo' # << >> => Head(todo') \notin {"settings", "path", "check", "create"}
         \/ exit' \in StartedSession!OpenError /\ exit' # "none"
  PROVE  StartedSession!OpenSource \/ UNCHANGED StartedSession!allVars
<1>1. args'.command # "list"
  OBVIOUS
<1>2. PhaseSeen = "open" /\ ExitSeen = "none"
  BY PhaseIs
<1>3. CASE exit' = "none" /\ todo' # << >>
  <2>1. PhaseSeen' = "open" /\ ExitSeen' = "none"
    BY <1>1, <1>3, PhaseIsNext
  <2>. QED
    BY <1>2, <2>1, StutterSeen
<1>4. CASE exit' = "none" /\ todo' = << >>
  <2>1. PhaseSeen' = "header" /\ ExitSeen' = "none"
    BY <1>1, <1>4, PhaseIsNext
  <2>. QED
    BY <1>2, <2>1, OpenSourceSeen
<1>5. CASE exit' \in StartedSession!OpenError /\ exit' # "none"
  <2>1. PhaseSeen' = "over" /\ ExitSeen' = exit'
    BY <1>1, <1>5, PhaseIsNext
  <2>. QED
    BY <1>2, <1>5, <2>1, OpenSourceSeen
<1>. QED
  BY <1>3, <1>4, <1>5

LEMMA InterfaceErrors ==
  args.command = "capture" =>
    {"InterfaceEnumeration", "NoInterfacesFound", "InterfaceNotFound", "CaptureOpen",
     "InterfaceIndexOutOfRange", "AmbiguousInterface", "CapturePermissionDenied"}
      \subseteq StartedSession!OpenError \ {"none"}
BY DEF StartedSession!OpenError, StartedSession!live, StartedSession!InterfaceError,
       InterfaceError, capturing

LEMMA FileErrors ==
  args.command = "read" =>
    {"CaptureFileMissing", "CaptureFilePermissionDenied", "CaptureFileIsDirectory",
     "CaptureFileUnreadable", "CaptureFileFormat"}
      \subseteq StartedSession!OpenError \ {"none"}
BY DEF StartedSession!OpenError, StartedSession!live, StartedSession!FileError,
       FileError, capturing


(* What follows the call that comes next, when it succeeds.                *)
LEMMA NextCall ==
  ASSUME Planned, args.command = "capture", todo # << >>
  PROVE  /\ Head(todo) \in {"path", "check", "create"} => saving
         /\ Head(todo) # "open" => Tail(todo) # << >>
         /\ Head(todo) = "open" => Tail(todo) = << >>
         /\ Head(todo) = "settings" => Head(Tail(todo)) = IF saving THEN "path" ELSE "list"
         /\ Head(todo) = "path" => Head(Tail(todo)) = "check"
         /\ Head(todo) = "check" => Head(Tail(todo)) = "create"
         /\ Head(todo) = "create" => Head(Tail(todo)) = "list"
         /\ Head(todo) = "list" => Head(Tail(todo)) = "resolve"
         /\ Head(todo) = "resolve" => Head(Tail(todo)) = "open"
<1>1. CASE saving
  <2>1. todo \in SavingAgendas
    BY <1>1 DEF Planned
  <2>. QED
    BY <1>1, <2>1, SavingInOrder
<1>2. CASE ~ saving
  <2>1. todo \in PlainAgendas
    BY <1>2 DEF Planned
  <2>. QED
    BY <1>2, <2>1, PlainInOrder
<1>. QED
  BY <1>1, <1>2

LEMMA Caller ==
  ASSUME IInv, todo # << >>
  PROVE  /\ args.command \in {"capture", "read", "list"}
         /\ Head(todo) \in {"settings", "path", "check", "create", "resolve", "open"} =>
              args.command = "capture"
         /\ Head(todo) \in {"open file", "metadata", "is_dir", "from_file"} =>
              args.command = "read"
         /\ Head(todo) = "list" => args.command \in {"capture", "list"}
<1>1. args \in Command /\ todo \in Agendas
  BY StartupAssumption DEF IInv, StartupTypeOK
<1>2. args.command \in {"capture", "read", "list"}
  BY <1>1 DEF Command, CaptureArgs, ReadArgs
<1>. QED
  BY <1>1, <1>2, HeadTells DEF BeforeResolve, BeforeList, BeforeCreate, BeforeCheck

(* One step of starting is a step of a session, or is not seen.            *)
Seen == StartedSession!SessionNext \/ UNCHANGED StartedSession!allVars

LEMMA SettingsSeen ==
  ASSUME IInv, Planned, NewSettings
  PROVE  Seen
<1>1. /\ exit = "none" /\ todo # << >> /\ Head(todo) = "settings"
      /\ UNCHANGED <<args, exists, target>>
  BY DEF NewSettings, At, stateVars
<1>2. args.command = "capture"
  BY <1>1, Caller
<1>3. PhaseSeen = "settings" /\ ExitSeen = "none"
  BY <1>1, <1>2, PhaseIs
<1>4. CASE exit' \in SettingsError
  <2>1. PhaseSeen' = "over" /\ ExitSeen' = exit'
    BY <1>1, <1>2, <1>4, PhaseIsNext DEF SettingsError
  <2>. QED
    BY <1>1, <1>3, <1>4, <2>1, ValidateSeen
    DEF Seen, StartedSession!SessionNext, StartedSession!Statement
<1>5. CASE todo' = Tail(todo) /\ exit' = exit
  <2>1. Tail(todo) # << >> /\ Head(Tail(todo)) = IF saving THEN "path" ELSE "list"
    BY <1>1, <1>2, NextCall
  <2>2. PhaseSeen' = (IF saving THEN "settings" ELSE "open") /\ ExitSeen' = "none"
    BY <1>1, <1>2, <1>5, <2>1, PhaseIsNext
  <2>3. CASE saving
    BY <1>1, <1>3, <2>2, <2>3, StutterSeen DEF Seen
  <2>4. CASE ~ saving
    BY <1>1, <1>3, <2>2, <2>4, ValidateSeen
    DEF Seen, StartedSession!SessionNext, StartedSession!Statement
  <2>. QED
    BY <2>3, <2>4
<1>. QED
  BY <1>4, <1>5 DEF NewSettings, Fail, Proceed, SettingsError

LEMMA Utf8Seen ==
  ASSUME IInv, Planned, CheckUtf8
  PROVE  Seen
<1>1. /\ exit = "none" /\ todo # << >> /\ Head(todo) = "path"
      /\ UNCHANGED <<args, exists, target>>
  BY DEF CheckUtf8, At, stateVars
<1>2. args.command = "capture" /\ saving
  BY <1>1, Caller, NextCall
<1>3. PhaseSeen = "settings" /\ ExitSeen = "none"
  BY <1>1, <1>2, PhaseIs
<1>4. CASE exit' = "PathNotUtf8"
  <2>1. PhaseSeen' = "over" /\ ExitSeen' = "PathNotUtf8"
    BY <1>1, <1>2, <1>4, PhaseIsNext
  <2>. QED
    BY <1>1, <1>2, <1>3, <2>1, ValidateSeen
    DEF Seen, StartedSession!SessionNext, StartedSession!Statement
<1>5. CASE todo' = Tail(todo) /\ exit' = exit
  <2>1. Tail(todo) # << >> /\ Head(Tail(todo)) = "check"
    BY <1>1, <1>2, NextCall
  <2>2. PhaseSeen' = "check" /\ ExitSeen' = "none"
    BY <1>1, <1>2, <1>5, <2>1, PhaseIsNext
  <2>. QED
    BY <1>1, <1>2, <1>3, <2>2, ValidateSeen
    DEF Seen, StartedSession!SessionNext, StartedSession!Statement
<1>. QED
  BY <1>4, <1>5 DEF CheckUtf8, Fail, Proceed

LEMMA ExistsSeen ==
  ASSUME IInv, Planned, CheckExists
  PROVE  Seen
<1>1. /\ exit = "none" /\ todo # << >> /\ Head(todo) = "check"
      /\ UNCHANGED <<args, target>>
      /\ exists' \in {IF target # "nobody" THEN "yes" ELSE "no", "unknown"}
  BY DEF CheckExists, At
<1>2. args.command = "capture" /\ saving
  BY <1>1, Caller, NextCall
<1>3. PhaseSeen = "check" /\ ExitSeen = "none"
  BY <1>1, <1>2, PhaseIs
<1>4. CASE exists' = "yes" /\ ~ args.overwrite
  <2>1. exit' = "OutputFileExists"
    BY <1>4 DEF CheckExists, Fail
  <2>2. PhaseSeen' = "over" /\ ExitSeen' = "OutputFileExists"
    BY <1>1, <1>2, <2>1, PhaseIsNext
  <2>. QED
    BY <1>1, <1>2, <1>3, <1>4, <2>2, CheckPathSeen
    DEF Seen, StartedSession!SessionNext, StartedSession!Statement
<1>5. CASE ~ (exists' = "yes" /\ ~ args.overwrite)
  <2>1. todo' = Tail(todo) /\ exit' = exit
    BY <1>5 DEF CheckExists, Proceed
  <2>2. Tail(todo) # << >> /\ Head(Tail(todo)) = "create"
    BY <1>1, <1>2, NextCall
  <2>3. PhaseSeen' = "create" /\ ExitSeen' = "none"
    BY <1>1, <1>2, <2>1, <2>2, PhaseIsNext
  <2>. QED
    BY <1>1, <1>2, <1>3, <1>5, <2>3, CheckPathSeen
    DEF Seen, StartedSession!SessionNext, StartedSession!Statement
<1>. QED
  BY <1>4, <1>5

LEMMA CreateSeen ==
  ASSUME IInv, Planned, CreateFile
  PROVE  Seen
<1>1. /\ exit = "none" /\ todo # << >> /\ Head(todo) = "create"
      /\ UNCHANGED <<args, exists>>
  BY DEF CreateFile, At, stateVars
<1>2. args.command = "capture" /\ saving
  BY <1>1, Caller, NextCall
<1>3. PhaseSeen = "create" /\ ExitSeen = "none"
  BY <1>1, <1>2, PhaseIs
<1>4. CASE exit' = "OutputFileUnwritable" /\ target' = target
  <2>1. PhaseSeen' = "over" /\ ExitSeen' = "OutputFileUnwritable"
    BY <1>1, <1>2, <1>4, PhaseIsNext
  <2>. QED
    BY <1>1, <1>3, <1>4, <2>1, CreateFileSeen
    DEF Seen, StartedSession!SessionNext, StartedSession!Statement
<1>5. CASE todo' = Tail(todo) /\ exit' = exit /\ target' = "us"
  <2>1. Tail(todo) # << >> /\ Head(Tail(todo)) = "list"
    BY <1>1, <1>2, NextCall
  <2>2. PhaseSeen' = "open" /\ ExitSeen' = "none"
    BY <1>1, <1>2, <1>5, <2>1, PhaseIsNext
  <2>. QED
    BY <1>1, <1>3, <1>5, <2>2, CreateFileSeen
    DEF Seen, StartedSession!SessionNext, StartedSession!Statement
<1>. QED
  BY <1>4, <1>5 DEF CreateFile, Fail, Proceed

LEMMA ListSeen ==
  ASSUME IInv, Planned, ListInterfaces
  PROVE  Seen
<1>1. /\ exit = "none" /\ todo # << >> /\ Head(todo) = "list"
      /\ UNCHANGED <<args, exists, target>>
  BY DEF ListInterfaces, At
<1>2. CASE args.command = "list"
  BY <1>1, <1>2, ListingSeen DEF Seen
<1>3. CASE args.command = "capture"
  <2>1. \/ todo' = Tail(todo) /\ exit' = exit
        \/ exit' \in {"InterfaceEnumeration", "NoInterfacesFound"}
    BY <1>3 DEF ListInterfaces, Proceed, Fail
  <2>2. Tail(todo) # << >> /\ Head(Tail(todo)) = "resolve"
    BY <1>1, <1>3, NextCall
  <2>. QED
    BY <1>1, <1>3, <2>1, <2>2, OpeningSeen, InterfaceErrors
    DEF Seen, StartedSession!SessionNext, StartedSession!Statement
<1>. QED
  BY <1>1, <1>2, <1>3, Caller

LEMMA ResolveSeen ==
  ASSUME IInv, Planned, ResolveInterface
  PROVE  Seen
<1>1. /\ exit = "none" /\ todo # << >> /\ Head(todo) = "resolve"
      /\ UNCHANGED <<args, exists, target>>
  BY DEF ResolveInterface, At
<1>2. args.command = "capture" /\ args \in Command
  BY <1>1, StartupAssumption, Caller DEF IInv, StartupTypeOK
<1>3. args.interface \in Selector
  BY <1>2 DEF Command, CaptureArgs, ReadArgs
<1>4. resolve_interface(interfaces, args.interface).error
        \in {"none", "InterfaceNotFound", "InterfaceIndexOutOfRange", "AmbiguousInterface"}
  BY <1>3, ResolvesRightly DEF IInv
<1>5. \/ todo' = Tail(todo) /\ exit' = exit
      \/ exit' \in {"InterfaceNotFound", "InterfaceIndexOutOfRange", "AmbiguousInterface"}
  BY <1>4 DEF ResolveInterface, Proceed, Fail
<1>6. Tail(todo) # << >> /\ Head(Tail(todo)) = "open"
  BY <1>1, <1>2, NextCall
<1>. QED
  BY <1>1, <1>2, <1>5, <1>6, OpeningSeen, InterfaceErrors
  DEF Seen, StartedSession!SessionNext, StartedSession!Statement

LEMMA OpenSeen ==
  ASSUME IInv, Planned, OpenLive
  PROVE  Seen
<1>1. /\ exit = "none" /\ todo # << >> /\ Head(todo) = "open"
      /\ UNCHANGED <<args, exists, target>>
  BY DEF OpenLive, At
<1>2. args.command = "capture"
  BY <1>1, Caller
<1>3. \/ todo' = Tail(todo) /\ exit' = exit
      \/ exit' \in {"CaptureOpen", "CapturePermissionDenied"}
  BY DEF OpenLive, Proceed, Fail
<1>4. Tail(todo) = << >>
  BY <1>1, <1>2, NextCall
<1>. QED
  BY <1>1, <1>2, <1>3, <1>4, OpeningSeen, InterfaceErrors
  DEF Seen, StartedSession!SessionNext, StartedSession!Statement

LEMMA ReadSeen ==
  ASSUME IInv, Planned, OpenFile \/ Metadata \/ IsDir \/ FromFile
  PROVE  Seen
<1>1. /\ exit = "none" /\ todo # << >>
      /\ Head(todo) \in {"open file", "metadata", "is_dir", "from_file"}
      /\ UNCHANGED <<args, exists, target>>
  BY DEF OpenFile, Metadata, IsDir, FromFile, At, stateVars
<1>2. args.command = "read" /\ todo \in ReadAgendas
  BY <1>1, Caller DEF IInv, Agendas
<1>3. \/ exit' = exit /\ todo' \in {Tail(todo), <<"is_dir">>}
      \/ exit' \in {"CaptureFileMissing", "CaptureFilePermissionDenied",
                    "CaptureFileIsDirectory", "CaptureFileUnreadable", "CaptureFileFormat"}
  BY DEF OpenFile, Metadata, IsDir, FromFile, Proceed, Fail, classify_open_error, OpenError
<1>4. \A s \in {Tail(todo), <<"is_dir">>} :
        s # << >> => Head(s) \notin {"settings", "path", "check", "create"}
  <2>1. Tail(<<"is_dir">>) = << >>
    OBVIOUS
  <2>2. ~ (<<"is_dir">> = << >>) /\ Head(<<"is_dir">>) = "is_dir"
    OBVIOUS
  <2>. QED
    BY <1>1, <1>2, <2>1, <2>2, ReadInOrder DEF ReadAgendas
<1>. QED
  BY <1>1, <1>2, <1>3, <1>4, OpeningSeen, FileErrors
  DEF Seen, StartedSession!SessionNext, StartedSession!Statement

(* What changes beside starting is not seen, save a file that somebody     *)
(* creates.                                                                *)
LEMMA ChangeSeen ==
  ASSUME DevicesChange \/ PathChanges \/ SomeoneCreates
  PROVE  Seen
<1>1. /\ exit = "none" /\ todo # << >> /\ UNCHANGED <<args, exists, todo, exit>>
  BY DEF DevicesChange, PathChanges, SomeoneCreates, Change, Undecided, stateVars
<1>2. PhaseSeen' = PhaseSeen /\ ExitSeen' = ExitSeen
  BY <1>1 DEF PhaseSeen, ExitSeen
<1>3. CASE UNCHANGED target
  BY <1>1, <1>2, <1>3, StutterSeen DEF Seen
<1>4. CASE saving /\ target = "nobody" /\ target' = "someone"
  <2>1. PhaseSeen # "over"
    BY <1>1, <1>4, PhaseIs DEF saving, capturing
  <2>. QED
    BY <1>1, <1>2, <1>4, <2>1, SomeoneCreatesSeen DEF Seen, StartedSession!SessionNext
<1>. QED
  BY <1>3, <1>4 DEF DevicesChange, PathChanges, SomeoneCreates

LEMMA NextSeen ==
  IInv /\ Planned /\ [Next]_vars => [StartedSession!SessionNext]_StartedSession!allVars
<1>. SUFFICES ASSUME IInv, Planned, [Next]_vars
              PROVE  Seen
  BY DEF Seen
<1>1. CASE Call
  BY <1>1, SettingsSeen, Utf8Seen, ExistsSeen, CreateSeen, ListSeen, ResolveSeen, OpenSeen, ReadSeen
  DEF Call
<1>2. CASE DevicesChange \/ PathChanges \/ SomeoneCreates
  BY <1>2, ChangeSeen
<1>3. CASE UNCHANGED vars
  <2>1. UNCHANGED <<args, exists, target>> /\ PhaseSeen' = PhaseSeen /\ ExitSeen' = ExitSeen
    BY <1>3 DEF vars, worldVars, stateVars, PhaseSeen, ExitSeen
  <2>. QED
    BY <2>1, StutterSeen DEF Seen
<1>. QED
  BY <1>1, <1>2, <1>3 DEF Next

LEMMA NextPlanned == IInv /\ Planned /\ [Next]_vars => Planned'
<1>. SUFFICES ASSUME IInv, Planned, [Next]_vars
              PROVE  Planned'
  OBVIOUS
<1>1. CASE NewSettings \/ CheckUtf8 \/ CheckExists \/ CreateFile \/ ListInterfaces
             \/ ResolveInterface \/ OpenLive
  <2>1. /\ UNCHANGED args
        /\ todo' = << >> \/ (todo # << >> /\ todo' = Tail(todo))
    BY <1>1
    DEF NewSettings, CheckUtf8, CheckExists, CreateFile, ListInterfaces, ResolveInterface,
        OpenLive, At, Proceed, Fail
  <2>. QED
    BY <2>1, PlannedKept
<1>2. CASE OpenFile \/ Metadata \/ IsDir \/ FromFile
  <2>1. UNCHANGED args /\ args.command = "read"
    BY <1>2, Caller DEF OpenFile, Metadata, IsDir, FromFile, At
  <2>. QED
    BY <2>1, PlannedKept
<1>3. CASE DevicesChange \/ PathChanges \/ SomeoneCreates \/ UNCHANGED vars
  <2>1. UNCHANGED args /\ todo' = todo
    BY <1>3
    DEF DevicesChange, PathChanges, SomeoneCreates, Change, vars, worldVars, stateVars
  <2>. QED
    BY <2>1, PlannedKept
<1>. QED
  BY <1>1, <1>2, <1>3 DEF Next, Call

(* Every run of Startup, seen from outside, is one that Session allows up  *)
(* to its first packet: main.rs makes no promise there that the calls of   *)
(* capture/device.rs, live.rs, offline.rs and writer.rs do not keep.       *)
THEOREM StartingStartsASession == Spec => StartsASession
<1>1. Init => Planned /\ StartedSession!SessionInit
  BY InitPlanned, InitSeen
<1>2. IInv /\ Planned /\ [Next]_vars
        => Planned' /\ [StartedSession!SessionNext]_StartedSession!allVars
  BY NextPlanned, NextSeen
<1>. QED
  BY <1>1, <1>2, IInvHolds, PTL DEF Spec, StartsASession, StartedSession!SessionSpec
=============================================================================
