------------------------------ MODULE Startup -------------------------------
(***************************************************************************)
(* From the command line (cli.rs) to an open source: everything a command  *)
(* does before its first packet, and every way it can refuse to go on.     *)
(* Session takes these as the one phrase "the source is opened"; here they *)
(* are the calls that ask the driver and the file system, and between any  *)
(* two of them interfaces come, go and change places, and the path that is *)
(* read may come to name something else.                                   *)
(***************************************************************************)
EXTENDS Interfaces

CONSTANTS
  Devices,       \* the interfaces this machine may have
  Commands,      \* the command lines a user may give
  MIN_SNAPLEN,   \* 1
  MAX_SNAPLEN,   \* 262_144
  CountMax,      \* the largest --count; u64::MAX in the code
  MaxListed,     \* bound of the model: how many interfaces there are at once
  MaxChanges     \* bound of the model: how often the world changes

-----------------------------------------------------------------------------
(* The command line: requires = "write" and requires = "flows"             *)

Count == {{}} \cup {{n} : n \in 0 .. CountMax}

FlowArgs ==
  {f \in [flows: BOOLEAN, max_flows: {"default", "given"}] :
     f.max_flows = "given" => f.flows}

(* `bytes': a path that is not UTF-8.                                      *)
CaptureArgs ==
  {a \in [command: {"capture"}, interface: Selector, count: Count, snaplen: Nat,
          write: {"none", "utf8", "bytes"}, overwrite: BOOLEAN, flow: FlowArgs] :
     a.overwrite => a.write # "none"}

ReadArgs == [command: {"read"}, count: Count, flow: FlowArgs]

Command == [command: {"list"}] \cup CaptureArgs \cup ReadArgs

ASSUME StartupAssumption ==
  /\ Devices \subseteq Device
  /\ Commands \subseteq Command
  /\ MIN_SNAPLEN \in Nat /\ MAX_SNAPLEN \in Nat
  /\ CountMax \in Nat
  /\ MaxListed \in Nat
  /\ MaxChanges \in Nat

VARIABLES
  args,         \* the parsed command line
  allowed,      \* what the driver lets this user do
  platform,     \* what opening a directory comes to on this platform
  devices,      \* the interfaces there are, in the driver's order
  source,       \* what the path to read names
  target,       \* whose file the path to write names
  changes,      \* how often the world changed
  todo,         \* the calls still to make
  exists,       \* what try_exists said
  interfaces,   \* what list_interfaces returned
  chosen,       \* the interface that was resolved
  held,         \* what check_readable has opened
  opened,       \* the device the capture handle is on
  exit,         \* "none" yet, "ok" after a listing, or the error
  causes,       \* history: what was really wrong when the command failed
  were          \* history: everything the path to read has named

worldVars == <<devices, source, target, changes, were>>
stateVars == <<exists, interfaces, chosen, held, opened>>
vars == <<args, allowed, platform, worldVars, todo, stateVars, exit, causes>>

capturing == args.command = "capture"
saving == capturing /\ args.write # "none"
listing == args.command = "list" \/ ~ args.flow.flows

(* Mutant: the numbers are only looked at when the interface is opened.    *)
run_capture_NumbersLast ==
  IF args.write # "none"
    THEN <<"path", "check", "create", "list", "resolve", "settings", "open">>
    ELSE <<"list", "resolve", "settings", "open">>

(* The calls of run_capture, run_read and run_list, in their order.        *)
run_capture ==
  IF args.write # "none"
    THEN <<"settings", "path", "check", "create", "list", "resolve", "open">>
    ELSE <<"settings", "list", "resolve", "open">>

(* Mutant: every trouble with the file is left to libpcap.                 *)
run_read_LeftToLibpcap == <<"from_file">>

run_read == <<"open file", "metadata", "from_file">>

run_list == <<"list">>

(* What a path may name: nothing, something this user may not read, a      *)
(* directory, something that is no regular file, or a file that is a       *)
(* capture or is not.                                                      *)
PathState == {"missing", "forbidden", "directory", "odd", "text", "capture"}

(* The driver lists a name once.                                           *)
Arrangement ==
  {s \in UNION {[1 .. n -> Devices] : n \in 0 .. MaxListed} :
     \A i, j \in DOMAIN s : s[i].name = s[j].name => i = j}

Init ==
  /\ args \in Commands
  /\ allowed \in {a \in [list: BOOLEAN, open: BOOLEAN] : a.open => a.list}
  /\ platform \in IF args.command = "read" THEN {"opens", "denies", "refuses"} ELSE {"opens"}
  /\ devices \in IF args.command = "read" THEN {<< >>} ELSE Arrangement
  /\ source \in IF args.command = "read" THEN PathState ELSE {"missing"}
  /\ target \in IF saving THEN {"nobody", "someone"} ELSE {"nobody"}
  /\ changes = 0
  /\ todo = CASE args.command = "capture" -> run_capture
              [] args.command = "read" -> run_read
              [] args.command = "list" -> run_list
  /\ exists = "unknown"
  /\ interfaces = << >>
  /\ chosen = {}
  /\ held = {}
  /\ opened = {}
  /\ exit = "none"
  /\ causes = {}
  /\ were = {source}

-----------------------------------------------------------------------------
At(call) ==
  /\ exit = "none"
  /\ todo # << >>
  /\ Head(todo) = call
  /\ UNCHANGED <<args, allowed, platform, devices, source, changes, were>>

Proceed == todo' = Tail(todo) /\ UNCHANGED <<exit, causes>>

Fail(error, why) == exit' = error /\ causes' = why /\ todo' = << >>

(* CaptureSettings::new                                                    *)
NewSettings ==
  /\ At("settings")
  /\ IF args.snaplen \notin MIN_SNAPLEN .. MAX_SNAPLEN
       THEN Fail("InvalidSnaplen", {"snaplen"})
     ELSE IF args.count = {0} THEN Fail("InvalidCount", {"count"})
     ELSE Proceed
  /\ UNCHANGED <<stateVars, target>>

(* prepare_capture_file: its three steps.                                  *)
CheckUtf8 ==
  /\ At("path")
  /\ IF args.write = "bytes" THEN Fail("PathNotUtf8", {"not UTF-8"}) ELSE Proceed
  /\ UNCHANGED <<stateVars, target>>

(* Mutant: an existing file is not refused.                                *)
CheckExists_Replaced ==
  /\ At("check")
  /\ exists' = IF target # "nobody" THEN "yes" ELSE "no"
  /\ Proceed
  /\ UNCHANGED <<target, interfaces, chosen, held, opened>>

(* try_exists; where it fails, nothing is taken to be there.               *)
CheckExists ==
  /\ At("check")
  /\ exists' \in {IF target # "nobody" THEN "yes" ELSE "no", "unknown"}
  /\ IF exists' = "yes" /\ ~ args.overwrite THEN Fail("OutputFileExists", {"file exists"})
     ELSE Proceed
  /\ UNCHANGED <<target, interfaces, chosen, held, opened>>

CreateFile ==
  /\ At("create")
  /\ \/ Proceed /\ target' = "us"
     \/ Fail("OutputFileUnwritable", {"directory"}) /\ UNCHANGED target
  /\ UNCHANGED stateVars

(* list_interfaces.  Without privileges the driver may refuse or may show  *)
(* nothing.                                                                *)
ListInterfaces ==
  /\ At("list")
  /\ \/ /\ allowed.list /\ devices # << >>
        /\ interfaces' = Listed(devices)
        /\ IF args.command = "list"
             THEN todo' = << >> /\ exit' = "ok" /\ UNCHANGED causes
             ELSE Proceed
     \/ /\ ~ allowed.list
        /\ Fail("InterfaceEnumeration", {"no privileges"})
        /\ UNCHANGED interfaces
     \/ /\ ~ allowed.list \/ devices = << >>
        /\ Fail("NoInterfacesFound",
                IF allowed.list THEN {"no interfaces"} ELSE {"no privileges"})
        /\ UNCHANGED interfaces
  /\ UNCHANGED <<target, exists, chosen, held, opened>>

ResolveInterface ==
  /\ At("resolve")
  /\ LET resolved == resolve_interface(interfaces, args.interface)
     IN  /\ chosen' = resolved.found
         /\ IF resolved.error = "none" THEN Proceed
            ELSE Fail(resolved.error,
                      {IF resolved.error = "AmbiguousInterface" THEN "ambiguous"
                       ELSE "no such interface"})
  /\ UNCHANGED <<target, exists, interfaces, held, opened>>

(* Mutant: the driver is asked for the interface at that place.            *)
DeviceFor_ByPlace(interface) ==
  {devices[i] : i \in {i \in DOMAIN devices : i = interface.index}}

(* libpcap opens by name.                                                  *)
DeviceFor(interface) ==
  {d \in {devices[i] : i \in DOMAIN devices} : d.name = interface.name}

Trouble(device) ==
  (IF allowed.open THEN {} ELSE {"no privileges"})
    \cup (IF device = {} THEN {"no such interface"} ELSE {})
    \cup (IF \E d \in device : ~ d.up THEN {"down"} ELSE {})

(* LiveCapture::open.  Whether a refusal is one for lack of privileges is  *)
(* read from libpcap's words, which say so or not.                         *)
OpenLive ==
  /\ At("open")
  /\ \E interface \in chosen :
       LET device  == DeviceFor(interface)
           trouble == Trouble(device)
       IN  \/ trouble = {} /\ opened' = device /\ Proceed
           \/ trouble # {} /\ Fail("CaptureOpen", trouble) /\ UNCHANGED opened
           \/ /\ "no privileges" \in trouble
              /\ Fail("CapturePermissionDenied", trouble)
              /\ UNCHANGED opened
  /\ UNCHANGED <<target, exists, interfaces, chosen, held>>

-----------------------------------------------------------------------------
(* CaptureFile::open: the path is opened once to see what it names, and by *)
(* libpcap again.                                                          *)

classify_open_error(kind) ==
  CASE kind = "NotFound" -> Fail("CaptureFileMissing", {"missing"})
    [] kind = "PermissionDenied" ->
         Fail("CaptureFilePermissionDenied",
              {IF source = "directory" THEN "directory" ELSE "forbidden"})
    [] kind = "Other" -> todo' = <<"is_dir">> /\ UNCHANGED <<exit, causes>>

(* File::open of what the path names now.                                  *)
OpenError ==
  {kind \in {"NotFound", "PermissionDenied", "Other"} :
     CASE kind = "NotFound" -> source = "missing"
       [] kind = "PermissionDenied" ->
            source = "forbidden" \/ (source = "directory" /\ platform = "denies")
       [] kind = "Other" ->
            source = "odd" \/ (source = "directory" /\ platform = "refuses")}

OpenFile ==
  /\ At("open file")
  /\ \/ \E kind \in OpenError : classify_open_error(kind) /\ UNCHANGED held
     \/ /\ OpenError = {} \/ source = "odd"
        /\ held' = {source}
        /\ Proceed
  /\ UNCHANGED <<target, exists, interfaces, chosen, opened>>

(* file.metadata() asks the handle, not the path.                          *)
Metadata ==
  /\ At("metadata")
  /\ \/ held = {"directory"} /\ Fail("CaptureFileIsDirectory", held)
     \/ held # {"directory"} /\ Proceed
     \/ held = {"odd"} /\ classify_open_error("Other")
  /\ UNCHANGED <<stateVars, target>>

(* path.is_dir(), after an error that names neither cause.                 *)
IsDir ==
  /\ At("is_dir")
  /\ IF source = "directory" THEN Fail("CaptureFileIsDirectory", {"directory"})
     ELSE Fail("CaptureFileUnreadable", {"odd"})
  /\ UNCHANGED <<stateVars, target>>

(* pcap::Capture::from_file                                                *)
FromFile ==
  /\ At("from_file")
  /\ IF source = "capture" THEN Proceed ELSE Fail("CaptureFileFormat", {source})
  /\ UNCHANGED <<stateVars, target>>

Call ==
  \/ NewSettings \/ CheckUtf8 \/ CheckExists \/ CreateFile
  \/ ListInterfaces \/ ResolveInterface \/ OpenLive
  \/ OpenFile \/ Metadata \/ IsDir \/ FromFile

-----------------------------------------------------------------------------
(* What happens in between                                                 *)

Undecided == exit = "none" /\ todo # << >>

Change ==
  /\ Undecided
  /\ changes < MaxChanges
  /\ changes' = changes + 1
  /\ UNCHANGED <<args, allowed, platform, todo, stateVars, exit, causes>>

(* Interfaces come, go and change places.                                  *)
DevicesChange ==
  /\ Change
  /\ args.command # "read"
  /\ devices' \in Arrangement \ {devices}
  /\ UNCHANGED <<source, target, were>>

PathChanges ==
  /\ Change
  /\ args.command = "read"
  /\ source' \in PathState \ {source}
  /\ were' = were \cup {source'}
  /\ UNCHANGED <<devices, target>>

SomeoneCreates ==
  /\ Change
  /\ saving
  /\ target = "nobody"
  /\ target' = "someone"
  /\ UNCHANGED <<devices, source, were>>

Next == Call \/ DevicesChange \/ PathChanges \/ SomeoneCreates

Spec == Init /\ [][Next]_vars

-----------------------------------------------------------------------------
(* What starting must satisfy                                              *)

(* What can be wrong.                                                      *)
Cause ==
  {"snaplen", "count", "not UTF-8", "file exists", "no privileges", "no interfaces",
   "no such interface", "ambiguous", "down", "missing", "forbidden", "directory",
   "odd", "text"}

(* The type invariant.                                                     *)
StartupTypeOK ==
  /\ args \in Commands
  /\ allowed \in [list : BOOLEAN, open : BOOLEAN]
  /\ platform \in {"opens", "denies", "refuses"}
  /\ devices \in Arrangement
  /\ source \in PathState /\ target \in {"nobody", "someone", "us"}
  /\ changes \in 0 .. MaxChanges
  /\ exists \in {"yes", "no", "unknown"}
  /\ DOMAIN interfaces \subseteq Nat
  /\ \A i \in DOMAIN interfaces : interfaces[i] \in NetworkInterface
  /\ chosen \subseteq {interfaces[i] : i \in DOMAIN interfaces}
  /\ held \subseteq PathState
  /\ opened \subseteq Devices
  /\ exit \in {"none", "ok"} \cup NetSentryError
  /\ causes \subseteq Cause /\ were \subseteq PathState

(* Whether nothing but this selects an interface of the listing.           *)
Selects(name, interface) ==
  LET named == {i \in DOMAIN interfaces : interfaces[i].name = name}
      alike == {i \in DOMAIN interfaces : eq_ignore_ascii_case(interfaces[i].name, name)}
  IN  \/ interface.name = name
      \/ named = {} /\ interface.index \in parse_index(name)
      \/ named = {} /\ {interfaces[i] : i \in alike} = {interface}

(* device.rs: "silently opening the wrong interface is the kind of bug a   *)
(* security tool must not have."  What is captured on bears the name that  *)
(* was typed or the name that stood at the number that was typed, or is    *)
(* the only one spelt so, however the interfaces come, go and change       *)
(* places between the listing and the opening; and a selector is refused   *)
(* only if it selects nothing or two.                                      *)
OpensWhatWasAsked ==
  /\ \A d \in opened :
       \E i \in DOMAIN interfaces :
         d.name = interfaces[i].name /\ Selects(trim(args.interface), interfaces[i])
  /\ exit \in {"InterfaceNotFound", "InterfaceIndexOutOfRange", "AmbiguousInterface"} =>
       \A i \in DOMAIN interfaces : ~ Selects(trim(args.interface), interfaces[i])

(* The mask of n ones, which a prefix length of n stands for.              *)
Ones(family, n) == [family |-> family, bits |-> [i \in 1 .. Width[family] |-> i <= n]]

(* render/interfaces.rs: "a strange mask is reported rather than quietly   *)
(* rounded into a plausible looking one".                                  *)
ReadsBack(address) ==
  LET shown == format_address(address)
  IN  /\ shown.prefix = {n \in 0 .. Width[address.family] :
                           address.netmask = {Ones(address.family, n)}}
      /\ shown.prefix = {} => shown.netmask = address.netmask

(* What `list' shows can be typed: a number leads back to the interface it *)
(* stands at, unless one is so named, and the name shown leads back to its *)
(* interface, unless the name that is shown is not the name.  An address   *)
(* is shown with the one prefix length that is its mask, or with the mask. *)
ListingLeadsBack ==
  \A i \in DOMAIN interfaces :
    LET block == interface_list(interfaces).blocks[i]
        back(name) == resolve_interface(interfaces, [name |-> name, padded |-> FALSE])
        number(name) == name.control = "none" /\ Numeral[name.word] = {block.index}
    IN  /\ \A name \in Name :
             number(name) /\ (\A j \in DOMAIN interfaces : interfaces[j].name # name)
             => back(name).found = {interfaces[i]}
        /\ block.name = interfaces[i].name => back(block.name).found = {interfaces[i]}
        /\ \A j \in DOMAIN block.addresses : ReadsBack(interfaces[i].addresses[j])

(* offline.rs: a path that did not change is diagnosed exactly; where it   *)
(* came to name something else in between, "the worst outcome is a less    *)
(* precise error message", and still one about something it named.  On a   *)
(* platform that denies to open a directory, a directory passes for a file *)
(* one may not read.                                                       *)
DiagnosisWasTrue ==
  LET Denied == IF platform = "denies" THEN {"directory"} ELSE {}
      exactly == CASE exit = "CaptureFileMissing" -> {"missing"}
                   [] exit = "CaptureFilePermissionDenied" -> {"forbidden"} \cup Denied
                   [] exit = "CaptureFileIsDirectory" -> {"directory"} \ Denied
                   [] exit = "CaptureFileUnreadable" -> {"odd"}
                   [] exit = "CaptureFileFormat" -> {"text", "odd"}
                   [] exit = "none" -> {"capture"}
      vaguely == CASE exit = "CaptureFileFormat" -> PathState \ {"capture"}
                   [] exit \in {"CaptureFileUnreadable", "CaptureFileIsDirectory"} ->
                        {"directory"}
                   [] OTHER -> {}
  IN  args.command = "read" /\ todo = << >> =>
        IF changes = 0 THEN were \subseteq exactly
        ELSE were \cap (exactly \cup vaguely) # {}

Remedies(cause) ==
  CASE cause = "snaplen" -> {"give another snaplen"}
    [] cause = "count" -> {"give another count"}
    [] cause = "not UTF-8" -> {"rename the file"}
    [] cause = "file exists" -> {"overwrite or rename"}
    [] cause = "no privileges" -> {"get privileges"}
    [] cause = "no interfaces" -> {"install the driver"}
    [] cause = "no such interface" -> {"look at the list"}
    [] cause = "ambiguous" -> {"give the exact name"}
    [] cause = "down" -> {"bring the interface up"}
    [] cause = "missing" -> {"check the path"}
    [] cause = "forbidden" -> {"check the owner and mode"}
    [] cause = "directory" -> {"name the file itself", "check the directory"}
    [] cause = "odd" -> {"check the path", "give a capture file"}
    [] cause = "text" -> {"give a capture file"}

(* error.rs: "what the user can do about it".  Whatever made the command   *)
(* fail, and however the driver worded it, some advice given is advice     *)
(* about something that was really wrong; where the driver's words are not *)
(* understood, there is advice about everything that was.  Excepted are a  *)
(* path that changed and the denied directory.                             *)
AdviceFitsTheCause ==
  LET advice == error_report(exit).hints
      fits(why) == Remedies(why) \cap advice # {}
  IN  exit \in NetSentryError =>
        \/ exit = "CaptureOpen" /\ \A cause \in causes : fits(cause)
        \/ exit # "CaptureOpen" /\ \E cause \in causes : fits(cause)
        \/ exit \in FileError /\ (changes > 0 \/ platform = "denies")

(* main.rs: bad input fails "before touching the network", and a path is   *)
(* refused before the interface is opened.  Nothing was listed, opened or  *)
(* written by then; and a file that was seen is still whoever's it was,    *)
(* unless --overwrite was given.                                           *)
RefusalsTouchNothing ==
  /\ exit \in SettingsError \cup {"PathNotUtf8", "OutputFileExists"} =>
       interfaces = << >> /\ opened = {} /\ target # "us"
  /\ exists = "yes" /\ ~ args.overwrite => target = "someone"

(* Seen from outside, all this is what Session says of it in a phrase.     *)
(* A listing is no session; it is taken for one that never opens.          *)
StartedSession ==
  INSTANCE Session WITH
    MicrosPerSecond <- 1, DurationMax <- 0, CounterMax <- CountMax,
    Packets <- {}, Limits <- Count, MaxPackets <- 0, MaxSignals <- 0,
    Address <- {0}, Port <- {0}, MaxFlows <- 0,
    config <- [source  |-> IF capturing THEN "live" ELSE "file",
               limit   |-> IF args.command = "list" \/ (capturing /\ args.count = {0})
                             THEN {} ELSE args.count,
               saving  |-> saving,
               listing |-> listing],
    pending <- << >>, broken <- FALSE, outlet <- TRUE, stop <- FALSE, brk <- FALSE,
    handler <- << >>, signals <- 0, pc <- "check", 
    tally <- [packets |-> 0, captured_bytes |-> 0, wire_bytes |-> 0],
    span <- [first |-> {}, last |-> {}], stop_reason <- "None", sink <- << >>, handed <- << >>,
    taken <- << >>, late <- 0,
    overwrite <- saving /\ args.overwrite,
    phase <- CASE args.command = "list" -> "open"
               [] args.command # "list" /\ exit # "none" -> "over"
               [] args.command # "list" /\ exit = "none" /\ todo = << >> -> "header"
               [] args.command # "list" /\ exit = "none" /\ todo # << >> ->
                    CASE Head(todo) \in {"settings", "path"} -> "settings"
                      [] Head(todo) \in {"check", "create"} -> Head(todo)
                      [] OTHER -> "open",
    file <- [owner |-> target, packets |-> << >>],
    table <- [flows     |-> << >>,
              untracked |-> [reason \in {"arp", "icmp", "later_fragments", "undecoded",
                                         "other_protocol", "over_flow_limit"} |-> 0]],
    printed <- {},
    exit <- IF args.command = "list" THEN "none" ELSE exit

StartsASession == StartedSession!SessionSpec

(* Failures the system or the driver reports, save those of a kind that    *)
(* NetSentry has an error of its own for.                                  *)
Unforeseen ==
  {"InterfaceEnumeration", "CaptureOpen", "CapturePermissionDenied", "CaptureFileFormat",
   "CaptureFileUnreadable", "OutputFileUnwritable"}

(* render/mod.rs: "every failure is reported with its full source chain".  *)
EveryFailureSaysWhy == exit \in Unforeseen => error_report(exit).cause
=============================================================================
