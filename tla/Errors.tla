------------------------------- MODULE Errors -------------------------------
(***************************************************************************)
(* The ways a command can fail (error.rs) and what error_report prints of  *)
(* one (render/mod.rs): what went wrong, why, and what to do about it.     *)
(* The wording is left out; a piece of advice is named for what it asks    *)
(* the user to do or to know.                                              *)
(***************************************************************************)

(* Finding and opening an interface.                                       *)
InterfaceError ==
  {"InterfaceEnumeration", "NoInterfacesFound", "InterfaceNotFound",
   "InterfaceIndexOutOfRange", "AmbiguousInterface"}

SettingsError == {"InvalidSnaplen", "InvalidCount"}

(* A live capture, from its opening to its statistics.                     *)
CaptureError ==
  {"CapturePermissionDenied", "CaptureOpen", "CaptureRead", "CaptureStatistics"}

(* A capture file that is read.                                            *)
FileError ==
  {"CaptureFileMissing", "CaptureFilePermissionDenied", "CaptureFileIsDirectory",
   "CaptureFileUnreadable", "CaptureFileFormat", "CaptureFileCorrupt"}

(* A capture file that is written.                                         *)
WriteError ==
  {"PathNotUtf8", "OutputFileExists", "OutputFileUnwritable",
   "CaptureWriteOpen", "CaptureWriteFailed"}

NetSentryError ==
  InterfaceError \cup SettingsError \cup CaptureError \cup FileError \cup WriteError
    \cup {"SignalHandler"}

(* #[source]: the failure underneath, whose own words are reported too.    *)
HasSource ==
  {"InterfaceEnumeration", "CaptureFileFormat", "CaptureFileCorrupt",
   "CaptureWriteOpen", "CaptureWriteFailed", "SignalHandler"} \cup CaptureError

Advice ==
  {"get privileges", "install the driver", "look at the list", "give the exact name",
   "give another snaplen", "give another count", "bring the interface up",
   "the packets are still correct", "check the path", "check the owner and mode",
   "name the file itself", "give a capture file", "the packets above were read",
   "rename the file", "overwrite or rename", "check the disk", "check the directory",
   "another handler is installed"}

(* Mutant: an open that failed for a reason not recognised as a lack of    *)
(* privileges is not taken for one.                                        *)
hints_OpenIsNeverDenied(error) ==
  CASE error = "InterfaceEnumeration" -> {"get privileges"}
    [] error = "NoInterfacesFound" -> {"install the driver", "get privileges"}
    [] error = "CaptureOpen" -> {"look at the list", "bring the interface up"}
    [] error = "CapturePermissionDenied" -> {"get privileges"}
    [] OTHER -> Advice

(* NetSentryError::hints                                                   *)
hints(error) ==
  CASE error = "InterfaceEnumeration" -> {"get privileges"}
    [] error = "NoInterfacesFound" -> {"install the driver", "get privileges"}
    [] error \in {"InterfaceNotFound", "InterfaceIndexOutOfRange"} -> {"look at the list"}
    [] error = "AmbiguousInterface" -> {"look at the list", "give the exact name"}
    [] error = "InvalidSnaplen" -> {"give another snaplen"}
    [] error = "InvalidCount" -> {"give another count"}
    [] error = "CapturePermissionDenied" -> {"get privileges"}
    [] error = "CaptureOpen" ->
         {"look at the list", "bring the interface up", "get privileges"}
    [] error = "CaptureRead" -> {"look at the list"}
    [] error = "CaptureStatistics" -> {"the packets are still correct"}
    [] error = "CaptureFileMissing" -> {"check the path"}
    [] error = "CaptureFilePermissionDenied" -> {"check the owner and mode"}
    [] error = "CaptureFileIsDirectory" -> {"name the file itself"}
    [] error = "CaptureFileUnreadable" -> {"check the path"}
    [] error = "CaptureFileFormat" -> {"give a capture file"}
    [] error = "CaptureFileCorrupt" -> {"the packets above were read"}
    [] error = "PathNotUtf8" -> {"rename the file"}
    [] error = "OutputFileExists" -> {"overwrite or rename"}
    [] error = "CaptureWriteFailed" -> {"check the disk"}
    [] error \in {"OutputFileUnwritable", "CaptureWriteOpen"} -> {"check the directory"}
    [] error = "SignalHandler" -> {"another handler is installed"}

(* error_report: the message, the driver's or the system's words if there  *)
(* are any, and the hints.                                                 *)
error_report(error) ==
  [error |-> error, cause |-> error \in HasSource, hints |-> hints(error)]
=============================================================================
