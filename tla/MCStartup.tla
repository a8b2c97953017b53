----------------------------- MODULE MCStartup ------------------------------
(***************************************************************************)
(* Startup on a machine whose interfaces are hard to tell apart: two that  *)
(* differ in case, one that may be down, one named 2, and one with a       *)
(* control character in its name.                                          *)
(***************************************************************************)
EXTENDS Startup

MCWord == {"eth", "0", "1", "2", "9"}
MCNumeral ==
  [w \in MCWord |-> CASE w = "eth" -> {} [] w = "0" -> {0} [] w = "1" -> {1}
                      [] w = "2" -> {2} [] w = "9" -> {9}]

Called(word, case, control) == [word |-> word, case |-> case, control |-> control]

Dev(name, up, addresses) ==
  [name |-> name, description |-> "blank", up |-> up, running |-> TRUE,
   loopback |-> FALSE, wireless |-> TRUE, connection |-> "Unknown",
   addresses |-> addresses]

MCWidth == [v4 |-> 2, v6 |-> 3]

Bits(a, b) == [family |-> "v4", bits |-> <<a, b>>]
LongBits(a, b, c) == [family |-> "v6", bits |-> <<a, b, c>>]
Bound(family, netmask) == [family |-> family, netmask |-> netmask]

(* Every mask of either width, a missing one, and one of the other family. *)
MCDevices ==
  {Dev(Called("eth", "lower", "none"), TRUE,
       <<Bound("v4", {Bits(TRUE, TRUE)}), Bound("v4", {Bits(TRUE, FALSE)})>>),
   Dev(Called("eth", "lower", "none"), FALSE,
       <<Bound("v4", {Bits(FALSE, TRUE)}), Bound("v4", {Bits(FALSE, FALSE)})>>),
   Dev(Called("eth", "upper", "none"), TRUE, << >>),
   Dev(Called("2", "lower", "none"), TRUE,
       <<Bound("v6", {Bits(TRUE, TRUE)}), Bound("v6", {})>>),
   Dev(Called("eth", "lower", "raw"), TRUE,
       [i \in 1 .. 8 |->
          Bound("v6", {LongBits(i > 4, i % 4 \in {1, 2}, i % 2 = 0)})])}

Typed(name) == [name |-> name, padded |-> FALSE]

MCSelectors ==
  {Typed(Called(w, "lower", "none")) : w \in MCWord}
    \cup {Typed(Called("eth", "mixed", "none")), Typed(Called("eth", "lower", "replaced")),
          [name |-> Called("eth", "upper", "none"), padded |-> TRUE]}

PacketMode == [flows |-> FALSE, max_flows |-> "default"]
FlowMode == [flows |-> TRUE, max_flows |-> "given"]

MCCapture(selector, count, snaplen, write, overwrite) ==
  [command |-> "capture", interface |-> selector, count |-> count, snaplen |-> snaplen,
   write |-> write, overwrite |-> overwrite, flow |-> PacketMode]

Eth == Typed(Called("eth", "lower", "none"))

MCCommands ==
  {[command |-> "list"]}
    \cup {[command |-> "read", count |-> {0}, flow |-> f] : f \in {PacketMode, FlowMode}}
    \cup {MCCapture(s, {}, 2, "none", FALSE) : s \in MCSelectors}
    \cup {MCCapture(Eth, c, n, w, o) :
            c \in {{0}, {1}}, n \in {0, 1, 2, 3}, w \in {"utf8", "bytes"}, o \in BOOLEAN}
=============================================================================
