----------------------------- MODULE Interfaces -----------------------------
(***************************************************************************)
(* The interface listing (capture/device.rs), how a selector picks one of  *)
(* it, and what `netsentry list' prints of it (render/interfaces.rs).      *)
(*                                                                         *)
(* A name is kept as what selection and display tell apart: the word it    *)
(* spells, the case of its letters, and whether it holds a control         *)
(* character or the U+FFFD that display puts in the place of one.  Of an   *)
(* address, which is printed as it is, only the family is kept.            *)
(***************************************************************************)
EXTENDS Errors, Naturals, Sequences, FiniteSets

CONSTANTS
  Word,     \* what names and selectors spell, whatever the case of letters
  Numeral,  \* the usize that a word of digits denotes, if it fits one
  Width,    \* the bits of an IPv4 and of an IPv6 address; 32 and 128
  Widest    \* the bits of the u128 that masks are aligned in

Family == {"v4", "v6"}

ASSUME InterfacesAssumption ==
  /\ Numeral \in [Word -> SUBSET Nat]
  /\ \A w \in Word : \A m, n \in Numeral[w] : m = n
  /\ Widest \in Nat
  /\ Width \in [Family -> 0 .. Widest]

(* Digits have no case.                                                    *)
Name ==
  {n \in [word: Word, case: {"lower", "upper", "mixed"}, control: {"none", "raw", "replaced"}] :
     Numeral[n.word] # {} => n.case = "lower"}

(* A selector may have been typed with blanks around it.                   *)
Selector == [name: Name, padded: BOOLEAN]

trim(selector) == selector.name

eq_ignore_ascii_case(m, n) == m.word = n.word /\ m.control = n.control

-----------------------------------------------------------------------------
(* What the driver reports, and what becomes of it                         *)

Connection == {"Connected", "Disconnected", "Unknown", "NotApplicable"}

(* The bits of a mask, from the most significant on.                       *)
Netmask == UNION {[family: {f}, bits: [1 .. Width[f] -> BOOLEAN]] : f \in Family}

(* A driver may give no netmask, and one of another family.                *)
InterfaceAddress == [family: Family, netmask: {{}} \cup {{m} : m \in Netmask}]

Device ==
  [name: Name, description: {"absent", "blank", "text"},
   up: BOOLEAN, running: BOOLEAN, loopback: BOOLEAN, wireless: BOOLEAN,
   connection: Connection, addresses: Seq(InterfaceAddress)]

LinkStatus == {"Running", "Up", "Down"}

status_from_flags(device) ==
  IF ~ device.up THEN "Down" ELSE IF device.running THEN "Running" ELSE "Up"

InterfaceAttribute == {"Loopback", "Wireless", "Connected", "Disconnected"}

(* Unknown and NotApplicable yield no attribute.                           *)
attributes_from_flags(device) ==
  {a \in InterfaceAttribute : \/ a = "Loopback" /\ device.loopback
                              \/ a = "Wireless" /\ device.wireless
                              \/ a = device.connection}

NetworkInterface ==
  [index: Nat \ {0}, name: Name, description: SUBSET {"text"},
   status: LinkStatus, attributes: SUBSET InterfaceAttribute,
   addresses: Seq(InterfaceAddress)]

(* The name is kept as it is: it goes back to the driver.                  *)
from_pcap_device(index, device) ==
  [index       |-> index,
   name        |-> device.name,
   description |-> {device.description} \cap {"text"},
   status      |-> status_from_flags(device),
   attributes  |-> attributes_from_flags(device),
   addresses   |-> device.addresses]

(* Mutant: numbered from 0.                                                *)
Listed_FromZero(devices) ==
  [i \in DOMAIN devices |-> from_pcap_device(i - 1, devices[i])]

(* list_interfaces, once the driver has answered with devices.             *)
Listed(devices) == [i \in DOMAIN devices |-> from_pcap_device(i, devices[i])]

-----------------------------------------------------------------------------
(* resolve_interface                                                       *)

(* A number of digits alone; 0 is none, and neither is one that does not   *)
(* fit a usize.                                                            *)
parse_index(name) == {n \in Numeral[name.word] : name.control = "none" /\ n >= 1}

(* iter().find: the first of these places.                                 *)
First(interfaces, places) ==
  {interfaces[i] : i \in {i \in places : \A j \in places : i <= j}}

Found(interfaces, places) == [found |-> First(interfaces, places), error |-> "none"]
Refused(error) == [found |-> {}, error |-> error]

(* Mutant: numbers are tried before names.                                 *)
resolve_interface_NumbersFirst(interfaces, selector) ==
  LET name     == trim(selector)
      exact    == {i \in DOMAIN interfaces : interfaces[i].name = name}
      numbered == {i \in DOMAIN interfaces : interfaces[i].index \in parse_index(name)}
  IN  IF numbered # {} THEN Found(interfaces, numbered)
      ELSE IF exact # {} THEN Found(interfaces, exact)
      ELSE Refused("InterfaceNotFound")

(* An exact name, else a number, else a name in any case if it is the only *)
(* one.                                                                    *)
resolve_interface(interfaces, selector) ==
  LET name     == trim(selector)
      exact    == {i \in DOMAIN interfaces : interfaces[i].name = name}
      numbered == {i \in DOMAIN interfaces : interfaces[i].index \in parse_index(name)}
      alike    == {i \in DOMAIN interfaces : eq_ignore_ascii_case(interfaces[i].name, name)}
  IN  IF exact # {} THEN Found(interfaces, exact)
      ELSE IF parse_index(name) # {} THEN
        IF numbered # {} THEN Found(interfaces, numbered)
        ELSE Refused("InterfaceIndexOutOfRange")
      ELSE IF alike = {} THEN Refused("InterfaceNotFound")
      ELSE IF \E i \in alike : alike = {i} THEN Found(interfaces, alike)
      ELSE Refused("AmbiguousInterface")

-----------------------------------------------------------------------------
(* What is printed                                                         *)

(* A control character is shown as U+FFFD; nothing is cut off.             *)
sanitize_display_text(name) ==
  [name EXCEPT !.control = IF @ = "raw" THEN "replaced" ELSE @]

(* The one number of bits that are set before the first that is not.       *)
leading_ones(bits) ==
  {n \in 0 .. Widest : /\ \A i \in 1 .. n : bits[i]
                       /\ n < Widest => ~ bits[n + 1]}

(* The mask is left-aligned, counted, and shifted out, by all of the u128  *)
(* if need be; whatever is left was no prefix.                             *)
netmask_to_prefix_len(netmask) ==
  LET aligned == [i \in 1 .. Widest |-> i \in DOMAIN netmask.bits /\ netmask.bits[i]]
  IN  {n \in leading_ones(aligned) : \A i \in n + 1 .. Widest : ~ aligned[i]}

(* The address with a prefix length, else with its mask, if it has one.    *)
format_address(address) ==
  LET prefix      == UNION {netmask_to_prefix_len(m) : m \in address.netmask}
      same_family == \A m \in address.netmask : m.family = address.family
  IN  IF same_family /\ prefix # {} THEN [prefix |-> prefix, netmask |-> {}]
      ELSE [prefix |-> {}, netmask |-> address.netmask]

(* The lines of one interface; "(none)" is an empty set or sequence.       *)
interface_block(interface) ==
  [index       |-> interface.index,
   name        |-> sanitize_display_text(interface.name),
   description |-> interface.description,
   status      |-> interface.status,
   attributes  |-> interface.attributes,
   addresses   |-> [i \in DOMAIN interface.addresses |-> format_address(interface.addresses[i])]]

interface_list(interfaces) ==
  [blocks |-> [i \in DOMAIN interfaces |-> interface_block(interfaces[i])],
   found  |-> Len(interfaces)]
=============================================================================
