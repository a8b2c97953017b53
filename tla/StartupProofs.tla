--------------------------- MODULE StartupProofs ----------------------------
(***************************************************************************)
(* Theorems about starting: for every set of interfaces and of command     *)
(* lines, however often the world changes.                                 *)
(***************************************************************************)
EXTENDS Startup, TLAPS, SequenceTheorems

-----------------------------------------------------------------------------
(* The listing                                                             *)

(* A netmask is printed as a prefix length exactly when it is one, and     *)
(* then as its own, for every address of every width.                      *)
THEOREM MasksReadBack ==
  ASSUME NEW address \in InterfaceAddress
  PROVE  ReadsBack(address)
<1>. DEFINE f == address.family
<1>1. f \in Family /\ Width[f] \in 0 .. Widest /\ Widest \in Nat
  BY InterfacesAssumption DEF InterfaceAddress
<1>2. CASE address.netmask = {}
  BY <1>2 DEF ReadsBack, format_address
<1>3. ASSUME NEW m \in Netmask, address.netmask = {m}
      PROVE  ReadsBack(address)
  <2>1. PICK g \in Family : m \in [family: {g}, bits: [1 .. Width[g] -> BOOLEAN]]
    BY DEF Netmask
  <2>2. /\ m = [family |-> g, bits |-> m.bits] /\ m.family = g
        /\ m.bits \in [1 .. Width[g] -> BOOLEAN] /\ DOMAIN m.bits = 1 .. Width[g]
        /\ Width[g] \in 0 .. Widest
    BY <2>1, InterfacesAssumption
  <2>3. \A n \in 0 .. Widest :
          n \in netmask_to_prefix_len(m) <=>
            n \in 0 .. Width[g] /\ m.bits = [i \in 1 .. Width[g] |-> i <= n]
    <3>. DEFINE aligned == [i \in 1 .. Widest |-> i \in DOMAIN m.bits /\ m.bits[i]]
    <3>1. \A i \in 1 .. Widest : aligned[i] <=> i \in 1 .. Width[g] /\ m.bits[i]
      BY <2>2
    <3>. HIDE DEF aligned
    <3>2. ASSUME NEW n \in 0 .. Widest
          PROVE  n \in netmask_to_prefix_len(m) <=>
                   /\ \A i \in 1 .. n : aligned[i]
                   /\ \A i \in n + 1 .. Widest : ~ aligned[i]
      <4>1. netmask_to_prefix_len(m)
              = {k \in leading_ones(aligned) : \A i \in k + 1 .. Widest : ~ aligned[i]}
        BY DEF netmask_to_prefix_len, aligned
      <4>2. n < Widest /\ (\A i \in n + 1 .. Widest : ~ aligned[i]) => ~ aligned[n + 1]
        BY <1>1
      <4>. QED
        BY <4>1, <4>2 DEF leading_ones
    <3>3. ASSUME NEW n \in 0 .. Widest,
                 \A i \in 1 .. n : aligned[i], \A i \in n + 1 .. Widest : ~ aligned[i]
          PROVE  n \in 0 .. Width[g] /\ m.bits = [i \in 1 .. Width[g] |-> i <= n]
      <4>1. n \in 0 .. Width[g]
        BY <1>1, <2>2, <3>1, <3>3
      <4>2. \A i \in 1 .. Width[g] : m.bits[i] <=> i <= n
        BY <1>1, <2>2, <3>1, <3>3
      <4>3. \A i \in 1 .. Width[g] : m.bits[i] = (i <= n)
        <5>. SUFFICES ASSUME NEW i \in 1 .. Width[g]
                      PROVE  m.bits[i] = (i <= n)
          OBVIOUS
        <5>1. m.bits[i] \in BOOLEAN /\ (i <= n) \in BOOLEAN
          BY <2>2
        <5>2. CASE i <= n
          <6>1. m.bits[i] = TRUE /\ (i <= n) = TRUE
            BY <4>2, <5>1, <5>2
          <6>. QED
            BY <6>1, Zenon
        <5>3. CASE ~ (i <= n)
          <6>1. m.bits[i] = FALSE /\ (i <= n) = FALSE
            BY <4>2, <5>1, <5>3
          <6>. QED
            BY <6>1, Zenon
        <5>. QED
          BY <5>2, <5>3
      <4>4. m.bits = [i \in 1 .. Width[g] |-> m.bits[i]]
        BY <2>2
      <4>5. [i \in 1 .. Width[g] |-> m.bits[i]] = [i \in 1 .. Width[g] |-> i <= n]
        BY <4>3, Zenon
      <4>6. m.bits = [i \in 1 .. Width[g] |-> i <= n]
        BY <4>4, <4>5
      <4>. QED
        BY <4>1, <4>6
    <3>4. ASSUME NEW n \in 0 .. Width[g], m.bits = [i \in 1 .. Width[g] |-> i <= n]
          PROVE  /\ \A i \in 1 .. n : aligned[i]
                 /\ \A i \in n + 1 .. Widest : ~ aligned[i]
      <4>1. \A i \in 1 .. Width[g] : m.bits[i] <=> i <= n
        BY <3>4, Zenon
      <4>2. \A i \in 1 .. Widest : aligned[i] <=> i \in 1 .. Width[g] /\ i <= n
        BY <3>1, <4>1, Zenon
      <4>. QED
        BY <1>1, <2>2, <4>2
    <3>. QED
      <4>. SUFFICES ASSUME NEW n \in 0 .. Widest
                    PROVE  n \in netmask_to_prefix_len(m) <=>
                             n \in 0 .. Width[g] /\ m.bits = [i \in 1 .. Width[g] |-> i <= n]
        OBVIOUS
      <4>1. CASE n \in netmask_to_prefix_len(m)
        BY <3>2, <3>3, <4>1, Zenon
      <4>2. CASE n \in 0 .. Width[g] /\ m.bits = [i \in 1 .. Width[g] |-> i <= n]
        BY <3>2, <3>4, <4>2, Zenon
      <4>. QED
        BY <4>1, <4>2
  <2>4. \A n \in 0 .. Width[f] :
          address.netmask = {Ones(f, n)} <=>
            g = f /\ m.bits = [i \in 1 .. Width[f] |-> i <= n]
    BY <1>3, <2>2 DEF Ones
  <2>5. netmask_to_prefix_len(m) \subseteq 0 .. Widest
    BY DEF netmask_to_prefix_len, leading_ones
  <2>6. CASE g # f
    <3>1. format_address(address) = [prefix |-> {}, netmask |-> address.netmask]
      BY <1>3, <2>2, <2>6 DEF format_address
    <3>2. \A n \in 0 .. Width[f] : address.netmask # {Ones(f, n)}
      BY <2>4, <2>6
    <3>3. {n \in 0 .. Width[f] : address.netmask = {Ones(f, n)}} = {}
      BY <3>2
    <3>. HIDE DEF f
    <3>4. /\ format_address(address).prefix = {}
          /\ format_address(address).netmask = address.netmask
      BY <3>1
    <3>. QED
      BY <3>3, <3>4, Zenon DEF ReadsBack, f
  <2>7. CASE g = f
    <3>1. UNION {netmask_to_prefix_len(k) : k \in address.netmask} = netmask_to_prefix_len(m)
      BY <1>3
    <3>2. /\ format_address(address).prefix = netmask_to_prefix_len(m)
          /\ netmask_to_prefix_len(m) = {} => format_address(address).netmask = address.netmask
      BY <1>3, <2>2, <2>7, <3>1 DEF format_address
    <3>3. netmask_to_prefix_len(m)
            = {n \in 0 .. Width[f] : address.netmask = {Ones(f, n)}}
      <4>1. \A n \in netmask_to_prefix_len(m) :
              n \in 0 .. Width[f] /\ address.netmask = {Ones(f, n)}
        BY <2>3, <2>4, <2>5, <2>7
      <4>2. \A n \in 0 .. Width[f] :
              n \in 0 .. Widest
                /\ (address.netmask = {Ones(f, n)} => n \in netmask_to_prefix_len(m))
        <5>1. 0 .. Width[f] \subseteq 0 .. Widest
          BY <1>1
        <5>. QED
          BY <2>3, <2>4, <2>7, <5>1, Zenon
      <4>. HIDE DEF f
      <4>. DEFINE right == {n \in 0 .. Width[f] : address.netmask = {Ones(f, n)}}
      <4>3. ASSUME NEW n \in netmask_to_prefix_len(m)
            PROVE  n \in right
        BY <4>1, <4>3
      <4>4. ASSUME NEW n \in right
            PROVE  n \in netmask_to_prefix_len(m)
        BY <4>2, <4>4
      <4>. HIDE DEF right
      <4>5. netmask_to_prefix_len(m) = right
        BY <4>3, <4>4
      <4>. QED
        BY <4>5 DEF right
    <3>. QED
      BY <3>2, <3>3 DEF ReadsBack
  <2>. QED
    BY <2>6, <2>7
<1>. QED
  BY <1>2, <1>3 DEF InterfaceAddress

-----------------------------------------------------------------------------
(* The calls still to make                                                 *)

CaptureAgendas ==
  {<<"settings", "path", "check", "create", "list", "resolve", "open">>,
   <<"path", "check", "create", "list", "resolve", "open">>,
   <<"check", "create", "list", "resolve", "open">>,
   <<"create", "list", "resolve", "open">>,
   <<"settings", "list", "resolve", "open">>,
   <<"list", "resolve", "open">>, <<"resolve", "open">>, <<"open">>, << >>}

ReadAgendas ==
  {<<"open file", "metadata", "from_file">>, <<"metadata", "from_file">>,
   <<"from_file">>, <<"is_dir">>, << >>}

ListAgendas == {<<"list">>, << >>}

Agendas ==
  CASE args.command = "capture" -> CaptureAgendas
    [] args.command = "read" -> ReadAgendas
    [] args.command = "list" -> ListAgendas

BeforeCheck == {"settings", "path", "check"}
BeforeCreate == BeforeCheck \cup {"create"}
BeforeList == BeforeCreate \cup {"list"}
BeforeResolve == BeforeList \cup {"resolve"}

(* What is called next was called for later.                               *)
LEMMA CaptureInOrder ==
  ASSUME NEW s \in CaptureAgendas, s # << >>
  PROVE  /\ Tail(s) \in CaptureAgendas
         /\ Tail(s) # << >> =>
              /\ Head(Tail(s)) \in BeforeCreate => Head(s) \in BeforeCheck
              /\ Head(Tail(s)) \in BeforeList => Head(s) \in BeforeCreate
              /\ Head(Tail(s)) \in BeforeResolve => Head(s) \in BeforeList
<1>. USE DEF BeforeCheck, BeforeCreate, BeforeList, BeforeResolve
<1>1. CASE s = <<"settings", "path", "check", "create", "list", "resolve", "open">>
  <2>1. Tail(s) = <<"path", "check", "create", "list", "resolve", "open">>
    BY <1>1
  <2>. QED
    BY <1>1, <2>1 DEF CaptureAgendas
<1>2. CASE s = <<"path", "check", "create", "list", "resolve", "open">>
  <2>1. Tail(s) = <<"check", "create", "list", "resolve", "open">>
    BY <1>2
  <2>. QED
    BY <1>2, <2>1 DEF CaptureAgendas
<1>3. CASE s = <<"check", "create", "list", "resolve", "open">>
  <2>1. Tail(s) = <<"create", "list", "resolve", "open">>
    BY <1>3
  <2>. QED
    BY <1>3, <2>1 DEF CaptureAgendas
<1>4. CASE s = <<"create", "list", "resolve", "open">>
  <2>1. Tail(s) = <<"list", "resolve", "open">>
    BY <1>4
  <2>. QED
    BY <1>4, <2>1 DEF CaptureAgendas
<1>5. CASE s = <<"settings", "list", "resolve", "open">>
  <2>1. Tail(s) = <<"list", "resolve", "open">>
    BY <1>5
  <2>. QED
    BY <1>5, <2>1 DEF CaptureAgendas
<1>6. CASE s = <<"list", "resolve", "open">>
  <2>1. Tail(s) = <<"resolve", "open">>
    BY <1>6
  <2>. QED
    BY <1>6, <2>1 DEF CaptureAgendas
<1>7. CASE s = <<"resolve", "open">>
  <2>1. Tail(s) = <<"open">>
    BY <1>7
  <2>. QED
    BY <1>7, <2>1 DEF CaptureAgendas
<1>8. CASE s = <<"open">>
  <2>1. Tail(s) = << >>
    BY <1>8
  <2>. QED
    BY <1>8, <2>1 DEF CaptureAgendas
<1>. QED
  BY <1>1, <1>2, <1>3, <1>4, <1>6, <1>7, <1>8, <1>5 DEF CaptureAgendas

LEMMA ReadInOrder ==
  /\ Head(<<"open file", "metadata", "from_file">>) = "open file"
  /\ Tail(<<"open file", "metadata", "from_file">>) = <<"metadata", "from_file">>
  /\ Head(<<"metadata", "from_file">>) = "metadata"
  /\ Tail(<<"metadata", "from_file">>) = <<"from_file">>
  /\ Head(<<"from_file">>) = "from_file" /\ Tail(<<"from_file">>) = << >>
  /\ Head(<<"is_dir">>) = "is_dir"
OBVIOUS

(* What run_capture calls is the first agenda or the fifth.                *)
LEMMA CaptureBegins == run_capture \in CaptureAgendas
BY DEF run_capture, CaptureAgendas

LEMMA HeadTells ==
  ASSUME args \in Command, todo \in Agendas, todo # << >>
  PROVE  /\ args.command = "read" => Head(todo) \in {"open file", "metadata", "from_file", "is_dir"}
         /\ args.command = "list" => Head(todo) = "list"
         /\ args.command = "capture" => Head(todo) \in BeforeResolve \cup {"open"}
<1>1. CASE args.command = "read"
  BY <1>1, ReadInOrder DEF Agendas, ReadAgendas
<1>2. CASE args.command = "list"
  BY <1>2 DEF Agendas, ListAgendas
<1>3. CASE args.command = "capture"
  <2>1. todo \in CaptureAgendas
    BY <1>3 DEF Agendas
  <2>. QED
    BY <1>3, <2>1 DEF CaptureAgendas, BeforeResolve, BeforeList, BeforeCreate, BeforeCheck
<1>. QED
  BY <1>1, <1>2, <1>3 DEF Command, CaptureArgs, ReadArgs

LEMMA AgendaKept ==
  ASSUME args \in Command, todo \in Agendas, todo # << >>, UNCHANGED args,
         todo' = Tail(todo) \/ todo' = << >>
  PROVE  /\ todo' \in Agendas'
         /\ todo' # << >> =>
              /\ Head(todo') \in BeforeCreate => Head(todo) \in BeforeCheck
              /\ Head(todo') \in BeforeList => Head(todo) \in BeforeCreate
              /\ Head(todo') \in BeforeResolve => Head(todo) \in BeforeList
<1>1. CASE args.command = "capture"
  <2>1. todo \in CaptureAgendas /\ Agendas' = CaptureAgendas
    BY <1>1 DEF Agendas, CaptureAgendas
  <2>2. << >> \in CaptureAgendas
    BY DEF CaptureAgendas
  <2>. QED
    BY <2>1, <2>2, CaptureInOrder
<1>2. CASE args.command = "read"
  <2>1. todo \in ReadAgendas /\ Agendas' = ReadAgendas
    BY <1>2 DEF Agendas, ReadAgendas
  <2>2. Tail(<<"is_dir">>) = << >>
    OBVIOUS
  <2>3. todo' \in ReadAgendas
    BY <2>1, <2>2, ReadInOrder DEF ReadAgendas
  <2>4. todo' # << >> => Head(todo') \in {"open file", "metadata", "from_file", "is_dir"}
    BY <2>3, ReadInOrder DEF ReadAgendas
  <2>. QED
    BY <2>1, <2>3, <2>4 DEF BeforeResolve, BeforeList, BeforeCreate, BeforeCheck
<1>3. CASE args.command = "list"
  <2>1. todo = <<"list">> /\ Agendas' = ListAgendas
    BY <1>3 DEF Agendas, ListAgendas
  <2>2. Tail(<<"list">>) = << >>
    OBVIOUS
  <2>. QED
    BY <2>1, <2>2 DEF ListAgendas
<1>. QED
  BY <1>1, <1>2, <1>3 DEF Command, CaptureArgs, ReadArgs

-----------------------------------------------------------------------------
(* The listing and the selector                                            *)

Listing ==
  /\ interfaces \in Seq(NetworkInterface)
  /\ \A i \in DOMAIN interfaces : interfaces[i].index = i
  /\ \A i, j \in DOMAIN interfaces : interfaces[i].name = interfaces[j].name => i = j

LEMMA FromDevice ==
  ASSUME NEW d \in Device, NEW i \in Nat \ {0}
  PROVE  /\ from_pcap_device(i, d) \in NetworkInterface
         /\ from_pcap_device(i, d).index = i
         /\ from_pcap_device(i, d).name = d.name
<1>1. status_from_flags(d) \in LinkStatus
  BY DEF status_from_flags, LinkStatus
<1>2. attributes_from_flags(d) \in SUBSET InterfaceAttribute
  BY DEF attributes_from_flags
<1>3. {d.description} \cap {"text"} \in SUBSET {"text"}
  OBVIOUS
<1>4. d.name \in Name /\ d.addresses \in Seq(InterfaceAddress)
  BY DEF Device
<1>. QED
  BY <1>1, <1>2, <1>3, <1>4 DEF from_pcap_device, NetworkInterface

LEMMA ListedIsAListing ==
  ASSUME NEW s \in Arrangement, interfaces' = Listed(s)
  PROVE  Listing'
<1>1. PICK n \in 0 .. MaxListed : s \in [1 .. n -> Devices]
  BY DEF Arrangement
<1>2. /\ DOMAIN s = 1 .. n /\ n \in Nat
      /\ \A i \in 1 .. n : s[i] \in Device
      /\ \A i, j \in 1 .. n : s[i].name = s[j].name => i = j
  BY <1>1, StartupAssumption DEF Arrangement
<1>3. interfaces' = [i \in 1 .. n |-> from_pcap_device(i, s[i])]
  BY <1>2 DEF Listed
<1>4. \A i \in 1 .. n :
        /\ interfaces'[i] \in NetworkInterface
        /\ interfaces'[i].index = i
        /\ interfaces'[i].name = s[i].name
  BY <1>2, <1>3, FromDevice
<1>5. DOMAIN interfaces' = 1 .. n
  BY <1>3
<1>6. interfaces' \in [1 .. n -> NetworkInterface]
  BY <1>3, <1>4
<1>7. interfaces' \in Seq(NetworkInterface)
  BY <1>2, <1>6, SeqDef
<1>. QED
  BY <1>2, <1>4, <1>5, <1>7 DEF Listing

(* The first place of some is one of them.                                 *)
LEMMA FirstIsOne ==
  ASSUME NEW places \in SUBSET (DOMAIN interfaces)
  PROVE  First(interfaces, places) \subseteq {interfaces[i] : i \in places}
BY DEF First

(* Whatever is found was selected, and what is refused selects nothing.    *)
LEMMA ResolvesRightly ==
  ASSUME Listing, NEW selector \in Selector
  PROVE  LET resolved == resolve_interface(interfaces, selector)
         IN  /\ resolved.found \subseteq {interfaces[i] : i \in DOMAIN interfaces}
             /\ \A c \in resolved.found : Selects(trim(selector), c)
             /\ resolved.error # "none" =>
                  /\ resolved.error \in {"InterfaceNotFound", "InterfaceIndexOutOfRange",
                                        "AmbiguousInterface"}
                  /\ \A i \in DOMAIN interfaces : ~ Selects(trim(selector), interfaces[i])
<1>. DEFINE name     == trim(selector)
            exact    == {i \in DOMAIN interfaces : interfaces[i].name = name}
            numbered == {i \in DOMAIN interfaces : interfaces[i].index \in parse_index(name)}
            alike    == {i \in DOMAIN interfaces : eq_ignore_ascii_case(interfaces[i].name, name)}
            resolved == resolve_interface(interfaces, selector)
            Goal(r)  ==
              /\ r.found \subseteq {interfaces[i] : i \in DOMAIN interfaces}
              /\ \A c \in r.found : Selects(name, c)
              /\ r.error # "none" =>
                   /\ r.error \in {"InterfaceNotFound", "InterfaceIndexOutOfRange",
                                   "AmbiguousInterface"}
                   /\ \A i \in DOMAIN interfaces : ~ Selects(name, interfaces[i])
<1>. SUFFICES Goal(resolved)
  OBVIOUS
<1>1. name \in Name /\ \A i \in DOMAIN interfaces : interfaces[i].name \in Name
  <2>1. name \in Name
    BY DEF trim, Selector
  <2>2. \A i \in DOMAIN interfaces : interfaces[i] \in NetworkInterface
    BY DEF Listing
  <2>. QED
    BY <2>1, <2>2 DEF NetworkInterface
<1>2. \A c : Selects(name, c) <=>
               \/ c.name = name
               \/ exact = {} /\ c.index \in parse_index(name)
               \/ exact = {} /\ {interfaces[i] : i \in alike} = {c}
  BY DEF Selects
<1>3. \A e \in {"InterfaceNotFound", "InterfaceIndexOutOfRange", "AmbiguousInterface"} :
        Refused(e).found = {} /\ Refused(e).error = e
  BY DEF Refused
<1>4. \A places \in SUBSET (DOMAIN interfaces) :
        /\ Found(interfaces, places).found \subseteq {interfaces[i] : i \in places}
        /\ Found(interfaces, places).error = "none"
  BY FirstIsOne DEF Found
<1>5. CASE exact # {}
  <2>1. resolved = Found(interfaces, exact)
    BY <1>5 DEF resolve_interface
  <2>2. \A i \in exact : Selects(name, interfaces[i])
    BY <1>2
  <2>. QED
    BY <1>4, <2>1, <2>2
<1>6. CASE exact = {} /\ parse_index(name) # {} /\ numbered # {}
  <2>1. resolved = Found(interfaces, numbered)
    BY <1>6 DEF resolve_interface
  <2>2. \A i \in numbered : Selects(name, interfaces[i])
    BY <1>2, <1>6
  <2>. QED
    BY <1>4, <2>1, <2>2
<1>7. CASE exact = {} /\ parse_index(name) # {} /\ numbered = {}
  <2>1. resolved = Refused("InterfaceIndexOutOfRange")
    BY <1>7 DEF resolve_interface
  <2>2. alike \subseteq exact
    <3>. SUFFICES ASSUME NEW i \in alike
                  PROVE  interfaces[i].name = name
      OBVIOUS
    <3>1. name.control = "none" /\ Numeral[name.word] # {}
      BY <1>7 DEF parse_index
    <3>2. interfaces[i].name.word = name.word /\ interfaces[i].name.control = name.control
      BY DEF eq_ignore_ascii_case
    <3>. QED
      BY <1>1, <3>1, <3>2 DEF Name
  <2>3. alike = {}
    BY <1>7, <2>2
  <2>4. \A i \in DOMAIN interfaces : ~ Selects(name, interfaces[i])
    BY <1>2, <1>7, <2>3
  <2>. QED
    BY <1>3, <2>1, <2>4
<1>8. CASE exact = {} /\ parse_index(name) = {} /\ alike = {}
  <2>1. resolved = Refused("InterfaceNotFound")
    BY <1>8 DEF resolve_interface
  <2>2. \A i \in DOMAIN interfaces : ~ Selects(name, interfaces[i])
    BY <1>2, <1>8
  <2>. QED
    BY <1>3, <2>1, <2>2
<1>9. ASSUME exact = {}, parse_index(name) = {}, NEW i \in alike, alike = {i}
      PROVE  Goal(resolved)
  <2>1. resolved = Found(interfaces, alike)
    BY <1>9 DEF resolve_interface
  <2>2. {interfaces[j] : j \in alike} = {interfaces[i]}
    BY <1>9
  <2>3. Selects(name, interfaces[i])
    BY <1>2, <1>9, <2>2
  <2>. QED
    BY <1>4, <1>9, <2>1, <2>3
<1>10. CASE /\ exact = {} /\ parse_index(name) = {} /\ alike # {}
            /\ ~ \E i \in alike : alike = {i}
  <2>1. resolved = Refused("AmbiguousInterface")
    BY <1>10 DEF resolve_interface
  <2>2. ASSUME NEW i \in DOMAIN interfaces, {interfaces[j] : j \in alike} = {interfaces[i]}
        PROVE  FALSE
    <3>1. \A j \in alike : interfaces[j] = interfaces[i]
      BY <2>2
    <3>2. \A j \in alike : j = i
      BY <3>1 DEF Listing
    <3>. QED
      BY <1>10, <3>2
  <2>3. \A i \in DOMAIN interfaces : ~ Selects(name, interfaces[i])
    BY <1>2, <1>10, <2>2
  <2>. QED
    BY <1>3, <2>1, <2>3
<1>. QED
  BY <1>5, <1>6, <1>7, <1>8, <1>9, <1>10

(* A name that one interface has, and a number that none is named.         *)
LEMMA NameFound ==
  ASSUME NEW selector, NEW i,
         {j \in DOMAIN interfaces : interfaces[j].name = trim(selector)} = {i}
  PROVE  resolve_interface(interfaces, selector) = Found(interfaces, {i})
<1>1. {j \in DOMAIN interfaces : interfaces[j].name = trim(selector)} # {}
  OBVIOUS
<1>. QED
  BY <1>1 DEF resolve_interface

LEMMA NumberFound ==
  ASSUME NEW selector, NEW i,
         {j \in DOMAIN interfaces : interfaces[j].name = trim(selector)} = {},
         parse_index(trim(selector)) # {},
         {j \in DOMAIN interfaces : interfaces[j].index \in parse_index(trim(selector))} = {i}
  PROVE  resolve_interface(interfaces, selector) = Found(interfaces, {i})
<1>1. {j \in DOMAIN interfaces : interfaces[j].index \in parse_index(trim(selector))} # {}
  OBVIOUS
<1>. QED
  BY <1>1 DEF resolve_interface

(* What a listing shows leads back to it.                                  *)
LEMMA ListingsLeadBack ==
  ASSUME Listing
  PROVE  ListingLeadsBack
<1>. SUFFICES ASSUME NEW i \in DOMAIN interfaces
              PROVE  LET block == interface_list(interfaces).blocks[i]
                         back(name) == resolve_interface(interfaces, [name |-> name, padded |-> FALSE])
                         number(name) == name.control = "none" /\ Numeral[name.word] = {block.index}
                     IN  /\ \A name \in Name :
                              number(name) /\ (\A j \in DOMAIN interfaces : interfaces[j].name # name)
                              => back(name).found = {interfaces[i]}
                         /\ block.name = interfaces[i].name => back(block.name).found = {interfaces[i]}
                         /\ \A j \in DOMAIN block.addresses : ReadsBack(interfaces[i].addresses[j])
  BY DEF ListingLeadsBack
<1>. DEFINE block == interface_list(interfaces).blocks[i]
            back(name) == resolve_interface(interfaces, [name |-> name, padded |-> FALSE])
<1>1. block = interface_block(interfaces[i])
  BY DEF interface_list
<1>2. /\ block.index = i /\ DOMAIN block.addresses = DOMAIN interfaces[i].addresses
      /\ i \in Nat \ {0}
  BY <1>1 DEF interface_block, Listing, NetworkInterface
<1>3. First(interfaces, {i}) = {interfaces[i]}
  BY <1>2 DEF First
<1>4. ASSUME NEW name \in Name, name.control = "none", Numeral[name.word] = {block.index},
             \A j \in DOMAIN interfaces : interfaces[j].name # name
      PROVE  back(name).found = {interfaces[i]}
  <2>1. parse_index(name) = {i}
    BY <1>2, <1>4 DEF parse_index
  <2>2. {j \in DOMAIN interfaces : interfaces[j].name = name} = {}
    BY <1>4
  <2>3. trim([name |-> name, padded |-> FALSE]) = name
    BY DEF trim
  <2>4. back(name) = Found(interfaces, {i})
    <3>. DEFINE selector == [name |-> name, padded |-> FALSE]
    <3>. HIDE DEF selector
    <3>1. trim(selector) = name
      BY <2>3 DEF selector
    <3>2. /\ {j \in DOMAIN interfaces : interfaces[j].name = trim(selector)} = {}
          /\ parse_index(trim(selector)) # {}
          /\ {j \in DOMAIN interfaces : interfaces[j].index \in parse_index(trim(selector))} = {i}
      <4>1. parse_index(trim(selector)) = {i}
        BY <2>1, <3>1
      <4>. QED
        BY <2>2, <3>1, <4>1 DEF Listing
    <3>3. resolve_interface(interfaces, selector) = Found(interfaces, {i})
      BY <3>2, NumberFound, Zenon
    <3>. QED
      BY <3>3 DEF selector
  <2>. QED
    BY <1>3, <2>4 DEF Found
<1>5. ASSUME block.name = interfaces[i].name
      PROVE  back(block.name).found = {interfaces[i]}
  <2>1. {j \in DOMAIN interfaces : interfaces[j].name = block.name} = {i}
    BY <1>5 DEF Listing
  <2>2. trim([name |-> block.name, padded |-> FALSE]) = block.name
    BY DEF trim
  <2>3. back(block.name) = Found(interfaces, {i})
    <3>. DEFINE selector == [name |-> block.name, padded |-> FALSE]
    <3>. HIDE DEF selector
    <3>1. trim(selector) = block.name
      BY <2>2 DEF selector
    <3>2. resolve_interface(interfaces, selector) = Found(interfaces, {i})
      BY <2>1, <3>1, NameFound
    <3>. QED
      BY <3>2 DEF selector
  <2>. QED
    BY <1>3, <2>3 DEF Found
<1>6. ASSUME NEW j \in DOMAIN block.addresses
      PROVE  ReadsBack(interfaces[i].addresses[j])
  <2>1. interfaces[i].addresses \in Seq(InterfaceAddress)
    <3>1. interfaces[i] \in NetworkInterface
      BY DEF Listing
    <3>. QED
      BY <3>1 DEF NetworkInterface
  <2>2. interfaces[i].addresses[j] \in InterfaceAddress
    BY <1>2, <2>1
  <2>. QED
    BY <2>2, MasksReadBack
<1>. QED
  BY <1>4, <1>5, <1>6

-----------------------------------------------------------------------------
(* The inductive invariant                                                 *)

(* No call that is still to be made has had its effect.                    *)
Stage ==
  todo # << >> =>
    /\ opened = {}
    /\ Head(todo) \in BeforeCreate => target # "us"
    /\ Head(todo) \in BeforeList => interfaces = << >>
    /\ Head(todo) \in BeforeResolve => chosen = {}

IInv ==
  /\ StartupTypeOK
  /\ devices \in Arrangement
  /\ todo \in Agendas
  /\ Listing
  /\ Stage
  /\ \A c \in chosen : Selects(trim(args.interface), c)
  /\ exists = "yes" /\ ~ args.overwrite => exit # "none"
  /\ OpensWhatWasAsked
  /\ RefusalsTouchNothing

LEMMA InitIInv == Init => IInv
<1>. SUFFICES ASSUME Init
              PROVE  IInv
  OBVIOUS
<1>1. args \in Command
  BY StartupAssumption DEF Init
<1>2. StartupTypeOK
  <2>1. args \in Commands /\ source \in PathState /\ target \in {"nobody", "someone", "us"}
    BY DEF Init, PathState
  <2>2. /\ changes = 0 /\ exists = "unknown" /\ interfaces = << >> /\ chosen = {}
        /\ held = {} /\ opened = {} /\ exit = "none"
    BY DEF Init
  <2>3. /\ DOMAIN interfaces = {}
        /\ chosen \subseteq {interfaces[i] : i \in DOMAIN interfaces}
    BY <2>2
  <2>4. changes \in 0 .. MaxChanges
    BY <2>2, StartupAssumption
  <2>5. \A i \in DOMAIN interfaces : interfaces[i] \in NetworkInterface
    BY <2>3
  <2>6. exists \in {"yes", "no", "unknown"} /\ held \subseteq PathState /\ opened \subseteq Devices
    BY <2>2
  <2>7. devices \in Arrangement
    <3>1. << >> \in [1 .. 0 -> Devices]
      OBVIOUS
    <3>2. << >> \in Arrangement
      BY <3>1, StartupAssumption DEF Arrangement
    <3>. QED
      BY <3>2 DEF Init
  <2>8. allowed \in [list : BOOLEAN, open : BOOLEAN] /\ platform \in {"opens", "denies", "refuses"}
    BY DEF Init
  <2>9. causes \subseteq Cause /\ were \subseteq PathState
    BY <2>1 DEF Init
  <2>. QED
    BY <2>1, <2>2, <2>3, <2>4, <2>5, <2>6, <2>7, <2>8, <2>9 DEF StartupTypeOK
<1>3. devices \in Arrangement
  BY <1>2 DEF StartupTypeOK
<1>4. todo \in Agendas
  <2>1. CASE args.command = "capture"
    BY <2>1, CaptureBegins DEF Init, Agendas
  <2>2. CASE args.command = "read"
    BY <2>2 DEF Init, Agendas, ReadAgendas, run_read
  <2>3. CASE args.command = "list"
    BY <2>3 DEF Init, Agendas, ListAgendas, run_list
  <2>. QED
    BY <1>1, <2>1, <2>2, <2>3 DEF Command, CaptureArgs, ReadArgs
<1>5. Listing
  BY DEF Init, Listing
<1>6. Stage /\ OpensWhatWasAsked /\ RefusalsTouchNothing
  <2>1. opened = {} /\ interfaces = << >> /\ chosen = {} /\ exists = "unknown" /\ exit = "none"
    BY DEF Init
  <2>2. target # "us"
    BY DEF Init
  <2>3. Stage
    BY <2>1, <2>2 DEF Stage
  <2>4. OpensWhatWasAsked
    BY <2>1 DEF OpensWhatWasAsked
  <2>5. RefusalsTouchNothing
    BY <2>1 DEF RefusalsTouchNothing, SettingsError
  <2>. QED
    BY <2>3, <2>4, <2>5
<1>. QED
  BY <1>2, <1>3, <1>4, <1>5, <1>6 DEF Init, IInv

(* What does not touch the listing, the choice or the handle keeps what    *)
(* there is to say of them.                                                *)
LEMMA ChoiceKept ==
  ASSUME IInv, UNCHANGED <<args, interfaces, chosen, opened>>,
         exit' \notin {"InterfaceNotFound", "InterfaceIndexOutOfRange", "AmbiguousInterface"}
           \/ exit' = exit
  PROVE  /\ Listing'
         /\ \A c \in chosen' : Selects(trim(args.interface), c)'
         /\ OpensWhatWasAsked'
<1>1. \A c : Selects(trim(args.interface), c)' <=> Selects(trim(args.interface), c)
  BY DEF Selects
<1>2. Listing'
  BY DEF IInv, Listing
<1>3. OpensWhatWasAsked'
  BY <1>1 DEF IInv, OpensWhatWasAsked
<1>. QED
  BY <1>1, <1>2, <1>3 DEF IInv

(* The calls on files and settings, in what they have in common.           *)
LEMMA OtherCallKeeps ==
  ASSUME IInv, exit = "none", todo # << >>,
         UNCHANGED <<args, allowed, platform, devices, source, changes, were>>,
         UNCHANGED <<interfaces, chosen, opened>>,
         exists' \in {"yes", "no", "unknown"}, held' \subseteq PathState,
         target' \in {"nobody", "someone", "us"}, causes' \subseteq Cause,
         \/ todo' = Tail(todo) \/ todo' = << >>
         \/ args.command = "read" /\ todo' = <<"is_dir">>,
         exit' \in {"none"} \cup NetSentryError,
         exit' \notin {"InterfaceNotFound", "InterfaceIndexOutOfRange", "AmbiguousInterface"},
         exit' \in SettingsError \cup {"PathNotUtf8", "OutputFileExists"} =>
           Head(todo) \in BeforeCheck,
         target' = target \/ Head(todo) = "create",
         exists' = exists \/ (Head(todo) = "check" /\ (exists' = "yes" => target # "nobody")),
         exists' = "yes" /\ ~ args.overwrite => exists = "yes" \/ exit' # "none"
  PROVE  IInv'
<1>1. args \in Command
  BY StartupAssumption DEF IInv, StartupTypeOK
<1>2. /\ todo' \in Agendas'
      /\ todo' # << >> =>
           /\ Head(todo') \in BeforeCreate => Head(todo) \in BeforeCheck
           /\ Head(todo') \in BeforeList => Head(todo) \in BeforeCreate
           /\ Head(todo') \in BeforeResolve => Head(todo) \in BeforeList
  <2>1. CASE todo' = Tail(todo) \/ todo' = << >>
    BY <1>1, <2>1, AgendaKept DEF IInv
  <2>2. CASE args.command = "read" /\ todo' = <<"is_dir">>
    BY <2>2, ReadInOrder
    DEF Agendas, ReadAgendas, BeforeResolve, BeforeList, BeforeCreate, BeforeCheck
  <2>. QED
    BY <2>1, <2>2
<1>3. StartupTypeOK'
  BY DEF IInv, StartupTypeOK, Arrangement
<1>4. (devices \in Arrangement)'
  BY DEF IInv, Arrangement
<1>5. Stage'
  BY <1>2 DEF IInv, Stage, BeforeResolve, BeforeList, BeforeCreate, BeforeCheck
<1>6. (exists = "yes" /\ ~ args.overwrite => exit # "none")'
  BY DEF IInv
<1>7. RefusalsTouchNothing'
  <2>1. (exit \in SettingsError \cup {"PathNotUtf8", "OutputFileExists"} =>
           interfaces = << >> /\ opened = {} /\ target # "us")'
    BY DEF IInv, Stage, BeforeResolve, BeforeList, BeforeCreate, BeforeCheck
  <2>2. ASSUME exists' = "yes", ~ args.overwrite
        PROVE  target' = "someone"
    <3>1. exists # "yes"
      BY <2>2 DEF IInv
    <3>2. Head(todo) = "check" /\ target # "nobody" /\ target # "us" /\ target' = target
      BY <2>2, <3>1 DEF IInv, Stage, StartupTypeOK, BeforeCreate, BeforeCheck
    <3>. QED
      BY <3>2 DEF IInv, StartupTypeOK
  <2>. QED
    BY <2>1, <2>2 DEF RefusalsTouchNothing
<1>. QED
  BY <1>2, <1>3, <1>4, <1>5, <1>6, <1>7, ChoiceKept DEF IInv

LEMMA OtherCallStep ==
  ASSUME IInv,
         NewSettings \/ CheckUtf8 \/ CheckExists \/ CreateFile
           \/ OpenFile \/ Metadata \/ IsDir \/ FromFile
  PROVE  IInv'
<1>. USE DEF NetSentryError, SettingsError, WriteError, FileError, stateVars, Cause
<1>1. /\ exists \in {"yes", "no", "unknown"} /\ held \subseteq PathState
      /\ target \in {"nobody", "someone", "us"} /\ causes \subseteq Cause
      /\ source \in PathState /\ args \in Command
  BY StartupAssumption DEF IInv, StartupTypeOK
<1>2. CASE NewSettings
  BY <1>1, <1>2, OtherCallKeeps DEF NewSettings, At, Proceed, Fail, BeforeCheck
<1>3. CASE CheckUtf8
  BY <1>1, <1>3, OtherCallKeeps DEF CheckUtf8, At, Proceed, Fail, BeforeCheck
<1>4. CASE CheckExists
  <2>1. exists' \in {"yes", "no", "unknown"} /\ (exists' = "yes" => target # "nobody")
    BY <1>4 DEF CheckExists
  <2>. QED
    BY <1>1, <1>4, <2>1, OtherCallKeeps DEF CheckExists, At, Proceed, Fail, BeforeCheck
<1>5. CASE CreateFile
  BY <1>1, <1>5, OtherCallKeeps DEF CreateFile, At, Proceed, Fail
<1>6. CASE OpenFile
  <2>1. args.command = "read"
    BY <1>1, <1>6, HeadTells
    DEF IInv, OpenFile, At, BeforeResolve, BeforeList, BeforeCreate, BeforeCheck, Command,
        CaptureArgs, ReadArgs
  <2>2. held' \subseteq PathState
    BY <1>1, <1>6 DEF OpenFile
  <2>. QED
    BY <1>1, <1>6, <2>1, <2>2, OtherCallKeeps
    DEF OpenFile, OpenError, classify_open_error, At, Proceed, Fail
<1>7. CASE Metadata
  <2>1. args.command = "read"
    BY <1>1, <1>7, HeadTells
    DEF IInv, Metadata, At, BeforeResolve, BeforeList, BeforeCreate, BeforeCheck, Command,
        CaptureArgs, ReadArgs
  <2>. QED
    BY <1>1, <1>7, <2>1, OtherCallKeeps DEF Metadata, classify_open_error, At, Proceed, Fail
<1>8. CASE IsDir
  BY <1>1, <1>8, OtherCallKeeps DEF IsDir, At, Fail
<1>9. CASE FromFile
  BY <1>1, <1>9, OtherCallKeeps DEF FromFile, PathState, At, Proceed, Fail
<1>. QED
  BY <1>2, <1>3, <1>4, <1>5, <1>6, <1>7, <1>8, <1>9

LEMMA ListStep ==
  ASSUME IInv, ListInterfaces
  PROVE  IInv'
<1>1. /\ exit = "none" /\ todo # << >> /\ Head(todo) = "list" /\ args \in Command
      /\ UNCHANGED <<args, allowed, platform, devices, source, changes, were>>
      /\ UNCHANGED <<target, exists, chosen, held, opened>>
  BY StartupAssumption DEF IInv, StartupTypeOK, ListInterfaces, At
<1>2. todo' = Tail(todo) \/ todo' = << >>
  BY DEF ListInterfaces, Proceed, Fail
<1>3. exit' \in {"none", "ok", "InterfaceEnumeration", "NoInterfacesFound"}
  BY <1>1 DEF ListInterfaces, Proceed, Fail
<1>4. chosen = {} /\ opened = {}
  BY <1>1 DEF IInv, Stage, BeforeResolve, BeforeList
<1>5. Listing'
  <2>1. CASE interfaces' = Listed(devices)
    BY <2>1, ListedIsAListing DEF IInv
  <2>2. CASE interfaces' = interfaces
    BY <2>2 DEF IInv, Listing
  <2>. QED
    BY <2>1, <2>2 DEF ListInterfaces
<1>6. StartupTypeOK'
  <2>1. /\ DOMAIN interfaces' \subseteq Nat
        /\ \A i \in DOMAIN interfaces' : interfaces'[i] \in NetworkInterface
    BY <1>5 DEF Listing
  <2>2. causes' \subseteq Cause
    BY <1>1 DEF IInv, StartupTypeOK, ListInterfaces, Proceed, Fail, Cause
  <2>. QED
    BY <1>1, <1>3, <1>4, <2>1, <2>2
    DEF IInv, StartupTypeOK, Arrangement, NetSentryError, InterfaceError
<1>7. todo' \in Agendas' /\ Stage'
  BY <1>1, <1>2, <1>4, AgendaKept
  DEF IInv, Stage, BeforeResolve, BeforeList, BeforeCreate, BeforeCheck
<1>8. (devices \in Arrangement)'
  BY <1>1 DEF IInv, Arrangement
<1>9. OpensWhatWasAsked' /\ RefusalsTouchNothing'
  BY <1>1, <1>3, <1>4 DEF IInv, OpensWhatWasAsked, RefusalsTouchNothing, SettingsError
<1>. QED
  BY <1>1, <1>4, <1>5, <1>6, <1>7, <1>8, <1>9 DEF IInv

LEMMA ResolveStep ==
  ASSUME IInv, ResolveInterface
  PROVE  IInv'
<1>1. /\ exit = "none" /\ todo # << >> /\ Head(todo) = "resolve" /\ args \in Command
      /\ UNCHANGED <<args, allowed, platform, devices, source, changes, were>>
      /\ UNCHANGED <<target, exists, interfaces, held, opened>>
  BY StartupAssumption DEF IInv, StartupTypeOK, ResolveInterface, At
<1>2. todo' = Tail(todo) \/ todo' = << >>
  BY DEF ResolveInterface, Proceed, Fail
<1>3. args.interface \in Selector
  <2>1. args.command = "capture"
    BY <1>1, HeadTells DEF IInv, Command, CaptureArgs, ReadArgs
  <2>. QED
    BY <1>1, <2>1 DEF Command, CaptureArgs, ReadArgs
<1>. DEFINE resolved == resolve_interface(interfaces, args.interface)
<1>4. /\ resolved.found \subseteq {interfaces[i] : i \in DOMAIN interfaces}
      /\ \A c \in resolved.found : Selects(trim(args.interface), c)
      /\ resolved.error # "none" =>
           /\ resolved.error \in {"InterfaceNotFound", "InterfaceIndexOutOfRange",
                                 "AmbiguousInterface"}
           /\ \A i \in DOMAIN interfaces : ~ Selects(trim(args.interface), interfaces[i])
  BY <1>3, ResolvesRightly DEF IInv
<1>5. chosen' = resolved.found /\ exit' \in {"none", resolved.error}
      /\ (exit' # "none" => resolved.error # "none")
  BY <1>1 DEF ResolveInterface, Proceed, Fail
<1>. HIDE DEF resolved
<1>6. \A c : Selects(trim(args.interface), c)' <=> Selects(trim(args.interface), c)
  BY <1>1 DEF Selects
<1>7. opened = {}
  BY <1>1 DEF IInv, Stage
<1>8. StartupTypeOK'
  <2>1. causes' \subseteq Cause
    BY DEF IInv, StartupTypeOK, ResolveInterface, Proceed, Fail, Cause
  <2>. QED
    BY <1>1, <1>4, <1>5, <2>1
    DEF IInv, StartupTypeOK, Arrangement, NetSentryError, InterfaceError
<1>9. todo' \in Agendas' /\ Stage'
  BY <1>1, <1>2, <1>7, AgendaKept
  DEF IInv, Stage, BeforeResolve, BeforeList, BeforeCreate, BeforeCheck
<1>10. (devices \in Arrangement)' /\ Listing'
  BY <1>1 DEF IInv, Arrangement, Listing
<1>11. (\A c \in chosen : Selects(trim(args.interface), c))' /\ OpensWhatWasAsked'
  BY <1>1, <1>4, <1>5, <1>6, <1>7 DEF OpensWhatWasAsked
<1>12. RefusalsTouchNothing'
  BY <1>1, <1>4, <1>5 DEF IInv, RefusalsTouchNothing, SettingsError
<1>. QED
  BY <1>1, <1>8, <1>9, <1>10, <1>11, <1>12 DEF IInv

LEMMA OpenStep ==
  ASSUME IInv, OpenLive
  PROVE  IInv'
<1>1. /\ exit = "none" /\ todo # << >> /\ Head(todo) = "open" /\ args \in Command
      /\ UNCHANGED <<args, allowed, platform, devices, source, changes, were>>
      /\ UNCHANGED <<target, exists, interfaces, chosen, held>>
  BY StartupAssumption DEF IInv, StartupTypeOK, OpenLive, At
<1>2. todo' = << >>
  <2>1. todo \in CaptureAgendas
    BY <1>1, HeadTells DEF IInv, Agendas, Command, CaptureArgs, ReadArgs
  <2>2. todo = <<"open">>
    BY <1>1, <2>1 DEF CaptureAgendas
  <2>3. Tail(<<"open">>) = << >>
    OBVIOUS
  <2>. QED
    BY <2>2, <2>3 DEF OpenLive, Proceed, Fail
<1>3. exit' \in {"none", "CaptureOpen", "CapturePermissionDenied"}
  BY <1>1 DEF OpenLive, Proceed, Fail
<1>4. PICK c \in chosen : opened' = DeviceFor(c) \/ opened' = opened
  BY DEF OpenLive
<1>5. opened = {}
  BY <1>1 DEF IInv, Stage
<1>6. \A d \in DeviceFor(c) : d.name = c.name /\ d \in Devices
  BY DEF DeviceFor, IInv, Arrangement
<1>7. PICK i \in DOMAIN interfaces : c = interfaces[i]
  BY <1>4 DEF IInv, StartupTypeOK
<1>8. \A x : Selects(trim(args.interface), x)' <=> Selects(trim(args.interface), x)
  BY <1>1 DEF Selects
<1>9. StartupTypeOK'
  <2>1. causes' \subseteq Cause
    BY DEF IInv, StartupTypeOK, OpenLive, Proceed, Fail, Trouble, Cause
  <2>. QED
    BY <1>1, <1>3, <1>4, <1>5, <1>6, <2>1
    DEF IInv, StartupTypeOK, Arrangement, NetSentryError, CaptureError
<1>10. todo' \in Agendas' /\ Stage'
  BY <1>1, <1>2, AgendaKept DEF IInv, Stage
<1>11. (devices \in Arrangement)' /\ Listing'
  BY <1>1 DEF IInv, Arrangement, Listing
<1>12. (\A x \in chosen : Selects(trim(args.interface), x))'
  BY <1>1, <1>8 DEF IInv
<1>13. OpensWhatWasAsked'
  BY <1>1, <1>3, <1>4, <1>5, <1>6, <1>7, <1>8 DEF IInv, OpensWhatWasAsked
<1>14. RefusalsTouchNothing'
  BY <1>1, <1>3 DEF IInv, RefusalsTouchNothing, SettingsError
<1>. QED
  BY <1>1, <1>9, <1>10, <1>11, <1>12, <1>13, <1>14 DEF IInv

LEMMA ChangeStep ==
  ASSUME IInv, DevicesChange \/ PathChanges \/ SomeoneCreates
  PROVE  IInv'
<1>1. /\ exit = "none" /\ todo # << >>
      /\ UNCHANGED <<args, allowed, platform, todo, exists, interfaces, chosen, held, opened>>
      /\ UNCHANGED <<exit, causes>>
      /\ changes' = changes + 1 /\ changes < MaxChanges
  BY DEF DevicesChange, PathChanges, SomeoneCreates, Change, Undecided, stateVars
<1>2. /\ devices' \in Arrangement
      /\ source' \in PathState
      /\ target' = target \/ target' = "someone"
      /\ were' \subseteq PathState
  BY DEF DevicesChange, PathChanges, SomeoneCreates, IInv, StartupTypeOK
<1>3. StartupTypeOK'
  BY <1>1, <1>2, StartupAssumption DEF IInv, StartupTypeOK
<1>4. (devices \in Arrangement)'
  BY <1>2 DEF Arrangement
<1>5. todo' \in Agendas' /\ Stage'
  BY <1>1, <1>2 DEF IInv, Stage, Agendas, CaptureAgendas, ReadAgendas, ListAgendas
<1>6. RefusalsTouchNothing' /\ (exists = "yes" /\ ~ args.overwrite => exit # "none")'
  BY <1>1, <1>2 DEF IInv, RefusalsTouchNothing, SettingsError
<1>. QED
  BY <1>1, <1>3, <1>4, <1>5, <1>6, ChoiceKept DEF IInv

LEMMA NextIInv == IInv /\ [Next]_vars => IInv'
<1>. SUFFICES ASSUME IInv, [Next]_vars
              PROVE  IInv'
  OBVIOUS
<1>1. CASE Call
  BY <1>1, OtherCallStep, ListStep, ResolveStep, OpenStep DEF Call
<1>2. CASE DevicesChange \/ PathChanges \/ SomeoneCreates
  BY <1>2, ChangeStep
<1>3. CASE UNCHANGED vars
  <2>1. StartupTypeOK'
    BY <1>3 DEF vars, worldVars, stateVars, IInv, StartupTypeOK, Arrangement
  <2>2. (devices \in Arrangement)' /\ (todo \in Agendas)'
    BY <1>3 DEF vars, worldVars, IInv, Arrangement, Agendas
  <2>3. Stage' /\ RefusalsTouchNothing' /\ (exists = "yes" /\ ~ args.overwrite => exit # "none")'
    BY <1>3 DEF vars, worldVars, stateVars, IInv, Stage, RefusalsTouchNothing
  <2>. QED
    BY <1>3, <2>1, <2>2, <2>3, ChoiceKept DEF vars, worldVars, stateVars, IInv
<1>. QED
  BY <1>1, <1>2, <1>3 DEF Next

LEMMA IInvHolds == Spec => []IInv
BY InitIInv, NextIInv, PTL DEF Spec

(* Every variable keeps its type.                                          *)
THEOREM TypesHold == Spec => []StartupTypeOK
<1>1. IInv => StartupTypeOK
  BY DEF IInv
<1>. QED
  BY <1>1, IInvHolds, PTL

(* However interfaces come, go and change places while a command starts,   *)
(* what is captured on is what was asked for.                              *)
THEOREM TheRightOneIsOpened == Spec => []OpensWhatWasAsked
<1>1. IInv => OpensWhatWasAsked
  BY DEF IInv
<1>. QED
  BY <1>1, IInvHolds, PTL

(* A refusal comes before anything was listed, opened or written, and a    *)
(* file that was seen stays whoever's it was.                              *)
THEOREM NothingIsTouched == Spec => []RefusalsTouchNothing
<1>1. IInv => RefusalsTouchNothing
  BY DEF IInv
<1>. QED
  BY <1>1, IInvHolds, PTL

(* Whatever `netsentry list' shows leads back to what it is shown of.      *)
THEOREM ListingsCanBeTyped == Spec => []ListingLeadsBack
<1>1. IInv => ListingLeadsBack
  BY ListingsLeadBack DEF IInv
<1>. QED
  BY <1>1, IInvHolds, PTL

-----------------------------------------------------------------------------
(* What a failure is called and what is advised                            *)

Helps(cause, error) == Remedies(cause) \cap hints(error) # {}

LEMMA Helpful ==
  /\ Helps("snaplen", "InvalidSnaplen") /\ Helps("count", "InvalidCount")
  /\ Helps("not UTF-8", "PathNotUtf8") /\ Helps("file exists", "OutputFileExists")
  /\ Helps("directory", "OutputFileUnwritable")
  /\ Helps("no privileges", "InterfaceEnumeration")
  /\ Helps("no privileges", "NoInterfacesFound") /\ Helps("no interfaces", "NoInterfacesFound")
  /\ Helps("no such interface", "InterfaceNotFound")
  /\ Helps("no such interface", "InterfaceIndexOutOfRange")
  /\ Helps("ambiguous", "AmbiguousInterface")
  /\ Helps("no privileges", "CapturePermissionDenied")
  /\ \A cause \in {"no privileges", "no such interface", "down"} : Helps(cause, "CaptureOpen")
  /\ Helps("missing", "CaptureFileMissing")
  /\ Helps("forbidden", "CaptureFilePermissionDenied")
  /\ Helps("directory", "CaptureFileIsDirectory")
  /\ Helps("odd", "CaptureFileUnreadable")
  /\ Helps("odd", "CaptureFileFormat") /\ Helps("text", "CaptureFileFormat")
<1>1. /\ Helps("snaplen", "InvalidSnaplen") /\ Helps("count", "InvalidCount")
      /\ Helps("not UTF-8", "PathNotUtf8") /\ Helps("file exists", "OutputFileExists")
      /\ Helps("directory", "OutputFileUnwritable")
  BY DEF Helps, Remedies, hints
<1>2. /\ Helps("no privileges", "InterfaceEnumeration")
      /\ Helps("no privileges", "NoInterfacesFound") /\ Helps("no interfaces", "NoInterfacesFound")
  BY DEF Helps, Remedies, hints
<1>3. /\ Helps("no such interface", "InterfaceNotFound")
      /\ Helps("no such interface", "InterfaceIndexOutOfRange")
      /\ Helps("ambiguous", "AmbiguousInterface")
  BY DEF Helps, Remedies, hints
<1>4. /\ Helps("no privileges", "CapturePermissionDenied")
      /\ \A cause \in {"no privileges", "no such interface", "down"} : Helps(cause, "CaptureOpen")
  BY DEF Helps, Remedies, hints
<1>5. /\ Helps("missing", "CaptureFileMissing")
      /\ Helps("forbidden", "CaptureFilePermissionDenied")
      /\ Helps("directory", "CaptureFileIsDirectory")
      /\ Helps("odd", "CaptureFileUnreadable")
      /\ Helps("odd", "CaptureFileFormat") /\ Helps("text", "CaptureFileFormat")
  BY DEF Helps, Remedies, hints
<1>. QED
  BY <1>1, <1>2, <1>3, <1>4, <1>5

LEMMA Advised ==
  /\ exit \notin NetSentryError => AdviceFitsTheCause
  /\ exit # "CaptureOpen" /\ (\E cause \in causes : Helps(cause, exit)) => AdviceFitsTheCause
  /\ exit = "CaptureOpen" /\ (\A cause \in causes : Helps(cause, exit)) => AdviceFitsTheCause
  /\ exit \in FileError /\ (changes > 0 \/ platform = "denies") => AdviceFitsTheCause
<1>1. error_report(exit).hints = hints(exit)
  BY DEF error_report
<1>2. AdviceFitsTheCause <=>
        (exit \in NetSentryError =>
           \/ exit = "CaptureOpen" /\ \A cause \in causes : Helps(cause, exit)
           \/ exit # "CaptureOpen" /\ \E cause \in causes : Helps(cause, exit)
           \/ exit \in FileError /\ (changes > 0 \/ platform = "denies"))
  BY <1>1, Zenon DEF AdviceFitsTheCause, Helps
<1>. QED
  BY <1>2

(* What the calls made so far have shown of the path.                      *)
Looked ==
  args.command = "read" =>
    /\ source \in were
    /\ changes = 0 => were = {source}
    /\ todo # << >> =>
         /\ Head(todo) = "metadata" =>
              \E h \in were : held = {h} /\ (changes = 0 => OpenError = {} \/ source = "odd")
         /\ Head(todo) = "from_file" => (changes = 0 => source \in {"odd", "text", "capture"})
         /\ Head(todo) = "is_dir" =>
              /\ were \cap {"odd", "directory"} # {}
              /\ changes = 0 => source = "odd" \/ (source = "directory" /\ platform = "refuses")

DInv == IInv /\ Looked /\ DiagnosisWasTrue /\ AdviceFitsTheCause

LEMMA InitDInv == Init => DInv
<1>. SUFFICES ASSUME Init
              PROVE  Looked /\ DiagnosisWasTrue /\ AdviceFitsTheCause
  BY InitIInv DEF DInv
<1>1. Looked
  BY ReadInOrder DEF Init, Looked, run_read
<1>2. DiagnosisWasTrue
  BY DEF Init, DiagnosisWasTrue, run_read
<1>3. exit \notin NetSentryError
  BY DEF Init, NetSentryError, InterfaceError, SettingsError, CaptureError, FileError, WriteError
<1>. QED
  BY <1>1, <1>2, <1>3, Advised

LEMMA AdvisedNext ==
  /\ exit' \notin NetSentryError => AdviceFitsTheCause'
  /\ exit' # "CaptureOpen" /\ (\E cause \in causes' : Helps(cause, exit')) => AdviceFitsTheCause'
  /\ exit' = "CaptureOpen" /\ (\A cause \in causes' : Helps(cause, exit')) => AdviceFitsTheCause'
  /\ exit' \in FileError /\ (changes' > 0 \/ platform' = "denies") => AdviceFitsTheCause'
<1>1. (/\ exit \notin NetSentryError => AdviceFitsTheCause
       /\ exit # "CaptureOpen" /\ (\E cause \in causes : Helps(cause, exit)) => AdviceFitsTheCause
       /\ exit = "CaptureOpen" /\ (\A cause \in causes : Helps(cause, exit)) => AdviceFitsTheCause
       /\ exit \in FileError /\ (changes > 0 \/ platform = "denies") => AdviceFitsTheCause)'
  BY Advised, PTL
<1>. QED
  BY <1>1 DEF NetSentryError, InterfaceError, SettingsError, CaptureError, FileError, WriteError,
              Helps, Remedies, hints

LEMMA NoneIsNoError == "none" \notin NetSentryError /\ "ok" \notin NetSentryError
BY DEF NetSentryError, InterfaceError, SettingsError, CaptureError, FileError, WriteError

(* The calls of `capture' and `list': what failed is what is advised on.   *)
LEMMA OtherAdvice ==
  ASSUME NewSettings \/ CheckUtf8 \/ CheckExists \/ CreateFile
           \/ ListInterfaces \/ ResolveInterface \/ OpenLive
  PROVE  AdviceFitsTheCause'
<1>1. exit = "none"
  BY DEF NewSettings, CheckUtf8, CheckExists, CreateFile, ListInterfaces, ResolveInterface,
         OpenLive, At
<1>2. CASE exit' \in {"none", "ok"}
  BY <1>2, AdvisedNext, NoneIsNoError
<1>3. CASE /\ exit' # "CaptureOpen"
           /\ \E cause \in causes' : Helps(cause, exit')
  BY <1>3, AdvisedNext
<1>4. CASE exit' = "CaptureOpen" /\ \A cause \in causes' : Helps(cause, exit')
  BY <1>4, AdvisedNext
<1>5. CASE NewSettings \/ CheckUtf8 \/ CheckExists \/ CreateFile
  BY <1>1, <1>2, <1>3, <1>5, Helpful
  DEF NewSettings, CheckUtf8, CheckExists, CreateFile, Proceed, Fail
<1>6. CASE ListInterfaces
  BY <1>1, <1>2, <1>3, <1>6, Helpful DEF ListInterfaces, Proceed, Fail
<1>7. CASE ResolveInterface
  <2>. DEFINE resolved == resolve_interface(interfaces, args.interface)
  <2>1. resolved.error \in {"none", "InterfaceNotFound", "InterfaceIndexOutOfRange",
                           "AmbiguousInterface"}
    BY DEF resolve_interface, Found, Refused
  <2>2. \/ exit' = "none"
        \/ /\ exit' = resolved.error /\ resolved.error # "none"
           /\ causes' = {IF resolved.error = "AmbiguousInterface" THEN "ambiguous"
                         ELSE "no such interface"}
    BY <1>1, <1>7 DEF ResolveInterface, Proceed, Fail
  <2>. HIDE DEF resolved
  <2>. QED
    BY <1>2, <1>3, <2>1, <2>2, Helpful
<1>8. CASE OpenLive
  <2>1. \/ exit' = "none"
        \/ /\ exit' = "CaptureOpen"
           /\ causes' \subseteq {"no privileges", "no such interface", "down"}
        \/ exit' = "CapturePermissionDenied" /\ "no privileges" \in causes'
    BY <1>1, <1>8 DEF OpenLive, Trouble, Proceed, Fail
  <2>. QED
    BY <1>2, <1>3, <1>4, <2>1, Helpful
<1>. QED
  BY <1>5, <1>6, <1>7, <1>8

LEMMA OtherCallDInv ==
  ASSUME DInv,
         NewSettings \/ CheckUtf8 \/ CheckExists \/ CreateFile
           \/ ListInterfaces \/ ResolveInterface \/ OpenLive
  PROVE  DInv'
<1>1. /\ todo # << >> /\ UNCHANGED args
      /\ Head(todo) \in BeforeResolve \cup {"open"}
  BY DEF NewSettings, CheckUtf8, CheckExists, CreateFile, ListInterfaces, ResolveInterface,
         OpenLive, At, BeforeResolve, BeforeList, BeforeCreate, BeforeCheck
<1>2. args.command # "read"
  BY <1>1, HeadTells, StartupAssumption
  DEF DInv, IInv, StartupTypeOK, BeforeResolve, BeforeList, BeforeCreate, BeforeCheck
<1>3. Looked' /\ DiagnosisWasTrue'
  BY <1>1, <1>2 DEF Looked, DiagnosisWasTrue
<1>4. IInv'
  BY OtherCallStep, ListStep, ResolveStep, OpenStep DEF DInv
<1>. QED
  BY <1>3, <1>4, OtherAdvice DEF DInv

(* What the first four of reading's calls may come to.                     *)
Ends(error, cause) == todo' = << >> /\ exit' = error /\ causes' = {cause}

LEMMA EndsWell ==
  ASSUME Looked, args.command = "read", todo # << >>, changes \in Nat,
         UNCHANGED <<args, platform, source, changes, were>>,
         \/ Ends("CaptureFileMissing", "missing") /\ source = "missing"
         \/ Ends("CaptureFilePermissionDenied", "forbidden") /\ source = "forbidden"
         \/ /\ Ends("CaptureFilePermissionDenied", "directory")
            /\ source = "directory" /\ platform = "denies"
         \/ /\ Ends("CaptureFileIsDirectory", "directory") /\ "directory" \in were
            /\ changes = 0 => platform # "denies"
         \/ /\ Ends("CaptureFileUnreadable", "odd")
            /\ were \cap {"odd", "directory"} # {} /\ (changes = 0 => source = "odd")
         \/ /\ Ends("CaptureFileFormat", source) /\ source \in PathState \ {"capture"}
            /\ changes = 0 => source \in {"odd", "text"}
  PROVE  Looked' /\ DiagnosisWasTrue' /\ AdviceFitsTheCause'
<1>. USE DEF Ends
<1>1. source \in were /\ (changes = 0 => were = {source}) /\ todo' = << >>
      /\ args' = args /\ changes' = changes /\ were' = were /\ source' = source
      /\ platform' = platform
  BY DEF Looked
<1>2. Looked'
  BY <1>1 DEF Looked
<1>3. CASE Ends("CaptureFileMissing", "missing") /\ source = "missing"
  <2>1. DiagnosisWasTrue'
    BY <1>1, <1>3 DEF DiagnosisWasTrue
  <2>. QED
    BY <1>2, <1>3, <2>1, Helpful, AdvisedNext
<1>4. CASE Ends("CaptureFilePermissionDenied", "forbidden") /\ source = "forbidden"
  <2>1. DiagnosisWasTrue'
    BY <1>1, <1>4 DEF DiagnosisWasTrue
  <2>. QED
    BY <1>2, <1>4, <2>1, Helpful, AdvisedNext
<1>5. CASE /\ Ends("CaptureFilePermissionDenied", "directory")
           /\ source = "directory" /\ platform = "denies"
  <2>1. DiagnosisWasTrue'
    BY <1>1, <1>5 DEF DiagnosisWasTrue
  <2>. QED
    BY <1>1, <1>2, <1>5, <2>1, AdvisedNext DEF FileError
<1>6. CASE /\ Ends("CaptureFileIsDirectory", "directory") /\ "directory" \in were
           /\ changes = 0 => platform # "denies"
  <2>1. DiagnosisWasTrue'
    BY <1>1, <1>6 DEF DiagnosisWasTrue
  <2>. QED
    BY <1>2, <1>6, <2>1, Helpful, AdvisedNext
<1>7. CASE /\ Ends("CaptureFileUnreadable", "odd")
           /\ were \cap {"odd", "directory"} # {} /\ (changes = 0 => source = "odd")
  <2>1. DiagnosisWasTrue'
    BY <1>1, <1>7 DEF DiagnosisWasTrue
  <2>. QED
    BY <1>2, <1>7, <2>1, Helpful, AdvisedNext
<1>8. CASE /\ Ends("CaptureFileFormat", source) /\ source \in PathState \ {"capture"}
           /\ changes = 0 => source \in {"odd", "text"}
  <2>1. DiagnosisWasTrue'
    BY <1>1, <1>8 DEF DiagnosisWasTrue
  <2>2. CASE changes = 0
    BY <1>2, <1>8, <2>1, <2>2, Helpful, AdvisedNext
  <2>3. CASE changes # 0
    BY <1>1, <1>2, <1>8, <2>1, <2>3, AdvisedNext DEF FileError
  <2>. QED
    BY <2>2, <2>3
<1>. QED
  BY <1>3, <1>4, <1>5, <1>6, <1>7, <1>8

LEMMA ReadDInv ==
  ASSUME DInv, OpenFile \/ Metadata \/ IsDir \/ FromFile
  PROVE  DInv'
<1>1. /\ exit = "none" /\ todo # << >> /\ args \in Command /\ source \in PathState
      /\ UNCHANGED <<args, platform, source, changes, were>>
      /\ Head(todo) \in {"open file", "metadata", "from_file", "is_dir"}
      /\ changes \in Nat
  <2>1. args \in Command /\ source \in PathState /\ changes \in Nat
    BY StartupAssumption DEF DInv, IInv, StartupTypeOK
  <2>2. /\ exit = "none" /\ todo # << >>
        /\ Head(todo) \in {"open file", "metadata", "from_file", "is_dir"}
    BY DEF OpenFile, Metadata, IsDir, FromFile, At
  <2>3. UNCHANGED <<args, platform, source, changes, were>>
    BY DEF OpenFile, Metadata, IsDir, FromFile, At
  <2>. QED
    BY <2>1, <2>2, <2>3
<1>2. args.command = "read"
  BY <1>1, HeadTells
  DEF DInv, IInv, BeforeResolve, BeforeList, BeforeCreate, BeforeCheck, Command, CaptureArgs,
      ReadArgs
<1>3. todo \in ReadAgendas
  BY <1>2 DEF DInv, IInv, Agendas
<1>4. Looked /\ source \in were /\ (changes = 0 => were = {source})
  BY <1>2 DEF DInv, Looked
<1>5. IInv'
  BY OtherCallStep DEF DInv
<1>6. CASE todo' # << >> /\ exit' = "none" /\ Looked'
  BY <1>5, <1>6, AdvisedNext, NoneIsNoError DEF DInv, DiagnosisWasTrue
<1>7. CASE OpenFile
  <2>1. todo = <<"open file", "metadata", "from_file">>
    BY <1>3, <1>7, ReadInOrder DEF OpenFile, At, ReadAgendas
  <2>2. CASE held' = {source} /\ Proceed /\ (OpenError = {} \/ source = "odd")
    <3>1. todo' = <<"metadata", "from_file">> /\ exit' = "none"
      BY <1>1, <2>1, <2>2, ReadInOrder DEF Proceed
    <3>2. Looked'
      BY <1>1, <1>4, <2>2, <3>1, ReadInOrder DEF Looked, OpenError
    <3>. QED
      BY <1>6, <3>1, <3>2
  <2>3. ASSUME classify_open_error("NotFound"), "NotFound" \in OpenError
        PROVE  DInv'
    <3>1. Ends("CaptureFileMissing", "missing") /\ source = "missing"
      BY <2>3 DEF classify_open_error, OpenError, Fail, Ends
    <3>. QED
      BY <1>1, <1>2, <1>4, <1>5, <3>1, EndsWell DEF DInv
  <2>4. ASSUME classify_open_error("PermissionDenied"), "PermissionDenied" \in OpenError
        PROVE  DInv'
    <3>1. \/ Ends("CaptureFilePermissionDenied", "forbidden") /\ source = "forbidden"
          \/ /\ Ends("CaptureFilePermissionDenied", "directory")
             /\ source = "directory" /\ platform = "denies"
      BY <2>4 DEF classify_open_error, OpenError, Fail, Ends
    <3>. QED
      BY <1>1, <1>2, <1>4, <1>5, <3>1, EndsWell DEF DInv
  <2>5. ASSUME classify_open_error("Other"), "Other" \in OpenError
        PROVE  DInv'
    <3>1. todo' = <<"is_dir">> /\ exit' = "none"
      BY <1>1, <2>5 DEF classify_open_error
    <3>2. source = "odd" \/ (source = "directory" /\ platform = "refuses")
      BY <2>5 DEF OpenError
    <3>3. Looked'
      BY <1>1, <1>4, <3>1, <3>2, ReadInOrder DEF Looked
    <3>. QED
      BY <1>6, <3>1, <3>3
  <2>. QED
    BY <1>7, <2>2, <2>3, <2>4, <2>5 DEF OpenFile, OpenError
<1>8. CASE Metadata
  <2>1. todo = <<"metadata", "from_file">>
    BY <1>3, <1>8, ReadInOrder DEF Metadata, At, ReadAgendas
  <2>2. PICK h \in were : held = {h} /\ (changes = 0 => OpenError = {} \/ source = "odd")
    BY <1>2, <1>4, <2>1, ReadInOrder DEF Looked
  <2>3. OpenError = {} =>
          /\ source \notin {"missing", "forbidden"}
          /\ source = "directory" => platform \notin {"denies", "refuses"}
    <3>1. source = "missing" => "NotFound" \in OpenError
      BY DEF OpenError
    <3>2. source = "forbidden" => "PermissionDenied" \in OpenError
      BY DEF OpenError
    <3>3. source = "directory" /\ platform = "denies" => "PermissionDenied" \in OpenError
      BY DEF OpenError
    <3>4. source = "directory" /\ platform = "refuses" => "Other" \in OpenError
      BY DEF OpenError
    <3>. QED
      BY <3>1, <3>2, <3>3, <3>4
  <2>4. CASE held = {"directory"} /\ Fail("CaptureFileIsDirectory", held)
    <3>1. Ends("CaptureFileIsDirectory", "directory") /\ "directory" \in were
      BY <2>2, <2>4 DEF Fail, Ends
    <3>2. changes = 0 => platform # "denies"
      BY <1>4, <2>2, <2>3, <3>1
    <3>. QED
      BY <1>1, <1>2, <1>4, <1>5, <3>1, <3>2, EndsWell DEF DInv
  <2>5. CASE held # {"directory"} /\ Proceed
    <3>1. todo' = <<"from_file">> /\ exit' = "none"
      BY <1>1, <2>1, <2>5, ReadInOrder DEF Proceed
    <3>2. changes = 0 => source \in {"odd", "text", "capture"}
      BY <1>1, <1>4, <2>2, <2>3, <2>5 DEF PathState
    <3>3. Looked'
      BY <1>1, <1>4, <3>1, <3>2, ReadInOrder DEF Looked
    <3>. QED
      BY <1>6, <3>1, <3>3
  <2>6. CASE held = {"odd"} /\ classify_open_error("Other")
    <3>1. todo' = <<"is_dir">> /\ exit' = "none"
      BY <1>1, <2>6 DEF classify_open_error
    <3>2. "odd" \in were /\ (changes = 0 => source = "odd")
      BY <1>4, <2>2, <2>6
    <3>3. Looked'
      BY <1>1, <1>4, <3>1, <3>2, ReadInOrder DEF Looked
    <3>. QED
      BY <1>6, <3>1, <3>3
  <2>. QED
    BY <1>8, <2>4, <2>5, <2>6 DEF Metadata
<1>9. CASE IsDir
  <2>1. /\ were \cap {"odd", "directory"} # {}
        /\ changes = 0 => source = "odd" \/ (source = "directory" /\ platform = "refuses")
    BY <1>1, <1>2, <1>4, <1>9 DEF Looked, IsDir, At
  <2>2. \/ /\ Ends("CaptureFileIsDirectory", "directory") /\ "directory" \in were
           /\ changes = 0 => platform # "denies"
        \/ /\ Ends("CaptureFileUnreadable", "odd")
           /\ were \cap {"odd", "directory"} # {} /\ (changes = 0 => source = "odd")
    BY <1>4, <1>9, <2>1 DEF IsDir, Fail, Ends
  <2>. QED
    BY <1>1, <1>2, <1>4, <1>5, <2>2, EndsWell DEF DInv
<1>10. CASE FromFile
  <2>1. changes = 0 => source \in {"odd", "text", "capture"}
    BY <1>1, <1>2, <1>4, <1>10 DEF Looked, FromFile, At
  <2>2. CASE source = "capture"
    <3>1. todo = <<"from_file">>
      BY <1>3, <1>10, ReadInOrder DEF FromFile, At, ReadAgendas
    <3>2. todo' = << >> /\ exit' = "none"
      BY <1>1, <1>10, <2>2, <3>1, ReadInOrder DEF FromFile, Proceed
    <3>3. Looked'
      BY <1>1, <1>4, <3>2 DEF Looked
    <3>4. DiagnosisWasTrue'
      BY <1>1, <1>4, <2>2, <3>2 DEF DiagnosisWasTrue
    <3>. QED
      BY <1>5, <3>2, <3>3, <3>4, AdvisedNext, NoneIsNoError DEF DInv
  <2>3. CASE source # "capture"
    <3>1. Ends("CaptureFileFormat", source)
      BY <1>10, <2>3 DEF FromFile, Fail, Ends
    <3>. QED
      BY <1>1, <1>2, <1>4, <1>5, <2>1, <2>3, <3>1, EndsWell DEF DInv
  <2>. QED
    BY <2>2, <2>3
<1>. QED
  BY <1>7, <1>8, <1>9, <1>10

LEMMA ChangeDInv ==
  ASSUME DInv, DevicesChange \/ PathChanges \/ SomeoneCreates
  PROVE  DInv'
<1>1. /\ exit = "none" /\ todo # << >> /\ changes \in Nat
      /\ UNCHANGED <<args, platform, todo, held, exit>> /\ changes' = changes + 1
  BY StartupAssumption
  DEF DInv, IInv, StartupTypeOK, DevicesChange, PathChanges, SomeoneCreates, Change, Undecided,
      stateVars
<1>2. args.command = "read" => were' = were \cup {source'}
  BY DEF DevicesChange, PathChanges, SomeoneCreates, saving, capturing
<1>3. Looked'
  BY <1>1, <1>2 DEF DInv, Looked
<1>4. DiagnosisWasTrue' /\ AdviceFitsTheCause'
  BY <1>1, AdvisedNext, NoneIsNoError DEF DiagnosisWasTrue
<1>. QED
  BY <1>3, <1>4, ChangeStep DEF DInv

LEMMA NextDInv == DInv /\ [Next]_vars => DInv'
<1>. SUFFICES ASSUME DInv, [Next]_vars
              PROVE  DInv'
  OBVIOUS
<1>1. CASE Call
  BY <1>1, OtherCallDInv, ReadDInv DEF Call
<1>2. CASE DevicesChange \/ PathChanges \/ SomeoneCreates
  BY <1>2, ChangeDInv
<1>3. CASE UNCHANGED vars
  <2>1. IInv'
    BY NextIInv DEF DInv
  <2>2. Looked' /\ DiagnosisWasTrue'
    BY <1>3 DEF vars, worldVars, stateVars, DInv, Looked, OpenError, DiagnosisWasTrue
  <2>3. AdviceFitsTheCause'
    BY <1>3 DEF vars, worldVars, stateVars, DInv, AdviceFitsTheCause
  <2>. QED
    BY <2>1, <2>2, <2>3 DEF DInv
<1>. QED
  BY <1>1, <1>2, <1>3 DEF Next

LEMMA DInvHolds == Spec => []DInv
BY InitDInv, NextDInv, PTL DEF Spec

(* However the path to read changes between the look at it and its opening *)
(* by libpcap, the error names something the path has named, and names it  *)
(* exactly where the path did not change.                                  *)
THEOREM DiagnosesAreTrue == Spec => []DiagnosisWasTrue
<1>1. DInv => DiagnosisWasTrue
  BY DEF DInv
<1>. QED
  BY <1>1, DInvHolds, PTL

(* Whatever went wrong, some advice that is given is about it.             *)
THEOREM AdviceFits == Spec => []AdviceFitsTheCause
<1>1. DInv => AdviceFitsTheCause
  BY DEF DInv
<1>. QED
  BY <1>1, DInvHolds, PTL
=============================================================================
