# A formal model of NetSentry

TLA+ specifications of NetSentry (crate `netsentry`, `src/src/`), checked with
TLC on small instances and proved with TLAPS for every value of the constants.
Line numbers below refer to the repository's files.

## 1. The system and its parts

NetSentry is a command line tool with three commands: `list` shows the capture
interfaces, `capture` reads packets from one of them, `read` reads them from a
file. The last two run the same pipeline:

```
 driver / file --> pump --> (copy to output file) --> count --> callback --> summary, flow table
                    ^                                              |
   Ctrl+C handler --+                                    decode --> packet line | flow table
```

| Part | Source | State it keeps | Operations | Talks to |
| ---- | ------ | -------------- | ---------- | -------- |
| Pump | `capture/pump.rs` | tally, time span, reason for stopping | one loop: check the flag, read, copy, count, hand on, test the limit | driver or file (reads), handler (shared flag), writer (call), callback (call) |
| Interrupter, live capture | `capture/live.rs` | the shared flag, the handle | open, `open_savefile`, `interrupter`, `run`, `interrupt` (another thread) | pump, driver |
| File reader | `capture/offline.rs` | the handle | `open`, `run` | pump |
| Statistics and time | `capture/stats.rs`, `timestamp.rs` | counters, first and last timestamp | `record`, `limit_reached`, `duration`, `is_monotonic` | pump, renderer |
| Settings | `capture/settings.rs` | snapshot length, promiscuous, count | `new` | pump |
| File writer | `capture/writer.rs` | the output file | `prepare_capture_file`, `record`, `flush`, drop | pump, file system |
| Decoder | `decode/*.rs` | none; a cursor during a call | `decode` and one function per header | callback |
| Flow table | `flow/*.rs` | map from key to flow, counters of packets without flow | `record`, `flows_sorted` | callback, renderer |
| Interfaces | `capture/device.rs` | none | `list_interfaces`, `resolve_interface` | driver |
| Renderer | `render/*.rs` | none | one function per text | `main.rs` |
| Entry point | `main.rs`, `cli.rs` | the phase of the run | `run_capture`, `run_read`, `run_list` | everything |
| Errors | `error.rs` | none | messages and hints | everything |

What is hard in it:

* **Concurrency.** `interrupt()` runs on the handler's thread and makes two
  calls, storing the flag and breaking the read, while the loop checks the flag,
  blocks in a read, and on "no more packets" looks at the flag again.
* **Ordering.** A packet is copied, counted and handed on in that order, and any
  of the later steps may end the run. Packets arrive in any order of their
  timestamps. The flow table is a hash map.
* **Failure.** The interface disappears, the file is damaged in the middle,
  nobody reads standard output any more (a packet line then fails, a `print!`
  panics), the output file cannot be opened or flushed, another process creates
  a file of the same name.
* **Limits.** `--count`, `--max-flows`, two VLAN tags, eight IPv6 extension
  headers, saturating counters, timestamps that are no point in time.
* **A world that moves on.** Interfaces are listed, chosen by number or name, and
  opened later by name; a path is examined, opened and opened again.
* **Untrusted structure.** Header lengths are what the packet says, bytes are
  what the snapshot length left.

What makes each part correct:

* *Pump*: what is saved, counted and shown is the same sequence of packets; the
  reason given for stopping is the cause; Ctrl+C ends the run within one packet
  and however quiet the interface; a limit is not overrun; reading a file ends.
* *Session*: exit code 0 means the whole story was told; captured packets survive
  a failure; summary and flow table agree; a damaged file is reported and fails;
  a file the user did not offer is not touched.
* *Starting*: the interface that is opened is the one that was asked for, however
  the interfaces change meanwhile; an error about a path names something the path
  was; whatever went wrong, some advice is about it; a refusal comes before
  anything is listed, opened or written.
* *Reports*: a packet line never makes a cut or damaged packet look whole; the
  summary and the flow report add up to what was seen; what `list` prints can be
  typed back, and no netmask is rounded.
* *Flow table*: every packet is counted exactly once; a conversation is tracked
  whole or not at all; flows do not depend on the order of packets; the listing
  is reproducible.
* *Decoder*: a shorter capture only hides layers; no header is read past the
  bytes there are; nothing is read behind a later fragment; the answer is one the
  flow table knows how to file.

## 2. Modules

| Module | Kind | Models |
| ------ | ---- | ------ |
| `Counters` | operators | saturating `u64` counters, the three totals |
| `PacketTime` | operators | timestamps, their order, differences, the span of a run |
| `DecodedPacket` | operators | the answers `decode` may give: the contract between decoder and flow table |
| `Errors` | operators | `error.rs`: the errors, which of them carry a cause, what each advises, the report |
| `Interfaces` | operators | `capture/device.rs` and `render/interfaces.rs`: the listing, selectors, netmasks |
| `Startup` | specification | everything a command does before its first packet, one action per call; `cli.rs`, `settings.rs`, the opening halves of `writer.rs`, `live.rs`, `offline.rs` |
| `Run` | abstract specification | what a run promises: packets one at a time, one true reason to end, at most one packet after Ctrl+C |
| `Pump` | specification | `capture/pump.rs`, `interrupt()`, the driver, the file, the reader of standard output; implements `Run` |
| `RunReport` | extends `Pump` | the header and the summaries printed around a run (`render/capture.rs`), dates |
| `FlowTable` | specification | `flow/mod.rs`, `flow/key.rs`, `flow/stats.rs`: one action, `Record` |
| `FlowReport` | extends `FlowTable` | the flow report (`render/flow.rs`) and its totals |
| `Decoder` | specification | `decode/*.rs`, two readers of one frame in lockstep |
| `PacketLine` | extends `Decoder` | the line printed for a packet (`render/packet.rs`) |
| `Session` | composition | `run_capture` and `run_read`: extends `Pump`, uses `FlowTable` (`Flows == INSTANCE FlowTable`) for its table; implements both |
| `MCFlowTable`, `MCPump`, `MCSession`, `MCDecoder`, `MCStartup` | TLC | values for the constants |
| `MeasureProofs`, `FlowTableProofs`, `FlowReportProofs`, `PumpProofs`, `SessionProofs`, `DecoderProofs`, `StartupProofs`, `StartingProofs` | TLAPS | lemmas and theorems |

Refinements, each checked as a property of a run and proved: `Session` implements
`Pump` and `FlowTable` (`PartsBehaveAsSpecified`), `Pump` implements `Run` (`KeepsThePromise`), and `Startup`
implements the opening of a `Session` (`StartsASession`).

Conventions: an `Option` is a set with at most one member; a definition has the
name of the Rust item it translates; a definition `X_Something` before `X` is a
plausible bug in `X`, used to show that a property notices it.

### 2.1 Pump

`config` is `PumpOptions` together with the callback's mode (`listing` prints
lines, otherwise the flow table is filled). `pc` tells where the loop is.

| Code | Action |
| ---- | ------ |
| `if interrupted() { break }` (pump.rs:96) | `CheckStop` |
| the `Ok(packet)` arm (101-131), with the writer, the tally, the span, the callback and the limit | `ReadPacket` |
| `TimeoutExpired` (135) | `ReadTimeout` |
| `NoMorePackets` (137): end of a file | `ReadEndOfFile`, then `NoMorePackets` |
| `NoMorePackets` (137): woken by breakloop | `ReadBroken`, then `NoMorePackets` |
| any other error (144) | `ReadFailure` |
| Ctrl+C, and the two calls of `interrupt()` (live.rs:49) | `Signal`, `HandlerStep` twice |
| the world | `Arrive`, `InterfaceGone`, `OutputCloses` |

The arm for a packet is one step because it shares nothing with other threads
but standard output, which it touches once. The check and the read are separate
steps, and so is the second look at the flag. `taken` and `late` are history.
libpcap's break flag is modelled from its use here: breaking makes one read
give up, whether or not packets wait.

`Promised` maps the loop to `Run`: the stop flag is having asked, the sink is the
file, and what was handed on was shown. The check, the timeout, the handler's
second call and the second look at the flag are nothing to the abstract run,
whose one step takes a packet whole.

### 2.2 Session

`phase` names the next statement. Each statement that can fail does so in a
disjunct of its own; `Leave` ends the process. `print!` panics when `outlet` is
gone, which ends the process after the writer has been dropped, and dropping it
closes the file (`CloseFile`, external: the `pcap` crate's `Drop`). Only a failed
`flush` loses packets. The handler is installed last (`Arm`); before it, and
during the whole of `read`, Ctrl+C kills the process. A session that fails keeps
the error it failed with. `PartsBehaveAsSpecified` states that the whole session
implements `Pump` under the identity mapping, and `FlowTable` with `RecordedLog` for
its history: each packet taken, with the outcome it meets at the table that
replaying those before it leaves.

### 2.3 Startup

`todo` holds the calls a command still has to make, in the order of its
statements; an action makes the first of them, and `Proceed` or `Fail` says what
becomes of the rest. Between any two of them `DevicesChange`, `PathChanges` and
`SomeoneCreates` let the world change, `MaxChanges` times.

| Code | Action |
| ---- | ------ |
| `CaptureSettings::new` (settings.rs:37) | `NewSettings` |
| `prepare_capture_file` (writer.rs:76, :83, :90) | `CheckUtf8`, `CheckExists`, `CreateFile` |
| `list_interfaces` (device.rs:131) | `ListInterfaces` |
| `resolve_interface` (device.rs:154) | `ResolveInterface` |
| `LiveCapture::open` (live.rs:65) | `OpenLive` |
| `check_readable` (offline.rs:107, :116) | `OpenFile`, `Metadata` |
| `path.is_dir()` (offline.rs:136) | `IsDir` |
| `Capture::from_file` (offline.rs:41) | `FromFile` |

A name is what selection and display tell apart: the word, the case of its
letters, and a control character or its replacement. Which failure the driver or
the system reports, and whether its words say that privileges were missing, is
nondeterministic within what was really wrong; `causes` keeps what that was, and
`were` everything the path has named. Opening a directory opens it, denies it, or
fails in another way, depending on `platform`. Addresses matter for their
netmasks, which are bit vectors of the family's width.

### 2.4 Reports

The reports are operators over the state of the specification they extend, and
say which parts, notes and caveats are printed and which figures they hold;
wording, alignment and units are left out. `SummaryTellsTheRun`, `ReportAddsUp`
and `LinesNeverMislead` compare what is printed with the history.

### 2.5 Flow table

`record` is one function, so the specification has one action over all packets.
The state is the table; `log` is the history the properties compare it with. An
address is its place in `IpAddr`'s order. `flows_sorted` is the set of all
listings the sort may return for some order of the hash map's values.

### 2.6 Decoder

`decode()` is a pure function, so its properties relate two calls. The frame is
chosen as it is read: a step picks what the bytes at the current offset mean as
the header expected there, and each reader that expects that header applies the
decoder's function to it, against its own number of captured bytes. All sizes
are the real ones. Fields the decoder copies without deciding by them are left
out; so is `captured_payload_len`, which is meant to differ between captures.

## 3. Runs

| Run | Module, cfg | What it shows | Bounds |
| --- | ----------- | ------------- | ------ |
| `flow_table` | `MCFlowTable`, `FlowTable.cfg` | nine invariants of the table and its report | 13 packets of 7 conversing and 6 left-out kinds, every sequence of up to 4, table of 2, counters to 3, byte counts exact below 3 |
| `pump` | `MCPump`, `Pump.cfg` | seven invariants, the refinement of `Run`, two liveness properties | 3 packets, up to 3 delivered, 2 presses of Ctrl+C, limits none, 0, 1, 2, counters to 2, one second that has a date, driver figures 0 and 1 |
| `session` | `MCSession`, `Session.cfg` | five invariants, an action property, a liveness property, the refinement of `Pump` and `FlowTable` | 3 kinds of packets, up to 2 delivered, 1 press, limits none and 1, table of 1, counters to 3 |
| `decoder` | `MCDecoder`, `Decoder.cfg` | six invariants, one about the packet line | 17 captured lengths from 0 to 150, both readers at each pair of them |
| `startup` | `MCStartup`, `Startup.cfg` | six invariants, the refinement of `Session`'s opening | 5 devices, up to 2 of them at once (`MaxListed`), 8 selectors, all orders of refusals, 2 changes of the world, snapshot lengths 1 to 2 from 0 to 3, masks of 2 and 3 bits in a word of 3 |
| `flows_backwards` | `FlowsBackwards.cfg` | *violation*: order matters once the table is full | table of 1 |
| `count_zero` | `CountZero.cfg` | *violation*: `--count 0` analyses one packet | as `pump` |
| `span_cover` | `SpanCover.cfg` | *violation*: the span does not cover the packets | as `pump` |
| `esp_walk` | `EspWalk.cfg` | *violation*: how a chain ending on ESP is reported | as `decoder` |
| `partial_file` | `PartialFile.cfg` | *violation*: a failed capture does leave a partial file | as `session` |
| `file_race` | `FileRace.cfg` | *violation*: a file created after the check, which truly found none, is truncated | as `session` |
| `swallowed_reason` | `SwallowedReason.cfg` | *violation*: two errors do not say why | as `startup` |

Why the bounds are enough. *Flow table*: two entries and three kinds of key let a
full table meet known and new conversations; four packets let both directions of
one conversation surround another; counters of three saturate; a second has two
microseconds, and one packet is stamped outside its second. *Pump*: the loop has
no memory of packets beyond its counters, so three packets, one more than the
largest limit and than the counters' maximum, reach every case of the arm; a
second Ctrl+C can find any state the first left. *Session*: two packets make a
table of one refuse a conversation, and are one more than the limit. *Startup*:
two interfaces are enough to be ambiguous, to change places and to make a number
a name; one change can come between any two calls, and a second can undo it;
the devices carry every mask of both widths, one shorter than the word (as 32
bits are in the `u128`) and one that fills it. *Decoder*:
the captured lengths lie around the end of every header and in the middle of
chains of up to eight extension headers and more.

Deadlock is not checked: a run of the program ends, and the flow table and the
decoder have nothing left to do at their bounds.

Seven runs show the code doing something else than a comment or document says:

* `--count 0` on `read` analyses one packet (pump.rs:128 compares after the
  packet; live captures refuse 0).
* README:369 promises the same flows for a capture read backwards; with refused
  conversations the table depends on arrival (flow/mod.rs:159). Without refusals
  the promise holds (`OrderIrrelevantUnlessRefused`).
* stats.rs:104 calls the time span what the packets *cover*; it is the first and
  the last arrival.
* net.rs:182 says that ESP ends the extension walk with
  `UnsupportedExtensionHeader`; it is reported as `UnsupportedProtocol`.
* live.rs:190 says that a failed read leaves no partial file; with `--write` it
  leaves one holding every packet captured so far.
* README:212 says that an existing file is refused; one that appears between the
  check and the creation is truncated (writer.rs:83, :101). The run asks only
  about checks that were answered: `exists` keeps apart that `try_exists` said no
  and that it failed.
* render/mod.rs:32 says that every failure is reported with its full source
  chain; `CaptureFileUnreadable` and `OutputFileUnwritable` keep what the system
  said in a field that no message prints (error.rs:141, :187).

Smaller disagreements met on the way, which no run is about: an existing file is
also replaced when `try_exists` fails, which counts as no (writer.rs:83); with
`--max-flows 0` the report says that no conversations were seen (render/flow.rs:43);
a span is called out of order when a single timestamp is no point in time
(render/capture.rs:183); cli.rs:130 says the summary tells how many new
conversations were skipped, and it counts their packets; `TimeSpan::is_monotonic`,
meant for the report, is called by tests only; the summary's line about the
snapshot length also appears for a damaged file whose packets claim to have
captured more than there was; a platform that denies to open a directory makes
`read` report missing permissions.

## 4. Fairness

`FairSpec` (Pump) assumes `WF(Loop)` and `WF(HandlerStep)`: both threads are
scheduled, and each read returns, at the latest with its timeout of 250 ms
(live.rs:86), which is what the code relies on: "the timeout alone would be
correct" (live.rs:163). `ReadBroken` is deliberately not fair, because breakloop
"is not guaranteed to interrupt a blocked read on every libpcap version".
Arrivals, failures and signals are not fair: they need not happen.
`FairSession` is the same with `WF(Statement)` for the statements around the loop.

Under these, `InterruptEndsRun`, `FileReadEnds` and `InterruptedStillSummarises`
hold; without the timeout (mutant `ReadTimeout_Never`) a quiet interface defeats
the first and the last.

## 5. Proofs

All theorems hold for every value of the constants under the named assumptions
(`CounterMaxAssumption`, `MicrosAssumption`, `FlowTableAssumption`,
`PumpAssumption`, `SessionAssumption`, `DecoderAssumption`,
`InterfacesAssumption`, `StartupAssumption`), which only say that
the constants have the types the code gives them. TLC evaluates each of them.

**MeasureProofs.** The lemmas the others rest on: the order and the differences of
timestamps, saturation, and sums. The library's induction theorems take an operator,
which the provers cannot instantiate, so induction over a finite set is proved here
once with a *set* for the property (`FiniteInduction`, `SubsetInduction`); the sums
and folds of the community modules then unfold one element at a time, in any order
(`SumGrows`, `SumOneMore`, `SumOfParts`).

**FlowTableProofs.** `TypeCorrect`; then `DecisionsStand` (outcomes stay true of
the table), which is inductive with the type invariant because `record` looks a
key up before it consults the limit; `ConversationsAreWhole` follows from it
without induction: two packets of one key with different outcomes would make the
key both listed and absent. `NothingGoesMissing` needs that filing one more
packet adds one to exactly one set (`FiledStep`, `LeftOutStep`) and that
saturation commutes with adding one (`SaturateStep`). `DurationsExist` rests on
every flow's range being in order, and on the order of timestamps agreeing with
the order of points in time (`OrderAgreesWithMicros`). `KeyIsOfTheConversation`
says that the canonical key identifies a conversation and nothing more: two keys
are equal exactly when protocol and endpoints are, up to swapping the ends. It
needs no state, only that the order of endpoints is total (`EndpointOrder`).
`OrderWithinAFlowIsIrrelevant` is inductive with `OutcomesStillHold`: what a flow
holds is a sum, a union, a minimum or a maximum over the packets filed under it,
and filing one more joins it to each of them (`SummaryJoin`). `LimitKeepsTheFirst`
needs `ListedUpToLimit`: before it is full the table lists every conversation met, so
it is full exactly when `MaxFlows` of them were met before. `OutputIsReproducible`
is about the order alone: it is total on flows with distinct keys
(`ListingOrder`), and a finite set has one arrangement in such an order
(`OneListing`). The last sections count what a table holds after one more packet
(`RecordCountsOnce`) and unfold `Replay` (`ReplayOneMore`), for the modules below.

**FlowReportProofs.** `MirrorImageIsMirrored`: recording the swapped packet in the
mirrored table gives the mirrored result (`MirrorRecord`). `OrderIsIrrelevant` rests
on two records commuting as long as no conversation is refused (`RecordCommutes`),
which moves the first packet of a replay to its end (`FirstMightBeLast`) and so
turns it round (`BackwardsIsForwards`). To be rid of the limit, both replays are
confined to the set of keys that the run ended up with, which fits the table.
`ReportIsAnAccount` divides the packets offered into those filed under each flow and
those left out for each reason, and compares the report's totals with the sums of the
parts, up to saturation.

**PumpProofs.** `TypeCorrect`; `InterruptsAreReported` and `ReasonsAreTrue` need
the strengthening `CauseInv`: whenever the break flag is set, or the handler has
only that call left, or a live loop is at "no more packets", the stop flag is
already set (`BreakFollowsFlag`). `StopsAtTheNextPacket` needs `LateInv`: after a
late packet the loop is at its check. `SavedMatchesSummary` and `NumbersHaveNoGaps`
follow the one action that touches the books. `PumpKeepsThePromise` is the
refinement of `Run`: each step of the loop, of the handler and of the world maps
to a step of `Run` or a stutter, given the invariants above. `LimitHolds` needs
`LimitInv`: an unfinished run is below its limit. `SummaryIsTrue` says of the summary
what the others say of the books: the bytes are the sums over the packets taken
(`BytesInv`), the span holds the first and the last of their stamps (`SpanInv`),
and an interruption was asked for (`AskedInv`).

**SessionProofs.** `SessionIsAPump`: every step of a session is a step of `Pump`
or leaves its state alone, so each theorem of `PumpProofs` holds of sessions.
`SuccessMeansSuccess`, `FailureKeepsThePackets` and `DamageFailsTheCommand`
follow from one inductive invariant, `StoryInv`: what has been printed, saved
and decided by the time the session is at each statement; it uses the pump's
theorems for the reason of stopping and for the contents of the sink.
`SeenFilesAreKept` is an action property over `SeenInv`.
`SessionImplementsItsParts` adds the refinement of `FlowTable`: the table is the replay
of the packets taken, and no more of them come than the model has room for
(`ReplayInv`). The theorems about flow tables are brought in as
`Facts == INSTANCE FlowTableProofs WITH log <- RecordedLog`; the `Same...` lemmas say that
its definitions are the session's own. `SessionsFlowsAreTrue` carries four of the
theorems over. `ReportsAgree` needs `TableInv` (flows and left-out packets add up to the
packets taken), `SessionTypeCorrect` the three invariants and `FrameInv`.

**DecoderProofs.** `ReadersInv` consists of `Progress`, which says for each reader
which layers it has at its stage, and `Behind`, which says that the cut reader is
exactly where the whole one is, or has stopped as truncated with layers the whole
one has too. One lemma per header shows that a shorter capture changes nothing or
stops as truncated (`CutShort...`), one that decoding advances within its bytes.

`LinesAreHonest` follows from the same invariant: the layers that are there decide
which of the summary's arms prints the line. `LineShows` is the part about the
layers that decoded (the ends, the ports, the name of the transport protocol),
`LineNames` the part about those that did not, `CutShows` the part about a packet
that was cut.

**StartupProofs.** Two inductive invariants. `IInv` keeps with the types the
agenda (`todo` is what is left of one of three lists, `CaptureInOrder`), the
listing (numbered by place, no name twice: `ListedIsAListing`) and `Stage`: no
call still to be made has had its effect. `TheRightOneIsOpened` also needs that
`resolve_interface` returns only what the selector selects and refuses only what
selects nothing (`ResolvesRightly`), and that a chosen interface is opened by
name. `NothingIsTouched` and `ListingsCanBeTyped` follow from it; the latter
rests on `MasksReadBack`, which needs no state: a mask is printed as a prefix
length exactly when it is that many ones, for every width. `DInv` adds `Looked`,
what the calls made so far have shown of the path, and gives `DiagnosesAreTrue`
and `AdviceFits`.

**StartingProofs.** `StartingStartsASession`, the refinement of `Session`'s
opening. `PhaseSeen`, `ExitSeen` and `FileSeen` are what the mapping shows of a
state. One lemma per statement of `Session` says what must be seen for it to be
taken (`ValidateSeen` to `SomeoneCreatesSeen`), one per call of `Startup` that this
is seen, or nothing is (`SettingsSeen` to `ChangeSeen`). Besides `IInv` it needs
`Planned`: the output file is prepared exactly by the captures that save, so that
what follows a call is known (`NextCall`).

`DecisionsStand`, `DurationsExist`, `ReasonsAreTrue` and `StopsAreNamedRight` are
proved but not checked by a run of their own: `ReportAddsUp`, `KeepsThePromise` and
`LinesNeverMislead` check what a user sees of them.

Every invariant, action property and refinement that a run checks is thereby
proved. Only model-checked: the three liveness properties (`InterruptEndsRun`,
`FileReadEnds`, `InterruptedStillSummarises`), which need fairness and with it
`ENABLED`, out of the prover's reach. No module uses a `RECURSIVE` operator.

## 6. Not modelled

* Wording, alignment, units and the quoting of names, addresses, ports and flags
  in `render/*`, and the calendar behind a date: no property is about them.
* Argument parsing, generated by clap from `cli.rs`: only which arguments there
  may be together (`requires`) is modelled, in `CaptureArgs` and `FlowArgs`.
* File modes: that the output file is created for its owner only.
* What libpcap does with a packet it cannot write: `CaptureWriter::record` gets
  no answer, so nothing in this code depends on it. Only `flush` may fail.
* A transport header is decoded from the captured bytes even where IP's own
  length ends before them; the decoder never compares the two, so the model has
  no such length beyond the check decode_ipv4 makes.

## 7. Plan

Done in this order, the most important first: `Pump`, `FlowTable`, `Decoder`,
`Session`, with their theorems; then `Startup` over `Interfaces` and `Errors`,
`Run`, and the reports, with theirs; then the theorems about sums, replays, the
listing and the limit, and `Session` against the specification of each of its parts.
Left:

1. An end-to-end composition in which the shapes the table meets are the decoder's
   answers.
2. `Session` behind `Startup`: that a started session is a session from its first
   statement, with one invariant for both.
