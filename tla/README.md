# TLA+ models of kddv (EtherCAT data viewer)

kddv shows, and optionally publishes over ZMQ, the cyclic process data of the
devices on a KELO/ROBILE EtherCAT bus. The data comes from one of two
*data sources* behind one interface (`EthercatDataSource`):

* **active** (`EthercatMaster`): the process is the bus master (SOEM);
* **passive** (`PacketSniffer`): the process captures EtherCAT frames from an
  interface or a pcap file (libtins), and slices them with an offset table.

This directory holds TLA+ modules for the concurrent and protocol parts of
that code, the TLC configurations that check them, and `PROJECT.json`, which
maps every definition to the source lines it models and lists runs,
mutants, findings and hazards.

## 1. Inventory

| Component | Source | State | Operations | Interacts with |
|---|---|---|---|---|
| Slave registry | `ethercat_data_source.cpp` `getSlaveType`, `ethercat_slave.h` | none (a name → type table) | classify a device name | both data sources at discovery |
| Slave models | `kelo_drive_slave.cpp`, `robile_battery_slave.cpp`, `kelo_bms_slave.cpp` | `rx`, `tx` packed structs (left uninitialised by the constructors) | `copyData` (memcpy from raw regions), value lists, `parseBits`/`areBitsParsable` | written by a data source thread, read by UI callbacks and `convertToJson` |
| Data source base | `ethercat_data_source.cpp/.h` | `slaves`, callback pointer, `zmq_publish_enabled` | `setDataCallback`, `setZMQPublish`, `convertToJson` | UI, ZMQ publisher |
| Active data source | `ethercat_master.cpp` | global SOEM port and IOmap, `ethercat_running`, `data_mutex`, two threads | `getSlaves`, `start`, `stop`, `ethercatLoop`, `copyData`, `dataCopyLoop` | SOEM (environment), UI callback, ZMQ |
| Passive data source | `packet_sniffer.cpp` | sniffer handle, config (offset table), capture thread | `setConfigFile`/`loadConfig`, `getSlaves`, `start`, `stop`, `packetCallback` | libtins/libpcap (environment), UI callback, ZMQ |
| TUI | `tui.cpp`, `tui_main.cpp` | `selected_slave`, windows, the settings from the command line | `main` (argument loop and checks), `start` (discover, start, key loop, stop), `dataCallback` (renders inside the callback) | a data source |
| GUI | `gui.cpp`, `ui.h` | radio buttons, inputs, button states, `ecat_data_source`, `wheel_group_boxes` | input and file handlers, the launcher setters and `GUI::start`, discover/start/stop buttons, `dataCallback` (emits a queued signal), `handleDataChanged` (renders and sets tooltips on the GUI thread) | a data source |
| ZMQ publisher | `zmq_publisher.cpp` | a PUB socket | `publishMsg` (non-blocking send) | called by data sources |
| Config generator | `generate_config_file.cpp` | — | offline pass over a live bus | writes the offset table the sniffer reads |

**Threads.** Active: the UI thread (control), `ethercatLoop` (5 ms exchange,
`try_lock` then copy) and `dataCopyLoop` (50 ms, `lock_guard`, callback,
publish). Passive: the UI thread and the capture thread running
`packetCallback` per frame. With the GUI, a third party reads the slaves: the
Qt main thread, in `handleDataChanged`, after the lock has been released.

**What is hard.** The only shared mutable state is the slave objects (and
the SOEM port). Correctness rests on (1) the lock discipline between the
exchange thread and the callback thread, (2) the shutdown order of two
threads that both close the port, (3) the failure paths of discovery and
activation (which leave the port open or report no error), (4) which
captured frames are allowed to reach the slaves, and the offsets used to
slice them, and (5) the UI threads that read the slaves outside the lock.
`PROJECT.json` "hazards" lists each, at its line.

**What makes each component correct.**
* Active source: a callback or a published document never mixes two
  exchange cycles; nothing is delivered after `stop()` returns; `stop()`
  returns; `start()` without an error means data flows; the port is open
  whenever it is used; no slave is read before it was first written.
* Passive source: only returned LRW frames reach the slaves; every slice lies
  inside the captured datagram; unknown config entries are skipped, not
  dereferenced; a missing config is an error; the published timestamp is the
  capture time.
* Registry: a name maps to a type by exact match; unknown names give the
  sentinel.
* Slave models: `parseBits` extracts exactly the documented bits; the mode
  field decodes to one-of-four or all zero; each class's variable, unit
  and value lists and its `convertToJson` name the same fields in the same
  order.
* TUI: the selected index is in range when used; a data source is never used
  while null; quitting ends the program.
* GUI: start is enabled only with a discovered source; the buttons follow
  what the source does; a queued signal never carries more slaves than
  there are group boxes; the source publishes exactly when the box is
  checked; Stop gives the window back; every value label shows the field
  that the published JSON gives under the label's variable name, with that
  field's unit when "Show Units" is checked.
* Every data source, as the UIs drive it: callbacks only between `start()`
  and the return of `stop()`, one at a time, and `stop()` returns
  (`DataSource`).

## 2. Plan

Modules, in the order they are (to be) written; the first are the core.

1. `SlaveRegistry` — `getSlaveType` and the discovery filter. *(done)*
2. `EthercatMaster` + `MC_EthercatMaster` — the active data source with both
   UIs' way of reading. *(done)*
3. `PacketSniffer` + `MC_PacketSniffer`, with `ConfigGenerator` — the
   passive source: config, discovery, `packetCallback` over an environment of
   captured frames (sent/returned, LRW/other, datagram length, the cycle of
   the inputs carried), stop and join, pcap end of file; the config file is
   the one the generator writes for a bus. *(done)*
4. `DataSource` — the abstract contract of `EthercatDataSource` as the UIs
   use it: inert/ready/acquiring/ending, at most one callback at a time,
   none outside acquisition, `stop()` returns. `EthercatMaster`
   and `PacketSniffer` are shown to implement it with
   `INSTANCE DataSource WITH ...`, checked as the PROPERTY
   `ImplementsDataSource`. *(done)*
5. `SlaveBits` — `parseBits` of the drive and battery as pure operators,
   checked against a reference bit extraction, and the GUI tooltip that uses
   them. *(done)*
6. `Tui` — `TUI::start` (create, discover, start, key loop, stop) and
   `dataCallback` racing on `selected_slave`. *(done)*
7. The port-leak property in `EthercatMaster`: between two runs (the UI
   thread back at idle or discovered, both threads done) the port is
   closed, so the next `ec_init` does not open a second socket. *(done)*
8. `TuiArgs` — `tui_main`'s argument loop (a `RECURSIVE` operator over
   `argv`) and the checks after it, feeding `Tui`'s initial state. *(done)*
9. `Gui` — the handlers of `gui.cpp` against `DataSource`, with the
   tooltip of `SlaveBits`. *(done)*
10. `SlaveFields` — the three classes' variable, unit and value lists and
    `convertToJson`, and `handleDataChanged`'s walk over a group box's
    labels; `Gui` sets each label from it. *(done)*

## 3. Modules and runs

### SlaveRegistry
`getSlaveType` as a `CASE` over the names in the source; `UNKNOWN_SLAVE` is
255 because the function returns -1 through a `uint8_t`.
`KnownPositions(devices, accepted)` is the discovery filter.

### EthercatMaster (`MC_EthercatMaster`)
State: the SOEM `port`, `slaves` (bus positions), `running`
(`ethercat_running`), `cycle` (version of the image in the IOmap), `decoded`
(version each slave object holds; 0 = never written, i.e. uninitialised),
`lock` (`data_mutex` owner), the two threads' program counters (`ecPc`,
`copyIdx`, `dcPc`), the UI thread (`ctl`), the consumer's `view`, the last
`published` document, and for the GUI the queued signals (`pending`) and
`guiIdx` of `handleDataChanged`'s loop. `uiKind` ("tui" or "gui", from the
constant set `UIKinds`) is fixed at the start of a behaviour, so one run
covers the source driven by either UI.

Actions: `getSlaves`, `start`, `stop`, `StopJoin` (UI thread);
`EcCheckRunning`, `EcExchange`, `EcTryLock`, `EcCopySlave` (one iteration of
the copy loop), `EcClose` (ethercatLoop); `DcCheckRunning`, `DcLock`,
`DcNotify` (callback + publish under the lock, release), `DcClose`
(dataCopyLoop); `GuiBeginHandle`, `GuiReadSlave` (GUI thread). SOEM's
outcomes (socket opened or not, slaves found, SAFE_OP/OPERATIONAL reached)
are disjuncts of `getSlaves` and `start`.

Data is versions: an exchange makes a new version; copyData copies the
current version into one slave per step, so a reader between two steps can
see two versions. `cycle` saturates at `MaxCycles`, `pending` at
`MaxPending` (more queued signals only repeat the same read).

Bounds (`MC_EthercatMaster`): a bus of three devices, `KELOD105`, `EK1100`
(not a known type, so discovery skips it) and `KELO_ROBILE`: two slaves is
the least that can be torn, and the skipped device exercises the filter.
`MaxCycles = 3` gives two exchanges after the activation exchange, enough
for a copy of version 3 to meet slaves of version 2; `MaxPending = 2`.
Discovery, start and stop can repeat without bound (the state space is
finite): the GUI allows start after stop and rediscovery.

Fairness: weak fairness on every step of both acquisition threads, on the
join and on the GUI thread's handling of queued signals, because the OS
schedules these threads and none of them waits for the user. The control
operations (discover, start, stop) have no fairness: the user may never
press a button again.

| Run | cfg | Expect | Properties | Shows |
|---|---|---|---|---|
| master | `EthercatMaster.cfg` | pass | TypeOK, TuiViewConsistent, PublishedConsistent, ImplementsDataSource, NoNotifyAfterStop, StopTerminates | with either UI, the lock discipline keeps every snapshot the TUI renders and every published document to one cycle; no callback after `stop()`; `stop()` returns; the source implements `DataSource` |
| master_gui_torn | `EthercatMaster_gui_torn.cfg` | violation | ViewConsistent | the GUI's later, unlocked read mixes two cycles |
| master_port | `EthercatMaster_port.cfg` | violation | PortOpenWhenUsed | both loops close the port; an exchange can follow the other thread's close |
| master_start | `EthercatMaster_start.cfg` | violation | StartedMeansAcquiring | start() reports success when OPERATIONAL was never reached |
| master_uninit | `EthercatMaster_uninit.cfg` | violation | NoUninitialisedRead | the first callback can precede the first copy |
| master_leak | `EthercatMaster_leak.cfg` | violation | PortClosedBetweenRuns | `getSlaves` returns on its SAFE_OP and no-slaves errors with the port open; the GUI's next discovery calls `ec_init` on it |

### ConfigGenerator
`get_info` of `generate_config_file.cpp` as operators: `GenNames` (the names
it writes), `RxOffset`/`TxOffset` (what `si_PDOassign`/`si_map_sdo` report
under SOEM's I/O map layout: all outputs in bus order, then all inputs) and
`GeneratedConfig(bus)`, the `"Slaves"` array. `PdoRx`/`PdoTx` are the
devices' mapped sizes.

### PacketSniffer (`MC_PacketSniffer`)
State: `slaves` (type and the two offsets per config entry), `isPcap` (the
GUI's choice of a file or a live interface, made at each discovery), the GUI's `ctl`
(`idle` = no data source, `discovered`, `running`, `stopping`, `crashed`),
the capture thread's `capPc`, the pcap file position `frameIdx`, the frame
`cur` handed to `packetCallback`, pcap's break flag `stopFlag`, and `read`,
the frame the slave objects were last copied from. A frame is a record of
its Ethernet source (sent by the master or returned), the command of its
first datagram, the datagram length, and the bus cycle whose inputs it
carries; bytes are not modelled.

Actions: `Discover` (`GUI::handleDiscoverButton` for the sniffer and pcap
sources: constructor, `setConfigFile`, `getSlaves`, with the outcomes
"capture or config cannot be opened", "empty config", "unknown name: null
dereference" and success), `Start`, `StopRequest` (`stop_sniff`), `StopJoin`;
the capture thread's `CapBreak`, `CapEndOfFile`, `CapReceive` (libtins'
`sniff_loop`) and `packetCallback`.

Bounds: the bus of `MC_EthercatMaster` (drive, coupler, battery); the
capture a running master puts on the wire, per cycle the LRW frame as sent,
as returned, and a 2-byte BRD, for six cycles. A file source replays them in
order, so that a stop, a restart and the end of the file fall between any
two frames; a live source receives any of them in any order. Each discovery
chooses between the two, so one run covers both and switching between them.
The user may select the generated config or an empty one.

Fairness: weak fairness on the capture thread and on the join. On a live
interface the next frame arrives only while a master drives the bus; the
model assumes one does (the sniffer is used to watch a running robot).
Whether `stop_sniff` wakes a read blocked on a silent interface depends on
libpcap and is not assumed (see the hazards).

| Run | cfg | Expect | Properties | Shows |
|---|---|---|---|---|
| sniffer | `PacketSniffer.cfg` | pass | TypeOK, SlicesInBounds, DeliveredInputsAdvance, NoCallbackAfterStop, StopTerminates, ImplementsDataSource | for files and live captures of the configured bus: slices stay in the datagram; replaying a file, the slaves only move to newer bus inputs (the source filter drops the master's own frames, which carry last cycle's inputs); no callback after `stop()`; `stop()` returns; the source implements `DataSource` |
| sniffer_bms | `PacketSniffer_bms.cfg` | violation | NoNullSlaveDereference | the generated config of a bus with a KeloEcPd board crashes discovery |
| sniffer_bounds | `PacketSniffer_bounds.cfg` | violation | SlicesInBounds | a config kept after the bus changed is sliced past the datagram's end |

### SlaveBits (`MC_SlaveBits`)
`KeloDriveSlave`, `RobileBatterySlave` and `KeloBMSSlave`'s
`areBitsParsable`/`parseBits` as operators over an integer word (`Flags`
is `(data & mask) >> shift` with the community `Bitwise` module;
`DriveModeVals` the one-hot decoding of the two-bit mode field), and the one
state change that uses them: `SetTooltipOf(ws)`, the branch of
`GUI::handleDataChanged` that sets a label's tooltip from `vars`/`vals` for
a label showing a word of `ws`. State: the type, variable and word last
shown, and the two vectors. `Gui` extends this module: its
`HandleDataChanged` sets the tooltip.

The drive's masks come from `KeloDriveAPI.h`, which is not in the
repository: they are the constant `DriveMask`, given in `MC_SlaveBits` the
values spec §"KELO drive" documents (mode field at bits 2–3). `MCWords`:
every single-bit word, every word with one bit cleared, 0, 0xFFFF and the
mode values: each flag is seen set and clear against every other, and every
mode. (All 2^16 words are out of reach of `Bitwise`, which evaluates bit by
bit.)

`Decodes` is a reference written independently of the code: each
documented flag once, its value the bit at the documented position by
arithmetic, exactly one mode set. `ParseBitsDecodes` applies it to every
parsable label and every word of `Words`; the `gui` run checks it (as
`EveryTooltipDecodes`) while the window shows boxes, and `GuiTypeOK`
includes the tooltip's type (values 0 or 1). The mask `0x3 << 2` selects
bits 2–3, counted from 0, which the source comment calls "bits 3 and 4".

### SlaveFields
The static part of the three slave classes, written out from the source:
`rx_variables`, `rx_units`, `tx_variables`, `tx_units`, `getRxValues`,
`getTxValues` (a value is the struct member it is read from, by its name
in the code) and `convertToJson` (a sequence of key/member assignments;
`JsonObject` keeps the last assignment of a key, as `json[key] = v` does).
`SlaveJson` is what `EthercatDataSource::convertToJson` publishes per slave
type. The GUI side: `BoxChildren(t)` is the child list
`handleDiscoverButton` gives a group box (the layout, then for each variable
an unnamed name label and a value label named `RX<var>`/`TX<var>`);
`LabelWalk` is the loop of `handleDataChanged` over those children, with its
`rx_id`/`tx_id` counters (`Ids`), the skip of unnamed children and
`LabelText` (value, and unit when "Show Units" is checked); `Refreshed`
tabulates it per type and checkbox state. `Published`/`Displayed` are the
reference: for each label name, the member `SlaveJson` gives under the
variable and that variable's unit at its first position. An `ASSUME` checks
the walk of a `KeloBMSSlave` box, which no data source creates (neither
registry maps a name to it); the `gui` run checks the other two through
`LabelsShowPublished`.

### Tui (`MC_Tui`) and TuiArgs
`TuiArgs` is `tui_main`'s `main` up to `TUI::start`: `ParseFrom(argv, i,
opts)` is the `for` loop over the arguments, recursive on the index: a value
option takes the next argument, whatever it is, into its field (`--src` only
one of ecat, sniffer, pcap), `--start` and `--publish_zmq` set flags, a
missing value or any other argument is an error (the usage, exit 1).
`Validated` is the checks after the loop: a source, an interface for ecat
and sniffer, a config file for sniffer and pcap, a pcap file for pcap.
`Tui`'s `Init` takes the command line from the constant `Argvs`:
`MC_Tui` gives every sequence of up to three options from a small set (the
four `--src` values, one of each other option, `--start`, `--help`) and two
truncated lines, so each rejection and each accepted source occurs.

`TUI::start` and `tui_main`'s source construction, one action per step of
the UI thread: `CreateSource` (ecat, sniffer or pcap; open and config
failures), `Discover` (`getSlaves`; an error ends in the error screen),
`StartSource`, the keys (`KeyLeft`, `KeyRight`, `KeyQuit`), `StopReturn`,
`ErrorQuit`; and `TUI::dataCallback` on the source's thread, split at every
read of `selected_slave` (`CbEnter`, `CbClampLow`, `CbClampHigh`,
`CbReadVars`, `CbReadVals`) so that a key press between them is an
interleaving, as the unsynchronised `int` is in the code. State: the
source (`null`, created, running, silent when the master never reached
OPERATIONAL, stopping, stopped), `n` (slaves), `selected_slave`, the
callback's pc and the index it used for the variable names (`varsIdx`).

Bounds: 0–2 slaves, the three source kinds, and `KeyBound = 1` key presses
past either end (the clamp is only needed at the ends). Fairness: weak on
the UI thread's own steps and on the callback's; none on the keys, the user
may never press one, and none on `CbEnter`: a silent master never calls back.

| Run | cfg | Expect | Properties | Shows |
|---|---|---|---|---|
| tui | `Tui.cfg` | pass | NoNullSourceUse, SelectionClampedForDraw, QuitReturns | no error path uses the null source; the clamped index is in range when no key intervenes; `q` ends the program |
| tui_race | `Tui_race.cfg` | violation | IndexedSlaveExists | a key press between the clamp and the read of `getTxValues` indexes past the slave list |

`tui_race` gives the list two slaves so that its counterexample is the
race. The empty list (`tui.cpp:85-87`) is not run: for `n = 0` the clamp
sets `selected_slave = size - 1`, which is -1 (`LastIndex(0)`), and
`IndexedSlaveExists` would fail at the first callback without any key, a
shorter trace that would hide the race. `SelectionClampedForDraw`
excludes `n = 0` for the same reason.

The TUI's source is a stand-in whose callback and `stop()` steps are
written to the contract, so `Tui` is not mapped to `DataSource`: that
would hold by construction. The sources themselves are checked against
it (`EthercatMaster`, `PacketSniffer`).

### Gui (`MC_Gui`)
The GUI thread's handlers, each an action that runs to completion:
`SelectInput` (a radio button, or `selectSource`; `handleInputButtonChanged`
gives `ComboEnabled`, `ConfigButtonEnabled`, `PcapButtonEnabled`),
`ChooseInterface`, `SelectConfigFile` (a cancelled dialog gives ""),
`SelectPCAPFile`, `ToggleZMQ`; the launcher's setters of `ui.h`
(`SelectNetworkInterface`, `SetConfigFile`, `SetPCAPFile`, `EnableZMQ`,
which ignore whether the widget is enabled) and `GuiStart` (`GUI::start`:
discover, then start if enabled); `DiscoverClick` (`Constructed` is what
the checks and constructors can yield, `Discovered` the ZMQ flag and the
`getSlaves` error or success); `StartClick`; `StopClick` and, while
`stop()` is in its join, `StopReturned`. The source's thread runs
`CallbackEnter` and `CallbackEmit` (`dataCallback` posts a copy of its
slave vector, kept as its size), and `HandleDataChanged` takes the queued
signals in order, sets every label of the first boxes from the slave
type's walk (`labelText`, from `SlaveFields`) and a tooltip;
`ToggleShowUnits` is the "Show Units" checkbox (`showUnits`), read at the
next refresh. `boxKinds` is the slave type of each group box
(`CreatedTypes`: the types a registry can yield). The source is `DataSource` (`DS`), so
the GUI is checked against every source that implements the contract.

Qt delivers posted events before the next input event: a click finds the
signal queue empty (`Idle`). Message boxes are left out. `GUI::start` is
assumed to be called while discover is enabled, as a launcher does before
the event loop; its caller is not in the repository.

Bounds: one interface and one file (the handlers only ask whether a name is
empty or the placeholder), slave lists of 0 and 1 of a drive or a battery
(a rediscovery can replace a box's type, or shrink the list to none), `MaxQueued = 2`, and the word 12 shown on labels (every
word of `MCWords` is checked by `EveryTooltipDecodes`). Fairness: weak on
the callback's return and strong on `StopReturned`, which the sources give
(`DataSource`); none on the user or the launcher.

| Run | cfg | Expect | Properties | Shows |
|---|---|---|---|---|
| gui | `Gui.cfg` | pass | GuiTypeOK, StartNeedsSource, ControlsMatchPhase, SignalsFitBoxes, PublishFollowsCheckbox, EveryTooltipDecodes, LabelsShowPublished, StopReturnsControl | no early return of discovery leaves start enabled; "Stop" and a disabled discover exactly while the source acquires; a queued signal never has more slaves than boxes (discover is disabled until `stop()` has joined); the ZMQ flag follows the box whenever it was toggled; tooltips decode their word; each label shows the member published under its name, with its unit; Stop gives the window back |

### DataSource (refinement)
The abstract contract (`phase`, `inCallback`) with `Discover`, `Begin`,
`CallbackBegin`/`CallbackEnd`, `EndRequest`/`EndReturn` and `EndNow` (a
stop with no thread to join). Weak fairness on `CallbackEnd`, strong on
`EndReturn`: while stopping, the source may keep starting callbacks, and
`stop()` must still return. The two refinement mappings: in
`EthercatMaster`, `ctl` gives the phase and `dcPc = "notify"` the callback;
in `PacketSniffer`, `ctl` and the capture thread inside an accepted
`packetCallback`. `Gui` instantiates `DataSource` itself as its source.

## 4. Findings

See `PROJECT.json` "findings". In short: the GUI renders slaves outside
the lock (torn reads, spec §5/§8); the SOEM port is closed by both threads;
a failed activation is reported as success; fresh slave objects are read
before they are written. Passive source: the configuration generator
writes entries (`KeloEcPd`) that the sniffer's discovery dereferences as a
null slave; `packetCallback` slices at config offsets with no bounds check.
TUI: `selected_slave` is written by the key loop while the callback
thread clamps and then uses it, so the index used can be out of range. Read from
the clamp's arithmetic, not a run: with an empty slave list the clamp
itself yields -1 (`tui.cpp:87`), indexed on the first callback. The active source's
`getSlaves` leaves the port open on its error returns, and the GUI's next
discovery opens it again. Not a model run, but noted while modelling: the capture timestamp computed
in `packetCallback` is unused, so a replayed pcap file is published with the
wall-clock time of the replay rather than the capture time (spec §6).
Also noted: `tui_main`'s usage text offers `--enable_zmq`
(`tui_main.cpp:28`) but the parser accepts only `--publish_zmq` (line 126),
so the documented option is rejected; `getSlaveType` never returns
`KELO_BMS_SLAVE` and `EthercatMaster` keeps only drives and batteries, so
`KeloBMSSlave` is never made; a cancelled PCAP dialog empties
`pcap_file_name` but returns before updating the label, which keeps
showing the old name while discovery reports "PCAP file not specified".

## 5. Not modelled

* Byte layouts, `to_string` rendering and JSON text: a model value per
  version stands for the bytes; properties are about which version is seen.
* SOEM internals and the physical exchange: nondeterministic outcomes.
* The widgets and drawing of the GUI/TUI (labels, layout,
  `handleWheelListChanged` and `fixSize`, which only hide boxes and resize
  the window), the `to_string` text of the values and the `stoul` of a
  label's text back to a 16-bit word (`gui.cpp:424`), the ZMQ
  socket, the usage text and the ZMQ port string.
* The order Qt gives posted events and input events: the model takes
  posted events first. If a click on Discover queued while the GUI thread
  is blocked in `stop()` were handled before a signal posted during the
  join, `handleDataChanged` would index `wheel_group_boxes` past a shorter
  new list (hazard at `gui.cpp:387`).
* The GUI's launcher (its `main`) is not in the repository: `GUI::start`
  while acquiring, and destroying the GUI (and a running `PacketSniffer`,
  whose destructor joins without `stop_sniff`) when the window closes, are
  listed as hazards, not modelled.
* The unlocked `bool zmq_publish_enabled`, written by the GUI thread and
  read by the source's thread: each write is taken as atomic.
* `KeloDriveAPI.h` and the battery's header are not in the repository: the
  drive's masks are a constant, the battery's are written in the source.
* The configuration generator's SDO reads: `ConfigGenerator` computes the
  offsets they report on a well-behaved bus; the failing read that leaves
  them uninitialised is listed as a hazard.
* A config file that is not valid JSON (jsoncpp throws out of `loadConfig`).
* The passive source with the GUI's queued, unlocked read: it is the same
  torn read as `master_gui_torn`, worse because the sniffer takes no lock.
