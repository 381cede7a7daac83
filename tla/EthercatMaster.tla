--------------------------- MODULE EthercatMaster ---------------------------
(***************************************************************************)
(* The active data source, class EthercatMaster (src/ethercat_master.cpp): *)
(* the process is the EtherCAT master.  getSlaves() discovers the bus,     *)
(* start() brings it to OPERATIONAL and spawns two threads:                *)
(*   ethercatLoop  exchanges the process image every 5 ms and, only if it  *)
(*                 gets data_mutex with try_lock, copies every slave's     *)
(*                 bytes out of the IOmap (copyData);                      *)
(*   dataCopyLoop  every 50 ms locks data_mutex and, under the lock, calls *)
(*                 the UI callback and publishes the JSON snapshot.        *)
(* stop() clears ethercat_running and joins both threads.  Both loops call *)
(* ec_close() on the single global SOEM port when they leave.              *)
(*                                                                         *)
(* Data is abstracted to versions: every exchange puts a new version of    *)
(* the process image in the IOmap (`cycle`); decoded[p] is the version the *)
(* slave object at bus position p last copied, 0 for a fresh object whose  *)
(* rx/tx structs copyData has not yet written (they are left               *)
(* uninitialised by the constructors).                                     *)
(*                                                                         *)
(* The caller is the UI thread.  A "tui" reads the slaves inside the      *)
(* callback (TUI::dataCallback); "gui" only queues a Qt signal carrying    *)
(* the vector of slave pointers, and GUI::handleDataChanged reads the      *)
(* slaves later on the GUI thread, one slave at a time, without the lock.  *)
(***************************************************************************)
EXTENDS Naturals, Sequences, SlaveRegistry

CONSTANTS
  Topology,    (* device names on the bus, in ring order (ec_slave[1..])   *)
  UIKinds,     (* the UIs that may drive the source, of "tui" and "gui"   *)
  MaxCycles,   (* versions of the process image before `cycle` saturates  *)
  MaxPending   (* queued GUI signals counted before the count saturates   *)

ASSUME /\ Topology \in Seq(STRING)
       /\ UIKinds \subseteq {"tui", "gui"}
       /\ MaxCycles \in Nat \ {0}
       /\ MaxPending \in Nat \ {0}

Positions == DOMAIN Topology
Versions  == 0 .. MaxCycles
NoOwner   == "none"

VARIABLES
  port,       (* the global SOEM port: "open" after ec_init, "closed"      *)
  slaves,     (* EthercatDataSource::slaves: bus positions, in order       *)
  running,    (* ethercat_running                                          *)
  cycle,      (* version of the process image currently in the IOmap       *)
  decoded,    (* decoded[p]: version held by the slave object at p         *)
  lock,       (* data_mutex owner: NoOwner, "ecat" or "dc"                 *)
  ecPc,       (* ethercatLoop program counter                              *)
  copyIdx,    (* index into slaves of copyData's for loop                  *)
  dcPc,       (* dataCopyLoop program counter                              *)
  ctl,        (* the UI thread: "idle", "discovered", "running" or         *)
              (* "stopping" (inside stop(), joining)                       *)
  view,       (* view[p]: version the consumer last read for slave p       *)
  published,  (* published[p]: version in the last JSON snapshot           *)
  pending,    (* queued dataChanged signals not yet handled (gui)          *)
  guiIdx,     (* 0, or the index into slaves handleDataChanged reads next  *)
  uiKind      (* the UI the process runs: "tui" or "gui" (how the data     *)
              (* callback reads the slaves); fixed for a run of the program *)

vars == <<port, slaves, running, cycle, decoded, lock, ecPc, copyIdx, dcPc,
          ctl, view, published, pending, guiIdx, uiKind>>
threadVars == <<ecPc, copyIdx, dcPc>>

(* The slaves a discovery pass creates: devices of the two types the      *)
(* master instantiates, anything else is skipped.                         *)
DiscoveredSlaves ==
  KnownPositions(Topology, {KELO_DRIVE_SLAVE, ROBILE_BATTERY_SLAVE})

Next1(v) == IF v < MaxCycles THEN v + 1 ELSE v

Init ==
  /\ port = "closed"
  /\ slaves = <<>>
  /\ running = FALSE
  /\ cycle = 0
  /\ decoded = [p \in Positions |-> 0]
  /\ lock = NoOwner
  /\ ecPc = "done"
  /\ copyIdx = 1
  /\ dcPc = "done"
  /\ ctl = "idle"
  /\ view = [p \in Positions |-> 0]
  /\ published = [p \in Positions |-> 0]
  /\ pending = 0
  /\ guiIdx = 0
  /\ uiKind \in UIKinds

(* The GUI thread runs the button handlers and handleDataChanged, so a    *)
(* control operation cannot start while a signal is being handled.        *)
UIThreadFree == uiKind = "gui" => guiIdx = 0

(* Signals queued before a discovery click are handled before it.         *)
NoQueuedSignals == uiKind = "gui" => pending = 0

-----------------------------------------------------------------------------
(* Control operations, run by the UI thread.                              *)

(* getSlaves(): a new data source object (GUI::handleDiscoverButton makes *)
(* one per discovery) clears `slaves`, then ec_init, ec_config and the    *)
(* SAFE_OP check.  Only the success path reaches ec_close(); the two      *)
(* error paths after a successful ec_init return with the port open.  On  *)
(* an error the UI drops the data source, so nothing can be started.      *)
(* Mutant: the discovery keeps the copy loop's index of the last run.    *)
getSlavesKeepingCopyIdx ==
  /\ ctl \in {"idle", "discovered"}
  /\ UIThreadFree
  /\ NoQueuedSignals
  /\ running' = FALSE
  /\ decoded' = [p \in Positions |-> 0]
  /\ \/ /\ slaves' = <<>>
        /\ ctl' = "idle"
        /\ UNCHANGED port
     \/ /\ slaves' = <<>>
        /\ port' = "open"
        /\ ctl' = "idle"
     \/ /\ slaves' = DiscoveredSlaves
        /\ port' = "closed"
        /\ ctl' = "discovered"
  /\ UNCHANGED <<uiKind, cycle, lock, ecPc, copyIdx, dcPc, view, published, pending,
                 guiIdx>>

getSlaves ==
  /\ ctl \in {"idle", "discovered"}
  /\ UIThreadFree
  /\ NoQueuedSignals
  /\ running' = FALSE
  /\ decoded' = [p \in Positions |-> 0]
  /\ \/ /\ slaves' = <<>>                      \* ec_init fails
        /\ ctl' = "idle"
        /\ UNCHANGED port
     \/ /\ slaves' = <<>>                      \* no slaves, or not SAFE_OP
        /\ port' = "open"
        /\ ctl' = "idle"
     \/ /\ slaves' = DiscoveredSlaves
        /\ port' = "closed"                    \* ec_init ... ec_close
        /\ ctl' = "discovered"
  /\ copyIdx' = 1
  /\ UNCHANGED <<uiKind, cycle, lock, ecPc, dcPc, view, published, pending, guiIdx>>

(* start(): ec_init, ec_config_init, the activation handshake (whose      *)
(* exchanges bring a new image into the IOmap) and up to 200 retries of   *)
(* the OPERATIONAL state check.  Only if OPERATIONAL is reached are the   *)
(* two threads spawned; if it is not, start() returns with no error.      *)
start ==
  /\ ctl = "discovered"
  /\ UIThreadFree
  /\ \/ UNCHANGED <<port, ctl, running, cycle, ecPc, dcPc>>  \* ec_init fails
     \/ /\ port' = "open"                                    \* no slaves
        /\ UNCHANGED <<ctl, running, cycle, ecPc, dcPc>>
     \/ /\ port' = "open"                      \* never OPERATIONAL
        /\ cycle' = Next1(cycle)
        /\ ctl' = "running"
        /\ UNCHANGED <<running, ecPc, dcPc>>
     \/ /\ port' = "open"                      \* OPERATIONAL: spawn
        /\ cycle' = Next1(cycle)
        /\ running' = TRUE
        /\ ecPc' = "check"
        /\ dcPc' = "check"
        /\ ctl' = "running"
  /\ UNCHANGED <<uiKind, slaves, decoded, lock, copyIdx, view, published, pending,
                 guiIdx>>

(* stop(): if ethercat_running, clear it and join; otherwise return.      *)
stop ==
  /\ ctl = "running"
  /\ UIThreadFree
  /\ ctl' = IF running THEN "stopping" ELSE "discovered"
  /\ running' = FALSE
  /\ UNCHANGED <<uiKind, port, slaves, cycle, decoded, lock, ecPc, copyIdx, dcPc, view, published, pending, guiIdx>>

(* The two joins of stop() return once both threads have left.           *)
(* Mutant: stop() joins ethercat_thread only.                            *)
StopJoinEcatOnly ==
  /\ ctl = "stopping"
  /\ ecPc = "done"
  /\ ctl' = "discovered"
  /\ UNCHANGED <<uiKind, port, slaves, running, cycle, decoded, lock, ecPc, copyIdx,
                 dcPc, view, published, pending, guiIdx>>

StopJoin ==
  /\ ctl = "stopping"
  /\ ecPc = "done"
  /\ dcPc = "done"
  /\ ctl' = "discovered"
  /\ UNCHANGED <<uiKind, port, slaves, running, cycle, decoded, lock, ecPc, copyIdx,
                 dcPc, view, published, pending, guiIdx>>

-----------------------------------------------------------------------------
(* ethercatLoop: check ethercat_running, exchange, then copyData().       *)

(* Mutant: ethercatLoop never looks at ethercat_running.                 *)
EcCheckRunningIgnoringStop ==
  /\ ecPc = "check"
  /\ ecPc' = "exchange"
  /\ UNCHANGED <<uiKind, port, slaves, running, cycle, decoded, lock, copyIdx, dcPc,
                 ctl, view, published, pending, guiIdx>>

EcCheckRunning ==
  /\ ecPc = "check"
  /\ ecPc' = IF running THEN "exchange" ELSE "close"
  /\ UNCHANGED <<uiKind, port, slaves, running, cycle, decoded, lock, copyIdx, dcPc,
                 ctl, view, published, pending, guiIdx>>

(* ec_send_processdata / ec_receive_processdata: a new image in the       *)
(* IOmap.  A working counter other than 3 * Len(slaves) is only printed.  *)
EcExchange ==
  /\ ecPc = "exchange"
  /\ cycle' = Next1(cycle)
  /\ ecPc' = "trylock"
  /\ UNCHANGED <<uiKind, port, slaves, running, decoded, lock, copyIdx, dcPc, ctl, view, published, pending, guiIdx>>

(* copyData(): std::unique_lock with std::try_to_lock; if the lock is     *)
(* taken the whole decode of this cycle is skipped.                       *)
(* Mutant: copyData copies without taking data_mutex.                    *)
EcTryLockIgnoringOwner ==
  /\ ecPc = "trylock"
  /\ lock' = "ecat"
  /\ copyIdx' = 1
  /\ ecPc' = "copy"
  /\ UNCHANGED <<uiKind, port, slaves, running, cycle, decoded, dcPc, ctl, view,
                 published, pending, guiIdx>>

EcTryLock ==
  /\ ecPc = "trylock"
  /\ IF lock = NoOwner
       THEN /\ lock' = "ecat"
            /\ copyIdx' = 1
            /\ ecPc' = "copy"
       ELSE /\ ecPc' = "check"
            /\ UNCHANGED <<lock, copyIdx>>
  /\ UNCHANGED <<uiKind, port, slaves, running, cycle, decoded, dcPc, ctl,
                 view, published, pending, guiIdx>>

(* One iteration of the for loop: slaves[i]->copyData(outputs, inputs)    *)
(* from the slave's region of the IOmap; the lock is released when the    *)
(* loop ends.                                                             *)
EcCopySlave ==
  /\ ecPc = "copy"
  /\ IF copyIdx <= Len(slaves)
       THEN /\ decoded' = [decoded EXCEPT ![slaves[copyIdx]] = cycle]
            /\ copyIdx' = copyIdx + 1
            /\ UNCHANGED <<lock, ecPc>>
       ELSE /\ lock' = NoOwner
            /\ ecPc' = "check"
            /\ UNCHANGED <<decoded, copyIdx>>
  /\ UNCHANGED <<uiKind, port, slaves, running, cycle, dcPc, ctl, view,
                 published, pending, guiIdx>>

(* After the loop: ec_close().                                            *)
EcClose ==
  /\ ecPc = "close"
  /\ port' = "closed"
  /\ ecPc' = "done"
  /\ UNCHANGED <<uiKind, slaves, running, cycle, decoded, lock, copyIdx, dcPc, ctl, view, published, pending, guiIdx>>

-----------------------------------------------------------------------------
(* dataCopyLoop: check ethercat_running, lock_guard, callback, publish.   *)

(* Mutant: dataCopyLoop never looks at ethercat_running.                 *)
DcCheckRunningIgnoringStop ==
  /\ dcPc = "check"
  /\ dcPc' = "lock"
  /\ UNCHANGED <<uiKind, port, slaves, running, cycle, decoded, lock, ecPc, copyIdx,
                 ctl, view, published, pending, guiIdx>>

DcCheckRunning ==
  /\ dcPc = "check"
  /\ dcPc' = IF running THEN "lock" ELSE "close"
  /\ UNCHANGED <<uiKind, port, slaves, running, cycle, decoded, lock, ecPc, copyIdx,
                 ctl, view, published, pending, guiIdx>>

DcLock ==
  /\ dcPc = "lock"
  /\ lock = NoOwner
  /\ lock' = "dc"
  /\ dcPc' = "notify"
  /\ UNCHANGED <<uiKind, port, slaves, running, cycle, decoded, ecPc, copyIdx, ctl, view, published, pending, guiIdx>>

(* The slaves' state as one copy: what a reader holding the lock sees.    *)
Snapshot(d) == [p \in Positions |-> d[p]]

(* Under the lock: (ui->*callback_fn)(slaves), then, when publishing is   *)
(* enabled, publishMsg(convertToJson(slaves)); the guard is released at  *)
(* the end of the scope.  TUI::dataCallback renders the slaves right      *)
(* there; GUI::dataCallback only emits the queued signal.                 *)
DcNotify ==
  /\ dcPc = "notify"
  /\ IF uiKind = "tui"
       THEN /\ view' = Snapshot(decoded)
            /\ UNCHANGED pending
       ELSE /\ pending' = IF pending < MaxPending THEN pending + 1 ELSE pending
            /\ UNCHANGED view
  /\ \/ published' = Snapshot(decoded)          \* zmq_publish_enabled
     \/ UNCHANGED published
  /\ lock' = NoOwner
  /\ dcPc' = "check"
  /\ UNCHANGED <<uiKind, port, slaves, running, cycle, decoded, ecPc, copyIdx, ctl, guiIdx>>

DcClose ==
  /\ dcPc = "close"
  /\ port' = "closed"
  /\ dcPc' = "done"
  /\ UNCHANGED <<uiKind, slaves, running, cycle, decoded, lock, ecPc, copyIdx, ctl, view, published, pending, guiIdx>>

-----------------------------------------------------------------------------
(* GUI::handleDataChanged, on the GUI thread: for each slave, read its    *)
(* rx/tx values through the shared pointer, with no lock held.  The GUI   *)
(* thread is blocked in stop()'s join while ctl = "stopping".             *)

GuiBeginHandle ==
  /\ uiKind = "gui"
  /\ pending > 0
  /\ guiIdx = 0
  /\ ctl # "stopping"
  /\ pending' = pending - 1
  /\ guiIdx' = 1
  /\ UNCHANGED <<uiKind, port, slaves, running, cycle, decoded, lock, ecPc, copyIdx,
                 dcPc, ctl, view, published>>

GuiReadSlave ==
  /\ guiIdx > 0
  /\ IF guiIdx <= Len(slaves)
       THEN /\ view' = [view EXCEPT ![slaves[guiIdx]] = decoded[slaves[guiIdx]]]
            /\ guiIdx' = guiIdx + 1
       ELSE /\ guiIdx' = 0
            /\ UNCHANGED view
  /\ UNCHANGED <<uiKind, port, slaves, running, cycle, decoded, lock, ecPc, copyIdx,
                 dcPc, ctl, published, pending>>

Next ==
  \/ getSlaves \/ start \/ stop \/ StopJoin
  \/ EcCheckRunning \/ EcExchange \/ EcTryLock \/ EcCopySlave \/ EcClose
  \/ DcCheckRunning \/ DcLock \/ DcNotify \/ DcClose
  \/ GuiBeginHandle \/ GuiReadSlave

(* The two acquisition threads and the GUI event loop are scheduled by   *)
(* the OS and always get to run; the user (the control operations) may   *)
(* never act again.                                                       *)
Fairness ==
  /\ WF_vars(EcCheckRunning) /\ WF_vars(EcExchange) /\ WF_vars(EcTryLock)
  /\ WF_vars(EcCopySlave) /\ WF_vars(EcClose)
  /\ WF_vars(DcCheckRunning) /\ WF_vars(DcLock) /\ WF_vars(DcNotify)
  /\ WF_vars(DcClose)
  /\ WF_vars(StopJoin)
  /\ WF_vars(GuiBeginHandle) /\ WF_vars(GuiReadSlave)

Spec == Init /\ [][Next]_vars /\ Fairness

-----------------------------------------------------------------------------
(* Properties.                                                            *)

TypeOK ==
  /\ port \in {"open", "closed"}
  /\ slaves \in Seq(Positions)
  /\ running \in BOOLEAN
  /\ cycle \in Versions
  /\ decoded \in [Positions -> Versions]
  /\ lock \in {NoOwner, "ecat", "dc"}
  /\ ecPc \in {"check", "exchange", "trylock", "copy", "close", "done"}
  /\ copyIdx \in 1 .. Len(slaves) + 1
  /\ dcPc \in {"check", "lock", "notify", "close", "done"}
  /\ ctl \in {"idle", "discovered", "running", "stopping"}
  /\ view \in [Positions -> Versions]
  /\ published \in [Positions -> Versions]
  /\ pending \in 0 .. MaxPending
  /\ guiIdx \in 0 .. Len(slaves) + 1
  /\ uiKind \in UIKinds

(* A snapshot is consistent when every discovered slave in it comes from  *)
(* the same exchange cycle.                                               *)
Consistent(snap) == \A i, j \in DOMAIN slaves : snap[slaves[i]] = snap[slaves[j]]

(* What the consumer has finished reading holds the slaves of one        *)
(* exchange cycle: the try_lock in copyData and the lock_guard in         *)
(* dataCopyLoop keep the data callback from seeing a half-copied process  *)
(* image (spec: no torn reads across slave boundaries).                   *)
ViewConsistent == guiIdx = 0 => Consistent(view)

(* With the terminal UI, which renders inside the callback under          *)
(* data_mutex, every screen shows the slaves of one exchange cycle.       *)
TuiViewConsistent == uiKind = "tui" => ViewConsistent

(* Every JSON document dataCopyLoop publishes holds the slaves of one     *)
(* exchange cycle, whichever UI is attached.                              *)
PublishedConsistent == Consistent(published)

(* After stop() has returned, no callback or publish runs until the next  *)
(* start(): dataCopyLoop never delivers while the UI is outside a run.    *)
NoNotifyAfterStop ==
  [][dcPc = "notify" /\ dcPc' # "notify" => ctl \in {"running", "stopping"}]_vars

(* A stop() that finds the threads running eventually returns: both loops *)
(* see ethercat_running cleared and are joined.                           *)
StopTerminates == ctl = "stopping" ~> ctl = "discovered"


(* The SOEM port is open whenever a thread exchanges on it or closes it:  *)
(* ethercatLoop must not send after dataCopyLoop's ec_close(), and the    *)
(* port is closed once.                                                   *)
PortOpenWhenUsed ==
  /\ ecPc \in {"exchange", "close"} => port = "open"
  /\ dcPc = "close" => port = "open"

(* The global SOEM port is closed whenever the UI thread may call ec_init *)
(* again (a new discovery, or start after a stop): every path of          *)
(* getSlaves and start that opened it, and every run of the loops, ends   *)
(* with ec_close(), so no ec_init overwrites an open socket.              *)
PortClosedBetweenRuns ==
  ctl \in {"idle", "discovered"} /\ ecPc = "done" /\ dcPc = "done" => port = "closed"

(* start() returning without an error means acquisition is running: the   *)
(* spec makes a failure to begin an explicit error that leaves the data   *)
(* source inert, so the UI never shows a run that has no threads.         *)
StartedMeansAcquiring == ctl = "running" => running

(* Every callback and every published document reads slaves that copyData *)
(* has written at least once, never the uninitialised rx/tx structs of a *)
(* freshly constructed slave.                                             *)
NoUninitialisedRead ==
  [][dcPc = "notify" /\ dcPc' = "check" =>
       \A i \in DOMAIN slaves : decoded[slaves[i]] > 0]_vars

-----------------------------------------------------------------------------
(* EthercatMaster is a DataSource: the UI thread's ctl is the phase, and   *)
(* dataCopyLoop holding the lock to notify is the callback.                *)
DS == INSTANCE DataSource WITH
        phase <- CASE ctl = "idle"       -> "inert"
                   [] ctl = "discovered" -> "ready"
                   [] ctl = "running"    -> "acquiring"
                   [] OTHER              -> "ending",
        inCallback <- dcPc = "notify"

(* The active source keeps the data-source contract: callbacks only while *)
(* started and not yet stopped, one at a time, and stop() returns.        *)
ImplementsDataSource == DS!Spec

=============================================================================
