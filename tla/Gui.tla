-------------------------------- MODULE Gui ---------------------------------
(***************************************************************************)
(* The Qt GUI, src/gui.cpp: the handlers of its buttons, radio buttons,   *)
(* combo box, file dialogs and ZMQ check box, all run on the GUI thread,  *)
(* and the queued dataChanged signal by which the data source's thread    *)
(* hands each cycle of data to handleDataChanged.                          *)
(*                                                                         *)
(* The data source is the contract DataSource (phase, inCallback), which   *)
(* EthercatMaster and PacketSniffer are shown to implement; source is the *)
(* kind of the object ecat_data_source points to.  A queued signal carries *)
(* a copy of the slave vector; it is kept as its size.  The tooltip that   *)
(* handleDataChanged sets on a parsable variable's label is SlaveBits, the *)
(* texts it sets on the value labels are SlaveFields.                      *)
(*                                                                         *)
(* A handler runs to completion; the modal message boxes are left out      *)
(* (nothing they do changes this state).  Posted events are delivered      *)
(* before the next input event, so a click finds the signal queue empty.   *)
(***************************************************************************)
EXTENDS Naturals, Sequences, SlaveBits, SlaveFields

CONSTANTS
  Interfaces,   \* the entries getNetworkInterfaces puts in the combo box
  Files,        \* the files a QFileDialog may return
  SlaveCounts,  \* the sizes a successful getSlaves may return
  MaxQueued,    \* bound on the dataChanged signals waiting in the queue
  ShownWords,   \* the words the labels show while the GUI runs (of Words)
  CreatedTypes  \* the slave classes getSlaves creates

VARIABLES
  radio,             \* the checked input-data radio button, or "none"
  ifaceText,         \* if_combo_box->currentText()
  config_file_name,  \* GUI::config_file_name ("" when none)
  pcap_file_name,    \* GUI::pcap_file_name
  publishChecked,    \* publish_zmq_checkbox->isChecked()
  showUnits,         \* show_units_checkbox->isChecked()
  startEnabled,      \* start_button->isEnabled()
  startText,         \* start_button->text()
  discoverEnabled,   \* discover_button->isEnabled()
  source,            \* what ecat_data_source points to: "null" or a kind
  zmqPublish,        \* the source's zmq_publish_enabled
  slaveCount,        \* the size of the source's slaves vector
  boxKinds,          \* wheel_group_boxes: the class of each box's slave
  labelText,         \* per box, the text set on each value label
  queue,             \* the slave counts of the queued dataChanged signals
  cbCount,           \* the size of the vector the running callback posts
  guiPc,             \* "stopping" while handleStart is inside stop()
  phase, inCallback  \* the data source (DataSource)

DS == INSTANCE DataSource

inputVars == <<radio, ifaceText, config_file_name, pcap_file_name, publishChecked,
               showUnits>>
buttonVars == <<startEnabled, startText, discoverEnabled>>
sourceVars == <<source, zmqPublish, slaveCount, boxKinds, labelText>>
signalVars == <<queue, cbCount, guiPc, phase, inCallback>>
guiVars == <<inputVars, buttonVars, sourceVars, signalVars>>

allVars == <<guiVars, vars>>

Placeholder == "Network Interface"

boxes == Len(boxKinds)

(* The GUI thread is in the event loop with no queued signal.              *)
Idle == guiPc = "idle" /\ queue = <<>>

-----------------------------------------------------------------------------
(* The constructor: no source selected, no file, start disabled.           *)
GuiInit ==
  /\ radio = "none"
  /\ ifaceText = Placeholder
  /\ config_file_name = "" /\ pcap_file_name = ""
  /\ publishChecked = FALSE /\ showUnits = FALSE
  /\ startEnabled = FALSE /\ startText = "Start" /\ discoverEnabled = TRUE
  /\ source = "null" /\ zmqPublish = FALSE /\ slaveCount = 0
  /\ boxKinds = <<>> /\ labelText = <<>> /\ queue = <<>> /\ cbCount = 0 /\ guiPc = "idle"
  /\ DS!Init
  /\ Init

(* handleInputButtonChanged: which inputs the checked radio button enables.*)
ComboEnabled == radio \in {"ecat", "sniffer"}
ConfigButtonEnabled == radio \in {"sniffer", "pcap"}
PcapButtonEnabled == radio = "pcap"

SelectInput ==
  /\ Idle
  /\ \E r \in {"ecat", "sniffer", "pcap"} : radio' = r
  /\ UNCHANGED <<ifaceText, config_file_name, pcap_file_name, publishChecked, showUnits,
                 buttonVars, sourceVars, signalVars, vars>>

ChooseInterface ==
  /\ Idle /\ ComboEnabled
  /\ ifaceText' \in Interfaces \cup {Placeholder}
  /\ UNCHANGED <<radio, config_file_name, pcap_file_name, publishChecked, showUnits,
                 buttonVars, sourceVars, signalVars, vars>>

(* handleSelectConfigFile: a cancelled dialog gives "".                    *)
SelectConfigFile ==
  /\ Idle /\ ConfigButtonEnabled
  /\ config_file_name' \in Files \cup {""}
  /\ UNCHANGED <<radio, ifaceText, pcap_file_name, publishChecked, showUnits,
                 buttonVars, sourceVars, signalVars, vars>>

(* handleSelectPCAPFile: the name is assigned before the cancel check.     *)
SelectPCAPFile ==
  /\ Idle /\ PcapButtonEnabled
  /\ pcap_file_name' \in Files \cup {""}
  /\ UNCHANGED <<radio, ifaceText, config_file_name, publishChecked, showUnits,
                 buttonVars, sourceVars, signalVars, vars>>

(* Mutant: only a checked box is passed on.                                *)
ToggleZMQOnlyWhenChecked ==
  /\ Idle
  /\ publishChecked' = ~publishChecked
  /\ zmqPublish' = IF source # "null" /\ publishChecked' THEN TRUE ELSE zmqPublish
  /\ UNCHANGED <<radio, ifaceText, config_file_name, pcap_file_name, showUnits,
                 buttonVars, source, slaveCount, boxKinds, labelText, signalVars, vars>>

(* handleZMQCheckBox: the flag is passed on to a source if there is one.   *)
ToggleZMQ ==
  /\ Idle
  /\ publishChecked' = ~publishChecked
  /\ zmqPublish' = IF source # "null" THEN publishChecked' ELSE zmqPublish
  /\ UNCHANGED <<radio, ifaceText, config_file_name, pcap_file_name, showUnits,
                 buttonVars, source, slaveCount, boxKinds, labelText, signalVars, vars>>

(* The UI interface (ui.h) a launcher calls to set the GUI up from a      *)
(* command line: selectNetworkInterface, setConfigFile and setPCAPFile set *)
(* their field whether or not its widget is enabled; enableZMQ checks the  *)
(* box, whose stateChanged signal runs handleZMQCheckBox only if the state *)
(* changed.  (selectSource is SelectInput.)                                *)
SelectNetworkInterface ==
  /\ Idle
  /\ \E i \in Interfaces : ifaceText' = i
  /\ UNCHANGED <<radio, config_file_name, pcap_file_name, publishChecked, showUnits,
                 buttonVars, sourceVars, signalVars, vars>>

SetConfigFile ==
  /\ Idle
  /\ \E f \in Files : config_file_name' = f
  /\ UNCHANGED <<radio, ifaceText, pcap_file_name, publishChecked, showUnits,
                 buttonVars, sourceVars, signalVars, vars>>

SetPCAPFile ==
  /\ Idle
  /\ \E f \in Files : pcap_file_name' = f
  /\ UNCHANGED <<radio, ifaceText, config_file_name, publishChecked, showUnits,
                 buttonVars, sourceVars, signalVars, vars>>

EnableZMQ ==
  /\ Idle
  /\ \E enable \in BOOLEAN :
       /\ publishChecked' = enable
       /\ zmqPublish' = IF source # "null" /\ enable # publishChecked THEN enable ELSE zmqPublish
  /\ UNCHANGED <<radio, ifaceText, config_file_name, pcap_file_name, showUnits,
                 buttonVars, source, slaveCount, boxKinds, labelText, signalVars, vars>>

(* The "Show Units" check box has no handler: a click toggles it, and     *)
(* handleDataChanged reads it on every update.                             *)
ToggleShowUnits ==
  /\ Idle
  /\ showUnits' = ~showUnits
  /\ UNCHANGED <<radio, ifaceText, config_file_name, pcap_file_name, publishChecked,
                 buttonVars, sourceVars, signalVars, vars>>

-----------------------------------------------------------------------------
(* handleDiscoverButton, up to getSlaves: the sources its checks let it    *)
(* construct.  The sniffer's constructor (opening the interface or file)   *)
(* and setConfigFile may fail; each failure resets the pointer.            *)
IfaceSelected == ifaceText \notin {"", Placeholder}

Constructed ==
  CASE radio = "ecat" ->
         IF IfaceSelected THEN {"ecat"} ELSE {"null"}
    [] radio = "sniffer" ->
         IF IfaceSelected /\ config_file_name # "" THEN {"sniffer", "null"} ELSE {"null"}
    [] radio = "pcap" ->
         IF config_file_name # "" /\ pcap_file_name # "" THEN {"pcap", "null"} ELSE {"null"}
    [] OTHER -> {"null"}

(* The rest: the ZMQ flag is set from the check box, then getSlaves either *)
(* fails (the source is reset) or one group box per slave is built and     *)
(* start is enabled.  Every path clears the boxes and disables start first.*)
DiscoveryFailed(made) ==
  /\ IF made = "null" THEN UNCHANGED zmqPublish ELSE zmqPublish' = publishChecked
  /\ source' = "null" /\ slaveCount' = 0 /\ boxKinds' = <<>> /\ labelText' = <<>>

DiscoveryFound(made, k) ==
  /\ zmqPublish' = publishChecked
  /\ source' = made /\ slaveCount' = k
  /\ boxKinds' \in [1..k -> CreatedTypes]
  /\ labelText' = [i \in 1..k |-> <<>>]

Discovered(made) ==
  \/ /\ DiscoveryFailed(made)
     /\ startEnabled' = FALSE /\ phase' = "inert"
  \/ /\ made # "null"
     /\ \E k \in SlaveCounts : DiscoveryFound(made, k)
     /\ startEnabled' = TRUE /\ phase' = "ready"

(* Mutant: start is disabled only once a source has been constructed.     *)
DiscoverClickDisablingLate ==
  /\ Idle /\ discoverEnabled
  /\ \E made \in Constructed :
       IF made = "null"
       THEN /\ DiscoveryFailed(made) /\ phase' = "inert"
            /\ UNCHANGED startEnabled
       ELSE Discovered(made)
  /\ UNCHANGED <<inputVars, startText, discoverEnabled, queue, cbCount, guiPc,
                 inCallback, vars>>

DiscoverClick ==
  /\ Idle /\ discoverEnabled
  /\ \E made \in Constructed : Discovered(made)
  /\ UNCHANGED <<inputVars, startText, discoverEnabled, queue, cbCount, guiPc,
                 inCallback, vars>>

-----------------------------------------------------------------------------
(* handleStart with the text "Start": the source's start().  An error      *)
(* (only EthercatMaster::start reports one) shows a message box and        *)
(* changes nothing here; otherwise discover is disabled and the button     *)
(* reads "Stop".                                                           *)
StartClickIgnoringError ==
  /\ Idle /\ startEnabled /\ startText = "Start"
  /\ \/ /\ DS!Begin
     \/ /\ source = "ecat"
        /\ UNCHANGED <<phase, inCallback>>
  /\ discoverEnabled' = FALSE /\ startText' = "Stop"
  /\ UNCHANGED <<inputVars, startEnabled, sourceVars, queue, cbCount, guiPc, vars>>

(* Mutant: discover is left enabled while the source acquires.          *)
StartClickKeepingDiscover ==
  /\ Idle /\ startEnabled /\ startText = "Start"
  /\ DS!Begin
  /\ startText' = "Stop"
  /\ UNCHANGED <<inputVars, startEnabled, discoverEnabled, sourceVars, queue, cbCount,
                 guiPc, vars>>

StartClick ==
  /\ Idle /\ startEnabled /\ startText = "Start"
  /\ DS!Begin
  /\ discoverEnabled' = FALSE /\ startText' = "Stop"
  /\ UNCHANGED <<inputVars, startEnabled, sourceVars, queue, cbCount, guiPc, vars>>

(* handleStart with the text "Stop": stop() either blocks in its join      *)
(* until the source's threads end, or has nothing to halt; when it         *)
(* returns, discover is enabled and the button reads "Start".              *)
StopClick ==
  /\ Idle /\ startEnabled /\ startText = "Stop"
  /\ \/ /\ DS!EndRequest /\ guiPc' = "stopping"
        /\ UNCHANGED buttonVars
     \/ /\ DS!EndNow /\ guiPc' = "idle"
        /\ discoverEnabled' = TRUE /\ startText' = "Start"
        /\ UNCHANGED startEnabled
  /\ UNCHANGED <<inputVars, sourceVars, queue, cbCount, vars>>

(* Mutant: discover is not enabled again once stop() has returned.        *)
StopReturnedKeepingDiscoverDisabled ==
  /\ guiPc = "stopping"
  /\ DS!EndReturn
  /\ guiPc' = "idle"
  /\ startText' = "Start"
  /\ UNCHANGED <<inputVars, startEnabled, discoverEnabled, sourceVars, queue, cbCount, vars>>

StopReturned ==
  /\ guiPc = "stopping"
  /\ DS!EndReturn
  /\ guiPc' = "idle"
  /\ discoverEnabled' = TRUE /\ startText' = "Start"
  /\ UNCHANGED <<inputVars, startEnabled, sourceVars, queue, cbCount, vars>>

(* GUI::start: discover_button->clicked() runs handleDiscoverButton       *)
(* directly, then start_button->clicked() runs handleStart if discovery    *)
(* enabled start; its start() may fail (EthercatMaster) or begin           *)
(* acquisition.  A launcher calls it with the GUI idle, discover enabled.  *)
GuiStart ==
  /\ Idle /\ discoverEnabled
  /\ \E made \in Constructed :
       \/ /\ DiscoveryFailed(made)
          /\ startEnabled' = FALSE /\ phase' = "inert"
          /\ UNCHANGED <<startText, discoverEnabled>>
       \/ /\ made # "null"
          /\ \E k \in SlaveCounts : DiscoveryFound(made, k)
          /\ startEnabled' = TRUE
          /\ \/ /\ phase' = "acquiring"
                /\ discoverEnabled' = FALSE /\ startText' = "Stop"
             \/ /\ made = "ecat" /\ phase' = "ready"
                /\ UNCHANGED <<startText, discoverEnabled>>
  /\ UNCHANGED <<inputVars, queue, cbCount, guiPc, inCallback, vars>>

-----------------------------------------------------------------------------
(* The source's thread enters GUI::dataCallback with its slave vector ...  *)
CallbackEnter ==
  /\ DS!CallbackBegin
  /\ Len(queue) < MaxQueued
  /\ cbCount' = slaveCount
  /\ UNCHANGED <<inputVars, buttonVars, sourceVars, queue, guiPc, vars>>

(* ... whose body, emit dataChanged(slaves), posts a copy of it to the GUI *)
(* thread's queue.                                                         *)
CallbackEmit ==
  /\ DS!CallbackEnd
  /\ queue' = Append(queue, cbCount)
  /\ UNCHANGED <<inputVars, buttonVars, sourceVars, cbCount, guiPc, vars>>

(* handleDataChanged, in the GUI thread's event loop: the value labels of *)
(* box i are refreshed for every slave i of the signal (the slaves are     *)
(* those the boxes were built for: discovery runs only with the queue      *)
(* empty), and the tooltip of each parsable variable is set (SetTooltipOf, *)
(* for the last such label).                                               *)
HandleDataChanged ==
  /\ guiPc = "idle" /\ queue # <<>>
  /\ queue' = Tail(queue)
  /\ labelText' = [i \in DOMAIN labelText |->
                     IF i <= Head(queue) THEN Refreshed[boxKinds[i], showUnits]
                     ELSE labelText[i]]
  /\ \/ Head(queue) > 0 /\ SetTooltipOf(ShownWords)
     \/ Head(queue) = 0 /\ UNCHANGED vars
  /\ UNCHANGED <<inputVars, buttonVars, source, zmqPublish, slaveCount, boxKinds,
                 cbCount, guiPc, phase, inCallback>>

GuiNext ==
  \/ SelectInput \/ ChooseInterface \/ SelectConfigFile \/ SelectPCAPFile
  \/ ToggleZMQ \/ SelectNetworkInterface \/ SetConfigFile \/ SetPCAPFile
  \/ EnableZMQ \/ ToggleShowUnits \/ GuiStart \/ DiscoverClick \/ StartClick \/ StopClick \/ StopReturned
  \/ CallbackEnter \/ CallbackEmit \/ HandleDataChanged

(* A callback returns, and stop() returns under the strong fairness the    *)
(* data sources are shown to give.  The GUI thread's event loop needs no   *)
(* fairness here: no signal is handled while it is blocked in stop().      *)
GuiSpec ==
  /\ GuiInit /\ [][GuiNext]_allVars
  /\ WF_allVars(CallbackEmit) /\ SF_allVars(StopReturned)

-----------------------------------------------------------------------------
ASSUME ShownWords \subseteq Words

(* Types of the GUI's state and of the tooltip.                            *)
GuiTypeOK ==
  /\ radio \in {"none", "ecat", "sniffer", "pcap"}
  /\ ifaceText \in Interfaces \cup {Placeholder}
  /\ {config_file_name, pcap_file_name} \subseteq Files \cup {""}
  /\ {publishChecked, showUnits, startEnabled, discoverEnabled, zmqPublish, inCallback} \subseteq BOOLEAN
  /\ startText \in {"Start", "Stop"}
  /\ source \in {"null", "ecat", "sniffer", "pcap"}
  /\ {slaveCount, boxes, cbCount} \subseteq SlaveCounts \cup {0}
  /\ boxKinds \in Seq(CreatedTypes) /\ DOMAIN labelText = DOMAIN boxKinds
  /\ queue \in Seq(SlaveCounts \cup {0}) /\ Len(queue) <= MaxQueued
  /\ guiPc \in {"idle", "stopping"}
  /\ phase \in {"inert", "ready", "acquiring", "ending"}
  /\ TypeOK

(* The start button is enabled only while there is a source with slaves   *)
(* to start: no discovery path (handleDiscoverButton's early returns and   *)
(* the getSlaves error) leaves it enabled after the source was reset.      *)
StartNeedsSource ==
  startEnabled => source # "null" /\ phase # "inert"

(* The buttons say what the source is doing: "Stop" exactly while it       *)
(* acquires or is being stopped, and discover enabled exactly while it is  *)
(* not (handleStart changes them only after start() succeeded and after   *)
(* stop() returned).                                                       *)
ControlsMatchPhase ==
  /\ (startText = "Stop") = (phase \in {"acquiring", "ending"})
  /\ discoverEnabled = (phase \in {"inert", "ready"})

(* handleDataChanged indexes wheel_group_boxes with every slave index of  *)
(* the signal it is given: every queued or in-flight signal carries no     *)
(* more slaves than there are group boxes.                                  *)
SignalsFitBoxes ==
  /\ \A i \in DOMAIN queue : queue[i] <= boxes
  /\ inCallback => cbCount <= boxes

(* A source that exists publishes over ZMQ exactly when the check box is  *)
(* checked, whether the box was toggled before or after discovery.         *)
PublishFollowsCheckbox ==
  source # "null" => zmqPublish = publishChecked

(* While the window shows group boxes, whatever word a parsable          *)
(* variable's label shows, the tooltip handleDataChanged sets on it lists  *)
(* each flag the slave class documents once, with that flag's bits.        *)
EveryTooltipDecodes ==
  boxes > 0 => ParseBitsDecodes

(* Every value label handleDataChanged has filled shows the struct member  *)
(* that the slave's convertToJson publishes under the variable the label   *)
(* is named for, with that variable's unit or none: the walk's rx_id and  *)
(* tx_id counters, the order in which the box's children were created, and *)
(* the hand-kept name, unit, value and JSON lists of the slave class all   *)
(* line up.  (SlaveFields assumes the same of a KeloBMSSlave box.)        *)
LabelsShowPublished ==
  \A i \in DOMAIN labelText : ShowsPublished(boxKinds[i], labelText[i])

(* Pressing Stop gives the user back a window with discover enabled and   *)
(* the button reading "Start", even while the source keeps delivering.     *)
StopReturnsControl ==
  guiPc = "stopping" ~> (guiPc = "idle" /\ discoverEnabled /\ startText = "Start")

=============================================================================
