--------------------------- MODULE PacketSniffer ---------------------------
(***************************************************************************)
(* The passive data source, src/packet_sniffer.cpp, driven by the GUI's    *)
(* discover and start/stop buttons (src/gui.cpp): a capture thread runs    *)
(* libtins' sniff_loop over a live interface or a pcap file and calls      *)
(* packetCallback for every captured EtherCAT frame; the callback keeps    *)
(* the frames that have travelled round the bus and carry the LRW          *)
(* datagram, and slices that datagram at the offsets of the config file.   *)
(*                                                                         *)
(* A frame is a record: who sent it as seen in the Ethernet source address *)
(* ("master" for 01:01:01:01:01:01 as SOEM sends it, "returned" for the    *)
(* 03:01:01:01:01:01 the first device writes into it), the command of its  *)
(* first datagram, the datagram's length in bytes, and the bus cycle whose *)
(* inputs the datagram carries.  Byte values are not modelled: `read`      *)
(* records which frame the slave objects were last copied from.            *)
(***************************************************************************)
EXTENDS Naturals, Sequences, Functions, SlaveRegistry

CONSTANTS
  ConfigFiles, \* config files the user may select: each a "Slaves" array of
               \* [name, rx, tx] records (<<>> for an empty document)
  Capture,     \* the frames on the wire, in order (the pcap file's content)
  SliceRx,     \* sizeof the RX struct each slave class copies, per type
  SliceTx      \* sizeof the TX struct each slave class copies, per type

VARIABLES
  slaves,    \* EthercatDataSource::slaves: [type, rx, tx] per config entry
  ctl,       \* the GUI: "idle", "discovered", "running", "stopping", "crashed"
  isPcap,    \* the source is a FileSniffer (TRUE) or a live Sniffer (FALSE)
  capPc,     \* sniffer_thread: "none", "loop", "callback", "done"
  frameIdx,  \* the FileSniffer's position in the pcap file
  cur,       \* the frame handed to packetCallback
  stopFlag,  \* pcap's break_loop flag, set by stop_sniff()
  read       \* the frame the slaves were last copied from

vars == <<slaves, ctl, isPcap, capPc, frameIdx, cur, stopFlag, read>>

NoFrame == [src |-> "none", cmd |-> "none", len |-> 0, inputs |-> 0]

Frame == [src : {"master", "returned"}, cmd : {"LRW", "other"},
          len : Nat, inputs : Nat]

-----------------------------------------------------------------------------
(* PacketSniffer::getSlaves: one slave object per config entry, whatever   *)
(* its name; the slave's class is chosen by getSlaveType.                  *)
SlavesOf(cfg) ==
  [i \in DOMAIN cfg |-> [type |-> getSlaveType(cfg[i].name),
                         rx   |-> cfg[i].rx, tx |-> cfg[i].tx]]

(* For a type getSlaveType does not return a class for, `slave` stays a    *)
(* null shared_ptr and slave->slave_info is dereferenced.                  *)
DereferencesNull(cfg) ==
  \E i \in DOMAIN cfg :
    getSlaveType(cfg[i].name) \notin {ROBILE_BATTERY_SLAVE, KELO_DRIVE_SLAVE,
                                      KELO_BMS_SLAVE}

(* The two filters of packetCallback.                                      *)
Accepted(f) == f.src = "returned" /\ f.cmd = "LRW"

-----------------------------------------------------------------------------
Init ==
  /\ slaves = <<>>
  /\ ctl = "idle"
  /\ isPcap = FALSE
  /\ capPc = "none"
  /\ frameIdx = 1
  /\ cur = NoFrame
  /\ stopFlag = FALSE
  /\ read = NoFrame

(* GUI::handleDiscoverButton, sniffer or pcap source (the radio button the *)
(* user checked): the old data source is released and a new PacketSniffer  *)
(* opens the capture (the file from its start), loads the config and       *)
(* discovers the slaves.                                                   *)
Discover ==
  /\ ctl \in {"idle", "discovered"}
  /\ isPcap' \in BOOLEAN
  /\ capPc' = "none"
  /\ frameIdx' = 1
  /\ cur' = NoFrame
  /\ stopFlag' = FALSE
  /\ read' = NoFrame
  /\ \/ \* the capture or the config file cannot be opened: error box
        /\ ctl' = "idle"
        /\ slaves' = <<>>
     \/ \* the config is read; getSlaves
        \E cfg \in ConfigFiles :
          /\ slaves' = SlavesOf(cfg)
          /\ ctl' = CASE cfg = <<>>           -> "idle"  \* "No config file specified"
                      [] DereferencesNull(cfg) -> "crashed"
                      [] OTHER                 -> "discovered"

(* GUI::handleStart, "Start": PacketSniffer::start spawns the thread and   *)
(* never reports an error.                                                 *)
Start ==
  /\ ctl = "discovered"
  /\ ctl' = "running"
  /\ capPc' = "loop"
  /\ UNCHANGED <<slaves, isPcap, frameIdx, cur, stopFlag, read>>

(* Mutant: stop() joins without calling stop_sniff first.                 *)
StopRequestWithoutBreak ==
  /\ ctl = "running"
  /\ ctl' = "stopping"
  /\ UNCHANGED <<slaves, isPcap, capPc, frameIdx, cur, stopFlag, read>>

(* GUI::handleStart, "Stop": PacketSniffer::stop calls stop_sniff ...      *)
StopRequest ==
  /\ ctl = "running"
  /\ ctl' = "stopping"
  /\ stopFlag' = TRUE
  /\ UNCHANGED <<slaves, isPcap, capPc, frameIdx, cur, read>>

(* Mutant: stop() returns without joining the capture thread.             *)
StopJoinNotWaiting ==
  /\ ctl = "stopping"
  /\ ctl' = "discovered"
  /\ UNCHANGED <<slaves, isPcap, capPc, frameIdx, cur, stopFlag, read>>

(* ... and then joins the capture thread.                                  *)
StopJoin ==
  /\ ctl = "stopping"
  /\ capPc = "done"
  /\ ctl' = "discovered"
  /\ capPc' = "none"
  /\ UNCHANGED <<slaves, isPcap, frameIdx, cur, stopFlag, read>>

-----------------------------------------------------------------------------
(* The capture thread, startSnifferLoop: sniff_loop takes the next packet. *)
(* A set break_loop flag ends the loop, and is consumed by it.             *)
CapBreak ==
  /\ capPc = "loop"
  /\ stopFlag
  /\ capPc' = "done"
  /\ stopFlag' = FALSE
  /\ UNCHANGED <<slaves, ctl, isPcap, frameIdx, cur, read>>

(* Mutant: the file position still advances when the end is reached.      *)
CapEndOfFileAdvancing ==
  /\ capPc = "loop"
  /\ ~stopFlag
  /\ isPcap
  /\ frameIdx > Len(Capture)
  /\ capPc' = "done"
  /\ frameIdx' = frameIdx + 1
  /\ UNCHANGED <<slaves, ctl, isPcap, cur, stopFlag, read>>

(* The end of the pcap file ends the loop; the flag is left as it is.      *)
CapEndOfFile ==
  /\ capPc = "loop"
  /\ ~stopFlag
  /\ isPcap
  /\ frameIdx > Len(Capture)
  /\ capPc' = "done"
  /\ UNCHANGED <<slaves, ctl, isPcap, frameIdx, cur, stopFlag, read>>

(* The next frame of the file, or any frame of the bus on a live capture.  *)
CapReceive ==
  /\ capPc = "loop"
  /\ ~stopFlag
  /\ \/ /\ isPcap
        /\ frameIdx <= Len(Capture)
        /\ cur' = Capture[frameIdx]
        /\ frameIdx' = frameIdx + 1
     \/ /\ ~isPcap
        /\ \E f \in Range(Capture) : cur' = f
        /\ UNCHANGED frameIdx
  /\ capPc' = "callback"
  /\ UNCHANGED <<slaves, ctl, isPcap, stopFlag, read>>

(* Mutants: packetCallback without its command filter, or without its     *)
(* source-address filter.                                                  *)
packetCallbackIgnoringCommand ==
  /\ capPc = "callback"
  /\ read' = IF cur.src = "returned" THEN cur ELSE read
  /\ capPc' = "loop"
  /\ UNCHANGED <<slaves, ctl, isPcap, frameIdx, cur, stopFlag>>

packetCallbackIgnoringSource ==
  /\ capPc = "callback"
  /\ read' = IF cur.cmd = "LRW" THEN cur ELSE read
  /\ capPc' = "loop"
  /\ UNCHANGED <<slaves, ctl, isPcap, frameIdx, cur, stopFlag>>

(* PacketSniffer::packetCallback: a frame that is not a returned LRW frame *)
(* is skipped; otherwise the working counter is compared (a mismatch is    *)
(* only printed), every slave copies its RX and TX regions from the        *)
(* datagram, and the UI callback and the publisher see the slaves.         *)
packetCallback ==
  /\ capPc = "callback"
  /\ read' = IF Accepted(cur) THEN cur ELSE read
  /\ capPc' = "loop"
  /\ UNCHANGED <<slaves, ctl, isPcap, frameIdx, cur, stopFlag>>

Next ==
  \/ Discover \/ Start \/ StopRequest \/ StopJoin
  \/ CapBreak \/ CapEndOfFile \/ CapReceive \/ packetCallback

(* The capture thread is scheduled by the OS, and on a live capture of a   *)
(* running bus a frame arrives every cycle; the join is the GUI thread     *)
(* blocked in stop().  The buttons are the user's and have no fairness.    *)
Fairness ==
  /\ WF_vars(CapBreak) /\ WF_vars(CapEndOfFile) /\ WF_vars(CapReceive)
  /\ WF_vars(packetCallback) /\ WF_vars(StopJoin)

Spec == Init /\ [][Next]_vars /\ Fairness

-----------------------------------------------------------------------------
(* Types of the variables.                                                 *)
TypeOK ==
  /\ slaves \in Seq([type : {KELO_DRIVE_SLAVE, ROBILE_BATTERY_SLAVE,
                             KELO_BMS_SLAVE, UNKNOWN_SLAVE},
                     rx : Nat, tx : Nat])
  /\ ctl \in {"idle", "discovered", "running", "stopping", "crashed"}
  /\ isPcap \in BOOLEAN
  /\ capPc \in {"none", "loop", "callback", "done"}
  /\ frameIdx \in 1..(Len(Capture) + 1)
  /\ cur \in Frame \cup {NoFrame}
  /\ stopFlag \in BOOLEAN
  /\ read \in Frame \cup {NoFrame}

(* getSlaves on a config file never dereferences a null slave: every entry *)
(* of the file gets a slave object (packet_sniffer.cpp, getSlaves).        *)
NoNullSlaveDereference == ctl # "crashed"

(* Every slice packetCallback hands to copyData, sizeof the slave's RX and *)
(* TX structs at the config's offsets, lies inside the datagram of the     *)
(* frame the slaves were copied from.                                      *)
InDatagram(s, f) ==
  /\ s.rx + SliceRx[s.type] <= f.len
  /\ s.tx + SliceTx[s.type] <= f.len

SlicesInBounds ==
  read # NoFrame => \A i \in DOMAIN slaves : InDatagram(slaves[i], read)

(* Replaying a pcap file, the slaves are only ever copied from a frame     *)
(* carrying newer bus inputs than the last one: a frame the master has     *)
(* sent but the bus has not yet answered carries the previous cycle's      *)
(* inputs, and must never be shown (packetCallback's source filter).       *)
DeliveredInputsAdvance ==
  [][isPcap /\ isPcap' /\ read # NoFrame /\ read' # NoFrame /\ read' # read
       => read'.inputs > read.inputs]_vars

(* Once stop() has returned, packetCallback never runs: no callback or     *)
(* publish reaches the UI after the GUI shows "Start" again.               *)
NoCallbackAfterStop ==
  [][capPc = "callback" /\ capPc' = "loop"
       => ctl \in {"running", "stopping"}]_vars

(* stop() returns: the capture thread ends after stop_sniff.               *)
StopTerminates == ctl = "stopping" ~> ctl = "discovered"

-----------------------------------------------------------------------------
(* PacketSniffer is a DataSource: the GUI's ctl is the phase (a crashed    *)
(* discovery leaves no source), and packetCallback on a frame it accepts   *)
(* is the callback.                                                        *)
DS == INSTANCE DataSource WITH
        phase <- CASE ctl = "discovered" -> "ready"
                   [] ctl = "running"    -> "acquiring"
                   [] ctl = "stopping"   -> "ending"
                   [] OTHER              -> "inert",
        inCallback <- capPc = "callback" /\ Accepted(cur)

(* The passive source keeps the data-source contract: callbacks only while *)
(* started and not yet stopped, one at a time, and stop() returns.        *)
ImplementsDataSource == DS!Spec

=============================================================================
