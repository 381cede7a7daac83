------------------------- MODULE MC_PacketSniffer --------------------------
(***************************************************************************)
(* Instances of PacketSniffer for TLC.  The config file is the one         *)
(* ConfigGenerator writes for a bus, and the capture is what a running     *)
(* SOEM master puts on the wire of a bus: per cycle the LRW frame as sent, *)
(* the same frame returned with this cycle's inputs, and one frame of      *)
(* another command (the AL status read).  Sizes are in abstract bytes.     *)
(***************************************************************************)
EXTENDS PacketSniffer, ConfigGenerator

Names == {"KELOD105", "SWMC", "EK1100", "KELO_ROBILE", "KeloEcPd"}

(* Mapped output and input sizes of each device.                           *)
MCPdoRx == [n \in Names |-> CASE n \in {"KELOD105", "SWMC"} -> 2
                              [] n = "KELO_ROBILE"          -> 1
                              [] n = "KeloEcPd"             -> 2
                              [] OTHER                      -> 0]
MCPdoTx == [n \in Names |-> CASE n \in {"KELOD105", "SWMC"} -> 3
                              [] n = "KELO_ROBILE"          -> 2
                              [] n = "KeloEcPd"             -> 4
                              [] OTHER                      -> 0]

(* The slave classes' structs match the devices' mappings.                 *)
MCSliceRx == [t \in {KELO_DRIVE_SLAVE, ROBILE_BATTERY_SLAVE, KELO_BMS_SLAVE} |->
                CASE t = KELO_DRIVE_SLAVE -> 2 [] t = ROBILE_BATTERY_SLAVE -> 1
                  [] OTHER -> 2]
MCSliceTx == [t \in {KELO_DRIVE_SLAVE, ROBILE_BATTERY_SLAVE, KELO_BMS_SLAVE} |->
                CASE t = KELO_DRIVE_SLAVE -> 3 [] t = ROBILE_BATTERY_SLAVE -> 2
                  [] OTHER -> 4]

(* The length of the LRW datagram SOEM sends: the whole I/O map.          *)
IOmapSize(bus) == TxOffset(bus, Len(bus) + 1)

(* The frames a master exchanging with `bus` for `n` cycles puts on the    *)
(* wire.  The AL status read is a 2-byte BRD.                              *)
BusCapture(bus, n) ==
  [k \in 1..(3 * n) |->
     LET c == (k - 1) \div 3 + 1
     IN  CASE (k - 1) % 3 = 0 -> [src |-> "master", cmd |-> "LRW",
                                  len |-> IOmapSize(bus), inputs |-> c - 1]
           [] (k - 1) % 3 = 1 -> [src |-> "returned", cmd |-> "LRW",
                                  len |-> IOmapSize(bus), inputs |-> c]
           [] OTHER           -> [src |-> "returned", cmd |-> "other",
                                  len |-> 2, inputs |-> 0]]

(* A drive, a coupler without process data, and a battery.                 *)
MCBus == <<"KELOD105", "EK1100", "KELO_ROBILE">>

MCConfig  == GeneratedConfig(MCBus)
MCCapture == BusCapture(MCBus, 3)

(* A recording of six cycles: a stop, a restart and the end of the file   *)
(* can fall between any two frames of it.                                  *)
MCFileCapture == BusCapture(MCBus, 6)

(* The user may also select a file whose document is empty ({} or null): *)
(* config.empty() holds and getSlaves reports "No config file specified". *)
(* A document {"Slaves": []} is not empty and would give no slaves and no *)
(* error; it is not among the files.                                       *)
MCConfigFiles == {MCConfig, <<>>}

(* The same robot after its battery was removed: the config above is kept. *)
MCChangedCapture == BusCapture(<<"KELOD105", "EK1100">>, 1)

(* A drive next to a KELO battery management board.                        *)
MCBmsConfigFiles == {GeneratedConfig(<<"KELOD105", "KeloEcPd">>)}

=============================================================================
