--------------------------- MODULE SlaveRegistry ---------------------------
(***************************************************************************)
(* The device-type registry shared by both data sources: the type tags of  *)
(* include/ethercat_slave.h and getSlaveType() of                          *)
(* src/ethercat_data_source.cpp, which classifies a device by the exact    *)
(* name it advertises.  Device names are strings; a bus or a config file   *)
(* is a sequence of them.                                                  *)
(***************************************************************************)
EXTENDS Sequences

KELO_DRIVE_SLAVE     == 1
ROBILE_BATTERY_SLAVE == 2
KELO_BMS_SLAVE       == 3

(* getSlaveType returns -1 through a uint8_t, i.e. 255, for any other name. *)
UNKNOWN_SLAVE == 255

getSlaveType(name) ==
  CASE name = "KELO_ROBILE"            -> ROBILE_BATTERY_SLAVE
    [] name \in {"SWMC", "KELOD105"}    -> KELO_DRIVE_SLAVE
    [] OTHER                            -> UNKNOWN_SLAVE

(* The positions of a device list whose type is in the set `accepted`,     *)
(* in list order: the slaves a discovery pass creates.                     *)
KnownPositions(devices, accepted) ==
  SelectSeq([i \in DOMAIN devices |-> i],
            LAMBDA i : getSlaveType(devices[i]) \in accepted)

=============================================================================
