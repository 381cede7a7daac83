-------------------------- MODULE ConfigGenerator --------------------------
(***************************************************************************)
(* The offline configuration generator, src/generate_config_file.cpp: it   *)
(* brings a live bus to SAFE_OP with SOEM, and writes, for every device of *)
(* a name it knows, the byte offsets of the device's output (RX) and input *)
(* (TX) process data within the LRW datagram that carries the I/O map.     *)
(* The passive data source slices captured frames with exactly these       *)
(* offsets.                                                                *)
(*                                                                         *)
(* A bus is a sequence of device names; PdoRx and PdoTx give the size, in  *)
(* bytes, of a device's mapped outputs and inputs.                         *)
(***************************************************************************)
EXTENDS Naturals, Sequences, Functions

CONSTANTS PdoRx, PdoTx

(* get_info() accepts these names, and only these.                         *)
GenNames == {"SWMC", "KELO_ROBILE", "KELOD105", "KeloEcPd"}

(* SOEM's ec_config_map lays out the outputs of all devices in bus order,  *)
(* then their inputs; si_PDOassign reports the offset of the first mapped  *)
(* entry relative to the start of the I/O map, i.e. of the LRW datagram.   *)
RxOffset(bus, k) ==
  SumFunctionOnSet([j \in DOMAIN bus |-> PdoRx[bus[j]]], 1..(k-1))

TxOffset(bus, k) ==
  SumFunctionOnSet([j \in DOMAIN bus |-> PdoRx[bus[j]]], DOMAIN bus)
    + SumFunctionOnSet([j \in DOMAIN bus |-> PdoTx[bus[j]]], 1..(k-1))

(* The "Slaves" array written by get_info() for a bus that reached         *)
(* ec_config (a failed SAFE_OP check is only printed): one entry per known *)
(* device, in bus order, with its name and its two offsets.                *)
GeneratedConfig(bus) ==
  LET pos == SelectSeq([i \in DOMAIN bus |-> i], LAMBDA i : bus[i] \in GenNames)
  IN  [j \in DOMAIN pos |-> [name |-> bus[pos[j]],
                             rx   |-> RxOffset(bus, pos[j]),
                             tx   |-> TxOffset(bus, pos[j])]]

=============================================================================
