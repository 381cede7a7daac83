------------------------- MODULE MC_EthercatMaster -------------------------
(***************************************************************************)
(* Model-checking instance of EthercatMaster: a bus with a drive, a device *)
(* of a type the registry does not know, and a battery, so that discovery *)
(* skips a device and a torn copy of two slaves is possible.              *)
(***************************************************************************)
EXTENDS EthercatMaster

MCTopology == <<"KELOD105", "EK1100", "KELO_ROBILE">>

(* The program run as the terminal UI, as the Qt GUI, or either.          *)
MCTui     == {"tui"}
MCGui     == {"gui"}
MCBothUIs == {"tui", "gui"}

=============================================================================
