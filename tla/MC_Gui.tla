------------------------------ MODULE MC_Gui --------------------------------
(***************************************************************************)
(* Gui with one network interface and one file for every dialog (the      *)
(* checks only ask whether a name is empty or the placeholder), slave     *)
(* lists of none and one (a rediscovery can shrink the list), two       *)
(* queued signals, and the drive masks and words of MC_SlaveBits for the  *)
(* tooltip: every word is checked by EveryTooltipDecodes, one with two    *)
(* bits set (a mode) is shown while the GUI runs.  getSlaves creates the  *)
(* two classes the registry knows, drives and batteries.                   *)
(***************************************************************************)
EXTENDS Gui, MC_SlaveBits

MCInterfaces == {"eth0"}
MCFiles == {"robot.json"}
MCSlaveCounts == {0, 1}
MCShownWords == {12}
MCCreatedTypes == {KELO_DRIVE_SLAVE, ROBILE_BATTERY_SLAVE}

=============================================================================
