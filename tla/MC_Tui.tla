------------------------------- MODULE MC_Tui -------------------------------
(***************************************************************************)
(* Instances of Tui for TLC.                                               *)
(***************************************************************************)
EXTENDS Tui

(* Command lines of up to three options, each given whole, any order:     *)
(* every source and an invalid one, each file option, an interface, a    *)
(* flag, an unknown argument, and a value option left without its value.  *)
Options ==
  {<<"--src", s>> : s \in {"ecat", "sniffer", "pcap", "gui"}}
    \cup {<<"--iface", "eth0">>, <<"--config", "robot.json">>,
          <<"--pcap", "run.pcap">>, <<"--start">>, <<"--help">>}

MCArgvs ==
  {<<>>} \cup {a \o b \o c : a, b, c \in Options \cup {<<>>}}
    \cup {<<"--src", "ecat", "--iface">>, <<"--src">>}

(* The command lines of the three sources, complete.                       *)
MCGoodArgvs ==
  {<<"--src", "ecat", "--iface", "eth0">>,
   <<"--src", "sniffer", "--iface", "eth0", "--config", "robot.json">>,
   <<"--src", "pcap", "--config", "robot.json", "--pcap", "run.pcap">>}

(* A bus without a drive or battery (or a config whose "Slaves" array is *)
(* empty) gives no slaves; one and two slaves let the selection move.     *)
MCSlaveCounts == {0, 1, 2}

(* Two slaves, for the race alone.                                         *)
MCTwoSlaves == {2}

=============================================================================
