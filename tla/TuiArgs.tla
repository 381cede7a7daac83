------------------------------ MODULE TuiArgs ------------------------------
(***************************************************************************)
(* The command line of the terminal UI, main() in src/tui_main.cpp: the    *)
(* loop over argv that fills the options, and the checks that follow it    *)
(* before a TUI is made.  argv is the sequence of arguments after the      *)
(* program name; an argument is a string, and only its equality with the   *)
(* option names matters.  The result is a record of the options, with ok  *)
(* FALSE where main prints the usage and returns 1.                        *)
(***************************************************************************)
EXTENDS Naturals, Sequences

(* The options followed by a value, and the option field each one sets.   *)
ValueField ==
  [o \in {"--src", "--iface", "--config", "--pcap", "--zmq_port"} |->
     CASE o = "--src"    -> "src"
       [] o = "--iface"  -> "iface"
       [] o = "--config" -> "config"
       [] o = "--pcap"   -> "pcap"
       [] OTHER          -> "zmq_port"]

ValidSources == {"ecat", "sniffer", "pcap"}

(* The locals of main() before the loop; "" is an empty std::string.     *)
NoOptions ==
  [ok |-> TRUE, src |-> "", iface |-> "", config |-> "", pcap |-> "",
   start |-> FALSE, zmq_port |-> "9872", publish_zmq |-> FALSE]

(* The for loop from argument i on: a value option takes the next         *)
(* argument whatever it is (the `argc <= i+1` check only catches a        *)
(* missing one), --src only one of the three sources; any other argument  *)
(* is an error.                                                           *)
RECURSIVE ParseFrom(_, _, _)
ParseFrom(argv, i, opts) ==
  IF i > Len(argv) THEN opts
  ELSE CASE argv[i] \in DOMAIN ValueField ->
              IF \/ Len(argv) <= i
                 \/ argv[i] = "--src" /\ argv[i + 1] \notin ValidSources
              THEN [opts EXCEPT !.ok = FALSE]
              ELSE ParseFrom(argv, i + 2,
                             [opts EXCEPT ![ValueField[argv[i]]] = argv[i + 1]])
         [] argv[i] = "--start" ->
              ParseFrom(argv, i + 1, [opts EXCEPT !.start = TRUE])
         [] argv[i] = "--publish_zmq" ->
              ParseFrom(argv, i + 1, [opts EXCEPT !.publish_zmq = TRUE])
         [] OTHER -> [opts EXCEPT !.ok = FALSE]

ParseArgs(argv) == ParseFrom(argv, 1, NoOptions)

(* Mutant: main goes on without a --src.                                  *)
ValidatedWithoutSource(opts) ==
  /\ opts.src \in {"ecat", "sniffer"} => opts.iface # ""
  /\ opts.src \in {"sniffer", "pcap"} => opts.config # ""
  /\ opts.src = "pcap" => opts.pcap # ""

(* The checks after the loop: a source is required, a network interface  *)
(* for ecat and sniffer, a config file for sniffer and pcap, and a pcap   *)
(* file for pcap.                                                         *)
Validated(opts) ==
  /\ opts.src # ""
  /\ opts.src \in {"ecat", "sniffer"} => opts.iface # ""
  /\ opts.src \in {"sniffer", "pcap"} => opts.config # ""
  /\ opts.src = "pcap" => opts.pcap # ""

(* main() goes on to TUI::start with these options.                       *)
Accepted(opts) == opts.ok /\ Validated(opts)

=============================================================================
