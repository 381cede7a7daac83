-------------------------------- MODULE Tui ---------------------------------
(***************************************************************************)
(* The terminal UI, src/tui.cpp, as tui_main starts it: TUI::start creates *)
(* the data source the command line selected, discovers the slaves,       *)
(* starts the source and then reads keys until 'q'; meanwhile the source's *)
(* thread calls TUI::dataCallback for every cycle of data.  Both threads   *)
(* use selected_slave, a plain int, without a lock: the key loop moves it  *)
(* left and right, the callback clamps it to the slave list and indexes    *)
(* the list with it.                                                       *)
(*                                                                         *)
(* The TUI's settings come from tui_main's command line (TuiArgs): a     *)
(* command line main rejects ends the program before a TUI is made.        *)
(*                                                                         *)
(* The data source is abstract: "created", "running" when its thread       *)
(* delivers callbacks (an EthercatMaster that never reached OP starts no   *)
(* thread: "silent"), "stopping" once stop() asked its thread to end,      *)
(* "stopped"; "null" is the reset shared_ptr.  The key, in dataCallback,   *)
(* is read at line 109 (the variable names) and again at line 111 (the     *)
(* values), each read a step of its own.                                   *)
(***************************************************************************)
EXTENDS Integers, TuiArgs

CONSTANTS
  Argvs,        \* the command lines tui_main may be given
  SlaveCounts,  \* the sizes getSlaves may return
  KeyBound      \* how far past the list the user may press < or >

VARIABLES
  ecat_src,        \* TUI::ecat_src
  config_file_name,  \* TUI::config_file_name ("" when not set)
  pcap_file_name,    \* TUI::pcap_file_name
  tuiPc,           \* the main thread's place in start()
  source,          \* ecat_data_source
  error,           \* start()'s error flag
  n,               \* slaves.size()
  selected_slave,  \* TUI::selected_slave
  cbPc,            \* the source thread's place in dataCallback
  varsIdx,         \* the index line 109 read
  keyDuringCb      \* a key moved the selection during this callback

vars == <<ecat_src, config_file_name, pcap_file_name, tuiPc, source, error, n, selected_slave, cbPc, varsIdx,
          keyDuringCb>>

-----------------------------------------------------------------------------
(* `idx >= slaves.size()` with an int idx: the int is converted to size_t, *)
(* so a negative index compares as a huge one.                             *)
AtOrPastEnd(idx, size) == idx < 0 \/ idx >= size

(* `selected_slave = slaves.size() - 1`: for an empty list the size_t      *)
(* SIZE_MAX converts back to the int -1.                                   *)
LastIndex(size) == size - 1

-----------------------------------------------------------------------------
(* main(): the arguments are parsed and checked; if they pass, a TUI is    *)
(* made, given the selected settings, and started; if not, main returns    *)
(* 1 ("usage").                                                            *)
Init ==
  /\ \E argv \in Argvs :
       LET opts == ParseArgs(argv)
       IN  /\ ecat_src = opts.src
           /\ config_file_name = opts.config
           /\ pcap_file_name = opts.pcap
           /\ tuiPc = IF Accepted(opts) THEN "create" ELSE "usage"
  /\ source = "null"
  /\ error = FALSE
  /\ n = 0
  /\ selected_slave = 0
  /\ cbPc = "idle"
  /\ varsIdx = 0
  /\ keyDuringCb = FALSE

(* Mutant: a config file that cannot be read resets the source without    *)
(* flagging the error.                                                     *)
CreateSourceConfigErrorUnflagged ==
  /\ tuiPc = "create"
  /\ \/ /\ ecat_src = "ecat"
        /\ source' = "created" /\ error' = FALSE
     \/ /\ ecat_src = "sniffer"
        /\ \/ source' = "created" /\ error' = TRUE
           \/ config_file_name = "" /\ source' = "null" /\ error' = TRUE
           \/ config_file_name # "" /\ source' \in {"null", "created"} /\ error' = FALSE
     \/ /\ ecat_src = "pcap"
        /\ \/ "" \in {config_file_name, pcap_file_name} /\ source' = "null" /\ error' = TRUE
           \/ /\ "" \notin {config_file_name, pcap_file_name}
              /\ source' \in {"null", "created"}
              /\ error' = (source' = "null")
     \/ /\ ecat_src \notin ValidSources
        /\ source' = "null" /\ error' = FALSE
  /\ tuiPc' = IF error' THEN "errorWait" ELSE "discover"
  /\ UNCHANGED <<ecat_src, config_file_name, pcap_file_name, n, selected_slave, cbPc, varsIdx, keyDuringCb>>

(* start(), lines 138-204: the shared_ptr is reset and the selected source *)
(* made.  A sniffer that cannot open its interface is flagged but not      *)
(* reset; one without a config file, or whose config cannot be read, is    *)
(* reset.  A pcap source needs both file names before it is made; opening  *)
(* the file or reading the config can fail.  For any other ecat_src no     *)
(* branch runs: nothing is made and nothing is flagged.                    *)
CreateSource ==
  /\ tuiPc = "create"
  /\ \/ /\ ecat_src = "ecat"
        /\ source' = "created" /\ error' = FALSE
     \/ /\ ecat_src = "sniffer"
        /\ \/ source' = "created" /\ error' = TRUE                 \* cannot open
           \/ config_file_name = "" /\ source' = "null" /\ error' = TRUE
           \/ /\ config_file_name # ""                              \* setConfigFile
              /\ source' \in {"null", "created"}
              /\ error' = (source' = "null")
     \/ /\ ecat_src = "pcap"
        /\ \/ "" \in {config_file_name, pcap_file_name} /\ source' = "null" /\ error' = TRUE
           \/ /\ "" \notin {config_file_name, pcap_file_name}        \* open, setConfigFile
              /\ source' \in {"null", "created"}
              /\ error' = (source' = "null")
     \/ /\ ecat_src \notin ValidSources
        /\ source' = "null" /\ error' = FALSE
  /\ tuiPc' = IF error' THEN "errorWait" ELSE "discover"
  /\ UNCHANGED <<ecat_src, config_file_name, pcap_file_name, n, selected_slave, cbPc, varsIdx, keyDuringCb>>

(* Lines 207-221: setZMQPublish, setDataCallback and getSlaves; an error   *)
(* resets the source.                                                      *)
Discover ==
  /\ tuiPc = "discover"
  /\ \/ /\ source' = "null" /\ error' = TRUE /\ tuiPc' = "errorWait"
        /\ UNCHANGED n
     \/ /\ \E k \in SlaveCounts : n' = k
        /\ tuiPc' = "startSrc"
        /\ UNCHANGED <<source, error>>
  /\ UNCHANGED <<ecat_src, config_file_name, pcap_file_name, selected_slave, cbPc, varsIdx, keyDuringCb>>

(* Lines 222-233: start(); only an EthercatMaster reports an error, and    *)
(* one that does not reach OP starts no thread and reports none.           *)
StartSource ==
  /\ tuiPc = "startSrc"
  /\ \/ /\ ecat_src = "ecat"
        /\ \/ source' = "null" /\ error' = TRUE /\ tuiPc' = "errorWait"
           \/ source' = "silent" /\ tuiPc' = "keys" /\ UNCHANGED error
     \/ source' = "running" /\ tuiPc' = "keys" /\ UNCHANGED error
  /\ UNCHANGED <<ecat_src, config_file_name, pcap_file_name, n, selected_slave, cbPc, varsIdx, keyDuringCb>>

(* A key press moves the selection, whatever the callback is doing.        *)
MovedSelection(d) ==
  /\ tuiPc = "keys"
  /\ selected_slave + d \in (-KeyBound)..(n - 1 + KeyBound)
  /\ selected_slave' = selected_slave + d
  /\ keyDuringCb' = (keyDuringCb \/ cbPc # "idle")
  /\ UNCHANGED <<ecat_src, config_file_name, pcap_file_name, tuiPc, source, error, n, cbPc, varsIdx>>

(* Lines 242-249: KEY_LEFT and KEY_RIGHT.                                  *)
KeyLeft  == MovedSelection(-1)
KeyRight == MovedSelection(1)

(* Line 238 and 251: 'q' ends the loop and stop() asks the source thread   *)
(* to end.                                                                 *)
KeyQuit ==
  /\ tuiPc = "keys"
  /\ tuiPc' = "stopping"
  /\ source' = IF source = "running" THEN "stopping" ELSE source
  /\ UNCHANGED <<ecat_src, config_file_name, pcap_file_name, error, n, selected_slave, cbPc, varsIdx, keyDuringCb>>

(* stop() joins the source thread, which ends between two callbacks.       *)
StopReturn ==
  /\ tuiPc = "stopping"
  /\ cbPc = "idle"
  /\ source' = "stopped"
  /\ tuiPc' = "done"
  /\ UNCHANGED <<ecat_src, config_file_name, pcap_file_name, error, n, selected_slave, cbPc, varsIdx, keyDuringCb>>

(* Lines 255-265: after an error only 'q' ends start().                    *)
ErrorQuit ==
  /\ tuiPc = "errorWait"
  /\ tuiPc' = "done"
  /\ UNCHANGED <<ecat_src, config_file_name, pcap_file_name, source, error, n, selected_slave, cbPc, varsIdx,
                 keyDuringCb>>

-----------------------------------------------------------------------------
(* Mutant: the source's thread keeps calling back after stop() asked it    *)
(* to end.                                                                 *)
CbEnterIgnoringStop ==
  /\ source \in {"running", "stopping"}
  /\ cbPc = "idle"
  /\ cbPc' = "clampLow"
  /\ keyDuringCb' = FALSE
  /\ UNCHANGED <<ecat_src, config_file_name, pcap_file_name, tuiPc, source, error, n, selected_slave, varsIdx>>

(* The source thread calls dataCallback once per cycle while running.      *)
CbEnter ==
  /\ source = "running"
  /\ cbPc = "idle"
  /\ cbPc' = "clampLow"
  /\ keyDuringCb' = FALSE
  /\ UNCHANGED <<ecat_src, config_file_name, pcap_file_name, tuiPc, source, error, n, selected_slave, varsIdx>>

(* Lines 81-84.                                                            *)
CbClampLow ==
  /\ cbPc = "clampLow"
  /\ selected_slave' = IF selected_slave < 0 THEN 0 ELSE selected_slave
  /\ cbPc' = "clampHigh"
  /\ UNCHANGED <<ecat_src, config_file_name, pcap_file_name, tuiPc, source, error, n, varsIdx, keyDuringCb>>

(* Mutant: the upper clamp lets the index equal the size.                  *)
CbClampHighOffByOne ==
  /\ cbPc = "clampHigh"
  /\ selected_slave' = IF selected_slave < 0 \/ selected_slave > n
                       THEN LastIndex(n) ELSE selected_slave
  /\ cbPc' = "readVars"
  /\ UNCHANGED <<ecat_src, config_file_name, pcap_file_name, tuiPc, source, error, n, varsIdx, keyDuringCb>>

(* Lines 85-88.                                                            *)
CbClampHigh ==
  /\ cbPc = "clampHigh"
  /\ selected_slave' = IF AtOrPastEnd(selected_slave, n)
                       THEN LastIndex(n) ELSE selected_slave
  /\ cbPc' = "readVars"
  /\ UNCHANGED <<ecat_src, config_file_name, pcap_file_name, tuiPc, source, error, n, varsIdx, keyDuringCb>>

(* Lines 89-110: the names are drawn and slaves[selected_slave] gives the  *)
(* variable names.                                                         *)
CbReadVars ==
  /\ cbPc = "readVars"
  /\ varsIdx' = selected_slave
  /\ cbPc' = "readVals"
  /\ UNCHANGED <<ecat_src, config_file_name, pcap_file_name, tuiPc, source, error, n, selected_slave, keyDuringCb>>

(* Lines 111-134: slaves[selected_slave] gives the values, drawn next to   *)
(* the names.                                                              *)
CbReadVals ==
  /\ cbPc = "readVals"
  /\ cbPc' = "idle"
  /\ UNCHANGED <<ecat_src, config_file_name, pcap_file_name, tuiPc, source, error, n, selected_slave, varsIdx,
                 keyDuringCb>>

(* tui_main returns once start() has, or after printing the usage.         *)
Terminated ==
  /\ tuiPc \in {"done", "usage"}
  /\ UNCHANGED vars

Next ==
  \/ CreateSource \/ Discover \/ StartSource
  \/ KeyLeft \/ KeyRight \/ KeyQuit \/ StopReturn \/ ErrorQuit
  \/ CbEnter \/ CbClampLow \/ CbClampHigh \/ CbReadVars \/ CbReadVals
  \/ Terminated

(* The main thread and the source thread are scheduled by the OS; the     *)
(* keys are the user's and have no fairness.                               *)
Fairness ==
  /\ WF_vars(CreateSource) /\ WF_vars(Discover) /\ WF_vars(StartSource)
  /\ WF_vars(StopReturn)
  /\ WF_vars(CbClampLow) /\ WF_vars(CbClampHigh) /\ WF_vars(CbReadVars)
  /\ WF_vars(CbReadVals)

Spec == Init /\ [][Next]_vars /\ Fairness

-----------------------------------------------------------------------------
(* start() never calls into a reset data source: every path that resets   *)
(* ecat_data_source or fails to make one sets the error flag, which skips  *)
(* setZMQPublish, getSlaves, start and stop; and a source for which        *)
(* start() has no branch never reaches it, because main rejects a command  *)
(* line without one.                                                       *)
NoNullSourceUse ==
  tuiPc \in {"discover", "startSrc", "keys", "stopping"} => source # "null"

(* When no key is pressed while dataCallback runs, the two clamps leave a  *)
(* non-empty list's selection on one of its slaves.                        *)
SelectionClampedForDraw ==
  cbPc = "readVars" /\ ~keyDuringCb /\ n > 0 => selected_slave \in 0..(n - 1)

(* dataCallback only indexes the slave list with the index of a slave:     *)
(* slaves[selected_slave] at line 109 is in bounds.                        *)
IndexedSlaveExists ==
  cbPc = "readVals" => varsIdx \in 0..(n - 1)

(* Once 'q' is pressed, stop() returns and the program ends.               *)
QuitReturns == tuiPc = "stopping" ~> tuiPc = "done"

=============================================================================
