------------------------------ MODULE DataSource -----------------------------
(***************************************************************************)
(* What every data source promises its UI: the contract of the abstract    *)
(* class EthercatDataSource (src/include/ethercat_data_source.h), which    *)
(* EthercatMaster and PacketSniffer implement and GUI and TUI drive.       *)
(*                                                                         *)
(* A source is "inert" (no slaves, or no source at all), "ready" after a   *)
(* successful getSlaves, "acquiring" after start, and "ending" while       *)
(* stop() is inside its join.  The UI's data callback may begin only       *)
(* while acquiring or ending, at most one at a time, and stop() returns    *)
(* only when no callback is running; after that none begins until the     *)
(* next start.  stop() returns, even while the source keeps trying to      *)
(* deliver.                                                                *)
(***************************************************************************)
VARIABLES
  phase,       \* "inert", "ready", "acquiring" or "ending"
  inCallback   \* (ui->*callback_fn)(slaves) is running

vars == <<phase, inCallback>>

Init ==
  /\ phase = "inert"
  /\ inCallback = FALSE

(* getSlaves, or the UI dropping the source: a new slave list or none.     *)
Discover ==
  /\ phase \in {"inert", "ready"}
  /\ phase' \in {"inert", "ready"}
  /\ UNCHANGED inCallback

(* start: acquisition begins.                                              *)
Begin ==
  /\ phase = "ready"
  /\ phase' = "acquiring"
  /\ UNCHANGED inCallback

(* The source's thread calls the UI back ...                               *)
CallbackBegin ==
  /\ phase \in {"acquiring", "ending"}
  /\ ~inCallback
  /\ inCallback' = TRUE
  /\ UNCHANGED phase

(* ... and the callback returns.                                           *)
CallbackEnd ==
  /\ inCallback
  /\ inCallback' = FALSE
  /\ UNCHANGED phase

(* stop() asks the source's threads to end ...                             *)
EndRequest ==
  /\ phase = "acquiring"
  /\ phase' = "ending"
  /\ UNCHANGED inCallback

(* ... and returns once they have; with nothing to halt it returns at once.*)
EndReturn ==
  /\ phase = "ending"
  /\ ~inCallback
  /\ phase' = "ready"
  /\ UNCHANGED inCallback

EndNow ==
  /\ phase = "acquiring"
  /\ ~inCallback
  /\ phase' = "ready"
  /\ UNCHANGED inCallback

Next ==
  \/ Discover \/ Begin \/ CallbackBegin \/ CallbackEnd
  \/ EndRequest \/ EndReturn \/ EndNow

(* A callback returns; stop() returns even if deliveries keep starting and *)
(* ending around it, so it is strongly fair.                               *)
Spec == Init /\ [][Next]_vars /\ WF_vars(CallbackEnd) /\ SF_vars(EndReturn)

=============================================================================
