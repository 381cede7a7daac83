----------------------------- MODULE SlaveBits -----------------------------
(***************************************************************************)
(* The bit-field decoding of the slave models: areBitsParsable and         *)
(* parseBits of KeloDriveSlave, RobileBatterySlave and KeloBMSSlave, and   *)
(* their one use, the tooltip GUI::handleDataChanged sets on the label of  *)
(* a parsable variable (src/gui.cpp).                                      *)
(*                                                                         *)
(* parseBits fills two parallel vectors, the flag names and their values,  *)
(* that the tooltip joins line by line.  A value is std::to_string of an   *)
(* integer (or the literal "0"/"1"); it is kept as that integer.           *)
(*                                                                         *)
(* The masks of the drive, the COM1_ and STAT1_ macros, are defined in     *)
(* KeloDriveAPI.h,                                                         *)
(* which is not part of the repository: they are the constant DriveMask.   *)
(***************************************************************************)
EXTENDS Naturals, Sequences, FiniteSets, Functions, Bitwise, SlaveRegistry

CONSTANTS
  DriveMask,  \* KeloDriveAPI.h: name of a COM1_/STAT1_ macro -> its value
  Words       \* the 16-bit values a variable may hold

VARIABLES
  shownType,  \* the slave type of the label whose tooltip was set last
  shownVar,   \* its variable name
  shownWord,  \* the value parsed
  tipVars,    \* the vars vector parseBits returned
  tipVals     \* the vals vector parseBits returned

vars == <<shownType, shownVar, shownWord, tipVars, tipVals>>

(* The variables of each slave class whose label gets a tooltip: RX and TX *)
(* variable names of the slave's getRxVariables/getTxVariables that        *)
(* handleDataChanged asks areBitsParsable about, one non-parsable each.    *)
LabelVars ==
  [t \in {KELO_DRIVE_SLAVE, ROBILE_BATTERY_SLAVE, KELO_BMS_SLAVE} |->
     CASE t = KELO_DRIVE_SLAVE     -> {"command1", "status1", "status2"}
       [] t = ROBILE_BATTERY_SLAVE -> {"error", "warning", "Status"}
       [] OTHER                    -> {"status1", "status2"}]

-----------------------------------------------------------------------------
(* Mutant: the masked bits are pushed without the shift.                   *)
FlagsUnshifted(data, masks, shifts) ==
  [k \in DOMAIN masks |-> data & masks[k]]

(* (data & mask) >> shift for each flag, in push order.                    *)
Flags(data, masks, shifts) ==
  [k \in DOMAIN masks |-> shiftR(data & masks[k], shifts[k])]

DriveStatusNames ==
  <<"ENABLED1", "ENABLED2", "ENC_1_OK", "ENC_2_OK", "ENC_PIVOT_OK",
    "UNDERVOLTAGE", "OVERVOLTAGE", "OVERCURRENT_1", "OVERCURRENT_2",
    "OVERTEMP_1", "OVERTEMP_2", "ENABLED_GRIP", "INPOS_GRIP",
    "OVERLOAD_GRIP", "DETECT">>

ModeNames == <<"MODE_TORQUE", "MODE_DTORQUE", "MODE_VELOCITY", "MODE_DVELOCITY">>

(* Mutant: the mode field masked where the comment puts it, bits 3 and 4.  *)
DriveModeValsCommentedBits(data) ==
  LET mode == data & (3 * 8)
  IN  CASE mode = DriveMask["COM1_MODE_TORQUE"]    -> <<1, 0, 0, 0>>
        [] mode = DriveMask["COM1_MODE_DTORQUE"]   -> <<0, 1, 0, 0>>
        [] mode = DriveMask["COM1_MODE_VELOCITY"]  -> <<0, 0, 1, 0>>
        [] mode = DriveMask["COM1_MODE_DVELOCITY"] -> <<0, 0, 0, 1>>
        [] OTHER                                   -> <<0, 0, 0, 0>>

(* The mode field, masked with 0x3 << 2, as four one-hot values.           *)
DriveModeVals(data) ==
  LET mode == data & (3 * 4)
  IN  CASE mode = DriveMask["COM1_MODE_TORQUE"]    -> <<1, 0, 0, 0>>
        [] mode = DriveMask["COM1_MODE_DTORQUE"]   -> <<0, 1, 0, 0>>
        [] mode = DriveMask["COM1_MODE_VELOCITY"]  -> <<0, 0, 1, 0>>
        [] mode = DriveMask["COM1_MODE_DVELOCITY"] -> <<0, 0, 0, 1>>
        [] OTHER                                   -> <<0, 0, 0, 0>>

(* KeloDriveSlave::parseBits: the result is <<vars, vals>>.                *)
DriveParseBits(data, var_name) ==
  CASE var_name = "command1" ->
         << <<"ENABLE1", "ENABLE2">> \o ModeNames
              \o <<"EMERGENCY1", "EMERGENCY2", "ENABLESERVO", "SERVOCLOSE", "USE_TS">>,
            Flags(data, <<DriveMask["COM1_ENABLE1"], DriveMask["COM1_ENABLE2"]>>, <<0, 1>>)
              \o DriveModeVals(data)
              \o Flags(data, <<DriveMask["COM1_EMERGENCY1"], DriveMask["COM1_EMERGENCY2"],
                               DriveMask["COM1_ENABLESERVO"], DriveMask["COM1_SERVOCLOSE"],
                               DriveMask["COM1_USE_TS"]>>, <<4, 5, 10, 11, 15>>) >>
    [] var_name = "status1" ->
         << DriveStatusNames,
            Flags(data, [k \in DOMAIN DriveStatusNames |->
                           DriveMask["STAT1_" \o DriveStatusNames[k]]],
                  [k \in DOMAIN DriveStatusNames |-> k - 1]) >>
    [] OTHER -> << <<>>, <<>> >>

(* RobileBatterySlave::parseBits, with the masks written in the source.    *)
BatteryParseBits(data, var_name) ==
  CASE var_name = "error" ->
         << <<"Low Battery", "Empty Frame", "Wrong Frame", "Wrong Charger",
              "Overload CHG", "Over current", "Watchdog">>,
            Flags(data, <<1, 2, 4, 8, 16, 32, 64>>, <<0, 1, 2, 3, 4, 5, 6>>) >>
    [] var_name = "warning" ->
         << <<"Over current", "Shutdown">>, Flags(data, <<1, 2>>, <<0, 1>>) >>
    [] OTHER -> << <<>>, <<>> >>

(* KeloDriveSlave::areBitsParsable.                                        *)
DriveBitsParsable(var_name) == var_name \in {"command1", "status1"}

(* RobileBatterySlave::areBitsParsable.                                    *)
BatteryBitsParsable(var_name) == var_name \in {"error", "warning"}

(* The virtual call slaves[i]->areBitsParsable (KeloBMSSlave's is always   *)
(* false).                                                                 *)
areBitsParsable(type, var_name) ==
  CASE type = KELO_DRIVE_SLAVE     -> DriveBitsParsable(var_name)
    [] type = ROBILE_BATTERY_SLAVE -> BatteryBitsParsable(var_name)
    [] OTHER                       -> FALSE

(* The virtual call slaves[i]->parseBits (KeloBMSSlave's does nothing).    *)
parseBits(type, data, var_name) ==
  CASE type = KELO_DRIVE_SLAVE     -> DriveParseBits(data, var_name)
    [] type = ROBILE_BATTERY_SLAVE -> BatteryParseBits(data, var_name)
    [] OTHER                       -> << <<>>, <<>> >>

-----------------------------------------------------------------------------
(* No tooltip has been set yet.                                            *)
Init ==
  /\ shownType = UNKNOWN_SLAVE
  /\ shownVar = ""
  /\ shownWord = 0
  /\ tipVars = <<>>
  /\ tipVals = <<>>

(* handleDataChanged, for one label showing one of the words ws: if the   *)
(* variable's bits are parsable, its value is parsed and the tooltip set   *)
(* from vars and vals.                                                     *)
SetTooltipOf(ws) ==
  \E t \in DOMAIN LabelVars : \E v \in LabelVars[t], w \in ws :
    /\ areBitsParsable(t, v)
    /\ LET r == parseBits(t, w, v)
       IN  /\ tipVars' = r[1]
           /\ tipVals' = r[2]
    /\ shownType' = t
    /\ shownVar' = v
    /\ shownWord' = w

-----------------------------------------------------------------------------
(* The reference: bit k of a word, by arithmetic.                          *)
RefBit(data, k) == (data \div 2^k) % 2

(* The bit a single-bit mask selects.                                      *)
MaskBit(mask) == CHOOSE k \in 0..15 : 2^k = mask

(* The flags each parsable variable documents: for the drive, every COM1_  *)
(* or STAT1_ macro of KeloDriveAPI.h; the battery's header is not in the   *)
(* repository, so its flags are bits 0.. in the order the source lists.    *)
BatteryDoc(v) ==
  IF v = "error"
  THEN <<"Low Battery", "Empty Frame", "Wrong Frame", "Wrong Charger",
         "Overload CHG", "Over current", "Watchdog">>
  ELSE <<"Over current", "Shutdown">>

Prefix(v) == IF v = "command1" THEN "COM1_" ELSE "STAT1_"

DriveDoc(v) ==
  {n \in {"ENABLE1", "ENABLE2", "EMERGENCY1", "EMERGENCY2", "ENABLESERVO",
          "SERVOCLOSE", "USE_TS"} \cup Range(ModeNames) \cup Range(DriveStatusNames) :
     Prefix(v) \o n \in DOMAIN DriveMask}

(* What a flag named n of variable v must show for the word w.             *)
RefValue(t, v, n, w) ==
  IF t = KELO_DRIVE_SLAVE
  THEN IF n \in Range(ModeNames)
       THEN IF ((w \div 4) % 4) * 4 = DriveMask["COM1_" \o n] THEN 1 ELSE 0
       ELSE RefBit(w, MaskBit(DriveMask[Prefix(v) \o n]))
  ELSE RefBit(w, (CHOOSE k \in DOMAIN BatteryDoc(v) : BatteryDoc(v)[k] = n) - 1)

(* Types of the variables.                                                 *)
TypeOK ==
  /\ shownType \in {UNKNOWN_SLAVE} \cup DOMAIN LabelVars
  /\ shownWord \in Words \cup {0}
  /\ tipVars \in Seq(STRING)
  /\ tipVals \in Seq(0..1)

(* A tooltip for variable v of a slave of type t showing word w lists     *)
(* each documented flag exactly once, next to the value of that flag's     *)
(* bits in w; for the drive's command word exactly the mode the two-bit    *)
(* field encodes is 1.                                                     *)
Decodes(t, v, w, vs, vals) ==
  /\ Len(vals) = Len(vs)
  /\ Len(vs) = Cardinality(Range(vs))
  /\ Range(vs) = IF t = KELO_DRIVE_SLAVE THEN DriveDoc(v) ELSE Range(BatteryDoc(v))
  /\ \A i \in DOMAIN vs : vals[i] = RefValue(t, v, vs[i], w)

(* Every tooltip parseBits gives for a parsable variable holding any word *)
(* of Words decodes that word.                                             *)
ParseBitsDecodes ==
  \A t \in DOMAIN LabelVars : \A v \in LabelVars[t], w \in Words :
    areBitsParsable(t, v) => Decodes(t, v, w, parseBits(t, w, v)[1], parseBits(t, w, v)[2])

=============================================================================
