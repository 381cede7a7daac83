--------------------------- MODULE MC_SlaveBits ----------------------------
(***************************************************************************)
(* SlaveBits with the masks of KeloDriveAPI.h (KELO Tulip's drive API: one *)
(* bit per flag, the mode a two-bit field at bit 2) and, as the words a    *)
(* variable may hold, 0, every single-bit word and 12 (both mode bits),   *)
(* and the complement of each: every flag is seen set alone and cleared    *)
(* among set ones, and every mode value (0, 4, 8, 12) occurs.              *)
(***************************************************************************)
EXTENDS SlaveBits

MCDriveMask ==
  LET stat == <<"ENABLED1", "ENABLED2", "ENC_1_OK", "ENC_2_OK", "ENC_PIVOT_OK",
                "UNDERVOLTAGE", "OVERVOLTAGE", "OVERCURRENT_1", "OVERCURRENT_2",
                "OVERTEMP_1", "OVERTEMP_2", "ENABLED_GRIP", "INPOS_GRIP",
                "OVERLOAD_GRIP", "DETECT">>
      com == [n \in {"ENABLE1", "ENABLE2", "MODE_TORQUE", "MODE_DTORQUE",
                     "MODE_VELOCITY", "MODE_DVELOCITY", "EMERGENCY1",
                     "EMERGENCY2", "ENABLESERVO", "SERVOCLOSE", "USE_TS"} |->
                CASE n = "ENABLE1"        -> 1
                  [] n = "ENABLE2"        -> 2
                  [] n = "MODE_TORQUE"    -> 0
                  [] n = "MODE_DTORQUE"   -> 4
                  [] n = "MODE_VELOCITY"  -> 8
                  [] n = "MODE_DVELOCITY" -> 12
                  [] n = "EMERGENCY1"     -> 16
                  [] n = "EMERGENCY2"     -> 32
                  [] n = "ENABLESERVO"    -> 1024
                  [] n = "SERVOCLOSE"     -> 2048
                  [] OTHER                -> 32768]
  IN  [m \in {"COM1_" \o n : n \in DOMAIN com} \cup
             {"STAT1_" \o stat[k] : k \in DOMAIN stat} |->
         IF \E n \in DOMAIN com : m = "COM1_" \o n
         THEN com[CHOOSE n \in DOMAIN com : m = "COM1_" \o n]
         ELSE 2^((CHOOSE k \in DOMAIN stat : m = "STAT1_" \o stat[k]) - 1)]

SparseWords == {2^i : i \in 0..15} \cup {0, 12}

MCWords == SparseWords \cup {65535 - w : w \in SparseWords}

=============================================================================
