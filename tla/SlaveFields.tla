---------------------------- MODULE SlaveFields ----------------------------
(***************************************************************************)
(* What each slave class says about its process data, and how the GUI and *)
(* the ZMQ publisher read it: the name, unit and value lists of            *)
(* KeloDriveSlave, RobileBatterySlave and KeloBMSSlave (the getters        *)
(* getRxVariables ... getTxValues), their convertToJson, and the walk over *)
(* a group box's labels in GUI::handleDataChanged (src/gui.cpp).           *)
(*                                                                         *)
(* A value is kept as the struct member it is read from (std::to_string   *)
(* of rx.<member> or tx.<member>); a JSON object as a function from keys  *)
(* to members.  A Qt object name is a pair: <<"", "">> for an empty name,  *)
(* <<"RX", v>> for "RX" + v and <<"TX", v>> for "TX" + v.                 *)
(***************************************************************************)
EXTENDS Naturals, Sequences, SequencesExt, SlaveRegistry

SlaveTypes == {KELO_DRIVE_SLAVE, ROBILE_BATTERY_SLAVE, KELO_BMS_SLAVE}

(* The position of the first e in s.                                       *)
FirstIndex(s, e) == CHOOSE j \in DOMAIN s : s[j] = e /\ \A i \in 1..j - 1 : s[i] # e

-----------------------------------------------------------------------------
(* KeloDriveSlave (src/kelo_drive_slave.cpp).                              *)
KeloDrive_rx_variables ==
  <<"command1", "command2", "setpoint1", "setpoint2", "limit1_p",
    "limit1_n", "limit2_p", "limit2_n", "timestamp">>

KeloDrive_rx_units ==
  <<"", "", "", "", "", "", "", "", "[ns]">>

KeloDrive_tx_variables ==
  <<"status1", "status2", "sensor_ts", "setpoint_ts", "encoder_1",
    "velocity_1", "current_1_d", "current_1_q", "current_1_u",
    "current_1_v", "current_1_w", "voltage_1", "voltage_1_u", "voltage_1_v",
    "voltage_1_w", "temperature_1", "encoder_2", "velocity_2",
    "current_2_d", "current_2_q", "current_2_u", "current_2_v",
    "current_2_w", "voltage_2", "voltage_2_u", "voltage_2_v", "voltage_2_w",
    "temperature_2", "encoder_pivot", "velocity_pivot", "voltage_bus",
    "imu_ts", "accel_x", "accel_y", "accel_z", "gyro_x", "gyro_y", "gyro_z",
    "temperature_imu", "pressure", "current_in">>

KeloDrive_tx_units ==
  <<"", "", "[ns]", "[ns]", "[rad]", "[rad/s]", "[A]", "[A]", "[A]", "[A]",
    "[A]", "[V]", "[V]", "[V]", "[V]", "[K]", "[rad]", "[rad/s]", "[A]",
    "[A]", "[A]", "[A]", "[A]", "[V]", "[V]", "[V]", "[V]", "[K]", "[rad]",
    "[rad/s]", "[V]", "[ns]", "[m/s^2]", "[m/s^2]", "[m/s^2]", "[rad/s]",
    "[rad/s]", "[rad/s]", "[K]", "[Pa]", "[A]">>

KeloDrive_getRxValues ==
  <<"command1", "command2", "setpoint1", "setpoint2", "limit1_p",
    "limit1_n", "limit2_p", "limit2_n", "timestamp">>

KeloDrive_getTxValues ==
  <<"status1", "status2", "sensor_ts", "setpoint_ts", "encoder_1",
    "velocity_1", "current_1_d", "current_1_q", "current_1_u",
    "current_1_v", "current_1_w", "voltage_1", "voltage_1_u", "voltage_1_v",
    "voltage_1_w", "temperature_1", "encoder_2", "velocity_2",
    "current_2_d", "current_2_q", "current_2_u", "current_2_v",
    "current_2_w", "voltage_2", "voltage_2_u", "voltage_2_v", "voltage_2_w",
    "temperature_2", "encoder_pivot", "velocity_pivot", "voltage_bus",
    "imu_ts", "accel_x", "accel_y", "accel_z", "gyro_x", "gyro_y", "gyro_z",
    "temperature_imu", "pressure", "current_in">>

-----------------------------------------------------------------------------
(* RobileBatterySlave (src/robile_battery_slave.cpp).                      *)
RobileBattery_rx_variables ==
  <<"command1", "command2", "shutdown", "pwr_device_id">>

RobileBattery_rx_units ==
  <<"", "", "", "">>

RobileBattery_tx_variables ==
  <<"timestamp", "status", "error", "warning", "output_current",
    "output_voltage", "output_power", "aux_port_current", "generic_data1",
    "generic_data2", "bmsm_pwr_device_id", "bmsm_status", "bmsm_voltage",
    "bmsm_current", "bmsm_temperature", "bmsm_soc", "bmsm_sn",
    "bmsm_bat_data1", "bmsm_bat_data2">>

RobileBattery_tx_units ==
  <<"[ms]", "", "", "", "[A]", "[V]", "[W]", "[A]", "", "", "", "", "[V]",
    "[A]", "[K]", "", "", "", "">>

(* Mutant: the last two values pushed in the wrong order.                 *)
RobileBattery_getRxValuesSwapped ==
  <<"Command1", "Command2", "PwrDeviceId", "Shutdown">>

RobileBattery_getRxValues ==
  <<"Command1", "Command2", "Shutdown", "PwrDeviceId">>

RobileBattery_getTxValues ==
  <<"TimeStamp", "Status", "Error", "Warning", "OutputCurrent",
    "OutputVoltage", "OutputPower", "AuxPortCurrent", "GenericData1",
    "GenericData2", "bmsm_PwrDeviceId", "bmsm_Status", "bmsm_Voltage",
    "bmsm_Current", "bmsm_Temperature", "bmsm_SOC", "bmsm_SN",
    "bmsm_BatData1", "bmsm_BatData2">>

-----------------------------------------------------------------------------
(* KeloBMSSlave (src/kelo_bms_slave.cpp).                                  *)
KeloBMS_rx_variables ==
  <<"command", "bms1_command", "bms2_command", "neopixel_range1",
    "neopixel_color1", "neopixel_range2", "neopixel_color2">>

KeloBMS_rx_units ==
  <<"", "", "", "", "", "", "">>

KeloBMS_tx_variables ==
  <<"status", "imu_ts", "accel_x", "accel_y", "accel_z", "gyro_x", "gyro_y",
    "gyro_z", "imu_temperature", "pressure", "chargeport_voltage",
    "enable_voltage", "neopixel_voltage", "bus_voltage", "id1", "status1",
    "voltage1", "current1", "soc1", "temperature1", "cycles1", "id2",
    "status2", "voltage2", "current2", "soc2", "temperature2", "cycles2">>

KeloBMS_tx_units ==
  <<"", "[ns]", "[m/s^2]", "[m/s^2]", "[m/s^2]", "[rad/s]", "[rad/s]",
    "[rad/s]", "[K]", "[Pa]", "[V]", "[V]", "[V]", "[V]", "", "", "[V]",
    "[A]", "", "[K]", "", "", "", "[V]", "[A]", "", "[K]", "">>

KeloBMS_getRxValues ==
  <<"command", "bms1_command", "bms2_command", "neopixel_range1",
    "neopixel_color1", "neopixel_range2", "neopixel_color2">>

KeloBMS_getTxValues ==
  <<"status", "imu_ts", "accel_x", "accel_y", "accel_z", "gyro_x", "gyro_y",
    "gyro_z", "imu_temperature", "pressure", "chargeport_voltage",
    "enable_voltage", "neopixel_voltage", "bus_voltage", "id1", "status1",
    "voltage1", "current1", "soc1", "temperature1", "cycles1", "id2",
    "status2", "voltage2", "current2", "soc2", "temperature2", "cycles2">>

-----------------------------------------------------------------------------
(* convertToJson of each class: data["commands"][k] = rx.<member> and     *)
(* data["sensors"][k] = tx.<member>, one line per key, as <<key, member>>  *)
(* pairs in program order.  KeloDriveSlave and KeloBMSSlave write the      *)
(* member of the key's own name for every key of their variable lists, in  *)
(* list order; RobileBatterySlave writes its CamelCase members.            *)
SameNamed(keys) == [j \in DOMAIN keys |-> <<keys[j], keys[j]>>]

KeloDrive_convertToJson ==
  [commands |-> SameNamed(KeloDrive_rx_variables),
   sensors  |-> SameNamed(KeloDrive_tx_variables)]

KeloBMS_convertToJson ==
  [commands |-> SameNamed(KeloBMS_rx_variables),
   sensors  |-> SameNamed(KeloBMS_tx_variables)]

RobileBattery_convertToJson ==
  [commands |-> Zip(RobileBattery_rx_variables,
                    <<"Command1", "Command2", "Shutdown", "PwrDeviceId">>),
   sensors  |-> Zip(RobileBattery_tx_variables,
                    <<"TimeStamp", "Status", "Error", "Warning", "OutputCurrent",
                      "OutputVoltage", "OutputPower", "AuxPortCurrent",
                      "GenericData1", "GenericData2", "bmsm_PwrDeviceId",
                      "bmsm_Status", "bmsm_Voltage", "bmsm_Current",
                      "bmsm_Temperature", "bmsm_SOC", "bmsm_SN",
                      "bmsm_BatData1", "bmsm_BatData2">>)]

(* The Json::Value object the assignments build: a later assignment to a   *)
(* key overwrites an earlier one.                                          *)
JsonObject(pairs) ==
  [k \in {p[1] : p \in ToSet(pairs)} |->
     pairs[CHOOSE i \in DOMAIN pairs :
             pairs[i][1] = k /\ \A j \in DOMAIN pairs : pairs[j][1] = k => j <= i][2]]

(* Each class's getters return its static lists; getRxValues and         *)
(* getTxValues read the members.                                           *)
KeloDriveSlave ==
  [rx_variables |-> KeloDrive_rx_variables, rx_units |-> KeloDrive_rx_units,
   tx_variables |-> KeloDrive_tx_variables, tx_units |-> KeloDrive_tx_units,
   rx_values |-> KeloDrive_getRxValues, tx_values |-> KeloDrive_getTxValues,
   json |-> KeloDrive_convertToJson]

RobileBatterySlave ==
  [rx_variables |-> RobileBattery_rx_variables, rx_units |-> RobileBattery_rx_units,
   tx_variables |-> RobileBattery_tx_variables, tx_units |-> RobileBattery_tx_units,
   rx_values |-> RobileBattery_getRxValues, tx_values |-> RobileBattery_getTxValues,
   json |-> RobileBattery_convertToJson]

KeloBMSSlave ==
  [rx_variables |-> KeloBMS_rx_variables, rx_units |-> KeloBMS_rx_units,
   tx_variables |-> KeloBMS_tx_variables, tx_units |-> KeloBMS_tx_units,
   rx_values |-> KeloBMS_getRxValues, tx_values |-> KeloBMS_getTxValues,
   json |-> KeloBMS_convertToJson]

(* The virtual interface EthercatSlave, dispatched on the slave's class.   *)
Slave(t) ==
  CASE t = KELO_DRIVE_SLAVE     -> KeloDriveSlave
    [] t = ROBILE_BATTERY_SLAVE -> RobileBatterySlave
    [] t = KELO_BMS_SLAVE       -> KeloBMSSlave

(* The JSON object of one slave, "commands" and "sensors", per class.      *)
SlaveJson ==
  [t \in SlaveTypes |-> [commands |-> JsonObject(Slave(t).json.commands),
                         sensors  |-> JsonObject(Slave(t).json.sensors)]]

-----------------------------------------------------------------------------
NoName == <<"", "">>

(* The children of the group box handleDiscoverButton builds for a slave  *)
(* of class t: setLayout makes the grid layout (no name) a child, then     *)
(* reparents the widgets in the order they were added: for each RX        *)
(* variable a name label (no name) and the value label "RX" + v, then the  *)
(* same for each TX variable.  The spacer is not a QObject.               *)
BoxChildren(t) ==
  LET rx == Slave(t).rx_variables
      tx == Slave(t).tx_variables
  IN  <<NoName>>
        \o FlattenSeq([j \in DOMAIN rx |-> <<NoName, <<"RX", rx[j]>> >>])
        \o FlattenSeq([j \in DOMAIN tx |-> <<NoName, <<"TX", tx[j]>> >>])

(* The text a value label is given: the value, then the unit if the       *)
(* "Show Units" box is checked.                                           *)
LabelText(value, unit, showUnits) ==
  <<value, IF showUnits THEN unit ELSE "">>

(* handleDataChanged for box b and slave s: the children are walked in    *)
(* order and an unnamed child is skipped; an "RX" label shows              *)
(* rx_vals[rx_id] and rx_units[rx_id], then rx_id is incremented, a "TX"   *)
(* label likewise with tx_id.  As the k-th child is reached, rx_id is the  *)
(* number of "RX" children before it (Ids).  The result maps each label to *)
(* its text.                                                               *)
Ids(ch, k) ==
  [rx_id |-> Len(SelectSeq(SubSeq(ch, 1, k - 1), LAMBDA x : x[1] = "RX")),
   tx_id |-> Len(SelectSeq(SubSeq(ch, 1, k - 1), LAMBDA x : x[1] = "TX"))]

LabelWalk(b, s, showUnits) ==
  LET ch == BoxChildren(b)
      cls == Slave(s)
      TextAt(k) ==
        LET id == Ids(ch, k)
        IN  IF ch[k][1] = "RX"
            THEN LabelText(cls.rx_values[id.rx_id + 1], cls.rx_units[id.rx_id + 1], showUnits)
            ELSE LabelText(cls.tx_values[id.tx_id + 1], cls.tx_units[id.tx_id + 1], showUnits)
  IN  [c \in ToSet(ch) \ {NoName} |-> TextAt(FirstIndex(ch, c))]

(* The texts of a box's labels after an update, per class and check box.  *)
Refreshed == [t \in SlaveTypes, u \in BOOLEAN |-> LabelWalk(t, t, u)]

(* What the label named c of a box of class t must read: the member the   *)
(* published JSON of the slave holds under the key the label is named for, *)
(* and the unit listed at that variable.                                   *)
Published ==
  [t \in SlaveTypes |->
     LET cls == Slave(t)
         rx == [c \in {<<"RX", v>> : v \in ToSet(cls.rx_variables)} |->
                 <<SlaveJson[t].commands[c[2]],
                   cls.rx_units[FirstIndex(cls.rx_variables, c[2])]>>]
         tx == [c \in {<<"TX", v>> : v \in ToSet(cls.tx_variables)} |->
                 <<SlaveJson[t].sensors[c[2]],
                   cls.tx_units[FirstIndex(cls.tx_variables, c[2])]>>]
     IN  rx @@ tx]

(* What the value labels of a box of class t read when they show the      *)
(* published members, with units (u) or without.                           *)
Displayed ==
  [t \in SlaveTypes, u \in BOOLEAN |->
     [c \in DOMAIN Published[t] |-> LabelText(Published[t][c][1], Published[t][c][2], u)]]

(* A box of class t whose labels read `text` has not been filled yet, or   *)
(* shows for every variable the member the ZMQ message publishes under     *)
(* that variable's name, with that variable's unit or with none.           *)
ShowsPublished(t, text) ==
  text \in {<<>>} \cup {Displayed[t, u] : u \in BOOLEAN}

(* A KeloBMSSlave box, which no data source builds (getSlaveType never    *)
(* returns KELO_BMS_SLAVE), would show what is published.                  *)
ASSUME \A u \in BOOLEAN : ShowsPublished(KELO_BMS_SLAVE, Refreshed[KELO_BMS_SLAVE, u])

=============================================================================
