---------------------------- MODULE DevicesProofs ----------------------------
(***************************************************************************)
(* Proofs about Devices: the safety properties of Drivers, for every set   *)
(* of drivers of its table and every bound, and SuccessIsTrue of Esp8266,  *)
(* for every number of initialization commands, every timeout and bound.   *)
(*                                                                         *)
(* What the measuring drivers have in common is not in their machine but   *)
(* in the tables they give it.  So the proof has two halves: conditions on *)
(* a row of a table, which each row of each driver meets (RowsFit), and an *)
(* invariant of the machine that holds for any table of such rows.         *)
(***************************************************************************)
EXTENDS Devices, SequenceTheorems, TLAPS

-------------------------------------------------------------------------------
(***************************************************************************)
(* The words of the argument about the drivers.                            *)
(***************************************************************************)
\* The drivers whose measure() looks at _measurement_active.
Flagged == DOMAIN Table \ {"sps30", "lp8", "sgp30", "sgpc3", "td1207r", "wssfm10r1at"}

\* The states their task may be in without a request: starting up, the end of a
\* failure, the second half of UPDATE in lis2dh12; zssc3123 measures on its own.
Unasked(d, s) == \/ s \in {"ERROR", "INITIALIZE", "PREINITIALIZE", "ALARM"}
                 \/ d = "zssc3123" /\ s = "MEASURE"

\* Where the task may run while a delay does.  mpl3115a2 counts its first from
\* its initialization, which talks to nobody.
Early(d, s) == <<d, s>> \in Hasty \/ (d = "mpl3115a2" /\ s = "INITIALIZE")

\* The states of the drivers without a flag that only a request leads to.
Requested(d, s) ==
    \/ d = "sps30" /\ s \in {"START_MEASUREMENT", "SET_DATAREADY_FLAG",
                             "READ_DATAREADY_FLAG", "GET_MEASUREMENT_DATA",
                             "READ_MEASUREMENT_DATA"}
    \/ d \in {"td1207r", "wssfm10r1at"} /\ s \in {"SEND_RF_FRAME_COMMAND",
                                                  "SEND_RF_FRAME_RESPONSE"}
    \/ d = "wssfm10r1at" /\ s \in {"READ_DEVICE_COMMAND", "READ_DEVICE_RESPONSE"}

StatesOf(d) == DOMAIN Table[d] \cup IF d = "lis2dh12" THEN {"ALARM"} ELSE {}
Plans == {"parked", "waiting", "due"}
Endings == {"goto", "return", "now", "wait", "settle", "ready", "next"}
AfterEvents == {"goto", "return", "wait", "next"}

\* The state a row leaves its driver in when the handler has returned.
After(row) == IF row.last \/ row.next # "keep" THEN row.next ELSE row.during

-------------------------------------------------------------------------------
(***************************************************************************)
(* The conditions on the row of state s in the table of driver d.          *)
(***************************************************************************)
RowTyped(d, s, row) ==
    /\ s # "ALARM"
    /\ row.fails \in BOOLEAN /\ row.polls \in BOOLEAN /\ row.takes \in BOOLEAN
    /\ row.frees \in BOOLEAN /\ row.last \in BOOLEAN
    /\ row.event \in {"none", "UPDATE", "ERROR", "START", "READY"}
    /\ row.after \in Endings
    /\ \/ row.next \in StatesOf(d)
       \/ row.event # "none" /\ ~row.last /\ row.next = "keep"
    /\ row.event # "none" => row.after \in AfterEvents /\ row.during \in StatesOf(d)
    /\ row.fails => "ERROR" \in DOMAIN Table[d]

\* A delay is prescribed where a request cannot plan the task before its end, or
\* where Hasty says that one can; what runs early plans anew.
RowSettles(d, s, row) ==
    /\ Early(d, s) => /\ row.event = "none" /\ row.after \notin {"goto", "return"}
                      /\ <<d, s>> \notin Hasty => ~row.fails
    /\ (row.after = "wait" /\ d \in AtOnce \cup {"ds18b20"}) =>
          row.takes \/ ~Unasked(d, s) \/ <<d, row.next>> \in Hasty
    /\ row.after = "settle" =>
          /\ d \in Flagged
          /\ d \in AtOnce \cup {"ds18b20"} => <<d, row.next>> \in Hasty
    /\ (row.after = "wait" /\ d \notin Flagged) =>
          row.next \notin {"READY", "DEEP_SLEEP", "keep"}
    /\ (row.after = "wait" /\ row.event # "none") =>
          d \notin Flagged /\ ~row.last /\ row.event # "READY"
    /\ row.polls => /\ d \in {"sps30", "lp8"} /\ s \notin {"READY", "DEEP_SLEEP"}
                    /\ s = "READ_MEASUREMENT_DATA" => d = "sps30"
    /\ (d = "atsha204" /\ row.event # "none") => row.last

\* A driver with a flag works on only for a request, and gives the flag back with
\* the last of its events.
RowAsks(d, s, row) ==
    d \in Flagged =>
      /\ (/\ row.event = "none" /\ Unasked(d, s)
          /\ row.after \in {"goto", "now", "wait", "next"}) =>
            row.takes \/ Unasked(d, row.next)
      /\ (row.event # "none" /\ row.after # "return") => Unasked(d, row.next)
      /\ (row.event # "none" /\ row.after = "goto") => row.next = "ALARM"
      /\ (row.event # "none" /\ row.after = "next") => d = "zssc3123"
      /\ (row.event = "none" /\ row.after = "return") =>
            d = "atsha204" /\ s \in {"READY", "SERIAL_NUMBER"}
      /\ (d = "lis2dh12" /\ s = "ERROR") =>
            row.event # "none" /\ ~row.last /\ row.next = "INITIALIZE"
      /\ (d = "lis2dh12" /\ s = "INITIALIZE") => row.after = "settle"
      /\ row.event \in {"UPDATE", "ERROR", "none"}
      /\ (row.event # "none" /\ d # "module_rs485") => row.frees
      /\ row.event = "UPDATE" => row.frees

\* An UPDATE comes where a request led, and nothing else leads there.
RowAnswers(d, s, row) ==
    /\ row.takes => /\ d = "zssc3123" \/ (d = "wssfm10r1at" /\ row.next = "DEEP_SLEEP")
                    /\ row.after \notin {"settle", "ready"}
    /\ row.event = "none" => /\ row.next # "ALARM"
                             /\ Requested(d, row.next) => Requested(d, s)
    /\ row.event # "none" =>
          /\ row.during \notin {"ALARM", "DEEP_SLEEP"} /\ row.next # "DEEP_SLEEP"
          /\ Requested(d, After(row)) => /\ row.event \notin {"UPDATE", "ERROR"}
                                         /\ ~row.last /\ row.during = row.next
                                         /\ Requested(d, s)
          /\ row.next = "ALARM" => d = "lis2dh12" /\ row.after = "goto" /\ ~row.last
          /\ row.event = "READY" /\ ~row.last => row.during = "READY"
    /\ row.event = "UPDATE" => \/ d \in {"zssc3123", "lp8"}
                               \/ d \in Flagged /\ ~Unasked(d, s)
                               \/ Requested(d, s)
    /\ (d = "wssfm10r1at" /\ row.event \in {"UPDATE", "ERROR"}) => row.frees
    /\ s = "DEEP_SLEEP" => ~row.fails /\ row.event = "none" /\ row.next = "DEEP_SLEEP"
    /\ (/\ d = "atsha204" /\ row.event = "none"
        /\ s \in {"READ_SERIAL_NUMBER", "READ_SERIAL_NUMBER2", "ERROR"}) =>
          row.next \in {"READ_SERIAL_NUMBER2", "ERROR"}

Fits(d, s, row) == /\ RowTyped(d, s, row)
                   /\ RowSettles(d, s, row)
                   /\ RowAsks(d, s, row)
                   /\ RowAnswers(d, s, row)

RowsFit(d) == /\ InitialState(d) \in DOMAIN Table[d]
              /\ \A s \in DOMAIN Table[d] : Fits(d, s, Table[d][s])

\* The pairs of Hasty, by driver.
LEMMA HastyPairs ==
  ASSUME NEW d, NEW s
  PROVE  <<d, s>> \in Hasty <=>
            \/ d = "lis2dh12" /\ s \in {"INITIALIZE", "MEASURE"}
            \/ d \in {"ds18b20", "flood_detector", "module_rs485", "lp8"} /\ s = "INITIALIZE"
            \/ d = "soil_sensor" /\ s \in {"PREINITIALIZE", "INITIALIZE"}
            \/ d = "atsha204" /\ s = "READ_SERIAL_NUMBER"
BY DEF Hasty

\* The names in the table, and those of the drivers with a flag.
LEMMA DriverNames ==
  /\ DOMAIN Table = {"tmp112", "hts221", "opt3001", "sht30",
     "hdc2080", "module_rs485", "sht20", "mpl3115a2", "lis2dh12", "ds18b20",
     "soil_sensor", "flood_detector", "module_infra_grid", "analog_sensor",
     "zssc3123", "sps30", "lp8", "sgp30", "sgpc3", "atsha204", "td1207r", "wssfm10r1at"}
  /\ Flagged = {"tmp112", "hts221", "opt3001", "sht30",
     "hdc2080", "module_rs485", "sht20", "mpl3115a2", "lis2dh12", "ds18b20",
     "soil_sensor", "flood_detector", "module_infra_grid", "analog_sensor",
     "zssc3123", "atsha204"}
<1>1. DOMAIN Table = {"tmp112", "hts221", "opt3001", "sht30",
     "hdc2080", "module_rs485", "sht20", "mpl3115a2", "lis2dh12", "ds18b20",
     "soil_sensor", "flood_detector", "module_infra_grid", "analog_sensor",
     "zssc3123", "sps30", "lp8", "sgp30", "sgpc3", "atsha204", "td1207r", "wssfm10r1at"}
  BY DEF Table
<1> QED BY <1>1 DEF Flagged

-------------------------------------------------------------------------------
(***************************************************************************)
(* The rows of each driver fit.  A row is checked by itself, with all the  *)
(* conditions expanded, and then found in the table.                       *)
(***************************************************************************)
USE DEF Fits, RowTyped, RowSettles, RowAsks, RowAnswers, StatesOf, Endings,
   AfterEvents, Early, AtOnce, Requested, After, Unasked, Failed, Work, Poll, Skip,
   Reports, ReportsLast

LEMMA SingleShotRows ==
  ASSUME NEW d \in {"tmp112", "hts221", "opt3001", "sht30", "hdc2080"}
  PROVE  RowsFit(d)
<1>1. DOMAIN Table[d] =
          {"ERROR", "INITIALIZE", "MEASURE", "READ", "UPDATE"}
  BY DEF Table, SingleShot, Tmp112, Hts221, Opt3001, Sht30, Hdc2080
<1>2. /\ Fits(d, "ERROR", Failed("INITIALIZE"))
      /\ Fits(d, "INITIALIZE", Work("MEASURE", "settle"))
      /\ Fits(d, "MEASURE", Work("READ", "wait"))
      /\ Fits(d, "READ", Work("UPDATE", "goto"))
  BY <1>1, DriverNames, HastyPairs
<1>3. /\ Fits(d, "UPDATE", Reports("UPDATE", "UPDATE", "MEASURE", "return"))
  BY <1>1, DriverNames, HastyPairs
<1> HIDE DEF Fits, Skip, Work, Poll, Reports, ReportsLast, Failed
<1> QED
  BY <1>1, <1>2, <1>3 DEF RowsFit, InitialState, Table, SingleShot, Tmp112, Hts221,
     Opt3001,
     Sht30, Hdc2080, Failed

LEMMA Rs485Rows == RowsFit("module_rs485")
<1>1. /\ DOMAIN Table["module_rs485"] =
          {"ERROR", "INITIALIZE", "MEASURE", "READ", "UPDATE"}
      /\ Table["module_rs485"].ERROR =
            [Failed("INITIALIZE") EXCEPT !.frees = FALSE]
      /\ Table["module_rs485"].INITIALIZE =
            [Work("MEASURE", "settle") EXCEPT !.after = "ready"]
      /\ Table["module_rs485"].MEASURE =
            Work("READ", "wait")
      /\ Table["module_rs485"].READ =
            Work("UPDATE", "goto")
      /\ Table["module_rs485"].UPDATE =
            Reports("UPDATE", "UPDATE", "MEASURE", "return")
  BY DEF Table, Rs485, SingleShot
<1>2. /\ Fits("module_rs485", "ERROR", [Failed("INITIALIZE") EXCEPT !.frees = FALSE])
      /\ Fits("module_rs485", "INITIALIZE",
              [Work("MEASURE", "settle") EXCEPT !.after = "ready"])
      /\ Fits("module_rs485", "MEASURE", Work("READ", "wait"))
      /\ Fits("module_rs485", "READ", Work("UPDATE", "goto"))
  BY <1>1, DriverNames, HastyPairs
<1>3. /\ Fits("module_rs485", "UPDATE",
              Reports("UPDATE", "UPDATE", "MEASURE", "return"))
  BY <1>1, DriverNames, HastyPairs
<1> HIDE DEF Fits, Skip, Work, Poll, Reports, ReportsLast, Failed
<1> QED
  BY <1>1, <1>2, <1>3 DEF RowsFit, InitialState

LEMMA Sht20Rows == RowsFit("sht20")
<1>1. DOMAIN Table["sht20"] =
          {"ERROR", "INITIALIZE", "MEASURE_RH", "READ_RH", "MEASURE_T",
          "READ_T", "UPDATE"}
  BY DEF Table, Sht20
<1>2. /\ Fits("sht20", "ERROR", Failed("INITIALIZE"))
      /\ Fits("sht20", "INITIALIZE", Work("MEASURE_RH", "settle"))
      /\ Fits("sht20", "MEASURE_RH", Work("READ_RH", "wait"))
      /\ Fits("sht20", "READ_RH", Work("MEASURE_T", "goto"))
  BY <1>1, DriverNames, HastyPairs
<1>3. /\ Fits("sht20", "MEASURE_T", Work("READ_T", "wait"))
      /\ Fits("sht20", "READ_T", Work("UPDATE", "goto"))
      /\ Fits("sht20", "UPDATE", Reports("UPDATE", "UPDATE", "MEASURE_RH", "return"))
  BY <1>1, DriverNames, HastyPairs
<1> HIDE DEF Fits, Skip, Work, Poll, Reports, ReportsLast, Failed
<1> QED
  BY <1>1, <1>2, <1>3 DEF RowsFit, InitialState, Table, Sht20, Failed

LEMMA Mpl3115a2Rows == RowsFit("mpl3115a2")
<1>1. DOMAIN Table["mpl3115a2"] =
          {"ERROR", "INITIALIZE", "MEASURE_ALTITUDE", "READ_ALTITUDE",
          "MEASURE_PRESSURE", "READ_PRESSURE", "UPDATE"}
  BY DEF Table, Mpl3115a2
<1>2. /\ Fits("mpl3115a2", "ERROR", Failed("INITIALIZE"))
      /\ Fits("mpl3115a2", "INITIALIZE", Skip("MEASURE_ALTITUDE", "settle"))
      /\ Fits("mpl3115a2", "MEASURE_ALTITUDE", Work("READ_ALTITUDE", "wait"))
      /\ Fits("mpl3115a2", "READ_ALTITUDE", Work("MEASURE_PRESSURE", "goto"))
  BY <1>1, DriverNames, HastyPairs
<1>3. /\ Fits("mpl3115a2", "MEASURE_PRESSURE", Work("READ_PRESSURE", "wait"))
      /\ Fits("mpl3115a2", "READ_PRESSURE", Work("UPDATE", "goto"))
      /\ Fits("mpl3115a2", "UPDATE",
              Reports("UPDATE", "UPDATE", "MEASURE_ALTITUDE", "return"))
  BY <1>1, DriverNames, HastyPairs
<1> HIDE DEF Fits, Skip, Work, Poll, Reports, ReportsLast, Failed
<1> QED
  BY <1>1, <1>2, <1>3 DEF RowsFit, InitialState, Table, Mpl3115a2, Failed

LEMMA Lis2dh12Rows == RowsFit("lis2dh12")
<1>1. DOMAIN Table["lis2dh12"] =
          {"ERROR", "INITIALIZE", "MEASURE", "READ", "UPDATE"}
  BY DEF Table, Lis2dh12
<1>2. /\ Fits("lis2dh12", "ERROR", Failed("INITIALIZE"))
      /\ Fits("lis2dh12", "INITIALIZE", Work("MEASURE", "settle"))
      /\ Fits("lis2dh12", "MEASURE", Work("READ", "wait"))
      /\ Fits("lis2dh12", "READ", Work("UPDATE", "goto"))
  BY <1>1, DriverNames, HastyPairs
<1>3. /\ Fits("lis2dh12", "UPDATE", Reports("UPDATE", "ERROR", "ALARM", "goto"))
  BY <1>1, DriverNames, HastyPairs
<1> HIDE DEF Fits, Skip, Work, Poll, Reports, ReportsLast, Failed
<1> QED
  BY <1>1, <1>2, <1>3 DEF RowsFit, InitialState, Table, Lis2dh12, Failed

LEMMA Ds18b20Rows == RowsFit("ds18b20")
<1>1. DOMAIN Table["ds18b20"] =
          {"ERROR", "PREINITIALIZE", "INITIALIZE", "READY", "MEASURE",
          "READ", "UPDATE"}
  BY DEF Table, Ds18b20
<1>2. /\ Fits("ds18b20", "ERROR", Failed("PREINITIALIZE"))
      /\ Fits("ds18b20", "PREINITIALIZE", Work("INITIALIZE", "wait"))
      /\ Fits("ds18b20", "INITIALIZE", Work("READY", "ready"))
      /\ Fits("ds18b20", "READY", Work("MEASURE", "wait"))
  BY <1>1, DriverNames, HastyPairs
<1>3. /\ Fits("ds18b20", "MEASURE", Work("READ", "wait"))
      /\ Fits("ds18b20", "READ", Work("UPDATE", "goto"))
      /\ Fits("ds18b20", "UPDATE", ReportsLast(Skip("READY", "return"), "UPDATE"))
  BY <1>1, DriverNames, HastyPairs
<1> HIDE DEF Fits, Skip, Work, Poll, Reports, ReportsLast, Failed
<1> QED
  BY <1>1, <1>2, <1>3 DEF RowsFit, InitialState, Table, Ds18b20, Failed

LEMMA SoilSensorRows == RowsFit("soil_sensor")
<1>1. DOMAIN Table["soil_sensor"] =
          {"ERROR", "PREINITIALIZE", "INITIALIZE", "READY", "MEASURE",
          "READ", "UPDATE"}
  BY DEF Table, SoilSensor
<1>2. /\ Fits("soil_sensor", "ERROR", Failed("PREINITIALIZE"))
      /\ Fits("soil_sensor", "PREINITIALIZE", Work("INITIALIZE", "wait"))
      /\ Fits("soil_sensor", "INITIALIZE", Work("READY", "ready"))
      /\ Fits("soil_sensor", "READY", Skip("MEASURE", "now"))
  BY <1>1, DriverNames, HastyPairs
<1>3. /\ Fits("soil_sensor", "MEASURE", Work("READ", "wait"))
      /\ Fits("soil_sensor", "READ", Work("UPDATE", "now"))
      /\ Fits("soil_sensor", "UPDATE", Reports("UPDATE", "UPDATE", "READY", "return"))
  BY <1>1, DriverNames, HastyPairs
<1> HIDE DEF Fits, Skip, Work, Poll, Reports, ReportsLast, Failed
<1> QED
  BY <1>1, <1>2, <1>3 DEF RowsFit, InitialState, Table, SoilSensor, Failed

LEMMA FloodDetectorRows == RowsFit("flood_detector")
<1>1. /\ DOMAIN Table["flood_detector"] =
          {"ERROR", "INITIALIZE", "READY", "MEASURE"}
      /\ Table["flood_detector"].ERROR =
            Failed("INITIALIZE")
      /\ Table["flood_detector"].INITIALIZE =
            Work("READY", "ready")
      /\ Table["flood_detector"].READY =
            Work("MEASURE", "wait")
      /\ Table["flood_detector"].MEASURE =
            [Reports("UPDATE", "ERROR", "READY", "return") EXCEPT !.fails = TRUE]
  BY DEF Table, FloodDetector
<1>2. /\ Fits("flood_detector", "ERROR", Failed("INITIALIZE"))
      /\ Fits("flood_detector", "INITIALIZE", Work("READY", "ready"))
      /\ Fits("flood_detector", "READY", Work("MEASURE", "wait"))
      /\ Fits("flood_detector", "MEASURE",
              [Reports("UPDATE", "ERROR", "READY", "return") EXCEPT !.fails = TRUE])
  BY <1>1, DriverNames, HastyPairs
<1> HIDE DEF Fits, Skip, Work, Poll, Reports, ReportsLast, Failed
<1> QED
  BY <1>1, <1>2 DEF RowsFit, InitialState

LEMMA InfraGridRows == RowsFit("module_infra_grid")
<1>1. DOMAIN Table["module_infra_grid"] =
          {"ERROR", "INITIALIZE", "MODE_CHANGE", "POWER_UP",
          "INITIAL_RESET", "FLAG_RESET", "MEASURE", "READ", "UPDATE"}
  BY DEF Table, InfraGrid
<1>2. /\ Fits("module_infra_grid", "ERROR", Failed("INITIALIZE"))
      /\ Fits("module_infra_grid", "INITIALIZE", Work("MODE_CHANGE", "settle"))
      /\ Fits("module_infra_grid", "MODE_CHANGE", Work("POWER_UP", "wait"))
      /\ Fits("module_infra_grid", "POWER_UP", Work("INITIAL_RESET", "wait"))
  BY <1>1, DriverNames, HastyPairs
<1>3. /\ Fits("module_infra_grid", "INITIAL_RESET", Work("FLAG_RESET", "wait"))
      /\ Fits("module_infra_grid", "FLAG_RESET", Work("MEASURE", "wait"))
      /\ Fits("module_infra_grid", "MEASURE", Work("READ", "wait"))
      /\ Fits("module_infra_grid", "READ", Work("UPDATE", "goto"))
  BY <1>1, DriverNames, HastyPairs
<1>4. /\ Fits("module_infra_grid", "UPDATE",
              Reports("UPDATE", "UPDATE", "MODE_CHANGE", "return"))
  BY <1>1, DriverNames, HastyPairs
<1> HIDE DEF Fits, Skip, Work, Poll, Reports, ReportsLast, Failed
<1> QED
  BY <1>1, <1>2, <1>3, <1>4 DEF RowsFit, InitialState, Table, InfraGrid, Failed

LEMMA AnalogSensorRows == RowsFit("analog_sensor")
<1>1. DOMAIN Table["analog_sensor"] =
          {"ERROR", "ENABLE", "MEASURE", "DISABLE", "UPDATE"}
  BY DEF Table, AnalogSensor
<1>2. /\ Fits("analog_sensor", "ERROR", Failed("ENABLE"))
      /\ Fits("analog_sensor", "ENABLE", Skip("MEASURE", "wait"))
      /\ Fits("analog_sensor", "MEASURE", Work("DISABLE", "goto"))
      /\ Fits("analog_sensor", "DISABLE", Skip("UPDATE", "goto"))
  BY <1>1, DriverNames, HastyPairs
<1>3. /\ Fits("analog_sensor", "UPDATE",
              Reports("UPDATE", "UPDATE", "ENABLE", "return"))
  BY <1>1, DriverNames, HastyPairs
<1> HIDE DEF Fits, Skip, Work, Poll, Reports, ReportsLast, Failed
<1> QED
  BY <1>1, <1>2, <1>3 DEF RowsFit, InitialState, Table, AnalogSensor, Failed

LEMMA Zssc3123Rows == RowsFit("zssc3123")
<1>1. /\ DOMAIN Table["zssc3123"] =
          {"ERROR", "INITIALIZE", "MEASURE", "READ"}
      /\ Table["zssc3123"].ERROR =
            Reports("ERROR", "ERROR", "INITIALIZE", "next")
      /\ Table["zssc3123"].INITIALIZE =
            Work("MEASURE", "now")
      /\ Table["zssc3123"].MEASURE =
            [Work("READ", "wait") EXCEPT !.takes = TRUE]
      /\ Table["zssc3123"].READ =
            ReportsLast(Work("MEASURE", "next"), "UPDATE")
  BY DEF Table, Zssc3123
<1>2. /\ Fits("zssc3123", "ERROR", Reports("ERROR", "ERROR", "INITIALIZE", "next"))
      /\ Fits("zssc3123", "INITIALIZE", Work("MEASURE", "now"))
      /\ Fits("zssc3123", "MEASURE", [Work("READ", "wait") EXCEPT !.takes = TRUE])
      /\ Fits("zssc3123", "READ", ReportsLast(Work("MEASURE", "next"), "UPDATE"))
  BY <1>1, DriverNames, HastyPairs
<1> HIDE DEF Fits, Skip, Work, Poll, Reports, ReportsLast, Failed
<1> QED
  BY <1>1, <1>2 DEF RowsFit, InitialState

LEMMA Sps30Rows == RowsFit("sps30")
<1>1. /\ DOMAIN Table["sps30"] =
          {"ERROR", "READY", "INITIALIZE", "GET_SERIAL_NUMBER",
          "READ_SERIAL_NUMBER", "START_MEASUREMENT",
          "SET_DATAREADY_FLAG", "READ_DATAREADY_FLAG",
          "GET_MEASUREMENT_DATA", "READ_MEASUREMENT_DATA",
          "STOP_MEASUREMENT"}
      /\ Table["sps30"].ERROR =
            Reports("ERROR", "ERROR", "INITIALIZE", "goto")
      /\ Table["sps30"].READY =
            Skip("READY", "return")
      /\ Table["sps30"].INITIALIZE =
            Skip("GET_SERIAL_NUMBER", "goto")
      /\ Table["sps30"].GET_SERIAL_NUMBER =
            Work("READ_SERIAL_NUMBER", "wait")
      /\ Table["sps30"].READ_SERIAL_NUMBER =
            Work("READY", "goto")
      /\ Table["sps30"].START_MEASUREMENT =
            Work("SET_DATAREADY_FLAG", "goto")
      /\ Table["sps30"].SET_DATAREADY_FLAG =
            Work("READ_DATAREADY_FLAG", "wait")
      /\ Table["sps30"].READ_DATAREADY_FLAG =
            Poll("GET_MEASUREMENT_DATA", "goto")
      /\ Table["sps30"].GET_MEASUREMENT_DATA =
            Work("READ_MEASUREMENT_DATA", "wait")
      /\ Table["sps30"].READ_MEASUREMENT_DATA =
            [Reports("UPDATE", "ERROR", "STOP_MEASUREMENT", "goto")
                EXCEPT !.fails = TRUE, !.polls = TRUE]
      /\ Table["sps30"].STOP_MEASUREMENT =
            Work("READY", "goto")
  BY DEF Table, Sps30
<1>2. /\ Fits("sps30", "ERROR", Reports("ERROR", "ERROR", "INITIALIZE", "goto"))
      /\ Fits("sps30", "READY", Skip("READY", "return"))
      /\ Fits("sps30", "INITIALIZE", Skip("GET_SERIAL_NUMBER", "goto"))
      /\ Fits("sps30", "GET_SERIAL_NUMBER", Work("READ_SERIAL_NUMBER", "wait"))
  BY <1>1, DriverNames, HastyPairs
<1>3. /\ Fits("sps30", "READ_SERIAL_NUMBER", Work("READY", "goto"))
      /\ Fits("sps30", "START_MEASUREMENT", Work("SET_DATAREADY_FLAG", "goto"))
      /\ Fits("sps30", "SET_DATAREADY_FLAG", Work("READ_DATAREADY_FLAG", "wait"))
      /\ Fits("sps30", "READ_DATAREADY_FLAG", Poll("GET_MEASUREMENT_DATA", "goto"))
  BY <1>1, DriverNames, HastyPairs
<1>4. /\ Fits("sps30", "GET_MEASUREMENT_DATA", Work("READ_MEASUREMENT_DATA", "wait"))
      /\ Fits("sps30", "READ_MEASUREMENT_DATA",
              [Reports("UPDATE", "ERROR", "STOP_MEASUREMENT", "goto")
                  EXCEPT !.fails = TRUE, !.polls = TRUE])
      /\ Fits("sps30", "STOP_MEASUREMENT", Work("READY", "goto"))
  BY <1>1, DriverNames, HastyPairs
<1> HIDE DEF Fits, Skip, Work, Poll, Reports, ReportsLast, Failed
<1> QED
  BY <1>1, <1>2, <1>3, <1>4 DEF RowsFit, InitialState

LEMMA Lp8Rows == RowsFit("lp8")
<1>1. DOMAIN Table["lp8"] =
          {"ERROR", "INITIALIZE", "READY", "PRECHARGE", "CHARGE",
          "BOOT", "BOOT_READ", "MEASURE", "MEASURE_READ"}
  BY DEF Table, Lp8
<1>2. /\ Fits("lp8", "ERROR", Reports("ERROR", "ERROR", "INITIALIZE", "wait"))
      /\ Fits("lp8", "INITIALIZE", Work("CHARGE", "wait"))
      /\ Fits("lp8", "READY", Skip("READY", "return"))
      /\ Fits("lp8", "PRECHARGE", Work("CHARGE", "wait"))
  BY <1>1, DriverNames, HastyPairs
<1>3. /\ Fits("lp8", "CHARGE", Work("BOOT", "wait"))
      /\ Fits("lp8", "BOOT", Poll("BOOT_READ", "wait"))
      /\ Fits("lp8", "BOOT_READ", Poll("MEASURE", "wait"))
      /\ Fits("lp8", "MEASURE", Poll("MEASURE_READ", "wait"))
  BY <1>1, DriverNames, HastyPairs
<1>4. /\ Fits("lp8", "MEASURE_READ", ReportsLast(Poll("READY", "return"), "UPDATE"))
  BY <1>1, DriverNames, HastyPairs
<1> HIDE DEF Fits, Skip, Work, Poll, Reports, ReportsLast, Failed
<1> QED
  BY <1>1, <1>2, <1>3, <1>4 DEF RowsFit, InitialState, Table, Lp8

LEMMA Sgp30Rows ==
  ASSUME NEW d \in {"sgp30", "sgpc3"}
  PROVE  RowsFit(d)
<1>1. DOMAIN Table[d] =
          {"ERROR", "INITIALIZE", "GET_FEATURE_SET", "READ_FEATURE_SET",
          "INIT_AIR_QUALITY", "SET_HUMIDITY", "MEASURE_AIR_QUALITY",
          "READ_AIR_QUALITY"}
  BY DEF Table, Sgp30, Sgpc3
<1>2. /\ Fits(d, "ERROR", Skip("INITIALIZE", "wait"))
      /\ Fits(d, "INITIALIZE", Skip("GET_FEATURE_SET", "goto"))
      /\ Fits(d, "GET_FEATURE_SET", Work("READ_FEATURE_SET", "wait"))
      /\ Fits(d, "READ_FEATURE_SET", Work("INIT_AIR_QUALITY", "wait"))
  BY <1>1, DriverNames, HastyPairs
<1>3. /\ Fits(d, "INIT_AIR_QUALITY", Work("SET_HUMIDITY", "wait"))
      /\ Fits(d, "SET_HUMIDITY", Work("MEASURE_AIR_QUALITY", "wait"))
      /\ Fits(d, "MEASURE_AIR_QUALITY", Work("READ_AIR_QUALITY", "wait"))
      /\ Fits(d, "READ_AIR_QUALITY", Work("SET_HUMIDITY", "wait"))
  BY <1>1, DriverNames, HastyPairs
<1> HIDE DEF Fits, Skip, Work, Poll, Reports, ReportsLast, Failed
<1> QED
  BY <1>1, <1>2, <1>3 DEF RowsFit, InitialState, Table, Sgp30, Sgpc3

LEMMA Atsha204Rows == RowsFit("atsha204")
<1>1. DOMAIN Table["atsha204"] =
          {"ERROR", "READY", "READ_SERIAL_NUMBER",
          "READ_SERIAL_NUMBER2", "SERIAL_NUMBER"}
  BY DEF Table, Atsha204
<1>2. /\ Fits("atsha204", "ERROR", ReportsLast(Skip("ERROR", "return"), "ERROR"))
      /\ Fits("atsha204", "READY", Skip("READY", "return"))
      /\ Fits("atsha204", "READ_SERIAL_NUMBER", Work("READ_SERIAL_NUMBER2", "wait"))
      /\ Fits("atsha204", "READ_SERIAL_NUMBER2",
              ReportsLast(Work("SERIAL_NUMBER", "return"), "UPDATE"))
  BY <1>1, DriverNames, HastyPairs
<1>3. /\ Fits("atsha204", "SERIAL_NUMBER", Skip("SERIAL_NUMBER", "return"))
  BY <1>1, DriverNames, HastyPairs
<1> HIDE DEF Fits, Skip, Work, Poll, Reports, ReportsLast, Failed
<1> QED
  BY <1>1, <1>2, <1>3 DEF RowsFit, InitialState, Table, Atsha204

LEMMA Td1207rRows == RowsFit("td1207r")
<1>0. DOMAIN Table["td1207r"] =
          {"ERROR", "READY", "INITIALIZE", "INITIALIZE_RESET_L",
          "INITIALIZE_RESET_H", "INITIALIZE_AT_COMMAND",
          "INITIALIZE_AT_RESPONSE", "SEND_RF_FRAME_COMMAND",
          "SEND_RF_FRAME_RESPONSE"}
  BY DEF Table, Td1207r, Reset, SendRfFrame, Joined
<1>1. /\ Table["td1207r"].ERROR =
            Reports("ERROR", "ERROR", "INITIALIZE", "goto")
      /\ Table["td1207r"].READY =
            ReportsLast(Skip("READY", "return"), "READY")
      /\ Table["td1207r"].INITIALIZE =
            Skip("INITIALIZE_RESET_L", "goto")
      /\ Table["td1207r"].INITIALIZE_RESET_L =
            Skip("INITIALIZE_RESET_H", "wait")
      /\ Table["td1207r"].INITIALIZE_RESET_H =
            Skip("INITIALIZE_AT_COMMAND", "wait")
      /\ Table["td1207r"].INITIALIZE_AT_COMMAND =
            Work("INITIALIZE_AT_RESPONSE", "wait")
      /\ Table["td1207r"].INITIALIZE_AT_RESPONSE =
            Work("READY", "goto")
      /\ Table["td1207r"].SEND_RF_FRAME_COMMAND =
            [Reports("START", "SEND_RF_FRAME_RESPONSE", "SEND_RF_FRAME_RESPONSE", "wait")
                EXCEPT !.fails = TRUE, !.frees = FALSE]
      /\ Table["td1207r"].SEND_RF_FRAME_RESPONSE =
            [Reports("UPDATE", "READY", "keep", "goto") EXCEPT !.fails = TRUE]
  BY DEF Table, Td1207r, Reset, SendRfFrame, Joined
<1>2. /\ Fits("td1207r", "ERROR", Reports("ERROR", "ERROR", "INITIALIZE", "goto"))
      /\ Fits("td1207r", "READY", ReportsLast(Skip("READY", "return"), "READY"))
      /\ Fits("td1207r", "INITIALIZE", Skip("INITIALIZE_RESET_L", "goto"))
      /\ Fits("td1207r", "INITIALIZE_RESET_L", Skip("INITIALIZE_RESET_H", "wait"))
  BY <1>0, <1>1, DriverNames, HastyPairs
<1>3. /\ Fits("td1207r", "INITIALIZE_RESET_H", Skip("INITIALIZE_AT_COMMAND", "wait"))
      /\ Fits("td1207r", "INITIALIZE_AT_COMMAND",
              Work("INITIALIZE_AT_RESPONSE", "wait"))
      /\ Fits("td1207r", "INITIALIZE_AT_RESPONSE", Work("READY", "goto"))
      /\ Fits("td1207r", "SEND_RF_FRAME_COMMAND",
              [Reports("START", "SEND_RF_FRAME_RESPONSE", "SEND_RF_FRAME_RESPONSE", "wait")
                  EXCEPT !.fails = TRUE, !.frees = FALSE])
  BY <1>0, <1>1, DriverNames, HastyPairs
<1>4. /\ Fits("td1207r", "SEND_RF_FRAME_RESPONSE",
              [Reports("UPDATE", "READY", "keep", "goto") EXCEPT !.fails = TRUE])
  BY <1>0, <1>1, DriverNames, HastyPairs
<1> HIDE DEF Fits, Skip, Work, Poll, Reports, ReportsLast, Failed
<1> QED
  BY <1>0, <1>1, <1>2, <1>3, <1>4 DEF RowsFit, InitialState

LEMMA Wssfm10r1atRows == RowsFit("wssfm10r1at")
<1>1. DOMAIN Table["wssfm10r1at"] =
          {"ERROR", "SET_POWER_COMMAND", "SET_POWER_RESPONSE", "READY",
          "CONTINUOUS_WAVE_COMMAND", "CONTINUOUS_WAVE_RESPONSE",
          "CONTINUOUS_WAVE", "DEEP_SLEEP_COMMAND",
          "DEEP_SLEEP_RESPONSE", "DEEP_SLEEP", "INITIALIZE",
          "INITIALIZE_RESET_L", "INITIALIZE_RESET_H",
          "INITIALIZE_AT_COMMAND", "INITIALIZE_AT_RESPONSE",
          "SEND_RF_FRAME_COMMAND", "SEND_RF_FRAME_RESPONSE",
          "READ_DEVICE_COMMAND", "READ_DEVICE_RESPONSE"}
  BY DEF Table, Wssfm10r1at, Reset, SendRfFrame, ReadDevice, Joined
<1>2. /\ Table["wssfm10r1at"].ERROR =
            Reports("ERROR", "ERROR", "INITIALIZE", "goto")
      /\ Table["wssfm10r1at"].SET_POWER_COMMAND =
            Work("SET_POWER_RESPONSE", "wait")
      /\ Table["wssfm10r1at"].SET_POWER_RESPONSE =
            Work("READY", "goto")
      /\ Table["wssfm10r1at"].READY =
            Reports("READY", "READY", "DEEP_SLEEP_COMMAND", "goto")
  BY DEF Table, Wssfm10r1at, Reset, SendRfFrame, ReadDevice, Joined
<1>3. /\ Table["wssfm10r1at"].CONTINUOUS_WAVE_COMMAND =
            Work("CONTINUOUS_WAVE_RESPONSE", "wait")
      /\ Table["wssfm10r1at"].CONTINUOUS_WAVE_RESPONSE =
            Work("CONTINUOUS_WAVE", "goto")
      /\ Table["wssfm10r1at"].CONTINUOUS_WAVE =
            Skip("CONTINUOUS_WAVE", "return")
      /\ Table["wssfm10r1at"].DEEP_SLEEP_COMMAND =
            Work("DEEP_SLEEP_RESPONSE", "wait")
  BY DEF Table, Wssfm10r1at, Reset, SendRfFrame, ReadDevice, Joined
<1>4. /\ Table["wssfm10r1at"].DEEP_SLEEP_RESPONSE =
            Work("DEEP_SLEEP", "goto")
      /\ Table["wssfm10r1at"].DEEP_SLEEP =
            [Skip("DEEP_SLEEP", "return") EXCEPT !.takes = TRUE]
      /\ Table["wssfm10r1at"].INITIALIZE =
            Skip("INITIALIZE_RESET_L", "goto")
      /\ Table["wssfm10r1at"].INITIALIZE_RESET_L =
            Skip("INITIALIZE_RESET_H", "wait")
  BY DEF Table, Wssfm10r1at, Reset, SendRfFrame, ReadDevice, Joined
<1>5. /\ Table["wssfm10r1at"].INITIALIZE_RESET_H =
            Skip("INITIALIZE_AT_COMMAND", "wait")
      /\ Table["wssfm10r1at"].INITIALIZE_AT_COMMAND =
            Work("INITIALIZE_AT_RESPONSE", "wait")
      /\ Table["wssfm10r1at"].INITIALIZE_AT_RESPONSE =
            Work("SET_POWER_COMMAND", "goto")
      /\ Table["wssfm10r1at"].SEND_RF_FRAME_COMMAND =
            [Reports("START", "SEND_RF_FRAME_RESPONSE", "SEND_RF_FRAME_RESPONSE", "wait")
                EXCEPT !.fails = TRUE, !.frees = FALSE]
  BY DEF Table, Wssfm10r1at, Reset, SendRfFrame, ReadDevice, Joined
<1>6. /\ Table["wssfm10r1at"].SEND_RF_FRAME_RESPONSE =
            [Reports("UPDATE", "READY", "keep", "goto") EXCEPT !.fails = TRUE]
      /\ Table["wssfm10r1at"].READ_DEVICE_COMMAND =
            Work("READ_DEVICE_RESPONSE", "wait")
      /\ Table["wssfm10r1at"].READ_DEVICE_RESPONSE =
            [Reports("UPDATE", "READ_DEVICE_RESPONSE", "READY", "goto")
                EXCEPT !.fails = TRUE]
  BY DEF Table, Wssfm10r1at, Reset, SendRfFrame, ReadDevice, Joined
<1>7. /\ Fits("wssfm10r1at", "ERROR", Reports("ERROR", "ERROR", "INITIALIZE", "goto"))
      /\ Fits("wssfm10r1at", "SET_POWER_COMMAND", Work("SET_POWER_RESPONSE", "wait"))
      /\ Fits("wssfm10r1at", "SET_POWER_RESPONSE", Work("READY", "goto"))
      /\ Fits("wssfm10r1at", "READY",
              Reports("READY", "READY", "DEEP_SLEEP_COMMAND", "goto"))
  BY <1>1, DriverNames, HastyPairs
<1>8. /\ Fits("wssfm10r1at", "CONTINUOUS_WAVE_COMMAND",
              Work("CONTINUOUS_WAVE_RESPONSE", "wait"))
      /\ Fits("wssfm10r1at", "CONTINUOUS_WAVE_RESPONSE",
              Work("CONTINUOUS_WAVE", "goto"))
      /\ Fits("wssfm10r1at", "CONTINUOUS_WAVE", Skip("CONTINUOUS_WAVE", "return"))
      /\ Fits("wssfm10r1at", "DEEP_SLEEP_COMMAND", Work("DEEP_SLEEP_RESPONSE", "wait"))
  BY <1>1, DriverNames, HastyPairs
<1>9. /\ Fits("wssfm10r1at", "DEEP_SLEEP_RESPONSE", Work("DEEP_SLEEP", "goto"))
      /\ Fits("wssfm10r1at", "DEEP_SLEEP",
              [Skip("DEEP_SLEEP", "return") EXCEPT !.takes = TRUE])
      /\ Fits("wssfm10r1at", "INITIALIZE", Skip("INITIALIZE_RESET_L", "goto"))
      /\ Fits("wssfm10r1at", "INITIALIZE_RESET_L", Skip("INITIALIZE_RESET_H", "wait"))
  BY <1>1, DriverNames, HastyPairs
<1>10.
      /\ Fits("wssfm10r1at", "INITIALIZE_RESET_H",
              Skip("INITIALIZE_AT_COMMAND", "wait"))
      /\ Fits("wssfm10r1at", "INITIALIZE_AT_COMMAND",
              Work("INITIALIZE_AT_RESPONSE", "wait"))
      /\ Fits("wssfm10r1at", "INITIALIZE_AT_RESPONSE",
              Work("SET_POWER_COMMAND", "goto"))
      /\ Fits("wssfm10r1at", "SEND_RF_FRAME_COMMAND",
              [Reports("START", "SEND_RF_FRAME_RESPONSE", "SEND_RF_FRAME_RESPONSE", "wait")
                  EXCEPT !.fails = TRUE, !.frees = FALSE])
  BY <1>1, DriverNames, HastyPairs
<1>11.
      /\ Fits("wssfm10r1at", "SEND_RF_FRAME_RESPONSE",
              [Reports("UPDATE", "READY", "keep", "goto") EXCEPT !.fails = TRUE])
      /\ Fits("wssfm10r1at", "READ_DEVICE_COMMAND",
              Work("READ_DEVICE_RESPONSE", "wait"))
      /\ Fits("wssfm10r1at", "READ_DEVICE_RESPONSE",
              [Reports("UPDATE", "READ_DEVICE_RESPONSE", "READY", "goto")
                  EXCEPT !.fails = TRUE])
  BY <1>1, DriverNames, HastyPairs
<1> HIDE DEF Fits, Skip, Work, Poll, Reports, ReportsLast, Failed
<1> QED
  BY <1>1, <1>2, <1>3, <1>4, <1>5, <1>6, <1>7, <1>8, <1>9, <1>10, <1>11
  DEF RowsFit, InitialState

HIDE DEF Fits, RowTyped, RowSettles, RowAsks, RowAnswers, StatesOf, Endings,
   AfterEvents, Early, AtOnce, Requested, After, Unasked, Failed, Work, Poll, Skip,
   Reports, ReportsLast

LEMMA AllRowsFit == \A d \in DOMAIN Table : RowsFit(d)
BY SingleShotRows, Rs485Rows, Sht20Rows, Mpl3115a2Rows, Lis2dh12Rows, Ds18b20Rows,
   SoilSensorRows, FloodDetectorRows, InfraGridRows, AnalogSensorRows, Zssc3123Rows,
   Sps30Rows, Lp8Rows, Sgp30Rows, Atsha204Rows, Td1207rRows, Wssfm10r1atRows, DriverNames

\* Every state but ALARM has a row.
LEMMA NoRowOfAlarm ==
  ASSUME NEW d \in DOMAIN Table, NEW s \in StatesOf(d)
  PROVE  /\ s = "ALARM" <=> s \notin DOMAIN Table[d]
         /\ s = "ALARM" => d = "lis2dh12"
BY AllRowsFit DEF RowsFit, Fits, RowTyped, StatesOf

\* The states the actions outside of the tables lead to.
LEMMA StateNames ==
  /\ {"START_MEASUREMENT", "SET_DATAREADY_FLAG"} \subseteq StatesOf("sps30")
  /\ {"PRECHARGE", "CHARGE"} \subseteq StatesOf("lp8")
  /\ "SEND_RF_FRAME_COMMAND" \in StatesOf("td1207r")
  /\ {"READY", "INITIALIZE", "SEND_RF_FRAME_COMMAND", "READ_DEVICE_COMMAND",
      "CONTINUOUS_WAVE_COMMAND"} \subseteq StatesOf("wssfm10r1at")
  /\ "READ_SERIAL_NUMBER" \in StatesOf("atsha204")
  /\ StatesOf("lis2dh12") = {"ERROR", "INITIALIZE", "MEASURE", "READ", "UPDATE", "ALARM"}
BY DEF StatesOf, Table, Sps30, Lp8, Td1207r, Wssfm10r1at, Atsha204, Lis2dh12, Reset,
   SendRfFrame, ReadDevice, Joined

-------------------------------------------------------------------------------
(***************************************************************************)
(* The invariant of the machine.                                           *)
(***************************************************************************)
\* The state the task goes on in: after the handler, if it is in one.
Upcoming == IF \/ pc # "event" \/ resume.next = "keep"
               \/ resume.event = "READY" /\ state # "READY"
            THEN state ELSE resume.next

\* The task runs, or will.
Underway == plan # "parked" \/ pc = "task" \/ (pc = "event" /\ resume.after # "return")

DriverTyped ==
    /\ driver \in DOMAIN Table
    /\ state \in StatesOf(driver)
    /\ active \in BOOLEAN /\ settling \in BOOLEAN /\ owed \in BOOLEAN
    /\ plan \in Plans /\ pc \in {"idle", "task", "event"}
    /\ after_sleep \in StatesOf("wssfm10r1at")
    /\ pc = "event" => /\ resume.after \in AfterEvents
                       /\ resume.next \in StatesOf(driver) \cup {"keep"}
    /\ exti => driver = "lis2dh12"
    /\ state = "ALARM" => pc = "task"

\* A driver with a flag has work only while the flag is set, or in the states that
\* need no request.
WorkAsked == (driver \in Flagged /\ Underway) => active \/ Unasked(driver, Upcoming)

\* The plan of a running task is a request's: of an interrupt in the middle of it,
\* or of the handler it is in.
PlanOfRequest ==
    driver \in Flagged =>
      /\ (pc = "task" /\ plan # "parked") =>
            active /\ driver = "lis2dh12" /\ state \in {"ERROR", "INITIALIZE", "ALARM"}
      /\ (pc = "event" /\ plan # "parked" /\ resume.after # "return") => active

\* While a delay runs the task does not, and is not due: but for the early states.
\* A request that plans the task at once finds it in one of those, or refused.
DelayKept ==
    settling =>
      /\ (pc = "task" \/ (pc = "idle" /\ plan = "due")) => Early(driver, state)
      /\ pc = "event" => driver = "atsha204" /\ state = "READ_SERIAL_NUMBER"
      /\ (pc = "idle" /\ ~active /\ driver \in AtOnce \cup {"ds18b20"}) =>
            \/ <<driver, state>> \in Hasty
            \/ driver = "ds18b20" /\ state = "PREINITIALIZE" /\ plan = "waiting"
      /\ driver \notin Flagged => state \notin {"READY", "DEEP_SLEEP"}

\* What the task does after its handler comes from a row that fits.
ResumeFits ==
    pc = "event" =>
      /\ driver = "atsha204" => resume.next = "keep" /\ resume.after = "return"
      /\ resume.after = "wait" => /\ driver \notin Flagged
                                  /\ resume.event # "READY"
                                  /\ resume.next \notin {"keep", "READY", "DEEP_SLEEP"}
      /\ driver \in Flagged => /\ resume.event # "READY"
                               /\ resume.after = "goto" => resume.next = "ALARM"
      /\ driver = "module_rs485" => resume.after = "return"
      /\ resume.next = "ALARM" => driver = "lis2dh12" /\ resume.after = "goto"
      /\ Requested(driver, resume.next) => state = resume.next
      /\ state # "DEEP_SLEEP"

\* A set flag has a planned task, wherever the task itself is not running.
FlagPlanned ==
    active =>
      /\ driver \in Flagged \cup {"wssfm10r1at"}
      /\ (/\ driver \notin {"module_rs485", "wssfm10r1at"}
          /\ pc \in {"idle", "event"} \/ state = "ALARM") => plan # "parked"
      /\ driver = "atsha204" =>
            state \in {"READ_SERIAL_NUMBER", "READ_SERIAL_NUMBER2", "ERROR"}

\* Who waits for an answer: the flag says so, in module_rs485 until its first
\* error; without a flag, the states that only a request leads to.
OwedKnown ==
    /\ driver \in Flagged \ {"zssc3123", "module_rs485"} => (active <=> owed)
    /\ driver = "module_rs485" =>
          /\ owed => active
          /\ (active /\ ~owed) => plan = "parked" /\ pc # "task"
    /\ Requested(driver, Upcoming) => owed
    /\ (/\ driver = "wssfm10r1at" /\ active /\ state # "DEEP_SLEEP"
        /\ Requested(driver, after_sleep)) => owed

DriverInv == DriverTyped /\ WorkAsked /\ PlanOfRequest /\ DelayKept /\ ResumeFits
             /\ FlagPlanned /\ OwedKnown

-------------------------------------------------------------------------------
(***************************************************************************)
(* Every action of the machine keeps the invariant.                        *)
(***************************************************************************)
USE DriverNames, HastyPairs
USE DEF DriverInv, DriverTyped, WorkAsked, PlanOfRequest, DelayKept, ResumeFits, FlagPlanned,
   OwedKnown, Upcoming, Underway, Plans, AfterEvents, Unasked, Early, AtOnce, line, request,
   settings

\* The end of a delay.
LEMMA ElapseKeeps == ASSUME DriverInv, Elapse PROVE DriverInv'
<1>1. DriverTyped' /\ ResumeFits'
  BY DEF Elapse
<1>2. WorkAsked' /\ PlanOfRequest'
  BY DEF Elapse
<1>3. DelayKept'
  BY DEF Elapse
<1>4. FlagPlanned' /\ OwedKnown'
  BY DEF Elapse
<1> QED BY <1>1, <1>2, <1>3, <1>4

\* The scheduler calls the task: what is due runs in no delay, but early.
LEMMA DispatchKeeps == ASSUME DriverInv, Dispatch PROVE DriverInv'
BY DEF Dispatch

\* A request plans the task for the end of the delay, if there is one.
LEMMA MeasureAtTickReadyKeeps == ASSUME DriverInv, MeasureAtTickReady PROVE DriverInv'
BY DEF MeasureAtTickReady, Accept, Calling, AtTickReady

\* A request plans the task at once: a delay runs then in a state of Hasty only.
LEMMA MeasureNowKeeps == ASSUME DriverInv, MeasureNow PROVE DriverInv'
BY DEF MeasureNow, Accept, Calling

\* ds18b20: the same, but for the first delay, whose end is the plan.
LEMMA MeasureAfterRunKeeps == ASSUME DriverInv, MeasureAfterRun PROVE DriverInv'
BY DEF MeasureAfterRun, Accept, Calling

\* In READY no delay runs.
LEMMA MeasureWhenReadyKeeps ==
  ASSUME DriverInv, NEW d \in {"sps30", "td1207r"},
         NEW first \in StatesOf(d) \ {"READY", "DEEP_SLEEP", "ALARM"},
         MeasureWhenReady(d, first)
  PROVE  DriverInv'
<1>1. /\ driver = d /\ driver \notin Flagged /\ pc \in {"idle", "event"}
      /\ state' \in StatesOf(driver) \ {"READY", "DEEP_SLEEP", "ALARM"}
      /\ state = "READY" /\ owed' = TRUE /\ plan' = "due"
      /\ UNCHANGED <<driver, active, settling, pc, resume, exti, after_sleep>>
  BY DEF MeasureWhenReady, Calling
<1>2. DriverTyped' /\ ResumeFits'
  BY <1>1 DEF Requested
<1>3. WorkAsked' /\ PlanOfRequest'
  BY <1>1
<1>4. DelayKept'
  BY <1>1
<1>5. FlagPlanned' /\ OwedKnown'
  BY <1>1 DEF Requested
<1> QED BY <1>2, <1>3, <1>4, <1>5

LEMMA MeasureSps30Keeps == ASSUME DriverInv, MeasureSps30 PROVE DriverInv'
BY MeasureWhenReadyKeeps, StateNames DEF MeasureSps30

\* Where lp8 plans its task no delay runs, or one of Hasty.
LEMMA MeasureLp8Keeps == ASSUME DriverInv, MeasureLp8 PROVE DriverInv'
<1>1. /\ driver = "lp8" /\ driver \notin Flagged /\ pc \in {"idle", "event"}
      /\ UNCHANGED <<driver, active, settling, pc, resume, exti, after_sleep>>
      /\ \/ state = "READY" /\ state' = "PRECHARGE" /\ owed' = TRUE /\ plan' = "due"
         \/ state = "INITIALIZE" /\ plan' = "due" /\ UNCHANGED <<state, owed>>
         \/ UNCHANGED <<state, owed, plan>>
  BY DEF MeasureLp8, RequestLp8, Calling
<1>2. DriverTyped' /\ ResumeFits'
  <2>1. state' \in StatesOf(driver) /\ (state' = "ALARM" => pc = "task")
    BY <1>1, StateNames
  <2>2. DriverTyped'
    BY <1>1, <2>1
  <2>3. ResumeFits'
    BY <1>1 DEF Requested
  <2> QED BY <2>2, <2>3
<1>3. WorkAsked' /\ PlanOfRequest'
  BY <1>1
<1>4. DelayKept'
  BY <1>1
<1>5. FlagPlanned' /\ OwedKnown'
  BY <1>1 DEF Requested
<1> QED BY <1>2, <1>3, <1>4, <1>5

LEMMA SendTd1207rKeeps == ASSUME DriverInv, SendTd1207r PROVE DriverInv'
BY MeasureWhenReadyKeeps, StateNames DEF SendTd1207r

\* The states that only a request leads to are entered with the request.
LEMMA RequestWssfm10r1atKeeps ==
  ASSUME DriverInv,
         NEW first \in {"SEND_RF_FRAME_COMMAND", "READ_DEVICE_COMMAND",
                        "CONTINUOUS_WAVE_COMMAND"},
         RequestWssfm10r1at(first)
  PROVE  DriverInv'
<1>1. DriverTyped' /\ WorkAsked' /\ PlanOfRequest'
  BY StateNames DEF RequestWssfm10r1at, Calling
<1>2. DelayKept' /\ FlagPlanned'
  BY DEF RequestWssfm10r1at, Calling
<1>3. ResumeFits' /\ OwedKnown'
  BY DEF Requested, RequestWssfm10r1at, Calling
<1> QED BY <1>1, <1>2, <1>3

LEMMA ReadSerialNumberKeeps == ASSUME DriverInv, ReadSerialNumber PROVE DriverInv'
<1>1. DriverTyped' /\ ResumeFits'
  BY StateNames DEF Requested, ReadSerialNumber, Calling
<1>2. WorkAsked' /\ PlanOfRequest'
  BY DEF ReadSerialNumber, Calling
<1>3. DelayKept'
  BY DEF ReadSerialNumber, Calling
<1>4. FlagPlanned' /\ OwedKnown'
  BY DEF Requested, ReadSerialNumber, Calling
<1> QED BY <1>1, <1>2, <1>3, <1>4

LEMMA UpdateIntervalOffKeeps == ASSUME DriverInv, UpdateIntervalOff PROVE DriverInv'
BY DEF UpdateIntervalOff, Calling

\* An alarm set in a handler requests a measurement like any other.
LEMMA SetAlarmKeeps == ASSUME DriverInv, SetAlarm PROVE DriverInv'
<1>1. DriverTyped'
  BY DEF SetAlarm, Calling
<1>2. WorkAsked' /\ PlanOfRequest'
  BY DEF SetAlarm, Calling
<1>3. DelayKept' /\ ResumeFits'
  BY DEF SetAlarm, Calling
<1>4. FlagPlanned' /\ OwedKnown'
  BY DEF SetAlarm, Calling
<1> QED BY <1>1, <1>2, <1>3, <1>4

LEMMA RescaleKeeps == ASSUME DriverInv, Rescale PROVE DriverInv'
<1>1. DriverTyped' /\ ResumeFits'
  BY StateNames DEF Requested, Rescale, Calling
<1>2. WorkAsked' /\ PlanOfRequest'
  BY DEF Rescale, Calling
<1>3. DelayKept'
  BY DEF Rescale, Calling
<1>4. FlagPlanned' /\ OwedKnown'
  BY DEF Requested, Rescale, Calling
<1> QED BY <1>1, <1>2, <1>3, <1>4

\* An interrupt in the middle of the task plans it once more.
LEMMA InterruptKeeps == ASSUME DriverInv, Interrupt PROVE DriverInv'
<1>1. /\ driver = "lis2dh12" /\ state \in StatesOf("lis2dh12")
      /\ UNCHANGED <<driver, state, settling, pc, resume, exti, after_sleep>>
      /\ active' /\ (active \/ (owed' /\ plan' = "due"))
      /\ active => UNCHANGED <<owed, plan>>
  BY DEF Interrupt
<1>2. DriverTyped' /\ ResumeFits'
  BY <1>1 DEF Interrupt
<1>3. WorkAsked'
  BY <1>1
<1>4. PlanOfRequest'
  BY <1>1, StateNames
<1>5. DelayKept'
  BY <1>1
<1>6. FlagPlanned' /\ OwedKnown'
  BY <1>1 DEF Requested
<1> QED BY <1>2, <1>3, <1>4, <1>5, <1>6

\* The second half of UPDATE in lis2dh12.
LEMMA AlarmCheckKeeps == ASSUME DriverInv, AlarmCheck PROVE DriverInv'
BY NoRowOfAlarm, StateNames DEF Requested, AlarmCheck

\* wssfm10r1at does after a sleep what it was woken up for.
LEMMA WakesUpKeeps == ASSUME DriverInv, WakesUp PROVE DriverInv'
BY DEF WakesUp, Wakes

\* The task goes on as the row says.
LEMMA HandlerReturnsKeeps == ASSUME DriverInv, HandlerReturns PROVE DriverInv'
BY DEF HandlerReturns, Ends, Replans

\* A failure leads to ERROR, whose delay is over.
LEMMA TransitionFailsKeeps ==
  ASSUME DriverInv, NEW row, Fits(driver, state, row), row.fails, pc = "task",
         state # "ALARM", TransitionFails
  PROVE  DriverInv'
<1>1. DriverTyped'
  BY NoRowOfAlarm DEF Fits, RowTyped, TransitionFails, StatesOf
<1>2. WorkAsked' /\ PlanOfRequest'
  BY DEF TransitionFails
<1>3. DelayKept' /\ ResumeFits'
  BY DEF TransitionFails
<1>4. FlagPlanned'
  BY DEF Fits, RowAnswers, RowAsks, TransitionFails
<1>5. OwedKnown'
  BY DEF Fits, RowAnswers, Requested, TransitionFails
<1> QED BY <1>1, <1>2, <1>3, <1>4, <1>5

\* A poll runs the same state again, or in sps30 another round of the dialogue.
LEMMA TransitionPollsKeeps ==
  ASSUME DriverInv, NEW row, Fits(driver, state, row), row.polls, pc = "task",
         state # "ALARM", TransitionPolls
  PROVE  DriverInv'
<1>0. /\ driver \in {"sps30", "lp8"} /\ state \notin {"READY", "DEEP_SLEEP"}
      /\ state = "READ_MEASUREMENT_DATA" => driver = "sps30"
      /\ ~active
  BY DEF Fits, RowSettles
<1>1. CASE state = "READ_MEASUREMENT_DATA"
  <2>1. /\ state' = "SET_DATAREADY_FLAG" /\ state' \in StatesOf(driver)
        /\ UNCHANGED <<driver, plan, settling, pc, resume, request, line>>
    BY <1>0, <1>1, StateNames DEF TransitionPolls
  <2>2. DriverTyped' /\ WorkAsked' /\ PlanOfRequest' /\ ResumeFits' /\ FlagPlanned'
    BY <1>0, <1>1, <2>1
  <2>3. DelayKept'
    BY <1>0, <1>1, <2>1
  <2>4. OwedKnown'
    BY <1>0, <1>1, <2>1 DEF Requested
  <2> QED BY <2>2, <2>3, <2>4
<1>2. CASE state # "READ_MEASUREMENT_DATA"
  <2>1. /\ settling' = TRUE /\ plan' = "waiting" /\ pc' = "idle"
        /\ UNCHANGED <<driver, state, resume, request, line>>
    BY <1>2 DEF TransitionPolls, Ends, Replans
  <2>2. DriverTyped' /\ WorkAsked' /\ PlanOfRequest' /\ ResumeFits' /\ FlagPlanned'
    BY <1>0, <2>1
  <2>3. DelayKept'
    BY <1>0, <2>1
  <2>4. OwedKnown'
    BY <1>0, <2>1
  <2> QED BY <2>2, <2>3, <2>4
<1> QED BY <1>1, <1>2

\* Another round of a calibration, after a delay.
LEMMA CalibratesKeeps == ASSUME DriverInv, pc = "task", Calibrates PROVE DriverInv'
<1>1. /\ driver = "lp8" /\ driver \notin Flagged /\ pc = "task" /\ state' = "CHARGE"
      /\ pc' = "idle" /\ plan' = "waiting" /\ settling'
      /\ UNCHANGED <<driver, active, owed, resume, exti, after_sleep>>
  BY DEF Calibrates, Ends, Replans
<1>2. DriverTyped' /\ ResumeFits'
  BY <1>1, StateNames DEF Calibrates, Replans, Ends, Requested
<1>3. WorkAsked' /\ PlanOfRequest'
  BY <1>1
<1>4. DelayKept'
  BY <1>1
<1>5. FlagPlanned' /\ OwedKnown'
  BY <1>1 DEF Requested
<1> QED BY <1>2, <1>3, <1>4, <1>5

\* A row without an event.
LEMMA TransitionDoneKeeps ==
  ASSUME DriverInv, NEW row, Fits(driver, state, row), row.event = "none",
         pc = "task", state # "ALARM", ~Wakes, TransitionDone(row)
  PROVE  DriverInv'
BY NoRowOfAlarm, StateNames DEF Fits, RowTyped, TransitionDone, Ends, Replans, RowAsks,
   RowAnswers, RowSettles, Endings

\* A row with an event: what the handler finds, and what is left to do after it.
LEMMA TransitionReportsKeeps ==
  ASSUME DriverInv, NEW row, Fits(driver, state, row), row.event # "none", pc = "task",
         state # "ALARM", ~Wakes, TransitionReports(row)
  PROVE  DriverInv'
<1>1. /\ resume'.event = row.event
      /\ row.last => resume'.next = "keep" /\ resume'.after = "return"
      /\ ~row.last => resume'.next = row.next /\ resume'.after = row.after
      /\ row.last => state' = row.next
      /\ ~row.last => state' = row.during
  BY DEF TransitionReports
<1> USE <1>1
<1>2. Upcoming' = IF ~row.last /\ row.next = "keep" THEN row.during
                  ELSE row.next
  BY DEF TransitionReports, Fits, RowTyped, RowAnswers
<1>3. DriverTyped'
  <2>1. state' \in StatesOf(driver) /\ state' # "ALARM"
    BY DEF Fits, RowTyped, RowAnswers
  <2>2. resume'.after \in AfterEvents /\ resume'.next \in StatesOf(driver) \cup {"keep"}
    BY DEF Fits, RowTyped
  <2>3. plan' \in Plans /\ settling' \in BOOLEAN
    BY DEF TransitionReports, Replans
  <2> QED BY <2>1, <2>2, <2>3 DEF TransitionReports
<1>4. WorkAsked'
  <2> SUFFICES ASSUME driver \in Flagged, Underway' PROVE Unasked(driver, Upcoming')
    BY DEF TransitionReports
  <2>1. CASE row.after # "return"
    BY <1>2, <2>1 DEF Fits, RowTyped, RowAsks
  <2>2. CASE row.after = "return"
    BY <1>2, <2>2 DEF TransitionReports, Fits, RowTyped, RowAsks, Replans
  <2> QED BY <2>1, <2>2
<1>5. PlanOfRequest'
  BY DEF TransitionReports, Fits, RowTyped, Replans, RowAsks, RowSettles
<1>6. DelayKept'
  BY DEF TransitionReports, Fits, RowTyped, Replans, RowSettles
<1>7. ResumeFits'
  <2>1. driver = "atsha204" => resume'.next = "keep" /\ resume'.after = "return"
    BY DEF Fits, RowSettles
  <2>2. resume'.after = "wait" => /\ driver \notin Flagged
                                  /\ resume'.event # "READY"
                                  /\ resume'.next \notin {"keep", "READY", "DEEP_SLEEP"}
    BY DEF Fits, RowSettles
  <2>3. driver \in Flagged => /\ resume'.event # "READY"
                              /\ resume'.after = "goto" => resume'.next = "ALARM"
    BY DEF Fits, RowAsks
  <2>4. resume'.next = "ALARM" => driver = "lis2dh12" /\ resume'.after = "goto"
    BY DEF Fits, RowAnswers
  <2>5. driver = "module_rs485" => resume'.after = "return"
    BY <2>2, <2>3, <2>4 DEF Fits, RowTyped, RowAsks
  <2>6. Requested(driver, resume'.next) => state' = resume'.next
    BY DEF Fits, RowAnswers, After, Requested
  <2>7. state' # "DEEP_SLEEP"
    BY DEF Fits, RowAnswers, RowSettles
  <2> QED BY <2>1, <2>2, <2>3, <2>4, <2>5, <2>6, <2>7 DEF TransitionReports
<1>8. FlagPlanned'
  BY DEF TransitionReports, Fits, RowTyped, RowAsks, RowAnswers, RowSettles
<1>9. OwedKnown'
  <2>1. driver \in Flagged => /\ ~owed'
                              /\ driver # "module_rs485" => ~active'
    BY DEF TransitionReports, Fits, RowAsks
  <2>2. ASSUME driver = "module_rs485" PROVE plan' = "parked" /\ pc' # "task"
    <3>1. plan = "parked"
      BY <2>2
    <3>2. row.after = "return"
      BY <2>2 DEF Fits, RowTyped, RowAsks, RowAnswers, RowSettles
    <3> QED BY <3>1, <3>2 DEF TransitionReports, Replans
  <2>3. Requested(driver, Upcoming') => owed'
    BY <1>2 DEF TransitionReports, Fits, RowAnswers, After, Requested
  <2>4. (driver = "wssfm10r1at" /\ active' /\ state' # "DEEP_SLEEP"
          /\ Requested(driver, after_sleep')) => owed'
    BY DEF TransitionReports, Fits, RowAnswers
  <2> QED BY <2>1, <2>2, <2>3, <2>4 DEF TransitionReports
<1> QED BY <1>3, <1>4, <1>5, <1>6, <1>7, <1>8, <1>9

\* A transition takes a row of the table, and all rows fit.
LEMMA TransitionKeeps == ASSUME DriverInv, Transition PROVE DriverInv'
<1> DEFINE row == Table[driver][state]
<1>1. pc = "task" /\ state # "ALARM" /\ ~Wakes
  BY DEF Transition
<1>2. Fits(driver, state, row)
  BY <1>1, AllRowsFit, NoRowOfAlarm DEF RowsFit
<1>3. CASE row.fails /\ TransitionFails
  BY <1>1, <1>2, <1>3, TransitionFailsKeeps
<1>4. CASE row.polls /\ TransitionPolls
  BY <1>1, <1>2, <1>4, TransitionPollsKeeps
<1>5. CASE row.event = "none" /\ TransitionDone(row)
  BY <1>1, <1>2, <1>5, TransitionDoneKeeps
<1>6. CASE row.event # "none" /\ TransitionReports(row)
  BY <1>1, <1>2, <1>6, TransitionReportsKeeps
<1>7. CASE Calibrates
  BY <1>1, <1>7, CalibratesKeeps
<1> QED BY <1>3, <1>4, <1>5, <1>6, <1>7 DEF Transition

LEMMA DriverStep == ASSUME DriverInv, Next PROVE DriverInv'
<1> HIDE DEF DriverInv
<1> QED
  BY ElapseKeeps, DispatchKeeps, TransitionKeeps, AlarmCheckKeeps, WakesUpKeeps,
     HandlerReturnsKeeps, MeasureAtTickReadyKeeps, MeasureNowKeeps, MeasureAfterRunKeeps,
     MeasureSps30Keeps, MeasureLp8Keeps, ReadSerialNumberKeeps, SendTd1207rKeeps,
     RequestWssfm10r1atKeeps, UpdateIntervalOffKeeps, SetAlarmKeeps, RescaleKeeps,
     InterruptKeeps
     DEF Next

\* xxx_init(): the first plan is for the end of the first delay, or the delay is
\* one that the driver is early for.
LEMMA DriverInit == ASSUME Init PROVE DriverInv
<1>1. /\ driver \in DOMAIN Table /\ state = InitialState(driver) /\ pc = "idle"
      /\ ~active /\ ~owed /\ ~exti /\ after_sleep = "READY"
  BY DriverAssumption DEF Init
<1>2. DriverTyped
  <2>1. plan \in Plans /\ settling \in BOOLEAN
    BY DEF Init
  <2>2. state \in StatesOf(driver) /\ state # "ALARM"
    BY <1>1, AllRowsFit DEF RowsFit, StatesOf, InitialState
  <2> QED BY <1>1, <2>1, <2>2, StateNames DEF Init
<1>3. WorkAsked
  BY <1>1 DEF Init, InitialState
<1>4. DelayKept
  BY <1>1 DEF Init, InitialState
<1>5. OwedKnown
  BY <1>1 DEF Init, InitialState, Requested
<1> QED BY <1>1, <1>2, <1>3, <1>4, <1>5

-------------------------------------------------------------------------------
(***************************************************************************)
(* What the invariant says of the properties.                              *)
(***************************************************************************)
\* In an early state that is not of Hasty nothing can fail.
LEMMA DeviceIsReady == ASSUME DriverInv PROVE DeviceReady
<1> SUFFICES ASSUME pc = "task", state # "ALARM", Table[driver][state].fails,
                    <<driver, state>> \notin Hasty, settling
             PROVE  FALSE
  BY DEF DeviceReady
<1>1. Early(driver, state)
  OBVIOUS
<1>2. Fits(driver, state, Table[driver][state])
  BY AllRowsFit, NoRowOfAlarm DEF RowsFit
<1> QED BY <1>1, <1>2 DEF Fits, RowSettles

\* FlagPlanned, where the task is not running.
LEMMA NoneIsStuck == ASSUME DriverInv PROVE NeverStuck
BY DEF NeverStuck

\* A row with an UPDATE is in a state a request led to; the event of AlarmCheck is
\* ALARM, and no other action calls the handler.
LEMMA UpdateIsOwed ==
  ASSUME DriverInv, Next,
         pc' = "event", pc # "event", resume'.event = "UPDATE",
         driver \notin {"zssc3123", "lp8"}
  PROVE  owed
<1>1. CASE AlarmCheck
  BY <1>1 DEF AlarmCheck
<1>2. CASE Transition
  <2> DEFINE row == Table[driver][state]
  <2>1. pc = "task" /\ state # "ALARM" /\ ~Wakes
    BY <1>2 DEF Transition
  <2>2. Fits(driver, state, row)
    BY <2>1, AllRowsFit, NoRowOfAlarm DEF RowsFit
  <2>3. row.event = "UPDATE"
    BY <1>2, <2>1 DEF Transition, TransitionFails, TransitionPolls, TransitionDone,
       TransitionReports, Calibrates, Ends
  <2>4. \/ driver \in Flagged /\ ~Unasked(driver, state)
        \/ Requested(driver, state)
    BY <2>2, <2>3 DEF Fits, RowAnswers
  <2>5. row.frees \/ driver \notin Flagged
    BY <2>2, <2>3 DEF Fits, RowAsks
  <2> QED BY <2>1, <2>4, <2>5
<1> QED
  BY <1>1, <1>2 DEF Next, Elapse, Dispatch, WakesUp, HandlerReturns, Ends,
     MeasureAtTickReady, MeasureNow, MeasureAfterRun, MeasureSps30, MeasureLp8, RequestLp8,
     SendTd1207r, MeasureWhenReady, Accept, RequestWssfm10r1at, ReadSerialNumber, UpdateIntervalOff,
     SetAlarm, Rescale, Interrupt
-------------------------------------------------------------------------------
HIDE DEF DriverInv, DriverTyped, WorkAsked, PlanOfRequest, DelayKept, ResumeFits, FlagPlanned,
   OwedKnown, Upcoming, Underway, Plans, AfterEvents, Unasked, Early, AtOnce, line, request,
   settings

(***************************************************************************)
(* The WiFi modem.  The FIFO holds what the modem said and nothing of what *)
(* it was asked, so the invariant ties the two: while a dialogue is in     *)
(* step, nothing is on its way to the modem but the request awaited (and   *)
(* its data), and an "ok" in the FIFO is the answer to it.                 *)
(***************************************************************************)
Kinds == {"init", "join", "lapopt", "lap", "sntpcfg", "time", "start", "send", "data",
          "part", "tail"}
Lines == {"ok", "fail", "error", "info", "text", "time", "at", "ipd"}
Command == [kind : Kinds] \cup [kind : Kinds, index : Nat]

\* The request whose answer a state waits for.
Awaited == [WIFI_CONNECT_RESPONSE |-> "join", SOCKET_CONNECT_RESPONSE |-> "start",
            SOCKET_SEND_DATA |-> "send", SOCKET_SEND_RESPONSE |-> "send"]

\* Where the network is joined and the success not reported yet.
Synchronizing == {"SNTP_CONFIG_COMMAND", "SNTP_CONFIG_RESPONSE", "SNTP_TIME_COMMAND",
                  "SNTP_TIME_RESPONSE"}

Said(lines) == \E i \in DOMAIN lines : lines[i] = "ok"

WifiTyped ==
    /\ pc \in {"out", "loop", "lines"} \cup Wifi!Events
    /\ tx \in Seq(Command) /\ rx \in Seq(Lines)
    /\ index \in Nat
    /\ state \in {"INITIALIZE_COMMAND_SEND", "INITIALIZE_COMMAND_RESPONSE"} =>
          index < InitCommands
    /\ after_init \in {Wifi!NONE, "WIFI_CONNECT_COMMAND", "AP_AVAILABILITY_OPT_COMMAND"}

Dialogue ==
    in_step =>
      /\ state \in DOMAIN Awaited =>
            /\ \A i \in DOMAIN tx : tx[i].kind \in {Awaited[state], "data"}
            /\ Said(rx) => Awaited[state] \in agreed
      /\ state \in Synchronizing => "join" \in agreed

WifiInv == WifiTyped /\ Dialogue /\ Wifi!SuccessIsTrue

\* Awaited, value by value.
LEMMA AwaitedStates ==
  /\ DOMAIN Awaited = {"WIFI_CONNECT_RESPONSE", "SOCKET_CONNECT_RESPONSE",
                       "SOCKET_SEND_DATA", "SOCKET_SEND_RESPONSE"}
  /\ Awaited["WIFI_CONNECT_RESPONSE"] = "join"
  /\ Awaited["SOCKET_CONNECT_RESPONSE"] = "start"
  /\ Awaited["SOCKET_SEND_DATA"] = "send"
  /\ Awaited["SOCKET_SEND_RESPONSE"] = "send"
BY DEF Awaited

\* A sequence with a length is not empty.
LEMMA NotEmpty == ASSUME NEW S, NEW s \in Seq(S), Len(s) > 0 PROVE s # <<>>
OBVIOUS

\* What the driver writes is a command.
LEMMA CommandsTyped ==
  /\ \A k \in Kinds : [kind |-> k] \in Command
  /\ \A i \in Nat : [kind |-> "init", index |-> i] \in Command
  /\ [kind |-> "tail"] \in Command /\ [kind |-> "part"] \in Command
  /\ [kind |-> "data"] \in Command
  /\ <<>> \in Seq(Command) /\ <<[kind |-> "tail"]>> \in Seq(Command)
BY DEF Command, Kinds

\* The elements of a sequence with one more, and with one less.
LEMMA AppendFacts ==
  ASSUME NEW S, NEW s \in Seq(S), NEW e \in S
  PROVE
  /\ Append(s, e) \in Seq(S)
  /\ \A i \in DOMAIN Append(s, e) :
        (i \in DOMAIN s /\ Append(s, e)[i] = s[i]) \/ Append(s, e)[i] = e
OBVIOUS

LEMMA TailFacts ==
  ASSUME NEW S, NEW s \in Seq(S), s # <<>>
  PROVE
  /\ Tail(s) \in Seq(S) /\ Head(s) \in S /\ 1 \in DOMAIN s /\ Head(s) = s[1]
  /\ \A i \in DOMAIN Tail(s) : i+1 \in DOMAIN s /\ Tail(s)[i] = s[i+1]
OBVIOUS

\* Reading a line says nothing that was not in the FIFO.
LEMMA RestOf ==
  ASSUME rx \in Seq(Lines)
  PROVE
  /\ Wifi!Rest \in Seq(Lines) /\ (Said(Wifi!Rest) => Said(rx))
  /\ Wifi!Line = "ok" => Said(rx) /\ rx # <<>>
  /\ rx # <<>> => Tail(rx) \in Seq(Lines) /\ (Said(Tail(rx)) => Said(rx))
  /\ Len(rx) > 1 => Tail(Wifi!Rest) \in Seq(Lines) /\ (Said(Tail(Wifi!Rest)) => Said(rx))
<1>1. ASSUME NEW s \in Seq(Lines), s # <<>>
      PROVE  Tail(s) \in Seq(Lines) /\ (Said(Tail(s)) => Said(s))
  BY <1>1, TailFacts DEF Said
<1>2. Wifi!Rest \in Seq(Lines) /\ (Said(Wifi!Rest) => Said(rx))
  BY <1>1 DEF Wifi!Rest, Said
<1>3. Wifi!Line = "ok" => Said(rx) /\ rx # <<>>
  <2>1. SUFFICES ASSUME Wifi!Line = "ok" PROVE Said(rx) /\ rx # <<>>
    OBVIOUS
  <2>2. rx # <<>> /\ Head(rx) = "ok"
    BY <2>1 DEF Wifi!Line
  <2> QED BY <2>2 DEF Said
<1>4. ASSUME Len(rx) > 1
      PROVE  Tail(Wifi!Rest) \in Seq(Lines) /\ (Said(Tail(Wifi!Rest)) => Said(rx))
  <2>1. rx # <<>>
    BY <1>4
  <2>2. Wifi!Rest = Tail(rx)
    BY <2>1 DEF Wifi!Rest
  <2>3. Len(Tail(rx)) > 0 /\ Len(<<>>) = 0
    BY <1>4, <2>1
  <2>4. Tail(rx) # <<>>
    BY <2>1, <2>3, TailFacts, NotEmpty
  <2> QED BY <1>1, <1>2, <2>2, <2>4
<1> QED BY <1>1, <1>2, <1>3, <1>4

\* Nothing is said by two sequences together but by one of them.
LEMMA ConcatFacts ==
  ASSUME NEW s \in Seq(Lines), NEW a \in Seq(Lines)
  PROVE
  /\ s \o a \in Seq(Lines)
  /\ Said(s \o a) => Said(s) \/ Said(a)
<1>1. /\ s \o a \in Seq(Lines) /\ Len(s \o a) = Len(s) + Len(a)
      /\ \A i \in 1..Len(s) + Len(a) :
            (s \o a)[i] = IF i <= Len(s) THEN s[i] ELSE a[i - Len(s)]
  OBVIOUS
<1>2. ASSUME NEW i \in DOMAIN (s \o a), (s \o a)[i] = "ok" PROVE Said(s) \/ Said(a)
  <2>1. i \in 1..Len(s) + Len(a)
    BY <1>1
  <2>2. CASE i <= Len(s)
    BY <1>1, <1>2, <2>1, <2>2 DEF Said
  <2>3. CASE i > Len(s)
    <3>1. i - Len(s) \in DOMAIN a /\ a[i - Len(s)] = "ok"
      BY <1>1, <1>2, <2>1, <2>3
    <3> QED BY <3>1 DEF Said
  <2> QED BY <2>1, <2>2, <2>3
<1> QED BY <1>1, <1>2 DEF Said

\* Whatever the modem answers to a whole command; to data out of place, an error.
Replies == {<<"ok">>, <<"error">>, <<"info", "ok">>, <<"info", "fail">>, <<"time", "ok">>,
            <<"ok", "text">>}

LEMMA AnswersOf ==
  ASSUME NEW kind \in Kinds, NEW a \in Wifi!Answers(kind)
  PROVE
  /\ a \in Replies
  /\ kind = "data" => a = <<"error">>
BY DEF Kinds, Wifi!Answers, Replies

\* An answer that says OK is not a refusal, nor does it come while data are awaited.
LEMMA AnswerFacts ==
  ASSUME NEW kind \in Kinds, NEW answer \in Wifi!Answer(kind)
  PROVE
  /\ answer \in Seq(Lines)
  /\ Said(answer) => kind # "data" /\ ~awaiting /\ answer # <<>> /\ ~Wifi!Refuses(answer)
<1>1. ASSUME NEW a \in Replies
      PROVE  /\ a \in Seq(Lines) /\ Len(a) > 0
             /\ Said(a) => a # <<"error">> /\ a[Len(a)] \notin {"fail", "error"}
  <2>1. CASE a = <<"ok">>
    BY <2>1 DEF Lines
  <2>2. CASE a = <<"error">>
    BY <2>2 DEF Lines, Said
  <2>3. CASE a = <<"info", "ok">>
    BY <2>3 DEF Lines
  <2>4. CASE a = <<"info", "fail">>
    BY <2>4 DEF Lines, Said
  <2>5. CASE a = <<"time", "ok">>
    BY <2>5 DEF Lines
  <2>6. CASE a = <<"ok", "text">>
    BY <2>6 DEF Lines
  <2> QED BY <2>1, <2>2, <2>3, <2>4, <2>5, <2>6 DEF Replies
<1>2. CASE awaiting
  <2>1. answer \in {<<>>, <<"info">>, <<"error">>}
    BY <1>2 DEF Wifi!Answer
  <2>2. <<>> \in Seq(Lines) /\ <<"info">> \in Seq(Lines) /\ <<"error">> \in Seq(Lines)
    BY DEF Lines
  <2>3. ~Said(<<>>) /\ ~Said(<<"info">>) /\ ~Said(<<"error">>)
    BY DEF Said
  <2> QED BY <2>1, <2>2, <2>3
<1>3. CASE ~awaiting
  <2>1. PICK a \in Wifi!Answers(kind), p \in {<<>>, <<"at">>} : answer = p \o a
    BY <1>3 DEF Wifi!Answer
  <2>2. a \in Replies /\ (kind = "data" => a = <<"error">>)
    BY AnswersOf
  <2>3. p \in Seq(Lines) /\ ~Said(p)
    <3>1. CASE p = <<>>
      BY <3>1 DEF Said
    <3>2. CASE p = <<"at">>
      BY <3>2 DEF Said, Lines
    <3> QED BY <3>1, <3>2
  <2>4. answer \in Seq(Lines) /\ (Said(answer) => Said(a))
    BY <1>1, <2>1, <2>2, <2>3, ConcatFacts
  <2>5. Len(answer) > 0 /\ answer[Len(answer)] = a[Len(a)]
    <3>1. a \in Seq(Lines) /\ Len(a) > 0
      BY <1>1, <2>2
    <3>2. Len(p \o a) = Len(p) + Len(a) /\ (p \o a)[Len(p) + Len(a)] = a[Len(a)]
      BY <2>3, <3>1
    <3> QED BY <2>1, <2>3, <3>1, <3>2
  <2>6. answer # <<>>
    BY <2>5
  <2> QED BY <1>1, <1>3, <2>2, <2>4, <2>5, <2>6 DEF Wifi!Refuses
<1> QED BY <1>2, <1>3

-------------------------------------------------------------------------------
(***************************************************************************)
(* Every action of the modem and its driver keeps that invariant.          *)
(***************************************************************************)
USE DEF Wifi!NONE, Wifi!Events, Wifi!Application, Wifi!driver, Wifi!modem, Wifi!history,
   Wifi!Goes, Wifi!Raises, Wifi!Waits, Wifi!Again, Wifi!Off, Wifi!On, Wifi!Disable,
   Wifi!IsReady, Wifi!Polling

\* The application asks.
LEMMA CallsKeep ==
  ASSUME WifiInv,
         Wifi!Asked
  PROVE  WifiInv'
<1>1. ASSUME NEW first \in {"WIFI_CONNECT_COMMAND", "AP_AVAILABILITY_OPT_COMMAND"},
             Wifi!Connect(first)
      PROVE  WifiInv'
  BY <1>1, AwaitedStates DEF WifiInv, WifiTyped, Dialogue, Synchronizing,
     Wifi!SuccessIsTrue, Wifi!Connect
<1>2. CASE Wifi!Disconnect
  BY <1>2, CommandsTyped, AwaitedStates DEF WifiInv, WifiTyped, Dialogue, Synchronizing,
     Wifi!SuccessIsTrue, Wifi!Disconnect
<1>3. CASE Wifi!SocketConnect
  BY <1>3, AwaitedStates DEF WifiInv, WifiTyped, Dialogue, Synchronizing,
     Wifi!SuccessIsTrue, Wifi!SocketConnect
<1>4. CASE Wifi!SendData
  BY <1>4, AwaitedStates DEF WifiInv, WifiTyped, Dialogue, Synchronizing,
     Wifi!SuccessIsTrue, Wifi!SendData
<1> QED BY <1>1, <1>2, <1>3, <1>4 DEF Wifi!Asked

\* A message comes, whole or cut; the task is told.
LEMMA MessagesKeep ==
  ASSUME WifiInv,
         \/ Wifi!Message
         \/ Wifi!MessageRest
         \/ Wifi!MessageCut
         \/ Wifi!UartEvent
         \/ Wifi!HandlerReturns
  PROVE  WifiInv'
<1>1. CASE Wifi!Message
  BY <1>1, AppendFacts, AwaitedStates DEF WifiInv, WifiTyped, Dialogue, Synchronizing,
     Wifi!SuccessIsTrue, Wifi!Message, Said, Lines
<1>2. CASE Wifi!MessageRest
  BY <1>2, AppendFacts, AwaitedStates DEF WifiInv, WifiTyped, Dialogue, Synchronizing,
     Wifi!SuccessIsTrue, Wifi!MessageRest, Said, Lines
<1>3. CASE Wifi!MessageCut
  BY <1>3, AwaitedStates DEF WifiInv, WifiTyped, Dialogue, Synchronizing,
     Wifi!SuccessIsTrue, Wifi!MessageCut
<1>4. CASE Wifi!UartEvent
  BY <1>4, AwaitedStates DEF WifiInv, WifiTyped, Dialogue, Synchronizing,
     Wifi!SuccessIsTrue, Wifi!UartEvent
<1>5. CASE Wifi!HandlerReturns
  BY <1>5, AwaitedStates DEF WifiInv, WifiTyped, Dialogue, Synchronizing,
     Wifi!SuccessIsTrue, Wifi!HandlerReturns
<1> QED BY <1>1, <1>2, <1>3, <1>4, <1>5

\* The task starts, or takes a round in a state without a command or an answer to
\* one.
LEMMA RoundsKeep ==
  ASSUME WifiInv,
         \/ Wifi!TaskStarts
         \/ Wifi!Decides
         \/ Wifi!Receive
         \/ Wifi!ReceiveLine
         \/ Wifi!SocketReceive
         \/ Wifi!Initialize
  PROVE  WifiInv'
<1>1. CASE Wifi!TaskStarts
  BY <1>1, AwaitedStates DEF WifiInv, WifiTyped, Dialogue, Synchronizing,
     Wifi!SuccessIsTrue, Wifi!TaskStarts
<1>2. CASE Wifi!Decides
  BY <1>2, AwaitedStates DEF WifiInv, WifiTyped, Dialogue, Synchronizing,
     Wifi!SuccessIsTrue, Wifi!Decides
<1>3. CASE Wifi!Receive
  BY <1>3, AwaitedStates DEF WifiInv, WifiTyped, Dialogue, Synchronizing,
     Wifi!SuccessIsTrue, Wifi!Receive
<1>4. CASE Wifi!ReceiveLine
  BY <1>4, RestOf, AwaitedStates DEF WifiInv, WifiTyped, Dialogue, Synchronizing,
     Wifi!SuccessIsTrue, Wifi!ReceiveLine
<1>5. CASE Wifi!SocketReceive
  BY <1>5, RestOf, TailFacts, AwaitedStates DEF WifiInv, WifiTyped, Dialogue,
     Synchronizing, Wifi!SuccessIsTrue, Wifi!SocketReceive
<1>6. CASE Wifi!Initialize
  BY <1>6, CommandAssumption, AwaitedStates DEF WifiInv, WifiTyped, Dialogue,
     Synchronizing, Wifi!SuccessIsTrue, Wifi!Initialize
<1> QED BY <1>1, <1>2, <1>3, <1>4, <1>5, <1>6

\* The task reads an answer: a line that says OK is that of the request awaited.
LEMMA ResponsesKeep ==
  ASSUME WifiInv,
         \/ Wifi!SocketSendResponse \/ Wifi!SntpConfigResponse
         \/ Wifi!WifiConnectResponse \/ Wifi!SntpTimeResponse
         \/ Wifi!SocketConnectResponse \/ Wifi!ApOptResponse \/ Wifi!ApResponse
  PROVE  WifiInv'
<1>1. CASE Wifi!SocketSendResponse
  BY <1>1, RestOf, AwaitedStates DEF WifiInv, WifiTyped, Dialogue, Synchronizing,
     Wifi!SuccessIsTrue, Wifi!SocketSendResponse
<1>2. CASE Wifi!SntpConfigResponse
  BY <1>2, RestOf, AwaitedStates DEF WifiInv, WifiTyped, Dialogue, Synchronizing,
     Wifi!SuccessIsTrue, Wifi!SntpConfigResponse
<1>3. CASE Wifi!WifiConnectResponse
  BY <1>3, RestOf, CommandsTyped, AwaitedStates DEF WifiInv, WifiTyped, Dialogue,
     Synchronizing, Wifi!SuccessIsTrue, Wifi!WifiConnectResponse, Wifi!Poll
<1>4. CASE Wifi!SntpTimeResponse
  BY <1>4, RestOf, CommandsTyped, AwaitedStates DEF WifiInv, WifiTyped, Dialogue,
     Synchronizing, Wifi!SuccessIsTrue, Wifi!SntpTimeResponse, Wifi!Poll
<1>5. CASE Wifi!SocketConnectResponse
  BY <1>5, RestOf, CommandsTyped, AwaitedStates DEF WifiInv, WifiTyped, Dialogue,
     Synchronizing, Wifi!SuccessIsTrue, Wifi!SocketConnectResponse, Wifi!Poll
<1>6. CASE Wifi!ApOptResponse
  BY <1>6, RestOf, CommandsTyped, AwaitedStates DEF WifiInv, WifiTyped, Dialogue,
     Synchronizing, Wifi!SuccessIsTrue, Wifi!ApOptResponse
<1>7. CASE Wifi!ApResponse
  BY <1>7, RestOf, CommandsTyped, AwaitedStates DEF WifiInv, WifiTyped, Dialogue,
     Synchronizing, Wifi!SuccessIsTrue, Wifi!ApResponse, Wifi!Poll
<1> QED BY <1>1, <1>2, <1>3, <1>4, <1>5, <1>6, <1>7

\* The commands of the initialization: no state with an answer awaited follows.
LEMMA InitializeCommandKeeps == ASSUME WifiInv, Wifi!InitializeCommand PROVE WifiInv'
<1>1. rx' \in Seq(Lines)
  BY DEF WifiInv, WifiTyped, Wifi!InitializeCommand
<1>2. tx' \in Seq(Command)
  <2>1. CASE Wifi!Writes([kind |-> "init", index |-> index], index = 0 \/ in_step)
    <3>1. [kind |-> "init", index |-> index] \in Command
      BY CommandsTyped DEF WifiInv, WifiTyped
    <3> QED BY <2>1, <3>1, AppendFacts DEF WifiInv, WifiTyped, Wifi!Writes
  <2>2. CASE tx' = Append(tx, [kind |-> "tail"])
    <3>1. [kind |-> "tail"] \in Command
      BY CommandsTyped
    <3> QED BY <2>2, <3>1, AppendFacts DEF WifiInv, WifiTyped
  <2>3. CASE tx' = tx
    BY <2>3 DEF WifiInv, WifiTyped
  <2> QED BY <2>1, <2>2, <2>3 DEF Wifi!InitializeCommand
<1>3. /\ state' \notin DOMAIN Awaited \cup Synchronizing /\ pc' \in {"out", "loop"}
      /\ UNCHANGED <<index, after_init>>
      /\ state = "INITIALIZE_COMMAND_SEND"
  BY AwaitedStates DEF Synchronizing, WifiInv, WifiTyped, Wifi!InitializeCommand
<1> QED
  BY <1>1, <1>2, <1>3 DEF WifiInv, WifiTyped, Dialogue, Wifi!SuccessIsTrue

\* The data follow the request to send them, which stays the one awaited.
LEMMA SocketSendDataKeeps == ASSUME WifiInv, Wifi!SocketSendData PROVE WifiInv'
<1>1. PICK c \in Command :
         /\ tx' = Append(tx, c)
         /\ state' \in DOMAIN Awaited \cup Synchronizing =>
               c.kind = "data" /\ state' = "SOCKET_SEND_RESPONSE"
  BY CommandsTyped, AwaitedStates DEF Wifi!SocketSendData, Synchronizing
<1>2. WifiTyped'
  BY <1>1, AppendFacts DEF WifiInv, WifiTyped, Wifi!SocketSendData
<1>3. Dialogue'
  <2> SUFFICES ASSUME in_step', state' \in DOMAIN Awaited \cup Synchronizing
               PROVE  /\ \A i \in DOMAIN tx' : tx'[i].kind \in {"send", "data"}
                      /\ Said(rx') => "send" \in agreed'
    BY <1>1, AwaitedStates DEF Dialogue, Synchronizing
  <2>1. /\ \A i \in DOMAIN tx : tx[i].kind \in {"send", "data"}
        /\ Said(rx) => "send" \in agreed
    BY AwaitedStates DEF WifiInv, Dialogue, Wifi!SocketSendData
  <2> QED BY <1>1, <2>1, AppendFacts DEF WifiInv, WifiTyped, Wifi!SocketSendData
<1>4. Wifi!SuccessIsTrue'
  BY DEF Wifi!SuccessIsTrue, Wifi!SocketSendData
<1> QED BY <1>2, <1>3, <1>4 DEF WifiInv

\* After the last one comes the command the application asked for.
LEMMA InitializeResponseKeeps == ASSUME WifiInv, Wifi!InitializeResponse PROVE WifiInv'
<1>1. rx' \in Seq(Lines)
  BY RestOf DEF WifiInv, WifiTyped, Wifi!InitializeResponse
<1>2. /\ state' \notin DOMAIN Awaited \cup Synchronizing /\ index' \in Nat
      /\ state' \in {"INITIALIZE_COMMAND_SEND", "INITIALIZE_COMMAND_RESPONSE"} =>
            index' < InitCommands
      /\ UNCHANGED <<pc, after_init, tx>>
  BY CommandAssumption, AwaitedStates DEF Synchronizing, WifiInv, WifiTyped,
     Wifi!InitializeResponse
<1> QED
  BY <1>1, <1>2 DEF WifiInv, WifiTyped, Dialogue, Wifi!SuccessIsTrue,
     Wifi!InitializeResponse

\* What matters of a row of Commands.
CommandRow(s) ==
  LET k == Wifi!Commands[s][1]
      next == Wifi!Commands[s][2] IN
  /\ k \in Kinds
  /\ next \notin {"INITIALIZE_COMMAND_SEND", "INITIALIZE_COMMAND_RESPONSE"}
  /\ next \in DOMAIN Awaited => Awaited[next] = k
  /\ next \in Synchronizing => /\ s \in Synchronizing /\ Wifi!Commands[s][3] # "begins"
                             /\ k \in {"sntpcfg", "time"}

\* It holds of every row.
LEMMA CommandRows == \A s \in DOMAIN Wifi!Commands : CommandRow(s)
<1>1. DOMAIN Wifi!Commands =
         {"WIFI_CONNECT_COMMAND", "AP_AVAILABILITY_OPT_COMMAND",
          "AP_AVAILABILITY_COMMAND", "SNTP_CONFIG_COMMAND", "SNTP_TIME_COMMAND",
          "SOCKET_CONNECT_COMMAND", "SOCKET_SEND_COMMAND"}
  BY DEF Wifi!Commands
<1>2. CommandRow("WIFI_CONNECT_COMMAND")
  <2>1. /\ Wifi!Commands["WIFI_CONNECT_COMMAND"][1] = "join"
        /\ Wifi!Commands["WIFI_CONNECT_COMMAND"][2] = "WIFI_CONNECT_RESPONSE"
        /\ Wifi!Commands["WIFI_CONNECT_COMMAND"][3] = "goes on"
    BY DEF Wifi!Commands
  <2> QED BY <2>1, AwaitedStates DEF CommandRow, Kinds, Synchronizing
<1>3. CommandRow("AP_AVAILABILITY_OPT_COMMAND")
  <2>1. /\ Wifi!Commands["AP_AVAILABILITY_OPT_COMMAND"][1] = "lapopt"
        /\ Wifi!Commands["AP_AVAILABILITY_OPT_COMMAND"][2] =
              "AP_AVAILABILITY_OPT_RESPONSE"
        /\ Wifi!Commands["AP_AVAILABILITY_OPT_COMMAND"][3] = "goes on"
    BY DEF Wifi!Commands
  <2> QED BY <2>1, AwaitedStates DEF CommandRow, Kinds, Synchronizing
<1>4. CommandRow("AP_AVAILABILITY_COMMAND")
  <2>1. /\ Wifi!Commands["AP_AVAILABILITY_COMMAND"][1] = "lap"
        /\ Wifi!Commands["AP_AVAILABILITY_COMMAND"][2] = "AP_AVAILABILITY_RESPONSE"
        /\ Wifi!Commands["AP_AVAILABILITY_COMMAND"][3] = "goes on"
    BY DEF Wifi!Commands
  <2> QED BY <2>1, AwaitedStates DEF CommandRow, Kinds, Synchronizing
<1>5. CommandRow("SNTP_CONFIG_COMMAND")
  <2>1. /\ Wifi!Commands["SNTP_CONFIG_COMMAND"][1] = "sntpcfg"
        /\ Wifi!Commands["SNTP_CONFIG_COMMAND"][2] = "SNTP_CONFIG_RESPONSE"
        /\ Wifi!Commands["SNTP_CONFIG_COMMAND"][3] = "goes on"
    BY DEF Wifi!Commands
  <2> QED BY <2>1, AwaitedStates DEF CommandRow, Kinds, Synchronizing
<1>6. CommandRow("SNTP_TIME_COMMAND")
  <2>1. /\ Wifi!Commands["SNTP_TIME_COMMAND"][1] = "time"
        /\ Wifi!Commands["SNTP_TIME_COMMAND"][2] = "SNTP_TIME_RESPONSE"
        /\ Wifi!Commands["SNTP_TIME_COMMAND"][3] = "goes on"
    BY DEF Wifi!Commands
  <2> QED BY <2>1, AwaitedStates DEF CommandRow, Kinds, Synchronizing
<1>7. CommandRow("SOCKET_CONNECT_COMMAND")
  <2>1. /\ Wifi!Commands["SOCKET_CONNECT_COMMAND"][1] = "start"
        /\ Wifi!Commands["SOCKET_CONNECT_COMMAND"][2] = "SOCKET_CONNECT_RESPONSE"
        /\ Wifi!Commands["SOCKET_CONNECT_COMMAND"][3] = "begins"
    BY DEF Wifi!Commands
  <2> QED BY <2>1, AwaitedStates DEF CommandRow, Kinds, Synchronizing
<1>8. CommandRow("SOCKET_SEND_COMMAND")
  <2>1. /\ Wifi!Commands["SOCKET_SEND_COMMAND"][1] = "send"
        /\ Wifi!Commands["SOCKET_SEND_COMMAND"][2] = "SOCKET_SEND_DATA"
        /\ Wifi!Commands["SOCKET_SEND_COMMAND"][3] = "begins"
    BY DEF Wifi!Commands
  <2> QED BY <2>1, AwaitedStates DEF CommandRow, Kinds, Synchronizing
<1> QED BY <1>1, <1>2, <1>3, <1>4, <1>5, <1>6, <1>7, <1>8 DEF Wifi!Commands

\* In step, the command is alone on its way, and the FIFO empty.
LEMMA CommandStateKeeps == ASSUME WifiInv, Wifi!CommandState PROVE WifiInv'
<1> DEFINE k == Wifi!Commands[state][1]
           next == Wifi!Commands[state][2]
           goes_on == Wifi!Commands[state][3] # "begins"
<1>1. /\ k \in Kinds
      /\ next \notin {"INITIALIZE_COMMAND_SEND", "INITIALIZE_COMMAND_RESPONSE"}
      /\ next \in DOMAIN Awaited => Awaited[next] = k
      /\ next \in Synchronizing =>
            state \in Synchronizing /\ goes_on /\ k \in {"sntpcfg", "time"}
  <2>1. CommandRow(state)
    BY CommandRows DEF Wifi!CommandState
  <2> QED BY <2>1 DEF CommandRow
<1> HIDE DEF k, next
<1>2. [kind |-> k] \in Command
  BY <1>1, CommandsTyped
<1>3. WifiTyped'
  BY <1>1, <1>2, AppendFacts DEF WifiInv, WifiTyped, Wifi!CommandState, Wifi!Writes, k,
     next
<1>4. Dialogue'
  <2>1. /\ state' = next /\ tx' = Append(tx, [kind |-> k]) /\ rx' = rx
        /\ in_step' => tx = <<>> /\ rx = <<>> /\ (goes_on => in_step)
        /\ k \in {"sntpcfg", "time"} => agreed' = agreed
    BY DEF Wifi!CommandState, Wifi!Writes, k, next
  <2>2. ASSUME in_step', state' \in DOMAIN Awaited
        PROVE  /\ \A i \in DOMAIN tx' : tx'[i].kind \in {Awaited[state'], "data"}
               /\ ~Said(rx')
    <3>1. Awaited[state'] = k /\ tx = <<>> /\ rx = <<>>
      BY <1>1, <2>1, <2>2
    <3>2. tx' = <<[kind |-> k]>>
      BY <2>1, <3>1
    <3> QED BY <2>1, <3>1, <3>2 DEF Said
  <2>3. ASSUME in_step', state' \in Synchronizing PROVE "join" \in agreed'
    BY <1>1, <2>1, <2>3 DEF WifiInv, Dialogue
  <2> QED BY <2>2, <2>3 DEF Dialogue
<1>5. Wifi!SuccessIsTrue'
  BY DEF Wifi!SuccessIsTrue, Wifi!CommandState
<1> QED BY <1>3, <1>4, <1>5 DEF WifiInv

\* The command the modem reads first, and those behind it.
LEMMA HeadTyped ==
  ASSUME WifiInv, tx # <<>>
  PROVE
  /\ Head(tx) \in Command /\ Head(tx).kind \in Kinds /\ Tail(tx) \in Seq(Command)
  /\ in_step /\ state \in DOMAIN Awaited =>
        /\ Head(tx).kind \in {Awaited[state], "data"}
        /\ \A i \in DOMAIN Tail(tx) : Tail(tx)[i].kind \in {Awaited[state], "data"}
<1>1. Head(tx) \in Command /\ Tail(tx) \in Seq(Command)
  BY TailFacts DEF WifiInv, WifiTyped
<1>2. Head(tx).kind \in Kinds
  BY <1>1 DEF Command
<1> QED BY <1>1, <1>2, TailFacts DEF WifiInv, WifiTyped, Dialogue

\* In step, an answer that says OK agrees to the request awaited.
LEMMA AnswerAgrees ==
  ASSUME WifiInv, tx # <<>>, NEW answer \in Wifi!Answer(Head(tx).kind),
         Wifi!Performs(Head(tx), answer)
  PROVE  /\ tx' = Tail(tx) /\ agreed \subseteq agreed'
         /\ answer \in Seq(Lines)
         /\ (in_step /\ state \in DOMAIN Awaited /\ Said(answer)) =>
               Awaited[state] \in agreed'
<1>1. tx' = Tail(tx) /\ agreed \subseteq agreed'
  BY DEF Wifi!Performs
<1>2. answer \in Seq(Lines)
  BY HeadTyped, AnswerFacts
<1>3. ASSUME in_step, state \in DOMAIN Awaited, Said(answer)
      PROVE  Awaited[state] \in agreed'
  <2>1. /\ Head(tx).kind = Awaited[state]
        /\ ~awaiting /\ answer # <<>> /\ ~Wifi!Refuses(answer)
    BY <1>3, HeadTyped, AnswerFacts
  <2>2. Awaited[state] \in Wifi!Requests
    BY <1>3, AwaitedStates DEF Wifi!Requests
  <2> QED BY <2>1, <2>2 DEF Wifi!Performs
<1> QED BY <1>1, <1>2, <1>3

\* So it is when the modem answers, and when its answer is lost.
LEMMA ModemAnswersKeeps == ASSUME WifiInv, Wifi!ModemAnswers PROVE WifiInv'
<1>1. PICK answer \in Wifi!Answer(Head(tx).kind) :
         Wifi!Performs(Head(tx), answer) /\ rx' = rx \o answer
  BY DEF Wifi!ModemAnswers
<1>2. /\ tx # <<>>
      /\ UNCHANGED <<state, pc, index, after_init, in_step>>
  BY DEF Wifi!ModemAnswers
<1>3. /\ tx' = Tail(tx) /\ agreed \subseteq agreed' /\ answer \in Seq(Lines)
      /\ (in_step /\ state \in DOMAIN Awaited /\ Said(answer)) =>
            Awaited[state] \in agreed'  BY <1>1, <1>2, AnswerAgrees
<1>4. /\ rx' \in Seq(Lines)
      /\ Said(rx') => Said(rx) \/ Said(answer)
  BY <1>1, <1>3, ConcatFacts DEF WifiInv, WifiTyped
<1>5. WifiTyped'
  BY <1>2, <1>3, <1>4, HeadTyped DEF WifiInv, WifiTyped
<1>6. Dialogue'
  BY <1>2, <1>3, <1>4, HeadTyped DEF WifiInv, Dialogue
<1>7. Wifi!SuccessIsTrue'
  BY <1>2, <1>3 DEF WifiInv, Wifi!SuccessIsTrue
<1> QED BY <1>5, <1>6, <1>7 DEF WifiInv

LEMMA ModemFailsKeeps == ASSUME WifiInv, Wifi!ModemFails PROVE WifiInv'
<1>1. /\ tx # <<>>
      /\ UNCHANGED <<state, pc, index, after_init, in_step, rx>>
  BY DEF Wifi!ModemFails
<1>2. tx' = Tail(tx) /\ agreed \subseteq agreed'
  BY <1>1, AnswerAgrees DEF Wifi!ModemFails
<1>3. WifiTyped'
  BY <1>1, <1>2, HeadTyped DEF WifiInv, WifiTyped
<1>4. Dialogue'
  BY <1>1, <1>2, HeadTyped DEF WifiInv, Dialogue
<1>5. Wifi!SuccessIsTrue'
  BY <1>1, <1>2 DEF WifiInv, Wifi!SuccessIsTrue
<1> QED BY <1>3, <1>4, <1>5 DEF WifiInv

LEMMA WifiStep == ASSUME WifiInv, Wifi!Next PROVE WifiInv'
BY CallsKeep, MessagesKeep, RoundsKeep, ResponsesKeep, InitializeCommandKeeps,
   InitializeResponseKeeps, CommandStateKeeps, SocketSendDataKeeps, ModemAnswersKeeps,
   ModemFailsKeeps
   DEF Wifi!Next, Wifi!Task

LEMMA WifiInit == ASSUME Wifi!Init PROVE WifiInv
BY AwaitedStates, CommandAssumption, CommandsTyped DEF Wifi!Init, WifiInv, WifiTyped,
   Dialogue, Synchronizing, Wifi!SuccessIsTrue

-------------------------------------------------------------------------------
(***************************************************************************)
(* The two together: a behaviour is about one of them, and the variables   *)
(* of the other stay as they are.                                          *)
(***************************************************************************)
DevicesInv == \/ driver # "esp8266" /\ DriverInv
              \/ driver = "esp8266" /\ WifiInv /\ ~active

LEMMA DevicesInit == ASSUME DInit PROVE DevicesInv
<1>1. CASE Init /\ WifiOff
  <2>1. DriverInv
    BY <1>1, DriverInit
  <2>2. driver # "esp8266"
    BY <2>1, DriverNames DEF DriverInv, DriverTyped
  <2> QED BY <2>1, <2>2 DEF DevicesInv
<1>2. CASE driver = "esp8266" /\ Wifi!Init /\ DriversOff
  BY <1>2, WifiInit DEF DevicesInv, DriversOff
<1> QED BY <1>1, <1>2 DEF DInit

LEMMA DevicesStutter == ASSUME DevicesInv, UNCHANGED dvars PROVE DevicesInv'
<1>1. UNCHANGED vars /\ UNCHANGED wifi_only
  BY DEF dvars
<1>2. DriverInv => DriverInv'
  BY <1>1 DEF vars, DriverInv, DriverTyped, WorkAsked, PlanOfRequest, DelayKept,
     ResumeFits,
     FlagPlanned, OwedKnown, Upcoming, Underway
<1>3. WifiInv => WifiInv'
  BY <1>1 DEF vars, wifi_only, WifiInv, WifiTyped, Dialogue, Wifi!SuccessIsTrue
<1> QED BY <1>1, <1>2, <1>3 DEF vars, DevicesInv

LEMMA DevicesStep == ASSUME DevicesInv, [DNext]_dvars PROVE DevicesInv'
<1>1. CASE Measuring /\ Next
  <2>1. DriverInv'
    BY <1>1, DriverStep DEF DevicesInv, Measuring
  <2>2. driver' # "esp8266"
    BY <2>1, DriverNames DEF DriverInv, DriverTyped
  <2> QED BY <2>1, <2>2 DEF DevicesInv
<1>2. CASE Talking /\ Wifi!Next
  BY <1>2, WifiStep DEF DevicesInv, Talking, drivers_only
<1>3. CASE UNCHANGED dvars
  BY <1>3, DevicesStutter
<1> QED BY <1>1, <1>2, <1>3 DEF DNext

LEMMA DevicesInvariant == DSpec => []DevicesInv
BY DevicesInit, DevicesStep, PTL DEF DSpec

\* The two name where they are in different words.
LEMMA NotTheTask == ASSUME WifiInv PROVE pc \notin {"task", "idle", "event"}
BY DEF WifiInv, WifiTyped

-------------------------------------------------------------------------------
(***************************************************************************)
(* No driver of the table talks to its device while a delay it prescribed  *)
(* for it runs, whatever requests, errors, handlers and interrupts come    *)
(* between; but for the pairs of Hasty, where the measure() of twr/src     *)
(* plans the task at once.                                                 *)
(***************************************************************************)
THEOREM TalksWhenReady == DSpec => []DeviceReady
<1>1. DevicesInv => DeviceReady
  BY DeviceIsReady, NotTheTask DEF DevicesInv, DeviceReady
<1> QED BY <1>1, DevicesInvariant, PTL

(***************************************************************************)
(* A driver that refuses requests because a measurement is active has its  *)
(* task planned; but for module_rs485, whose error keeps the flag.         *)
(***************************************************************************)
THEOREM ActiveIsPlanned == DSpec => []NeverStuck
<1>1. DevicesInv => NeverStuck
  BY NoneIsStuck, NotTheTask DEF DevicesInv, NeverStuck
<1> QED BY <1>1, DevicesInvariant, PTL

(***************************************************************************)
(* No driver but zssc3123 and lp8 reports a measurement that nobody asked  *)
(* for: not after an error, nor for the request before.                    *)
(***************************************************************************)
THEOREM ReportsOnDemand == DSpec => OnDemand
<1> DEFINE Asked == (/\ pc' = "event" /\ pc # "event" /\ resume'.event = "UPDATE"
                     /\ driver \notin {"zssc3123", "lp8"}) => owed
<1>1. ASSUME DevicesInv, [DNext]_dvars PROVE [Asked]_vars
  <2>1. CASE Measuring /\ Next
    BY <1>1, <2>1, UpdateIsOwed DEF DevicesInv, Measuring
  <2>2. CASE Talking /\ Wifi!Next
    <3>1. WifiInv'
      BY <1>1, <2>2, WifiStep DEF DevicesInv, Talking
    <3>2. pc' # "event"
      BY <3>1 DEF WifiInv, WifiTyped
    <3> QED BY <3>2
  <2>3. CASE UNCHANGED dvars
    BY <2>3 DEF dvars
  <2> QED BY <1>1, <2>1, <2>2, <2>3 DEF DNext
<1> QED BY <1>1, DevicesInvariant, PTL DEF DSpec, OnDemand

(***************************************************************************)
(* twr_esp8266.c reports a success of a connection to the network or to a  *)
(* host, or of a message, only when the modem has agreed to that very      *)
(* command, as long as no line of an earlier dialogue was in the FIFO or   *)
(* on its way when the command was written.                                *)
(***************************************************************************)
THEOREM SuccessfulIsAgreed == DSpec => []SuccessIsTrue
<1>1. DriverInv => SuccessIsTrue
  BY DEF DriverInv, DriverTyped, SuccessIsTrue, Wifi!SuccessIsTrue
<1>2. WifiInv => SuccessIsTrue
  BY DEF WifiInv, SuccessIsTrue
<1> QED BY <1>1, <1>2, DevicesInvariant, PTL DEF DevicesInv
===============================================================================
