------------------------------- MODULE Drivers -------------------------------
(***************************************************************************)
(* The measuring drivers of twr/src, and two modems whose drivers are like *)
(* them, with requests for measurements.  All are one machine: a task that *)
(* runs the transitions of its state until one of them returns, plans      *)
(* itself for when the device will be ready, and reports to the            *)
(* application; a measure() call that may come at any moment outside the   *)
(* task, also from inside the report, and for lis2dh12 from an interrupt   *)
(* in the middle of the task.  A table of transitions makes the machine    *)
(* one driver or another.  The interval task and set_update_interval of    *)
(* these drivers are measure() calls like any other; what else             *)
(* set_update_interval does is UpdateIntervalOff.                          *)
(***************************************************************************)
EXTENDS Naturals

CONSTANTS Driver,      \* the drivers looked at
          MaxPolls,    \* bound: polls before a deadline passes
          MaxChanges   \* bound: calls of set_resolution and set_scale

ASSUME BoundAssumption == MaxPolls \in Nat /\ MaxChanges \in Nat

VARIABLES
    driver,    \* which driver this is (never changes)
    state,     \* self->_state
    active,    \* self->_measurement_active (atsha204: not _ready;
               \* wssfm10r1at: _deep_sleep)
    plan,      \* the measure task: "parked", "waiting" for a tick, or "due"
    settling,  \* the delay prescribed for the device is not over
    polls,     \* polls since the driver's last deadline was set
    pc,        \* "idle", "task" (inside the measure task) or "event" (the
               \* task is inside the application's event handler)
    resume,    \* the event, and what the task does when its handler returns
    alarm,     \* lis2dh12: _alarm_active
    exti,      \* lis2dh12: the interrupt line is registered
    irq_flag,  \* lis2dh12: _irq_flag
    owed,      \* history: an accepted request has had no UPDATE or ERROR yet
    edge,      \* history: an alarm edge has had no ALARM or ERROR yet
    changes,   \* calls of set_resolution and set_scale so far
    calibrating,  \* lp8: _calibration is none of the usual ones, ABC and ATWR_RF
    after_sleep  \* wssfm10r1at: _state_after_sleep

request == <<active, owed>>
settings == <<changes, calibrating>>
line == <<alarm, exti, irq_flag, edge, after_sleep>>
vars == <<driver, state, active, plan, settling, polls, pc, resume,
          alarm, exti, irq_flag, owed, edge, changes, calibrating, after_sleep>>

-------------------------------------------------------------------------------
(***************************************************************************)
(* A transition: it may fail (the device does not answer as it should), it *)
(* may poll (the device is not ready yet), it may report an event, and it  *)
(* ends by going on in the next state or by returning with a plan:         *)
(*   "goto"    the next state runs in the same call of the task            *)
(*   "return"  nothing is planned                                          *)
(*   "now"     the task is planned now                                     *)
(*   "wait"    the task is planned for when the device is ready            *)
(*   "settle"  the device needs a delay; planned for its end if active     *)
(*   "ready"   planned now if active                                       *)
(*   "next"    planned for the next measurement, which may be past already *)
(* The state while the handler runs is "during"; with "last" the event is  *)
(* the last thing the transition does, its plan is made before it.  "takes"*)
(* sets _measurement_active, an event "frees" it before the handler runs.  *)
(***************************************************************************)
Skip(next, after) ==
    [fails |-> FALSE, polls |-> FALSE, takes |-> FALSE, frees |-> TRUE,
     event |-> "none", during |-> next, next |-> next, after |-> after,
     last |-> FALSE]

Work(next, after) == [Skip(next, after) EXCEPT !.fails = TRUE]

Poll(next, after) == [Work(next, after) EXCEPT !.polls = TRUE]

Reports(event, during, next, after) ==
    [Skip(next, after) EXCEPT !.event = event, !.during = during]

ReportsLast(row, event) == [row EXCEPT !.event = event, !.last = TRUE]

\* Mutant: the error leaves _measurement_active set.
FailedStaysActive(next) ==
    [Reports("ERROR", "ERROR", next, "return") EXCEPT !.frees = FALSE]

\* The end of a failed measurement, in most drivers.
Failed(next) == Reports("ERROR", "ERROR", next, "return")

\* The drivers that measure once per request: tmp112 and its like.
SingleShot ==
    [ERROR      |-> Failed("INITIALIZE"),
     INITIALIZE |-> Work("MEASURE", "settle"),
     MEASURE    |-> Work("READ", "wait"),
     READ       |-> Work("UPDATE", "goto"),
     UPDATE     |-> Reports("UPDATE", "UPDATE", "MEASURE", "return")]

Tmp112 == SingleShot
Hts221 == SingleShot
Opt3001 == SingleShot
Sht30 == SingleShot
Hdc2080 == SingleShot

\* Its error does not clear _measurement_active, and it needs no delay.
Rs485 == [SingleShot EXCEPT !.ERROR.frees = FALSE, !.INITIALIZE.after = "ready"]

Sht20 ==
    [ERROR      |-> Failed("INITIALIZE"),
     INITIALIZE |-> Work("MEASURE_RH", "settle"),
     MEASURE_RH |-> Work("READ_RH", "wait"),
     READ_RH    |-> Work("MEASURE_T", "goto"),
     MEASURE_T  |-> Work("READ_T", "wait"),
     READ_T     |-> Work("UPDATE", "goto"),
     UPDATE     |-> Reports("UPDATE", "UPDATE", "MEASURE_RH", "return")]

Mpl3115a2 ==
    [ERROR            |-> Failed("INITIALIZE"),
     INITIALIZE       |-> Skip("MEASURE_ALTITUDE", "settle"),
     MEASURE_ALTITUDE |-> Work("READ_ALTITUDE", "wait"),
     READ_ALTITUDE    |-> Work("MEASURE_PRESSURE", "goto"),
     MEASURE_PRESSURE |-> Work("READ_PRESSURE", "wait"),
     READ_PRESSURE    |-> Work("UPDATE", "goto"),
     UPDATE           |-> Reports("UPDATE", "UPDATE", "MEASURE_ALTITUDE", "return")]

\* The second half of UPDATE, after its first handler, is the state ALARM: see
\* AlarmCheck.
Lis2dh12 ==
    [ERROR      |-> Failed("INITIALIZE"),
     INITIALIZE |-> Work("MEASURE", "settle"),
     MEASURE    |-> Work("READ", "wait"),
     READ       |-> Work("UPDATE", "goto"),
     UPDATE     |-> Reports("UPDATE", "ERROR", "ALARM", "goto")]

\* With one sensor on the bus: UPDATE calls the handler once per sensor.
Ds18b20 ==
    [ERROR         |-> Failed("PREINITIALIZE"),
     PREINITIALIZE |-> Work("INITIALIZE", "wait"),
     INITIALIZE    |-> Work("READY", "ready"),
     READY         |-> Work("MEASURE", "wait"),
     MEASURE       |-> Work("READ", "wait"),
     READ          |-> Work("UPDATE", "goto"),
     UPDATE        |-> ReportsLast(Skip("READY", "return"), "UPDATE")]

SoilSensor ==
    [ERROR         |-> Failed("PREINITIALIZE"),
     PREINITIALIZE |-> Work("INITIALIZE", "wait"),
     INITIALIZE    |-> Work("READY", "ready"),
     READY         |-> Skip("MEASURE", "now"),
     MEASURE       |-> Work("READ", "wait"),
     READ          |-> Work("UPDATE", "now"),
     UPDATE        |-> Reports("UPDATE", "UPDATE", "READY", "return")]

FloodDetector ==
    [ERROR      |-> Failed("INITIALIZE"),
     INITIALIZE |-> Work("READY", "ready"),
     READY      |-> Work("MEASURE", "wait"),
     MEASURE    |-> [Reports("UPDATE", "ERROR", "READY", "return") EXCEPT !.fails = TRUE]]

\* Revision 1.1 with sleep enabled, which is how it starts.
InfraGrid ==
    [ERROR         |-> Failed("INITIALIZE"),
     INITIALIZE    |-> Work("MODE_CHANGE", "settle"),
     MODE_CHANGE   |-> Work("POWER_UP", "wait"),
     POWER_UP      |-> Work("INITIAL_RESET", "wait"),
     INITIAL_RESET |-> Work("FLAG_RESET", "wait"),
     FLAG_RESET    |-> Work("MEASURE", "wait"),
     MEASURE       |-> Work("READ", "wait"),
     READ          |-> Work("UPDATE", "goto"),
     UPDATE        |-> Reports("UPDATE", "UPDATE", "MODE_CHANGE", "return")]

\* With a driver that has a settling interval.
AnalogSensor ==
    [ERROR   |-> Failed("ENABLE"),
     ENABLE  |-> Skip("MEASURE", "wait"),
     MEASURE |-> Work("DISABLE", "goto"),
     DISABLE |-> Skip("UPDATE", "goto"),
     UPDATE  |-> Reports("UPDATE", "UPDATE", "ENABLE", "return")]

Zssc3123 ==
    [ERROR      |-> Reports("ERROR", "ERROR", "INITIALIZE", "next"),
     INITIALIZE |-> Work("MEASURE", "now"),
     MEASURE    |-> [Work("READ", "wait") EXCEPT !.takes = TRUE],
     READ       |-> ReportsLast(Work("MEASURE", "next"), "UPDATE")]

\* READ_MEASUREMENT_DATA starts another round while the startup time is not
\* over, which is the poll of that row.
Sps30 ==
    [ERROR                 |-> Reports("ERROR", "ERROR", "INITIALIZE", "goto"),
     READY                 |-> Skip("READY", "return"),
     INITIALIZE            |-> Skip("GET_SERIAL_NUMBER", "goto"),
     GET_SERIAL_NUMBER     |-> Work("READ_SERIAL_NUMBER", "wait"),
     READ_SERIAL_NUMBER    |-> Work("READY", "goto"),
     START_MEASUREMENT     |-> Work("SET_DATAREADY_FLAG", "goto"),
     SET_DATAREADY_FLAG    |-> Work("READ_DATAREADY_FLAG", "wait"),
     READ_DATAREADY_FLAG   |-> Poll("GET_MEASUREMENT_DATA", "goto"),
     GET_MEASUREMENT_DATA  |-> Work("READ_MEASUREMENT_DATA", "wait"),
     READ_MEASUREMENT_DATA |-> [Reports("UPDATE", "ERROR", "STOP_MEASUREMENT", "goto")
                                   EXCEPT !.fails = TRUE, !.polls = TRUE],
     STOP_MEASUREMENT      |-> Work("READY", "goto")]

\* Its measurements follow one another while a calibration lasts: see Calibrates.
Lp8 ==
    [ERROR        |-> Reports("ERROR", "ERROR", "INITIALIZE", "wait"),
     INITIALIZE   |-> Work("CHARGE", "wait"),
     READY        |-> Skip("READY", "return"),
     PRECHARGE    |-> Work("CHARGE", "wait"),
     CHARGE       |-> Work("BOOT", "wait"),
     BOOT         |-> Poll("BOOT_READ", "wait"),
     BOOT_READ    |-> Poll("MEASURE", "wait"),
     MEASURE      |-> Poll("MEASURE_READ", "wait"),
     MEASURE_READ |-> ReportsLast(Poll("READY", "return"), "UPDATE")]

\* sgp30 and sgpc3 measure all the time, whoever asks.
Sgp30 ==
    [ERROR               |-> Skip("INITIALIZE", "wait"),
     INITIALIZE          |-> Skip("GET_FEATURE_SET", "goto"),
     GET_FEATURE_SET     |-> Work("READ_FEATURE_SET", "wait"),
     READ_FEATURE_SET    |-> Work("INIT_AIR_QUALITY", "wait"),
     INIT_AIR_QUALITY    |-> Work("SET_HUMIDITY", "wait"),
     SET_HUMIDITY        |-> Work("MEASURE_AIR_QUALITY", "wait"),
     MEASURE_AIR_QUALITY |-> Work("READ_AIR_QUALITY", "wait"),
     READ_AIR_QUALITY    |-> Work("SET_HUMIDITY", "wait")]

Sgpc3 == Sgp30

\* A failure reports and leaves the state, which nothing looks at before the
\* next request sets it: here it is called ERROR.
Atsha204 ==
    [ERROR               |-> ReportsLast(Skip("ERROR", "return"), "ERROR"),
     READY               |-> Skip("READY", "return"),
     READ_SERIAL_NUMBER  |-> Work("READ_SERIAL_NUMBER2", "wait"),
     READ_SERIAL_NUMBER2 |-> ReportsLast(Work("SERIAL_NUMBER", "return"), "UPDATE"),
     SERIAL_NUMBER       |-> Skip("SERIAL_NUMBER", "return")]

\* A table made of two.
Joined(rows, more) ==
    [s \in DOMAIN rows \cup DOMAIN more |->
        IF s \in DOMAIN rows THEN rows[s] ELSE more[s]]

\* The Sigfox modems: a "reset" of theirs ends in READY, from where the task
\* reports and waits.  The answers of the modem are only good or bad.
Reset(after) ==
    [INITIALIZE              |-> Skip("INITIALIZE_RESET_L", "goto"),
     INITIALIZE_RESET_L      |-> Skip("INITIALIZE_RESET_H", "wait"),
     INITIALIZE_RESET_H      |-> Skip("INITIALIZE_AT_COMMAND", "wait"),
     INITIALIZE_AT_COMMAND   |-> Work("INITIALIZE_AT_RESPONSE", "wait"),
     INITIALIZE_AT_RESPONSE  |-> Work(after, "goto")]

\* The handler of DONE runs in READY: it may send the next frame.
SendRfFrame ==
    [SEND_RF_FRAME_COMMAND  |-> [Reports("START", "SEND_RF_FRAME_RESPONSE",
                                         "SEND_RF_FRAME_RESPONSE", "wait")
                                    EXCEPT !.fails = TRUE, !.frees = FALSE],
     SEND_RF_FRAME_RESPONSE |-> [Reports("UPDATE", "READY", "keep", "goto")
                                    EXCEPT !.fails = TRUE]]

Td1207r ==
    Joined([ERROR |-> Reports("ERROR", "ERROR", "INITIALIZE", "goto"),
            READY |-> ReportsLast(Skip("READY", "return"), "READY")],
           Joined(Reset("READY"), SendRfFrame))

\* Asked for its identifier or access code.
ReadDevice ==
    [READ_DEVICE_COMMAND  |-> Work("READ_DEVICE_RESPONSE", "wait"),
     READ_DEVICE_RESPONSE |-> [Reports("UPDATE", "READ_DEVICE_RESPONSE", "READY", "goto")
                                  EXCEPT !.fails = TRUE]]

\* It sleeps when there is nothing to do, and is reset to wake up: see WakesUp.
Wssfm10r1at ==
    Joined(
    [ERROR                    |-> Reports("ERROR", "ERROR", "INITIALIZE", "goto"),
     SET_POWER_COMMAND        |-> Work("SET_POWER_RESPONSE", "wait"),
     SET_POWER_RESPONSE       |-> Work("READY", "goto"),
     READY                    |-> Reports("READY", "READY", "DEEP_SLEEP_COMMAND", "goto"),
     CONTINUOUS_WAVE_COMMAND  |-> Work("CONTINUOUS_WAVE_RESPONSE", "wait"),
     CONTINUOUS_WAVE_RESPONSE |-> Work("CONTINUOUS_WAVE", "goto"),
     CONTINUOUS_WAVE          |-> Skip("CONTINUOUS_WAVE", "return"),
     DEEP_SLEEP_COMMAND       |-> Work("DEEP_SLEEP_RESPONSE", "wait"),
     DEEP_SLEEP_RESPONSE      |-> Work("DEEP_SLEEP", "goto"),
     DEEP_SLEEP               |-> [Skip("DEEP_SLEEP", "return") EXCEPT !.takes = TRUE]],
    Joined(Reset("SET_POWER_COMMAND"), Joined(SendRfFrame, ReadDevice)))

Table ==
    [tmp112 |-> Tmp112, hts221 |-> Hts221, opt3001 |-> Opt3001, sht30 |-> Sht30,
     hdc2080 |-> Hdc2080, module_rs485 |-> Rs485, sht20 |-> Sht20,
     mpl3115a2 |-> Mpl3115a2, lis2dh12 |-> Lis2dh12, ds18b20 |-> Ds18b20,
     soil_sensor |-> SoilSensor, flood_detector |-> FloodDetector,
     module_infra_grid |-> InfraGrid, analog_sensor |-> AnalogSensor,
     zssc3123 |-> Zssc3123, sps30 |-> Sps30, lp8 |-> Lp8, sgp30 |-> Sgp30,
     sgpc3 |-> Sgpc3, atsha204 |-> Atsha204, td1207r |-> Td1207r,
     wssfm10r1at |-> Wssfm10r1at]

\* Only drivers of the table are looked at.
ASSUME DriverAssumption == Driver \subseteq DOMAIN Table

\* The drivers by the way their measure() plans the task.
AtTickReady == {"tmp112", "hts221", "opt3001", "sht20", "sht30", "hdc2080",
                "mpl3115a2", "module_infra_grid"}
AtOnce == {"lis2dh12", "soil_sensor", "zssc3123", "flood_detector",
           "analog_sensor", "module_rs485"}

-------------------------------------------------------------------------------
\* sps30 does not bound its polls; lp8 does with a deadline per state.
PollAllowed == driver = "sps30" \/ polls < MaxPolls

InitialState(d) ==
    CASE d \in {"ds18b20", "soil_sensor"} -> "PREINITIALIZE"
      [] d = "analog_sensor" -> "ENABLE"
      [] d = "atsha204" -> "READY"
      [] OTHER -> "INITIALIZE"

\* xxx_init(): registered for tick DELAY_RUN, which may be past already (only
\* mpl3115a2 counts its delay from now), for tick 0, or for no tick.
Init ==
    /\ driver \in Driver
    /\ state = InitialState(driver)
    /\ plan \in CASE driver \in {"zssc3123", "atsha204", "analog_sensor"} -> {"parked"}
                  [] driver = "lp8" -> {"due"}
                  [] OTHER -> {"waiting", "due"}
    /\ settling = (plan = "waiting" \/ driver = "mpl3115a2")
    /\ polls = 0 /\ changes = 0 /\ calibrating = FALSE
    /\ pc = "idle"
    /\ resume = [event |-> "none", next |-> "keep", after |-> "return"]
    /\ active = FALSE /\ owed = FALSE
    /\ alarm = FALSE /\ exti = FALSE /\ irq_flag = FALSE /\ edge = FALSE
    /\ after_sleep = "READY"

\* The scheduler's clock: the delay ends, and the plan made for its end is due.
Elapse ==
    /\ settling \/ plan = "waiting"
    /\ settling' = FALSE
    /\ plan' = IF plan = "waiting" THEN "due" ELSE plan
    /\ UNCHANGED <<driver, state, polls, pc, resume, settings, request, line>>

\* The scheduler parks the task and calls it.
Dispatch ==
    /\ pc = "idle" /\ plan = "due"
    /\ pc' = "task"
    /\ plan' = "parked"
    /\ UNCHANGED <<driver, state, settling, polls, resume, settings, request, line>>

-------------------------------------------------------------------------------
\* The plan a transition ends with.
Replans(after) ==
    /\ settling' = \/ after \in {"wait", "settle"}
                   \/ after \in {"goto", "return"} /\ settling
    /\ CASE after = "now" -> plan' = "due"
         [] after = "wait" -> plan' = "waiting"
         [] after = "settle" -> plan' = IF active THEN "waiting" ELSE plan
         [] after = "ready" -> plan' = IF active THEN "due" ELSE plan
         [] after = "next" -> plan' \in {"waiting", "due"}
         [] OTHER -> plan' = plan

\* The transition goes on in the same call of the task, or returns from it.
Ends(after) ==
    /\ pc' = IF after = "goto" THEN "task" ELSE "idle"
    /\ Replans(after)

\* The device does not answer as it should; it starts over, and no delay it was
\* given before counts.
TransitionFails ==
    /\ state' = "ERROR"
    /\ settling' = FALSE
    /\ plan' = IF driver \in {"soil_sensor", "lp8"} THEN "due" ELSE plan
    /\ pc' = IF driver = "soil_sensor" THEN "idle" ELSE "task"
    /\ UNCHANGED <<driver, polls, resume, settings, request, line>>

\* The device is not ready yet: the same state again, later.
TransitionPolls ==
    /\ PollAllowed
    /\ IF state = "READ_MEASUREMENT_DATA"
          THEN /\ state' = "SET_DATAREADY_FLAG"
               /\ UNCHANGED <<plan, settling, pc>>
          ELSE /\ Ends("wait")
               /\ UNCHANGED state
    /\ polls' = IF driver = "sps30" THEN polls ELSE polls + 1
    /\ UNCHANGED <<driver, resume, settings, request, line>>

TransitionDone(row) ==
    /\ state' = row.next
    /\ active' = (active \/ row.takes)
    /\ Ends(row.after)
    /\ polls' = 0
    /\ UNCHANGED <<driver, resume, owed, settings, line>>

\* The application's handler is called; UPDATE and ERROR answer a request.  A
\* calibration is over with the measurement it was asked for, which may not be
\* the one that ends.
TransitionReports(row) ==
    /\ active' = (active /\ ~row.frees)
    /\ owed' = (owed /\ row.event \notin {"UPDATE", "ERROR"})
    /\ edge' = (edge /\ row.event # "ERROR")
    /\ IF row.last
          THEN /\ state' = row.next
               /\ Replans(row.after)
          ELSE /\ state' = row.during
               /\ UNCHANGED <<plan, settling>>
    /\ resume' = [event |-> row.event,
                  next |-> IF row.last THEN "keep" ELSE row.next,
                  after |-> IF row.last THEN "return" ELSE row.after]
    /\ pc' = "event"
    /\ polls' = 0
    /\ calibrating' \in {calibrating, calibrating /\ row.event # "UPDATE"}
    /\ UNCHANGED <<driver, alarm, exti, irq_flag, changes, after_sleep>>

\* wssfm10r1at after the reset that ends a sleep: what it was woken up for.
Wakes == driver = "wssfm10r1at" /\ state = "READY" /\ active

WakesUp ==
    /\ pc = "task" /\ Wakes
    /\ active' = FALSE
    /\ state' = after_sleep
    /\ UNCHANGED <<driver, plan, settling, polls, pc, resume, owed, settings, line>>

\* The sensor says that the calibration is not over: another round, without an
\* event and as often as the sensor likes.
Calibrates ==
    /\ driver = "lp8" /\ state = "MEASURE_READ" /\ calibrating
    /\ state' = "CHARGE"
    /\ Ends("wait")
    /\ polls' = 0
    /\ UNCHANGED <<driver, resume, settings, request, line>>

Transition ==
    /\ pc = "task" /\ state # "ALARM" /\ ~Wakes
    /\ LET row == Table[driver][state]
       IN \/ row.fails /\ TransitionFails
          \/ row.polls /\ TransitionPolls
          \/ Calibrates
          \/ row.event = "none" /\ TransitionDone(row)
          \/ row.event # "none" /\ TransitionReports(row)

\* Mutant: the alarm is reported as another UPDATE.
AlarmCheckUpdates ==
    /\ pc = "task" /\ state = "ALARM"
    /\ IF alarm /\ irq_flag
          THEN /\ irq_flag' = FALSE /\ edge' = FALSE
               /\ state' = "ERROR" /\ pc' = "event"
               /\ resume' = [event |-> "UPDATE", next |-> "MEASURE", after |-> "return"]
          ELSE /\ state' = "MEASURE" /\ pc' = "idle"
               /\ UNCHANGED <<irq_flag, edge, resume>>
    /\ UNCHANGED <<driver, plan, settling, polls, alarm, exti, settings, request,
                   after_sleep>>

\* The second half of UPDATE in lis2dh12: with an alarm set, the source of the
\* interrupt is read, and an interrupt that came is reported.
AlarmCheck ==
    /\ pc = "task" /\ state = "ALARM"
    /\ \/ /\ alarm
          /\ state' = "ERROR"
          /\ UNCHANGED <<irq_flag, edge, pc, resume>>
       \/ /\ alarm /\ irq_flag
          /\ irq_flag' = FALSE /\ edge' = FALSE
          /\ state' = "ERROR" /\ pc' = "event"
          /\ resume' = [event |-> "ALARM", next |-> "MEASURE", after |-> "return"]
       \/ /\ ~(alarm /\ irq_flag)
          /\ state' = "MEASURE" /\ pc' = "idle"
          /\ UNCHANGED <<irq_flag, edge, resume>>
    /\ UNCHANGED <<driver, plan, settling, polls, alarm, exti, settings, request,
                   after_sleep>>

\* The handler returns and the task goes on after its call; that of READY may
\* have left it.
HandlerReturns ==
    /\ pc = "event"
    /\ state' = IF resume.next = "keep" \/ (resume.event = "READY" /\ state # "READY")
                   THEN state ELSE resume.next
    /\ Ends(resume.after)
    /\ UNCHANGED <<driver, active, owed, polls, resume, line, settings>>

-------------------------------------------------------------------------------
\* The application calls the driver from another task or from its handler.
Calling == pc \in {"idle", "event"}

\* An accepted request and the plan it makes.
Accept(when) ==
    /\ active' = TRUE /\ owed' = TRUE
    /\ plan' = when
    /\ UNCHANGED <<driver, state, settling, polls, pc, resume, settings>>

\* Mutant: the task is planned now, whatever the delay to come.
MeasureHastily ==
    /\ driver \in AtTickReady /\ Calling /\ ~active
    /\ Accept("due")
    /\ UNCHANGED line

\* measure() of the drivers that keep a _tick_ready.
MeasureAtTickReady ==
    /\ driver \in AtTickReady /\ Calling /\ ~active
    /\ Accept(IF settling THEN "waiting" ELSE "due")
    /\ UNCHANGED line

\* measure() of the drivers that plan the task now (module_rs485: for a
\* _tick_ready that is never in the future).
MeasureNow ==
    /\ driver \in AtOnce /\ Calling /\ ~active
    /\ Accept("due")
    /\ UNCHANGED line

\* ds18b20 plans the tick DELAY_RUN after start-up, past for all but the first.
MeasureAfterRun ==
    /\ driver = "ds18b20" /\ Calling /\ ~active
    /\ Accept(IF state = "PREINITIALIZE" /\ plan = "waiting" THEN "waiting" ELSE "due")
    /\ UNCHANGED line

\* Mutant: the request sets the state and plans nothing.
MeasureUnplanned(d, first) ==
    /\ driver = d /\ Calling
    /\ state = "READY" /\ state' = first /\ owed' = TRUE
    /\ UNCHANGED <<driver, active, plan, settling, polls, pc, resume, settings, line>>

\* sps30 and lp8 accept a request in READY, where _state is their only flag.
MeasureWhenReady(d, first) ==
    /\ driver = d /\ Calling
    /\ state = "READY" /\ state' = first /\ owed' = TRUE
    /\ plan' = "due"
    /\ UNCHANGED <<driver, active, settling, polls, pc, resume, settings, line>>

MeasureSps30 == MeasureWhenReady("sps30", "START_MEASUREMENT")

\* lp8 in INITIALIZE refuses it but plans the task.
RequestLp8 ==
    \/ state = "READY" /\ state' = "PRECHARGE" /\ owed' = TRUE /\ plan' = "due"
    \/ state = "INITIALIZE" /\ plan' = "due" /\ UNCHANGED <<state, owed>>
    \/ state \notin {"READY", "INITIALIZE"} /\ UNCHANGED <<state, owed, plan>>

\* twr_lp8_measure(), or twr_lp8_calibration(), which ends with it.
MeasureLp8 ==
    /\ driver = "lp8" /\ Calling /\ RequestLp8
    /\ calibrating' \in BOOLEAN
    /\ UNCHANGED <<driver, active, settling, polls, pc, resume, changes, line>>

\* twr_td1207r_send_rf_frame()
SendTd1207r == MeasureWhenReady("td1207r", "SEND_RF_FRAME_COMMAND")

\* The requests of wssfm10r1at, with _twr_wssfm10r1at_set_state(); nothing is
\* ever reported of a continuous wave but an error.
RequestWssfm10r1at(first) ==
    /\ driver = "wssfm10r1at" /\ Calling /\ state \in {"READY", "DEEP_SLEEP"}
    /\ IF active
          THEN state' = "INITIALIZE" /\ after_sleep' = first
          ELSE state' = first /\ UNCHANGED after_sleep
    /\ plan' = "due"
    /\ owed' = (first # "CONTINUOUS_WAVE_COMMAND")
    /\ UNCHANGED <<driver, active, settling, polls, pc, resume, settings, alarm, exti,
                   irq_flag, edge>>

\* twr_atsha204_read_serial_number(), when its command is sent: planned 4 ticks
\* after the scan began, which may be past when the scan is slow.
ReadSerialNumber ==
    /\ driver = "atsha204" /\ Calling /\ ~active
    /\ active' = TRUE /\ owed' = TRUE
    /\ state' = "READ_SERIAL_NUMBER"
    /\ plan' \in {"waiting", "due"} /\ settling' = TRUE
    /\ UNCHANGED <<driver, polls, pc, resume, settings, line>>

\* twr_zssc3123_set_update_interval(TWR_TICK_INFINITY)
UpdateIntervalOff ==
    /\ driver = "zssc3123" /\ Calling /\ ~active
    /\ plan' = "parked"
    /\ UNCHANGED <<driver, state, settling, polls, pc, resume, settings, request, line>>

\* twr_lis2dh12_set_alarm(): any of its register writes may fail; only after
\* the last is the interrupt line touched and a measurement requested.
SetAlarm ==
    /\ driver = "lis2dh12" /\ Calling
    /\ alarm' \in BOOLEAN
    /\ edge' = FALSE
    /\ \/ /\ exti' = alarm'
          /\ IF active THEN UNCHANGED <<active, owed, plan>>
                       ELSE active' = TRUE /\ owed' = TRUE /\ plan' = "due"
       \/ UNCHANGED <<exti, active, owed, plan>>
    /\ UNCHANGED <<driver, state, settling, polls, pc, resume, irq_flag, settings,
                   after_sleep>>

\* twr_lis2dh12_set_resolution() and _set_scale() outside of the handler.
Rescale ==
    /\ driver = "lis2dh12" /\ pc = "idle" /\ changes < MaxChanges
    /\ state' = "INITIALIZE" /\ plan' = "due"
    /\ changes' = changes + 1
    /\ UNCHANGED <<driver, settling, polls, pc, resume, request, line, calibrating>>

\* Mutant: the handler only sets its flag.
InterruptOnlyFlags ==
    /\ exti
    /\ irq_flag' = TRUE
    /\ edge' = (edge \/ alarm)
    /\ UNCHANGED <<driver, state, settling, polls, pc, resume, alarm, exti,
                   settings, request, plan, after_sleep>>

\* _twr_lis2dh12_interrupt(): an edge of the line, at any moment.
Interrupt ==
    /\ exti
    /\ irq_flag' = TRUE
    /\ edge' = (edge \/ alarm)
    /\ IF active THEN UNCHANGED <<active, owed, plan>>
                 ELSE active' = TRUE /\ owed' = TRUE /\ plan' = "due"
    /\ UNCHANGED <<driver, state, settling, polls, pc, resume, alarm, exti, settings,
                   after_sleep>>

Next ==
    \/ Elapse \/ Dispatch \/ Transition \/ AlarmCheck \/ WakesUp \/ HandlerReturns
    \/ MeasureAtTickReady \/ MeasureNow \/ MeasureAfterRun
    \/ MeasureSps30 \/ MeasureLp8 \/ ReadSerialNumber
    \/ SendTd1207r
    \/ \E first \in {"SEND_RF_FRAME_COMMAND", "READ_DEVICE_COMMAND",
                    "CONTINUOUS_WAVE_COMMAND"} : RequestWssfm10r1at(first)
    \/ UpdateIntervalOff \/ SetAlarm \/ Rescale \/ Interrupt

\* Time passes, the scheduler runs what is due, and the task and the handler
\* it calls come to an end.
Spec ==
    /\ Init /\ [][Next]_vars
    /\ WF_vars(Elapse) /\ WF_vars(Dispatch) /\ WF_vars(HandlerReturns)
    /\ WF_vars(Transition) /\ WF_vars(AlarmCheck) /\ WF_vars(WakesUp)

-------------------------------------------------------------------------------
\* Where the code does let a request overtake the delay of the device: its
\* measure() plans the task now, whatever the delay still to come.
Hasty == {<<"lis2dh12", "INITIALIZE">>, <<"lis2dh12", "MEASURE">>,
          <<"ds18b20", "INITIALIZE">>, <<"soil_sensor", "PREINITIALIZE">>,
          <<"soil_sensor", "INITIALIZE">>, <<"flood_detector", "INITIALIZE">>,
          <<"module_rs485", "INITIALIZE">>, <<"lp8", "INITIALIZE">>,
          <<"atsha204", "READ_SERIAL_NUMBER">>}

\* A driver never talks to its device while the delay it prescribed for it
\* (power-up, initialisation, conversion) is still running, whatever requests,
\* errors and handlers come between.
DeviceReady ==
    (pc = "task" /\ state # "ALARM" /\ Table[driver][state].fails
        /\ <<driver, state>> \notin Hasty) => ~settling

\* While a measurement is active its task is planned or running: no driver is
\* left refusing every request with nothing under way.  module_rs485 is: its
\* error does not clear the flag.  The flag of wssfm10r1at is another.
NeverStuck ==
    (active /\ pc = "idle" /\ driver \notin {"module_rs485", "wssfm10r1at"})
        => plan # "parked"

\* A measurement nobody asked for is not reported (zssc3123 and lp8 measure on
\* their own).
OnDemand ==
    [][(pc' = "event" /\ pc # "event" /\ resume'.event = "UPDATE"
          /\ driver \notin {"zssc3123", "lp8"}) => owed]_vars

\* Every accepted request is answered by UPDATE or ERROR.  sps30 waits for its
\* device for ever, and lp8 repeats a calibration for as long as its sensor says.
Answered == (owed /\ driver # "sps30" /\ ~calibrating) ~> (~owed \/ calibrating)

\* Every edge of an alarm that stays set is reported by ALARM, or ERROR is.
AlarmReported == edge ~> ~edge
===============================================================================
