------------------------------- MODULE Devices -------------------------------
(***************************************************************************)
(* The drivers that stand alone, each on a bus or a UART of its own: those *)
(* of the table of Drivers, and the WiFi modem of Esp8266, which has a     *)
(* dialogue and requests of more than one kind.  A behaviour is about one  *)
(* of them.                                                                *)
(***************************************************************************)
EXTENDS Drivers

CONSTANTS InitCommands, WifiTimeout, SocketTimeout,
          MaxAsks, MaxDisconnects, MaxMessages, MaxWifiFaults

ASSUME CommandAssumption == InitCommands \in Nat \ {0}
ASSUME TimeoutAssumption == {WifiTimeout, SocketTimeout} \subseteq Nat
ASSUME WifiBoundAssumption ==
    {MaxAsks, MaxDisconnects, MaxMessages, MaxWifiFaults} \subseteq Nat

VARIABLES after_init, index, timeout_cnt, sntp, full, planned, powered, tx, rx,
          echo, awaiting, telling, left, in_step, agreed

Wifi == INSTANCE Esp8266

drivers_only == <<active, plan, settling, polls, resume, alarm, exti, irq_flag, owed,
                  edge, changes, calibrating, after_sleep>>
wifi_only == <<after_init, index, timeout_cnt, sntp, full, planned, powered, tx, rx,
               echo, awaiting, telling, left, in_step, agreed>>
dvars == <<vars, wifi_only>>

WifiOff ==
    /\ after_init = Wifi!NONE /\ index = 0 /\ timeout_cnt = 0
    /\ sntp = FALSE /\ full = FALSE /\ planned = "never" /\ powered = FALSE
    /\ tx = <<>> /\ rx = <<>>
    /\ echo = TRUE /\ awaiting = FALSE /\ telling = Wifi!NONE
    /\ left = [fault |-> 0] /\ in_step = TRUE /\ agreed = {}

DriversOff ==
    /\ active = FALSE /\ plan = "parked" /\ settling = FALSE /\ polls = 0
    /\ resume = [event |-> "none", next |-> "keep", after |-> "return"]
    /\ alarm = FALSE /\ exti = FALSE /\ irq_flag = FALSE
    /\ owed = FALSE /\ edge = FALSE /\ changes = 0 /\ calibrating = FALSE
    /\ after_sleep = "READY"

DInit == \/ Init /\ WifiOff
         \/ driver = "esp8266" /\ Wifi!Init /\ DriversOff

Measuring == driver # "esp8266" /\ UNCHANGED wifi_only
Talking == driver = "esp8266" /\ UNCHANGED <<driver, drivers_only>>

DNext == (Measuring /\ Next) \/ (Talking /\ Wifi!Next)

\* What the two modules say of time, the scheduler, the UART and the modem.
DFairness ==
    /\ WF_dvars(Measuring /\ Elapse) /\ WF_dvars(Measuring /\ Dispatch)
    /\ WF_dvars(Measuring /\ Transition) /\ WF_dvars(Measuring /\ AlarmCheck)
    /\ WF_dvars(Measuring /\ WakesUp)
    /\ WF_dvars(\/ Measuring /\ HandlerReturns
                \/ Talking /\ Wifi!HandlerReturns)
    /\ WF_dvars(Talking /\ Wifi!Task) /\ WF_dvars(Talking /\ Wifi!UartEvent)
    /\ WF_dvars(Talking /\ Wifi!ModemAnswers) /\ WF_dvars(Talking /\ Wifi!MessageRest)

DSpec == DInit /\ [][DNext]_dvars /\ DFairness

-------------------------------------------------------------------------------
\* A success of the WiFi driver is reported only when its modem has agreed to the
\* very command asked for last: see Esp8266.
SuccessIsTrue == Wifi!SuccessIsTrue

\* Whatever is asked of the WiFi driver, at whatever moment, lost or refused, it
\* is ready or disconnected again: see Esp8266 for the exceptions.
Settling == Wifi!Settling
===============================================================================
