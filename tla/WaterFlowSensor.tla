--------------------------- MODULE WaterFlowSensor ---------------------------
(***************************************************************************)
(* The water flow sensor, drv/water_flow_sensor.c: an interrupt for every  *)
(* pulse, a one-shot timer whose callback runs in the timer task of        *)
(* FreeRTOS, and the calls of the application.  All three read and write   *)
(* dev->state without a lock.  The timer is driven by commands in a queue, *)
(* which the timer task takes between callbacks; a command to a full queue *)
(* fails: an interrupt and StopMeasure do not look, the others assert.     *)
(*                                                                         *)
(* Every command that starts the timer anew is "start", ChangePeriod       *)
(* included; the two periods are not told apart.  Counting litres, which   *)
(* does not touch the state, is left out.                                  *)
(***************************************************************************)
EXTENDS Integers, Sequences

CONSTANT QueueLength    \* configTIMER_QUEUE_LENGTH

VARIABLES
    dev_state,  \* dev->state
    timer,      \* "off", "on" or "expired"
    commands,   \* the queue of the timer task
    tmr,        \* the timer task: idle, or what vTimerCallback does next
    isr,        \* gpio_isr_handler: idle, or what it does next
    app,        \* the application: idle, or what its call does next
    measures,   \* the last call that returned was WaterFlowSensor_StartMeasure
    failed      \* an assert has failed

vars == <<dev_state, timer, commands, tmr, isr, app, measures, failed>>

Init ==
    /\ dev_state = "IDLE" /\ timer = "off" /\ commands = <<>>
    /\ tmr = "idle" /\ isr = "idle" /\ app = "idle"
    /\ measures = FALSE /\ failed = FALSE

Full == Len(commands) = QueueLength

(* A call whose result is not looked at, and one under an assert. *)
Post(c) == commands' = (IF Full THEN commands ELSE Append(commands, c)) /\ UNCHANGED failed
AssertPost(c) == IF Full THEN failed' = TRUE /\ UNCHANGED commands
                         ELSE commands' = Append(commands, c) /\ UNCHANGED failed

-----------------------------------------------------------------------------
(* gpio_isr_handler.                                                       *)

NoWater == {"NO_WATER_SHORT_PERIOD", "NO_WATER_LONG_PERIOD"}

(* The state is read twice. *)
Pulse ==
    /\ isr = "idle" /\ dev_state # "IDLE" /\ isr' = "pulse"
    /\ UNCHANGED <<dev_state, timer, commands, tmr, app, measures, failed>>

PulseSeen ==
    /\ isr = "pulse" /\ isr' = IF dev_state \in NoWater THEN "back" ELSE "start"
    /\ UNCHANGED <<dev_state, timer, commands, tmr, app, measures, failed>>

(* Mutant: the state is left for the callback to change.                   *)
WaterBack_Waits ==
    /\ isr = "back" /\ isr' = "idle"
    /\ dev_state' = "START_MEASURE"
    /\ UNCHANGED <<timer, commands, tmr, app, measures, failed>>

WaterBack ==
    /\ isr = "back" /\ isr' = "period"
    /\ dev_state' = "START_MEASURE"
    /\ UNCHANGED <<timer, commands, tmr, app, measures, failed>>

IsrPosts ==
    /\ isr \in {"period", "start"}
    /\ isr' = IF isr = "period" THEN "start" ELSE "idle"
    /\ Post("start")
    /\ UNCHANGED <<dev_state, timer, tmr, app, measures>>

-----------------------------------------------------------------------------
(* The timer task.                                                         *)

Expires ==
    /\ timer = "on" /\ timer' = "expired"
    /\ UNCHANGED <<dev_state, commands, tmr, isr, app, measures, failed>>

(* vTimerCallback: what it read of the state decides what it writes. *)
Callback ==
    /\ tmr = "idle" /\ timer = "expired"
    /\ timer' = "off"
    /\ tmr' = CASE dev_state = "START_MEASURE" -> "NO_WATER_SHORT_PERIOD"
                [] dev_state = "NO_WATER_SHORT_PERIOD" -> "NO_WATER_LONG_PERIOD"
                [] OTHER -> "idle"
    /\ UNCHANGED <<dev_state, commands, isr, app, measures, failed>>

CallbackWrites ==
    /\ tmr \in NoWater /\ tmr' = "period"
    /\ dev_state' = tmr
    /\ UNCHANGED <<timer, commands, isr, app, measures, failed>>

CallbackPosts ==
    /\ tmr \in {"period", "start"}
    /\ tmr' = IF tmr = "period" THEN "start" ELSE "idle"
    /\ AssertPost("start")
    /\ UNCHANGED <<dev_state, timer, isr, app, measures>>

Command ==
    /\ tmr = "idle" /\ commands # <<>>
    /\ timer' = IF Head(commands) = "start" THEN "on" ELSE "off"
    /\ commands' = Tail(commands)
    /\ UNCHANGED <<dev_state, tmr, isr, app, measures, failed>>

-----------------------------------------------------------------------------
(* The calls of the application, one after the other.                      *)

StartMeasure ==
    /\ app = "idle" /\ app' = "period"
    /\ dev_state' = "START_MEASURE"
    /\ UNCHANGED <<timer, commands, tmr, isr, measures, failed>>

StartPosts ==
    /\ app \in {"period", "start"}
    /\ app' = IF app = "period" THEN "start" ELSE "idle"
    /\ measures' = (measures \/ app = "start")
    /\ AssertPost("start")
    /\ UNCHANGED <<dev_state, timer, tmr, isr>>

(* WaterFlowSensor_StopMeasure and _ResetValue. *)
StopMeasure ==
    /\ app = "idle" /\ app' \in {"stop", "reset"}
    /\ dev_state' = "IDLE" /\ measures' = FALSE
    /\ UNCHANGED <<timer, commands, tmr, isr, failed>>

StopPosts ==
    /\ app \in {"stop", "reset"} /\ app' = "idle"
    /\ IF app = "stop" THEN Post("stop") ELSE AssertPost("stop")
    /\ UNCHANGED <<dev_state, timer, tmr, isr, measures>>

Isr == PulseSeen \/ WaterBack \/ IsrPosts
TimerTask == Callback \/ CallbackWrites \/ CallbackPosts \/ Command
App == StartPosts \/ StopPosts

Next ==
    /\ ~failed
    /\ \/ Pulse \/ Isr \/ Expires \/ TimerTask
       \/ StartMeasure \/ StopMeasure \/ App

(* While the sensor measures and the water has stopped, that is reported:  *)
(* whatever raced when the last pulse, the timer and a call came together, *)
(* the timer is never left off before the long period is over.             *)
NoWaterReported ==
    <>[](measures /\ isr = "idle" /\ app = "idle" /\ ~failed)
        => <>[](dev_state = "NO_WATER_LONG_PERIOD")
=============================================================================
