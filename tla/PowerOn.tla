------------------------------- MODULE PowerOn -------------------------------
(***************************************************************************)
(* The power task, drv/power_on.c: it lets go of the pin that holds the    *)
(* power when the device has been off the network for PARAM_POWER_ON_MIN   *)
(* minutes.  Any button calls power_on_reset_timer in the task of the      *)
(* buttons; both tasks write ctx.state without a lock.                     *)
(***************************************************************************)
EXTENDS Naturals

VARIABLES
    state,              \* ctx.state
    power_off_timer,    \* ctx.power_off_timer: "ahead" or "passed"
    task,               \* _power_on_task: in its loop, or behind the check of a handler
    button,             \* power_on_reset_timer: not running, or behind its check
    connected,          \* wifiDrvIsConnected
    holds               \* POWER_HOLD_PIN

vars == <<state, power_off_timer, task, button, connected, holds>>

Init ==
    /\ state = "IDLE" /\ power_off_timer = "passed"
    /\ task = "loop" /\ button = "none"
    /\ connected \in BOOLEAN /\ holds = TRUE

Network ==
    /\ connected' = ~connected
    /\ UNCHANGED <<state, power_off_timer, task, button, holds>>

TimePasses ==
    /\ power_off_timer = "ahead" /\ power_off_timer' = "passed"
    /\ UNCHANGED <<state, task, button, connected, holds>>

(* The sum may wrap: then it has passed already. *)
IdleTimes ==
    /\ task = "loop" /\ state = "IDLE" /\ ~connected
    /\ task' = "WAIT_TO_DISABLE"
    /\ power_off_timer' \in {"ahead", "passed"}
    /\ UNCHANGED <<state, button, connected, holds>>

WaitConnected ==
    /\ task = "loop" /\ state = "WAIT_TO_DISABLE" /\ connected
    /\ task' = "IDLE"
    /\ UNCHANGED <<state, power_off_timer, button, connected, holds>>

(* Mutant: the pin is forgotten.                                           *)
WaitEnds_Off ==
    /\ task = "loop" /\ state = "WAIT_TO_DISABLE" /\ ~connected /\ power_off_timer = "passed"
    /\ task' = "OFF"
    /\ UNCHANGED <<state, power_off_timer, button, connected, holds>>

WaitEnds ==
    /\ task = "loop" /\ state = "WAIT_TO_DISABLE" /\ ~connected /\ power_off_timer = "passed"
    /\ task' = "DISABLE_SYSTEM"
    /\ UNCHANGED <<state, power_off_timer, button, connected, holds>>

(* power_on_disable_system. *)
DisableSystem ==
    /\ task = "loop" /\ state = "DISABLE_SYSTEM"
    /\ task' = "OFF" /\ holds' = FALSE
    /\ UNCHANGED <<state, power_off_timer, button, connected>>

(* _change_state of a handler, and the delay of a second. *)
ChangeState ==
    /\ task \in {"IDLE", "WAIT_TO_DISABLE", "DISABLE_SYSTEM", "OFF"}
    /\ state' = task /\ task' = "loop"
    /\ UNCHANGED <<power_off_timer, button, connected, holds>>

(* menuDrvDisableSystemProcess never returns. *)
StateOff ==
    /\ task = "loop" /\ state = "OFF" /\ task' = "forever"
    /\ UNCHANGED <<state, power_off_timer, button, connected, holds>>

(* power_on_reset_timer. *)
ResetChecks ==
    /\ button = "none" /\ state = "WAIT_TO_DISABLE"
    /\ button' = "idles"
    /\ UNCHANGED <<state, power_off_timer, task, connected, holds>>

ResetWrites ==
    /\ button = "idles" /\ button' = "none"
    /\ state' = "IDLE"
    /\ UNCHANGED <<power_off_timer, task, connected, holds>>

Task == IdleTimes \/ WaitConnected \/ WaitEnds \/ DisableSystem \/ ChangeState \/ StateOff

Next == Network \/ TimePasses \/ Task \/ ResetChecks \/ ResetWrites

(* A device that stays off the network, and whose buttons nobody presses   *)
(* any more, turns itself off, whatever a press wrote over the state.      *)
IdleSwitchesOff == <>[](~connected /\ button = "none") => <>~holds
=============================================================================
