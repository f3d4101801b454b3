------------------------------ MODULE MenuSave ------------------------------
(***************************************************************************)
(* The delayed saving of parameters, oled_ui/menu_drv.c: a callback of a   *)
(* menu, in the task of the buttons, sets a parameter and asks for a save; *)
(* menu_task saves five seconds after the last such request, but only      *)
(* behind a round of its loop that has shown the menu: in an emergency and *)
(* after a power off no request is saved.  save_timeout and save_flag are  *)
(* written by both without a lock.  parameters_save copies the parameters  *)
(* into the flash, which may fail, and its result is not looked at.        *)
(* MenuDrv has the states of the menu; here PROCESS is told from the rest. *)
(***************************************************************************)
EXTENDS Naturals

VARIABLES
    param,          \* the parameter in RAM, set to another value at every change
    flash,          \* its copy
    save_flag,
    save_timeout,   \* "ahead" or "passed"
    changer,        \* the callback: idle, set or timed
    shown,          \* ctx.state is MENU_STATE_PROCESS
    saver,          \* menu_task: elsewhere, process (behind the menu it has shown), saving, copied
    missed          \* history: the last request came behind the copy, or the last save failed

vars == <<param, flash, save_flag, save_timeout, changer, shown, saver, missed>>

Init ==
    /\ param = 0 /\ flash = 0
    /\ save_flag = FALSE /\ save_timeout = "passed"
    /\ changer = "idle" /\ shown = FALSE /\ saver = "elsewhere" /\ missed = FALSE

(* parameters_setValue of a callback. *)
Changes ==
    /\ changer = "idle" /\ changer' = "set"
    /\ param' = 1 - param
    /\ UNCHANGED <<flash, save_flag, save_timeout, shown, saver, missed>>

(* menuDrvSaveParameters; the sum of the tick and the delay may wrap. *)
RequestTimes ==
    /\ changer = "set" /\ changer' = "timed"
    /\ save_timeout' \in {"ahead", "passed"}
    /\ UNCHANGED <<param, flash, save_flag, shown, saver, missed>>

RequestFlags ==
    /\ changer = "timed" /\ changer' = "idle"
    /\ save_flag' = TRUE
    /\ missed' = (saver = "copied")
    /\ UNCHANGED <<param, flash, save_timeout, shown, saver>>

TimePasses ==
    /\ save_timeout = "ahead" /\ save_timeout' = "passed"
    /\ UNCHANGED <<param, flash, save_flag, changer, shown, saver, missed>>

(* The state goes to PROCESS and away from it: emergency, power off, the   *)
(* other handlers and requests of the buttons.                             *)
MenuChanges ==
    /\ shown' = ~shown
    /\ UNCHANGED <<param, flash, save_flag, save_timeout, changer, saver, missed>>

-----------------------------------------------------------------------------
(* menu_task.                                                              *)

(* A round of the loop that is dispatched to menu_state_process. *)
Shows ==
    /\ saver = "elsewhere" /\ shown
    /\ saver' = "process"
    /\ UNCHANGED <<param, flash, save_flag, save_timeout, changer, shown, missed>>

Due == save_flag /\ save_timeout = "passed"

(* Mutant: the flag is cleared as well when it is not yet time to save.    *)
SaveStarts_Drops ==
    /\ saver = "process" /\ save_flag
    /\ saver' = IF Due THEN "saving" ELSE "copied"
    /\ UNCHANGED <<param, flash, save_flag, save_timeout, changer, shown, missed>>

(* save_process, with the parameters_save in it. *)
SaveStarts ==
    /\ saver = "process" /\ Due
    /\ saver' = "saving"
    /\ UNCHANGED <<param, flash, save_flag, save_timeout, changer, shown, missed>>

NothingToSave ==
    /\ saver = "process" /\ ~Due
    /\ saver' = "elsewhere"
    /\ UNCHANGED <<param, flash, save_flag, save_timeout, changer, shown, missed>>

SaveCopies ==
    /\ saver = "saving" /\ saver' = "copied"
    /\ \/ flash' = param /\ UNCHANGED missed
       \/ missed' = TRUE /\ UNCHANGED flash
    /\ UNCHANGED <<param, save_flag, save_timeout, changer, shown>>

SaveClears ==
    /\ saver = "copied" /\ saver' = "elsewhere"
    /\ save_flag' = FALSE
    /\ UNCHANGED <<param, flash, save_timeout, changer, shown, missed>>

SaveProcess == SaveStarts \/ NothingToSave \/ SaveCopies \/ SaveClears
MenuTask == Shows \/ SaveProcess
Request == RequestTimes \/ RequestFlags

Next == Changes \/ Request \/ TimePasses \/ MenuChanges \/ MenuTask

(* When the changes end and the menu is shown again and again, what the    *)
(* flash keeps is what was set last, whatever the request of a change met  *)
(* in save_process; only a request behind the copy of a running save, or a *)
(* save that fails, is lost.  Nothing makes menu_task show the menu: in an *)
(* emergency that stays, a request is never saved.                         *)
SavedInTheEnd ==
    <>[](changer = "idle") /\ []<>(saver = "process") => <>[](flash = param \/ missed)
=============================================================================
