------------------------------- MODULE MenuDrv -------------------------------
(***************************************************************************)
(* The menu driver, oled_ui/menu_drv.c: the task menu_task, a loop over    *)
(* ctx.state, and the callbacks it hangs on the buttons, which run in the  *)
(* task gpio_task of drv/but.c and write the same ctx without a lock.      *)
(*                                                                         *)
(* A handler of menu_task is dispatched on ctx.state, may take half a      *)
(* second, and writes the next state at its end, over whatever the button  *)
(* task has written meanwhile.  The on/off button toggles the emergency    *)
(* stop when it falls, counts down to power off when it is held, and turns *)
(* the device off when it is held for long.  The other buttons run the     *)
(* callbacks of the menu that is shown: here one button, whose callback    *)
(* may enter a menu or leave this one.                                     *)
(*                                                                         *)
(* toggleEmergencyDisable is the application's: it enters the emergency    *)
(* when it is not active and leaves it when it is, and nobody else does.   *)
(* The main menu is set before the task starts, and again by the process   *)
(* callback of a menu, as the one shown at boot does; menuSetMain is one   *)
(* step.  The timers of ctx may have passed or not at any time.  Left out: *)
(* drawing, LEDs and messages, which no property is about, and the saving  *)
(* of the parameters, which MenuSave and Parameters model.                 *)
(***************************************************************************)
EXTENDS Integers

CONSTANTS
    Menus,      \* the menus of the application
    Main,       \* the one that is set first
    NoProcess,  \* those without a process callback
    Entered,    \* what the callbacks give to menuEnter: menus, or NULL
    NULL,       \* no menu
    Size        \* MENU_TAB_SIZE

ASSUME MenusAssumption == Main \in Menus /\ NoProcess \subseteq Menus /\ NULL \notin Menus
ASSUME EnteredAssumption == Entered \subseteq Menus \union {NULL}
ASSUME SizeAssumption == Size \in Nat /\ Size > 1

VARIABLES
    ctx,        \* the fields of ctx of those names, without the timers and the table
    tab,        \* entered_menu_tab
    active,     \* the menu whose callbacks button1_menu .. button10_menu hold
    mt,         \* menu_task: where it is, menu, the state it handles and the one it will write
    bt,         \* gpio_task: where it is, the on/off button, menu of menuDrvExitEmergencyDisable
    pin,        \* POWER_HOLD_PIN
    crashed,    \* a handler has followed a menu that is NULL
    raced       \* what another task wrote while a handler ran: see Touch

vars == <<ctx, tab, active, mt, bt, pin, crashed, raced>>

Top == Size - 1
Any == Menus \union {NULL}

(* The loop has nothing of the handler before. *)
Loop == [pc |-> "loop", handles |-> "INIT", menu |-> NULL, target |-> "INIT"]

Init ==
    /\ ctx = [state |-> "INIT", last_state |-> "INIT", new_menu |-> NULL,
              enter_req |-> FALSE, exit_req |-> FALSE, error_flag |-> FALSE,
              power_off_req |-> FALSE, emergency_disable_is_active |-> FALSE]
    /\ tab = [i \in 0 .. Top |-> IF i = 0 THEN Main ELSE NULL]
    /\ active = NULL
    /\ mt = Loop
    /\ bt = [pc |-> "poll", on_off |-> "unset", menu |-> NULL]
    /\ pin = TRUE /\ crashed = FALSE
    /\ raced = [touched |-> FALSE, overwrote |-> FALSE]

-----------------------------------------------------------------------------
(* The table of the menus that were entered.                               *)

(* The entries in front of the first NULL; 0 when there is none. *)
tab_len == IF \E i \in 0 .. Top : tab[i] = NULL
           THEN CHOOSE i \in 0 .. Top : tab[i] = NULL /\ \A j \in 0 .. i - 1 : tab[j] # NULL
           ELSE 0

last_tab_element == IF tab_len = 0 THEN NULL ELSE tab[tab_len - 1]
add_menu_tab(m) == [tab EXCEPT ![tab_len] = m]

(* Mutant: the main menu is removed as well.                               *)
remove_last_menu_tab_Main == IF tab_len > 0 THEN [tab EXCEPT ![tab_len - 1] = NULL] ELSE tab

remove_last_menu_tab == IF tab_len > 1 THEN [tab EXCEPT ![tab_len - 1] = NULL] ELSE tab

-----------------------------------------------------------------------------
(* menu_task.                                                              *)

(* History.  touched: another task has written ctx.state, or the flag of   *)
(* the emergency, since this handler was dispatched.  overwrote: a handler *)
(* that was touched has then written the state over the other's; or one,   *)
(* touched or not, has written it while the button task stood between the  *)
(* two writes, of state and flag, that begin or end an emergency.          *)
Touch == raced' = [raced EXCEPT !.touched = mt.pc # "loop"]
Overwrite ==
    raced' = [raced EXCEPT !.touched = FALSE,
                           !.overwrote = @ \/ raced.touched \/ bt.pc \in {"entered", "leaving"}]

In(l) == mt.pc = l
Goto(l) == mt' = [mt EXCEPT !.pc = l]
Ends == mt' = Loop
Finish(s) == mt' = [mt EXCEPT !.pc = "write", !.target = s]

(* The loop: ENTER, EXIT and PROCESS follow the menu.  EMERGENCY_DISABLE   *)
(* only draws, and the loop comes back to it.                              *)
Dispatch ==
    /\ In("loop") /\ ctx.state # "EMERGENCY_DISABLE"
    /\ mt' = [pc |-> ctx.state, handles |-> ctx.state, menu |-> last_tab_element, target |-> ctx.state]
    /\ crashed' = (ctx.state \in {"ENTER", "EXIT", "PROCESS"} /\ last_tab_element = NULL)
    /\ raced' = [raced EXCEPT !.touched = FALSE]
    /\ UNCHANGED <<ctx, tab, active, bt, pin>>

(* ctx.state = target, and what the handler does behind it. *)
WriteState ==
    /\ In("write")
    /\ IF mt.handles = "IDLE" THEN Goto("clear") ELSE Ends
    /\ ctx' = [ctx EXCEPT !.state = mt.target]
    /\ Overwrite
    /\ UNCHANGED <<tab, active, bt, pin, crashed>>

(* The buttons get their callbacks; the on/off button may be down already. *)
StateInit ==
    /\ In("INIT") /\ Finish("IDLE")
    /\ \E p \in {"up", "down", "held", "long"} : bt' = [bt EXCEPT !.on_off = p]
    /\ UNCHANGED <<ctx, tab, active, pin, crashed, raced>>

IdleAdds ==
    /\ In("IDLE") /\ ctx.enter_req /\ ctx.new_menu # NULL
    /\ tab' = add_menu_tab(ctx.new_menu) /\ Finish("ENTER")
    /\ UNCHANGED <<ctx, active, bt, pin, crashed, raced>>

IdleRefuses ==
    /\ In("IDLE") /\ ctx.enter_req /\ ctx.new_menu = NULL
    /\ ctx' = [ctx EXCEPT !.error_flag = TRUE] /\ Finish("ERROR_CHECK")
    /\ UNCHANGED <<tab, active, bt, pin, crashed, raced>>

(* Nothing is requested; a request made from here on is cleared all the    *)
(* same.                                                                   *)
IdleReturns ==
    /\ In("IDLE") /\ ~ctx.enter_req
    /\ IF mt.menu = NULL THEN Ends ELSE Finish("ENTER")
    /\ UNCHANGED <<ctx, tab, active, bt, pin, crashed, raced>>

IdleClears ==
    /\ In("clear") /\ Ends
    /\ ctx' = [ctx EXCEPT !.enter_req = FALSE]
    /\ UNCHANGED <<tab, active, bt, pin, crashed, raced>>

StateEnter ==
    /\ In("ENTER") /\ Finish("PROCESS")
    /\ active' = mt.menu
    /\ UNCHANGED <<ctx, tab, bt, pin, crashed, raced>>

Process ==
    /\ In("PROCESS") /\ mt.menu \notin NoProcess /\ Goto("shown")
    /\ UNCHANGED <<ctx, tab, active, bt, pin, crashed, raced>>

(* The process callback calls menuSetMain. *)
ProcessSetsMain ==
    /\ In("PROCESS") /\ mt.menu \notin NoProcess /\ Goto("shown")
    /\ tab' = [i \in 0 .. Top |-> IF i = 0 THEN Main ELSE NULL]
    /\ ctx' = [ctx EXCEPT !.state = "IDLE"]
    /\ Overwrite
    /\ UNCHANGED <<active, bt, pin, crashed>>

ProcessMissing ==
    /\ In("PROCESS") /\ mt.menu \in NoProcess /\ Goto("shown")
    /\ ctx' = [ctx EXCEPT !.error_flag = TRUE, !.state = "EXIT"]
    /\ Overwrite
    /\ UNCHANGED <<tab, active, bt, pin, crashed>>

ProcessEnds ==
    /\ In("shown")
    /\ IF ctx.enter_req \/ ctx.exit_req THEN Finish("EXIT") ELSE Ends
    /\ UNCHANGED <<ctx, tab, active, bt, pin, crashed, raced>>

StateExit ==
    /\ In("EXIT") /\ Goto("left")
    /\ active' = NULL
    /\ UNCHANGED <<ctx, tab, bt, pin, crashed, raced>>

ExitStays ==
    /\ In("left") /\ ~ctx.exit_req /\ Finish("ERROR_CHECK")
    /\ UNCHANGED <<ctx, tab, active, bt, pin, crashed, raced>>

ExitRemoves ==
    /\ In("left") /\ ctx.exit_req /\ Goto("removed")
    /\ tab' = remove_last_menu_tab
    /\ UNCHANGED <<ctx, active, bt, pin, crashed, raced>>

ExitClears ==
    /\ In("removed") /\ Finish("ERROR_CHECK")
    /\ ctx' = [ctx EXCEPT !.exit_req = FALSE]
    /\ UNCHANGED <<tab, active, bt, pin, crashed, raced>>

(* After an error, more than a second passes before the state is written. *)
ErrorCheck ==
    /\ In("ERROR_CHECK") /\ Finish("IDLE")
    /\ ctx' = IF ctx.error_flag THEN [ctx EXCEPT !.error_flag = FALSE, !.exit_req = TRUE] ELSE ctx
    /\ UNCHANGED <<tab, active, bt, pin, crashed, raced>>

(* Mutant: the emergency is forgotten.                                     *)
CountEnds_Process ==
    /\ In("POWER_OFF_COUNT") /\ ~ctx.power_off_req /\ Finish("PROCESS")
    /\ UNCHANGED <<ctx, tab, active, bt, pin, crashed, raced>>

(* Mutant: the count goes on after the button was let go.                  *)
CountEnds_Waits ==
    /\ In("POWER_OFF_COUNT") /\ ~ctx.power_off_req /\ Ends
    /\ UNCHANGED <<ctx, tab, active, bt, pin, crashed, raced>>

(* The button was let go. *)
CountEnds ==
    /\ In("POWER_OFF_COUNT") /\ ~ctx.power_off_req
    /\ Finish(IF ctx.emergency_disable_is_active THEN "EMERGENCY_DISABLE" ELSE "PROCESS")
    /\ UNCHANGED <<ctx, tab, active, bt, pin, crashed, raced>>

(* power_off_timer has passed, or has not: it is set behind the state that *)
(* makes the handler read it, and may be the one of an earlier hold.       *)
CountGoesOn ==
    /\ In("POWER_OFF_COUNT") /\ ctx.power_off_req
    /\ Finish("POWER_OFF") \/ Ends
    /\ UNCHANGED <<ctx, tab, active, bt, pin, crashed, raced>>

(* power_on_disable_system; what a device does whose charger keeps it on is *)
(* left out.                                                               *)
PowerOff ==
    /\ In("POWER_OFF") /\ Ends
    /\ pin' = FALSE
    /\ UNCHANGED <<ctx, tab, active, bt, crashed, raced>>

MenuTask ==
    \/ Dispatch \/ WriteState \/ StateInit
    \/ IdleAdds \/ IdleRefuses \/ IdleReturns \/ IdleClears \/ StateEnter
    \/ Process \/ ProcessSetsMain \/ ProcessMissing \/ ProcessEnds
    \/ StateExit \/ ExitStays \/ ExitRemoves \/ ExitClears \/ ErrorCheck
    \/ CountEnds \/ CountGoesOn \/ PowerOff

-----------------------------------------------------------------------------
(* gpio_task: process_button and the callbacks of menu_drv.c.              *)

Polls == bt.pc = "poll"
OnOff(p) == bt' = [bt EXCEPT !.on_off = p]

(* menu_fall_turn_on_off_but_cb. *)
Falls ==
    /\ Polls /\ bt.on_off = "up"
    /\ bt' = [bt EXCEPT !.on_off = "down",
                        !.pc = IF ctx.emergency_disable_is_active THEN "exit" ELSE "enter"]
    /\ UNCHANGED <<ctx, tab, active, mt, pin, crashed, raced>>

(* menuDrvEnterEmergencyDisable. *)
EmergencyShows ==
    /\ bt.pc = "enter" /\ bt' = [bt EXCEPT !.pc = "entered"]
    /\ ctx' = [ctx EXCEPT !.last_state = ctx.state, !.state = "EMERGENCY_DISABLE"]
    /\ Touch
    /\ UNCHANGED <<tab, active, mt, pin, crashed>>

EmergencyActive ==
    /\ bt.pc = "entered" /\ bt' = [bt EXCEPT !.pc = "poll"]
    /\ ctx' = [ctx EXCEPT !.emergency_disable_is_active = TRUE]
    /\ active' = NULL
    /\ Touch
    /\ UNCHANGED <<tab, mt, pin, crashed>>

(* menuDrvExitEmergencyDisable. *)
EmergencyLeaves ==
    /\ bt.pc = "exit" /\ bt' = [bt EXCEPT !.pc = "leaving", !.menu = last_tab_element]
    /\ ctx' = [ctx EXCEPT !.state = ctx.last_state]
    /\ Touch
    /\ UNCHANGED <<tab, active, mt, pin, crashed>>

EmergencyOver ==
    /\ bt.pc = "leaving" /\ bt' = [bt EXCEPT !.pc = "poll", !.menu = NULL]
    /\ ctx' = [ctx EXCEPT !.emergency_disable_is_active = FALSE]
    /\ active' = IF bt.menu = NULL THEN active ELSE bt.menu
    /\ Touch
    /\ UNCHANGED <<tab, mt, pin, crashed>>

(* menu_timer_power_off_but_cb, after twenty polls.                        *)
Held ==
    /\ Polls /\ bt.on_off = "down"
    /\ bt' = [bt EXCEPT !.on_off = "held"]
    /\ ctx' = [ctx EXCEPT !.power_off_req = TRUE, !.state = "POWER_OFF_COUNT"]
    /\ Touch
    /\ UNCHANGED <<tab, active, mt, pin, crashed>>

(* In the five seconds of block_power_off_timer nothing happens. *)
HeldTooEarly ==
    /\ Polls /\ bt.on_off = "down" /\ OnOff("held")
    /\ UNCHANGED <<ctx, tab, active, mt, pin, crashed, raced>>

(* menu_timer_long_power_off_but_cb, after a hundred. *)
HeldLong ==
    /\ Polls /\ bt.on_off = "held" /\ OnOff("long")
    /\ IF ctx.state \in {"POWER_OFF_COUNT", "POWER_OFF"}
       THEN ctx' = [ctx EXCEPT !.state = "POWER_OFF"] /\ Touch
       ELSE UNCHANGED <<ctx, raced>>
    /\ UNCHANGED <<tab, active, mt, pin, crashed>>

(* menu_rise_power_off_but_cb. *)
Rises ==
    /\ Polls /\ bt.on_off \in {"down", "held", "long"} /\ OnOff("up")
    /\ ctx' = [ctx EXCEPT !.power_off_req = FALSE]
    /\ UNCHANGED <<tab, active, mt, pin, crashed, raced>>

(* A button of the menu: its callback has been found, and runs although    *)
(* menu_task may take it off the button meanwhile.                         *)
Pressed ==
    /\ Polls /\ active # NULL
    /\ bt' = [bt EXCEPT !.pc = "pressed"]
    /\ UNCHANGED <<ctx, tab, active, mt, pin, crashed, raced>>

Returns == bt.pc = "pressed" /\ bt' = [bt EXCEPT !.pc = "poll"]

menuEnter ==
    /\ Returns
    /\ \E m \in Entered : ctx' = [ctx EXCEPT !.new_menu = m, !.enter_req = TRUE]
    /\ UNCHANGED <<tab, active, mt, pin, crashed, raced>>

menuDrv_Exit ==
    /\ Returns
    /\ ctx' = [ctx EXCEPT !.exit_req = TRUE]
    /\ UNCHANGED <<tab, active, mt, pin, crashed, raced>>

ButtonTask ==
    \/ EmergencyShows \/ EmergencyActive \/ EmergencyLeaves \/ EmergencyOver
    \/ menuEnter \/ menuDrv_Exit

User == Falls \/ Held \/ HeldTooEarly \/ HeldLong \/ Rises \/ Pressed

Next == ~crashed /\ pin /\ (MenuTask \/ ButtonTask \/ User)

(* Both tasks run; the user need not do anything. *)
Fairness == WF_vars(MenuTask) /\ WF_vars(ButtonTask)

Spec == Init /\ [][Next]_vars /\ Fairness

-----------------------------------------------------------------------------
States == {"INIT", "IDLE", "ENTER", "EXIT", "PROCESS", "POWER_OFF_COUNT", "POWER_OFF",
           "EMERGENCY_DISABLE", "ERROR_CHECK"}

CtxType ==
    [state : States, last_state : States, new_menu : Any,
     enter_req : BOOLEAN, exit_req : BOOLEAN, error_flag : BOOLEAN,
     power_off_req : BOOLEAN, emergency_disable_is_active : BOOLEAN]
MtType ==
    [pc : (States \ {"EMERGENCY_DISABLE"}) \union
              {"loop", "write", "clear", "shown", "left", "removed"},
     handles : States, menu : Any, target : States]
BtType ==
    [pc : {"poll", "enter", "entered", "exit", "leaving", "pressed"},
     on_off : {"unset", "up", "down", "held", "long"}, menu : Any]

TypeOK ==
    /\ ctx \in CtxType /\ tab \in [0 .. Top -> Any] /\ active \in Any
    /\ mt \in MtType /\ bt \in BtType
    /\ pin \in BOOLEAN /\ crashed \in BOOLEAN
    /\ raced \in [touched : BOOLEAN, overwrote : BOOLEAN]

(* During the emergency its screen is up, or a power off, and the buttons  *)
(* of the menu are dead; after it the screen is gone.  It goes wrong only  *)
(* when a handler of menu_task was running at the start or the end of it,  *)
(* or of a hold of the button, and wrote the state over the new one, or    *)
(* wrote it between the two writes of the start or of the end (overwrote). *)
EmergencyShown ==
    Polls /\ ~raced.overwrote =>
        IF ctx.emergency_disable_is_active
        THEN /\ ctx.state \in {"EMERGENCY_DISABLE", "POWER_OFF_COUNT", "POWER_OFF"}
             /\ In("loop") => active = NULL
        ELSE ctx.state # "EMERGENCY_DISABLE"

(* A handler follows NULL only when the table is full, however requests to *)
(* enter and leave, errors and menuSetMain come together: the main menu is *)
(* never removed, and no gap comes up in front of the last menu.           *)
OnlyFullTabCrashes == crashed => \A i \in 0 .. Top : tab[i] # NULL

(* With the buttons let go and the emergency over, the menu is shown again *)
(* and again, whatever state the emergency or the hold interrupted.        *)
MenuComesBack ==
    <>[](Polls /\ bt.on_off = "up" /\ ~ctx.emergency_disable_is_active
         /\ ~raced.overwrote /\ ~crashed /\ pin)
        => []<>In("shown")
=============================================================================
