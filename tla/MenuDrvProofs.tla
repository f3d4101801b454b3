---------------------------- MODULE MenuDrvProofs ----------------------------
(***************************************************************************)
(* Proofs about the menu driver: for any menus, any table of two or more   *)
(* entries, and any callbacks, a menu that is NULL is followed only when   *)
(* the table is full, and the emergency is shown for as long as it lasts   *)
(* unless the two tasks overwrite each other.                              *)
(***************************************************************************)
EXTENDS MenuDrv, TLAPS

(* The entries of the table are a prefix, and never none. *)
Prefix == \E n \in 1 .. Size : \A i \in 0 .. Top : tab[i] # NULL <=> i < n

(* Where a handler is says which one it is, and which states it writes.    *)
Steps ==
    /\ mt.pc \in States \ {"EMERGENCY_DISABLE"} => mt.handles = mt.pc
    /\ mt.pc = "clear" => mt.handles = "IDLE"
    /\ mt.pc = "shown" => mt.handles = "PROCESS"
    /\ mt.pc \in {"left", "removed"} => mt.handles = "EXIT"
    /\ mt.pc = "write" => mt.handles # "POWER_OFF"
    /\ mt.pc = "write" /\ mt.target = "EMERGENCY_DISABLE" => mt.handles = "POWER_OFF_COUNT"

EmergencyStates == {"EMERGENCY_DISABLE", "POWER_OFF_COUNT", "POWER_OFF"}
Active == ctx.emergency_disable_is_active
Between == bt.pc \in {"entered", "leaving"}

(* The state while gpio_task is at each of its places. *)
Shown ==
    /\ ctx.last_state # "EMERGENCY_DISABLE"
    /\ bt.pc = "enter" => ~Active
    /\ bt.pc = "exit" => Active
    /\ bt.pc = "entered" => ~Active /\ ctx.state = "EMERGENCY_DISABLE"
    /\ bt.pc = "leaving" => Active /\ ctx.state # "EMERGENCY_DISABLE"
    /\ ~Between => IF Active THEN ctx.state \in EmergencyStates
                              ELSE ctx.state # "EMERGENCY_DISABLE"

(* A handler nobody has touched was dispatched in the state that still     *)
(* holds, and what it will write agrees with the emergency.                *)
Untouched ==
    mt.pc # "loop" /\ ~raced.touched =>
        /\ bt.pc # "entered"
        /\ ~Between =>
            /\ Active => mt.handles \in {"POWER_OFF_COUNT", "POWER_OFF"}
            /\ mt.pc = "write" /\ Active => mt.target \in {"EMERGENCY_DISABLE", "POWER_OFF"}
            /\ mt.pc = "write" /\ mt.target = "EMERGENCY_DISABLE" => Active

(* The callbacks of a menu are on the buttons in the emergency only when   *)
(* ENTER, dispatched before it, has just put them there.                   *)
Dead ==
    Active /\ ~Between /\ active # NULL =>
        mt.handles = "ENTER" /\ mt.pc = "write" /\ raced.touched

Emergency == Steps /\ (~raced.overwrote => Shown /\ Untouched /\ Dead)

-----------------------------------------------------------------------------
(* The table.                                                              *)

(* The length of the table is the end of the prefix, or 0 when it is full. *)
LEMMA TabLen ==
    ASSUME NEW n \in 1 .. Size, \A i \in 0 .. Top : tab[i] # NULL <=> i < n
    PROVE  tab_len = IF n = Size THEN 0 ELSE n
<1>. Size \in Nat /\ Size > 1
    BY SizeAssumption
<1>1. CASE n = Size
    <2>1. ~ \E i \in 0 .. Top : tab[i] = NULL
        BY <1>1 DEF Top
    <2>. QED BY <1>1, <2>1 DEF tab_len
<1>2. CASE n # Size
    <2>. DEFINE P(i) == tab[i] = NULL /\ \A j \in 0 .. i - 1 : tab[j] # NULL
    <2>1. n \in 0 .. Top /\ P(n)
        BY <1>2 DEF Top
    <2>2. \A i \in 0 .. Top : P(i) => i = n
        <3>. SUFFICES ASSUME NEW i \in 0 .. Top, P(i) PROVE i = n
            OBVIOUS
        <3>1. ~ i < n
            OBVIOUS
        <3>2. ~ n < i
            <4>. SUFFICES ASSUME n < i PROVE FALSE
                OBVIOUS
            <4>1. n \in 0 .. i - 1
                BY DEF Top
            <4>. QED BY <4>1, <2>1
        <3>. QED BY <3>1, <3>2 DEF Top
    <2>3. tab_len = CHOOSE i \in 0 .. Top : P(i)
        BY <2>1 DEF tab_len
    <2>4. (CHOOSE i \in 0 .. Top : P(i)) = n
        <3>. HIDE DEF P
        <3>. QED BY <2>1, <2>2
    <2>. QED BY <1>2, <2>3, <2>4
<1>. QED BY <1>1, <1>2

(* A menu is missing only from a full table. *)
LEMMA LastTabElement ==
    ASSUME TypeOK, Prefix
    PROVE  /\ last_tab_element \in Any
           /\ last_tab_element = NULL => \A i \in 0 .. Top : tab[i] # NULL
<1>. Size \in Nat /\ Size > 1
    BY SizeAssumption
<1>1. PICK n \in 1 .. Size : \A i \in 0 .. Top : tab[i] # NULL <=> i < n
    BY DEF Prefix
<1>2. tab_len = IF n = Size THEN 0 ELSE n
    BY <1>1, TabLen
<1>3. CASE n = Size
    BY <1>1, <1>2, <1>3 DEF last_tab_element, Any, Top
<1>4. CASE n # Size
    <2>1. last_tab_element = tab[n - 1] /\ n - 1 \in 0 .. Top /\ n - 1 < n
        BY <1>2, <1>4 DEF last_tab_element, Top
    <2>. QED BY <1>1, <2>1 DEF TypeOK
<1>. QED BY <1>3, <1>4

(* A menu more, in front of the first NULL, or over the main one.          *)
LEMMA AddMenuTab ==
    ASSUME TypeOK, Prefix, NEW m \in Any, m # NULL, tab' = add_menu_tab(m)
    PROVE  tab' \in [0 .. Top -> Any] /\ Prefix'
<1>. Size \in Nat /\ Size > 1 /\ Top \in Nat
    BY SizeAssumption DEF Top
<1>1. PICK n \in 1 .. Size : \A i \in 0 .. Top : tab[i] # NULL <=> i < n
    BY DEF Prefix
<1>2. tab_len = IF n = Size THEN 0 ELSE n
    BY <1>1, TabLen
<1>3. tab \in [0 .. Top -> Any]
    BY DEF TypeOK
<1>4. tab' = [tab EXCEPT ![IF n = Size THEN 0 ELSE n] = m]
    BY <1>2 DEF add_menu_tab
<1>5. tab' \in [0 .. Top -> Any]
    BY <1>3, <1>4
<1>6. \A i \in 0 .. Top : tab'[i] # NULL <=> i < (IF n = Size THEN n ELSE n + 1)
    BY <1>1, <1>3, <1>4 DEF Top
<1>7. (IF n = Size THEN n ELSE n + 1) \in 1 .. Size
    OBVIOUS
<1>. QED BY <1>5, <1>6, <1>7 DEF Prefix

(* A menu less, and never the main one. *)
LEMMA RemoveLastMenuTab ==
    ASSUME TypeOK, Prefix, tab' = remove_last_menu_tab
    PROVE  tab' \in [0 .. Top -> Any] /\ Prefix'
<1>. Size \in Nat /\ Size > 1 /\ Top \in Nat
    BY SizeAssumption DEF Top
<1>1. PICK n \in 1 .. Size : \A i \in 0 .. Top : tab[i] # NULL <=> i < n
    BY DEF Prefix
<1>2. tab_len = IF n = Size THEN 0 ELSE n
    BY <1>1, TabLen
<1>3. tab \in [0 .. Top -> Any]
    BY DEF TypeOK
<1>4. CASE tab_len > 1
    <2>1. n # Size /\ n > 1
        BY <1>2, <1>4
    <2>4. tab' = [tab EXCEPT ![n - 1] = NULL]
        BY <1>2, <1>4, <2>1 DEF remove_last_menu_tab
    <2>2. \A i \in 0 .. Top : tab'[i] # NULL <=> i < n - 1
        BY <1>1, <1>3, <2>1, <2>4 DEF Top
    <2>3. tab' \in [0 .. Top -> Any]
        BY <1>3, <2>4 DEF Any
    <2>5. n - 1 \in 1 .. Size
        BY <2>1
    <2>. QED BY <2>2, <2>3, <2>5 DEF Prefix
<1>5. CASE ~ tab_len > 1
    BY <1>1, <1>3, <1>5 DEF remove_last_menu_tab, Prefix
<1>. QED BY <1>4, <1>5

(* The table with the main menu alone. *)
LEMMA MainAlone ==
    ASSUME NEW t, t = [i \in 0 .. Top |-> IF i = 0 THEN Main ELSE NULL]
    PROVE  /\ t \in [0 .. Top -> Any]
           /\ \E n \in 1 .. Size : \A i \in 0 .. Top : t[i] # NULL <=> i < n
<1>1. 1 \in 1 .. Size /\ Top \in Nat
    BY SizeAssumption DEF Top
<1>2. \A i \in 0 .. Top : t[i] # NULL <=> i < 1
    BY MenusAssumption
<1>3. t \in [0 .. Top -> Any]
    BY MenusAssumption DEF Any
<1>. QED BY <1>1, <1>2, <1>3
-----------------------------------------------------------------------------
(* Types, the table, and what a NULL is followed for.                      *)

TInv == TypeOK /\ Prefix /\ OnlyFullTabCrashes

LEMMA TableInit == Init => TInv
<1>. SUFFICES ASSUME Init PROVE TInv
    OBVIOUS
<1>1. tab \in [0 .. Top -> Any] /\ Prefix
    BY MainAlone DEF Init, Prefix
<1>2. TypeOK
    BY <1>1 DEF Init, TypeOK, CtxType, MtType, BtType, States, Loop, Any
<1>. QED BY <1>1, <1>2 DEF TInv, OnlyFullTabCrashes, Init

LEMMA TableNext == TInv /\ [Next]_vars => TInv'
<1>. SUFFICES ASSUME TypeOK, Prefix, OnlyFullTabCrashes, [Next]_vars PROVE TInv'
    BY DEF TInv
<1>. USE DEF TypeOK, States, Any
<1>1. CASE ~crashed /\ Dispatch
    <2>1. mt' \in MtType
        BY <1>1, LastTabElement DEF Dispatch, In, MtType, CtxType
    <2>2. raced' \in [touched : BOOLEAN, overwrote : BOOLEAN]
        BY <1>1 DEF Dispatch, In
    <2>3. TypeOK' /\ Prefix' /\ OnlyFullTabCrashes'
        BY <1>1, <2>1, <2>2, LastTabElement DEF Dispatch, OnlyFullTabCrashes, Prefix
    <2>. QED BY <2>3 DEF TInv
<1>2. CASE ~crashed /\ WriteState
    <2>1. ctx' \in CtxType
        BY <1>2 DEF WriteState, Goto, Ends, Overwrite, In, Loop, CtxType, MtType
    <2>2. mt' \in MtType
        BY <1>2 DEF WriteState, Goto, Ends, Overwrite, In, Loop, MtType
    <2>3. raced' \in [touched : BOOLEAN, overwrote : BOOLEAN]
        BY <1>2 DEF WriteState, Goto, Ends, Overwrite, In, Loop
    <2>4. TypeOK' /\ Prefix' /\ OnlyFullTabCrashes'
        BY <1>2, <2>1, <2>2, <2>3 DEF WriteState, OnlyFullTabCrashes, Prefix
    <2>. QED BY <2>4 DEF TInv
<1>3. CASE ~crashed /\ StateInit
    <2>1. mt' \in MtType
        BY <1>3 DEF StateInit, Finish, In, MtType
    <2>2. bt' \in BtType
        BY <1>3 DEF StateInit, Finish, In, BtType
    <2>3. TypeOK' /\ Prefix' /\ OnlyFullTabCrashes'
        BY <1>3, <2>1, <2>2 DEF StateInit, OnlyFullTabCrashes, Prefix
    <2>. QED BY <2>3 DEF TInv
<1>4. CASE ~crashed /\ IdleAdds
    <2>1. tab' \in [0 .. Top -> Any] /\ Prefix'
        BY <1>4, AddMenuTab DEF IdleAdds, CtxType
    <2>2. mt' \in MtType
        BY <1>4 DEF IdleAdds, Finish, In, MtType
    <2>3. TypeOK' /\ OnlyFullTabCrashes'
        BY <1>4, <2>1, <2>2 DEF IdleAdds, OnlyFullTabCrashes
    <2>. QED BY <2>1, <2>3 DEF TInv
<1>5. CASE ~crashed /\ IdleRefuses
    <2>1. ctx' \in CtxType
        BY <1>5 DEF IdleRefuses, Finish, In, CtxType
    <2>2. mt' \in MtType
        BY <1>5 DEF IdleRefuses, Finish, In, MtType
    <2>3. TypeOK' /\ Prefix' /\ OnlyFullTabCrashes'
        BY <1>5, <2>1, <2>2 DEF IdleRefuses, OnlyFullTabCrashes, Prefix
    <2>. QED BY <2>3 DEF TInv
<1>6. CASE ~crashed /\ IdleReturns
    <2>1. mt' \in MtType
        <3>1. CASE Ends
            BY <1>6, <3>1 DEF IdleReturns, In, MtType, Ends, Loop
        <3>2. CASE Finish("ENTER")
            BY <1>6, <3>2 DEF IdleReturns, In, MtType, Finish
        <3>. QED BY <1>6, <3>1, <3>2 DEF IdleReturns
    <2>2. TypeOK' /\ Prefix' /\ OnlyFullTabCrashes'
        BY <1>6, <2>1 DEF IdleReturns, OnlyFullTabCrashes, Prefix
    <2>. QED BY <2>2 DEF TInv
<1>7. CASE ~crashed /\ IdleClears
    <2>1. ctx' \in CtxType
        BY <1>7 DEF IdleClears, Ends, In, Loop, CtxType
    <2>2. mt' \in MtType
        BY <1>7 DEF IdleClears, Ends, In, Loop, MtType
    <2>3. TypeOK' /\ Prefix' /\ OnlyFullTabCrashes'
        BY <1>7, <2>1, <2>2 DEF IdleClears, OnlyFullTabCrashes, Prefix
    <2>. QED BY <2>3 DEF TInv
<1>8. CASE ~crashed /\ StateEnter
    <2>1. active' \in Any
        BY <1>8 DEF StateEnter, Finish, In, MtType
    <2>2. mt' \in MtType
        BY <1>8 DEF StateEnter, Finish, In, MtType
    <2>3. TypeOK' /\ Prefix' /\ OnlyFullTabCrashes'
        BY <1>8, <2>1, <2>2 DEF StateEnter, OnlyFullTabCrashes, Prefix
    <2>. QED BY <2>3 DEF TInv
<1>9. CASE ~crashed /\ Process
    <2>1. mt' \in MtType
        BY <1>9 DEF Process, Goto, In, MtType
    <2>2. TypeOK' /\ Prefix' /\ OnlyFullTabCrashes'
        BY <1>9, <2>1 DEF Process, OnlyFullTabCrashes, Prefix
    <2>. QED BY <2>2 DEF TInv
<1>10. CASE ~crashed /\ ProcessSetsMain
    <2>1. tab' \in [0 .. Top -> Any] /\ Prefix'
        BY <1>10, MainAlone DEF ProcessSetsMain, Prefix
    <2>2. ctx' \in CtxType
        BY <1>10 DEF ProcessSetsMain, Goto, Overwrite, In, CtxType
    <2>3. mt' \in MtType
        BY <1>10 DEF ProcessSetsMain, Goto, Overwrite, In, MtType
    <2>4. raced' \in [touched : BOOLEAN, overwrote : BOOLEAN]
        BY <1>10 DEF ProcessSetsMain, Goto, Overwrite, In
    <2>5. TypeOK' /\ OnlyFullTabCrashes'
        BY <1>10, <2>1, <2>2, <2>3, <2>4 DEF ProcessSetsMain, OnlyFullTabCrashes
    <2>. QED BY <2>1, <2>5 DEF TInv
<1>11. CASE ~crashed /\ ProcessMissing
    <2>1. ctx' \in CtxType
        BY <1>11 DEF ProcessMissing, Goto, Overwrite, In, CtxType
    <2>2. mt' \in MtType
        BY <1>11 DEF ProcessMissing, Goto, Overwrite, In, MtType
    <2>3. raced' \in [touched : BOOLEAN, overwrote : BOOLEAN]
        BY <1>11 DEF ProcessMissing, Goto, Overwrite, In
    <2>4. TypeOK' /\ Prefix' /\ OnlyFullTabCrashes'
        BY <1>11, <2>1, <2>2, <2>3 DEF ProcessMissing, OnlyFullTabCrashes, Prefix
    <2>. QED BY <2>4 DEF TInv
<1>12. CASE ~crashed /\ ProcessEnds
    <2>1. mt' \in MtType
        <3>1. CASE Ends
            BY <1>12, <3>1 DEF ProcessEnds, In, MtType, Ends, Loop
        <3>2. CASE Finish("EXIT")
            BY <1>12, <3>2 DEF ProcessEnds, In, MtType, Finish
        <3>. QED BY <1>12, <3>1, <3>2 DEF ProcessEnds
    <2>2. TypeOK' /\ Prefix' /\ OnlyFullTabCrashes'
        BY <1>12, <2>1 DEF ProcessEnds, OnlyFullTabCrashes, Prefix
    <2>. QED BY <2>2 DEF TInv
<1>13. CASE ~crashed /\ StateExit
    <2>1. active' \in Any
        BY <1>13 DEF StateExit, Goto, In
    <2>2. mt' \in MtType
        BY <1>13 DEF StateExit, Goto, In, MtType
    <2>3. TypeOK' /\ Prefix' /\ OnlyFullTabCrashes'
        BY <1>13, <2>1, <2>2 DEF StateExit, OnlyFullTabCrashes, Prefix
    <2>. QED BY <2>3 DEF TInv
<1>14. CASE ~crashed /\ ExitStays
    <2>1. mt' \in MtType
        BY <1>14 DEF ExitStays, Finish, In, MtType
    <2>2. TypeOK' /\ Prefix' /\ OnlyFullTabCrashes'
        BY <1>14, <2>1 DEF ExitStays, OnlyFullTabCrashes, Prefix
    <2>. QED BY <2>2 DEF TInv
<1>15. CASE ~crashed /\ ExitRemoves
    <2>1. tab' \in [0 .. Top -> Any] /\ Prefix'
        BY <1>15, RemoveLastMenuTab DEF ExitRemoves
    <2>2. mt' \in MtType
        BY <1>15 DEF ExitRemoves, Goto, In, MtType
    <2>3. TypeOK' /\ OnlyFullTabCrashes'
        BY <1>15, <2>1, <2>2 DEF ExitRemoves, OnlyFullTabCrashes
    <2>. QED BY <2>1, <2>3 DEF TInv
<1>16. CASE ~crashed /\ ExitClears
    <2>1. ctx' \in CtxType
        BY <1>16 DEF ExitClears, Finish, In, CtxType
    <2>2. mt' \in MtType
        BY <1>16 DEF ExitClears, Finish, In, MtType
    <2>3. TypeOK' /\ Prefix' /\ OnlyFullTabCrashes'
        BY <1>16, <2>1, <2>2 DEF ExitClears, OnlyFullTabCrashes, Prefix
    <2>. QED BY <2>3 DEF TInv
<1>17. CASE ~crashed /\ ErrorCheck
    <2>1. ctx' \in CtxType
        BY <1>17 DEF ErrorCheck, Finish, In, CtxType
    <2>2. mt' \in MtType
        BY <1>17 DEF ErrorCheck, Finish, In, MtType
    <2>3. TypeOK' /\ Prefix' /\ OnlyFullTabCrashes'
        BY <1>17, <2>1, <2>2 DEF ErrorCheck, OnlyFullTabCrashes, Prefix
    <2>. QED BY <2>3 DEF TInv
<1>18. CASE ~crashed /\ CountEnds
    <2>1. mt' \in MtType
        BY <1>18 DEF CountEnds, Finish, In, MtType
    <2>2. TypeOK' /\ Prefix' /\ OnlyFullTabCrashes'
        BY <1>18, <2>1 DEF CountEnds, OnlyFullTabCrashes, Prefix
    <2>. QED BY <2>2 DEF TInv
<1>19. CASE ~crashed /\ CountGoesOn
    <2>1. mt' \in MtType
        <3>1. CASE Ends
            BY <1>19, <3>1 DEF CountGoesOn, In, MtType, Ends, Loop
        <3>2. CASE Finish("POWER_OFF")
            BY <1>19, <3>2 DEF CountGoesOn, In, MtType, Finish
        <3>. QED BY <1>19, <3>1, <3>2 DEF CountGoesOn
    <2>2. TypeOK' /\ Prefix' /\ OnlyFullTabCrashes'
        BY <1>19, <2>1 DEF CountGoesOn, OnlyFullTabCrashes, Prefix
    <2>. QED BY <2>2 DEF TInv
<1>20. CASE ~crashed /\ PowerOff
    <2>1. mt' \in MtType
        BY <1>20 DEF PowerOff, Ends, In, Loop, MtType
    <2>2. TypeOK' /\ Prefix' /\ OnlyFullTabCrashes'
        BY <1>20, <2>1 DEF PowerOff, OnlyFullTabCrashes, Prefix
    <2>. QED BY <2>2 DEF TInv
<1>21. CASE ~crashed /\ EmergencyShows
    <2>1. ctx' \in CtxType
        BY <1>21 DEF EmergencyShows, Touch, CtxType
    <2>2. bt' \in BtType
        BY <1>21 DEF EmergencyShows, Touch, BtType
    <2>3. raced' \in [touched : BOOLEAN, overwrote : BOOLEAN]
        BY <1>21 DEF EmergencyShows, Touch
    <2>4. TypeOK' /\ Prefix' /\ OnlyFullTabCrashes'
        BY <1>21, <2>1, <2>2, <2>3 DEF EmergencyShows, OnlyFullTabCrashes, Prefix
    <2>. QED BY <2>4 DEF TInv
<1>22. CASE ~crashed /\ EmergencyActive
    <2>1. ctx' \in CtxType
        BY <1>22 DEF EmergencyActive, Touch, CtxType
    <2>2. active' \in Any
        BY <1>22 DEF EmergencyActive, Touch
    <2>3. bt' \in BtType
        BY <1>22 DEF EmergencyActive, Touch, BtType
    <2>4. raced' \in [touched : BOOLEAN, overwrote : BOOLEAN]
        BY <1>22 DEF EmergencyActive, Touch
    <2>5. TypeOK' /\ Prefix' /\ OnlyFullTabCrashes'
        BY <1>22, <2>1, <2>2, <2>3, <2>4 DEF EmergencyActive, OnlyFullTabCrashes, Prefix
    <2>. QED BY <2>5 DEF TInv
<1>23. CASE ~crashed /\ EmergencyLeaves
    <2>1. ctx' \in CtxType
        BY <1>23 DEF EmergencyLeaves, Touch, CtxType
    <2>2. bt' \in BtType
        BY <1>23, LastTabElement DEF EmergencyLeaves, Touch, BtType
    <2>3. raced' \in [touched : BOOLEAN, overwrote : BOOLEAN]
        BY <1>23 DEF EmergencyLeaves, Touch
    <2>4. TypeOK' /\ Prefix' /\ OnlyFullTabCrashes'
        BY <1>23, <2>1, <2>2, <2>3 DEF EmergencyLeaves, OnlyFullTabCrashes, Prefix
    <2>. QED BY <2>4 DEF TInv
<1>24. CASE ~crashed /\ EmergencyOver
    <2>1. ctx' \in CtxType
        BY <1>24 DEF EmergencyOver, Touch, CtxType
    <2>2. active' \in Any
        BY <1>24 DEF EmergencyOver, Touch, BtType
    <2>3. bt' \in BtType
        BY <1>24 DEF EmergencyOver, Touch, BtType
    <2>4. raced' \in [touched : BOOLEAN, overwrote : BOOLEAN]
        BY <1>24 DEF EmergencyOver, Touch
    <2>5. TypeOK' /\ Prefix' /\ OnlyFullTabCrashes'
        BY <1>24, <2>1, <2>2, <2>3, <2>4 DEF EmergencyOver, OnlyFullTabCrashes, Prefix
    <2>. QED BY <2>5 DEF TInv
<1>25. CASE ~crashed /\ menuEnter
    <2>1. ctx' \in CtxType
        BY <1>25, EnteredAssumption DEF menuEnter, Returns, CtxType
    <2>2. bt' \in BtType
        BY <1>25 DEF menuEnter, Returns, BtType
    <2>3. TypeOK' /\ Prefix' /\ OnlyFullTabCrashes'
        BY <1>25, <2>1, <2>2 DEF menuEnter, OnlyFullTabCrashes, Prefix
    <2>. QED BY <2>3 DEF TInv
<1>26. CASE ~crashed /\ menuDrv_Exit
    <2>1. ctx' \in CtxType
        BY <1>26 DEF menuDrv_Exit, Returns, CtxType
    <2>2. bt' \in BtType
        BY <1>26 DEF menuDrv_Exit, Returns, BtType
    <2>3. TypeOK' /\ Prefix' /\ OnlyFullTabCrashes'
        BY <1>26, <2>1, <2>2 DEF menuDrv_Exit, OnlyFullTabCrashes, Prefix
    <2>. QED BY <2>3 DEF TInv
<1>27. CASE ~crashed /\ Falls
    <2>1. bt' \in BtType
        BY <1>27 DEF Falls, Polls, BtType
    <2>2. TypeOK' /\ Prefix' /\ OnlyFullTabCrashes'
        BY <1>27, <2>1 DEF Falls, OnlyFullTabCrashes, Prefix
    <2>. QED BY <2>2 DEF TInv
<1>28. CASE ~crashed /\ Held
    <2>1. ctx' \in CtxType
        BY <1>28 DEF Held, Touch, Polls, CtxType
    <2>2. bt' \in BtType
        BY <1>28 DEF Held, Touch, Polls, BtType
    <2>3. raced' \in [touched : BOOLEAN, overwrote : BOOLEAN]
        BY <1>28 DEF Held, Touch, Polls
    <2>4. TypeOK' /\ Prefix' /\ OnlyFullTabCrashes'
        BY <1>28, <2>1, <2>2, <2>3 DEF Held, OnlyFullTabCrashes, Prefix
    <2>. QED BY <2>4 DEF TInv
<1>29. CASE ~crashed /\ HeldTooEarly
    <2>1. bt' \in BtType
        BY <1>29 DEF HeldTooEarly, Polls, OnOff, BtType
    <2>2. TypeOK' /\ Prefix' /\ OnlyFullTabCrashes'
        BY <1>29, <2>1 DEF HeldTooEarly, OnlyFullTabCrashes, Prefix
    <2>. QED BY <2>2 DEF TInv
<1>30. CASE ~crashed /\ HeldLong
    <2>1. ctx' \in CtxType
        BY <1>30 DEF HeldLong, Touch, Polls, OnOff, CtxType
    <2>2. bt' \in BtType
        BY <1>30 DEF HeldLong, Touch, Polls, OnOff, BtType
    <2>3. raced' \in [touched : BOOLEAN, overwrote : BOOLEAN]
        BY <1>30 DEF HeldLong, Touch, Polls, OnOff
    <2>4. TypeOK' /\ Prefix' /\ OnlyFullTabCrashes'
        BY <1>30, <2>1, <2>2, <2>3 DEF HeldLong, OnlyFullTabCrashes, Prefix
    <2>. QED BY <2>4 DEF TInv
<1>31. CASE ~crashed /\ Rises
    <2>1. ctx' \in CtxType
        BY <1>31 DEF Rises, Polls, OnOff, CtxType
    <2>2. bt' \in BtType
        BY <1>31 DEF Rises, Polls, OnOff, BtType
    <2>3. TypeOK' /\ Prefix' /\ OnlyFullTabCrashes'
        BY <1>31, <2>1, <2>2 DEF Rises, OnlyFullTabCrashes, Prefix
    <2>. QED BY <2>3 DEF TInv
<1>32. CASE ~crashed /\ Pressed
    <2>1. bt' \in BtType
        BY <1>32 DEF Pressed, Polls, BtType
    <2>2. TypeOK' /\ Prefix' /\ OnlyFullTabCrashes'
        BY <1>32, <2>1 DEF Pressed, OnlyFullTabCrashes, Prefix
    <2>. QED BY <2>2 DEF TInv
<1>33. CASE UNCHANGED vars
    BY <1>33 DEF vars, TInv, Prefix, OnlyFullTabCrashes
<1>. QED
    BY <1>1, <1>2, <1>3, <1>4, <1>5, <1>6, <1>7, <1>8, <1>9, <1>10, <1>11, <1>12, <1>13, <1>14, <1>15, <1>16, <1>17, <1>18, <1>19, <1>20, <1>21, <1>22, <1>23, <1>24, <1>25, <1>26, <1>27, <1>28, <1>29, <1>30, <1>31, <1>32, <1>33 DEF Next, MenuTask, ButtonTask, User

(* The task, the buttons and the table keep their types, whatever is       *)
(* entered, left, held or overwritten.                                     *)
THEOREM TypeCorrect == Spec => []TypeOK
<1>1. TInv => TypeOK
    BY DEF TInv
<1>. QED BY <1>1, TableInit, TableNext, PTL DEF Spec

(* However requests to enter and leave, errors and menuSetMain come        *)
(* together, menu_task follows a NULL only when the table is full: for any *)
(* menus and any size of the table.                                        *)
THEOREM CrashNeedsFullTab == Spec => []OnlyFullTabCrashes
<1>1. TInv => OnlyFullTabCrashes
    BY DEF TInv
<1>. QED BY <1>1, TableInit, TableNext, PTL DEF Spec

-----------------------------------------------------------------------------
(* The emergency.                                                          *)

LEMMA EmergencyInit == Init => Emergency
BY DEF Init, Loop, Emergency, Steps, Shown, Untouched, Dead, Active, Between, States

LEMMA EmergencyNext == TypeOK /\ Emergency /\ [Next]_vars => Emergency'
<1>. SUFFICES ASSUME TypeOK, Emergency, [Next]_vars PROVE Emergency'
    OBVIOUS
<1>. USE DEF TypeOK, CtxType, MtType, BtType, States, Emergency, Active, Between
<1>1. CASE Dispatch
    <2>1. Steps'
        BY <1>1 DEF Dispatch, In, Steps
    <2>2. ASSUME ~raced'.overwrote PROVE Shown'
        BY <1>1, <2>2 DEF Dispatch, In, Steps, Shown, Untouched, EmergencyStates
    <2>3. ASSUME ~raced'.overwrote PROVE Untouched'
        BY <1>1, <2>3 DEF Dispatch, In, Steps, Shown, Untouched, EmergencyStates
    <2>4. ASSUME ~raced'.overwrote PROVE Dead'
        BY <1>1, <2>4 DEF Dispatch, In, Steps, Shown, Untouched, Dead
    <2>. QED BY <2>1, <2>2, <2>3, <2>4
<1>2. CASE WriteState
    <2>1. Steps'
        BY <1>2 DEF WriteState, Goto, Ends, Overwrite, In, Loop, Steps
    <2>2. ASSUME ~raced'.overwrote PROVE Shown'
        BY <1>2, <2>2 DEF WriteState, Goto, Ends, Overwrite, In, Loop, Steps, Shown, Untouched, EmergencyStates
    <2>3. ASSUME ~raced'.overwrote PROVE Untouched'
        BY <1>2, <2>3 DEF WriteState, Goto, Ends, Overwrite, In, Loop, Steps, Shown, Untouched, EmergencyStates
    <2>4. ASSUME ~raced'.overwrote PROVE Dead'
        BY <1>2, <2>4 DEF WriteState, Goto, Ends, Overwrite, In, Loop, Steps, Shown, Untouched, Dead
    <2>. QED BY <2>1, <2>2, <2>3, <2>4
<1>3. CASE StateInit
    <2>1. Steps'
        BY <1>3 DEF StateInit, Finish, In, Steps
    <2>2. ASSUME ~raced'.overwrote PROVE Shown'
        BY <1>3, <2>2 DEF StateInit, Finish, In, Steps, Shown, Untouched, EmergencyStates
    <2>3. ASSUME ~raced'.overwrote PROVE Untouched'
        BY <1>3, <2>3 DEF StateInit, Finish, In, Steps, Shown, Untouched, EmergencyStates
    <2>4. ASSUME ~raced'.overwrote PROVE Dead'
        BY <1>3, <2>4 DEF StateInit, Finish, In, Steps, Shown, Untouched, Dead
    <2>. QED BY <2>1, <2>2, <2>3, <2>4
<1>4. CASE IdleAdds
    <2>1. Steps'
        BY <1>4 DEF IdleAdds, Finish, In, Steps
    <2>2. ASSUME ~raced'.overwrote PROVE Shown'
        BY <1>4, <2>2 DEF IdleAdds, Finish, In, Steps, Shown, Untouched, EmergencyStates
    <2>3. ASSUME ~raced'.overwrote PROVE Untouched'
        BY <1>4, <2>3 DEF IdleAdds, Finish, In, Steps, Shown, Untouched, EmergencyStates
    <2>4. ASSUME ~raced'.overwrote PROVE Dead'
        BY <1>4, <2>4 DEF IdleAdds, Finish, In, Steps, Shown, Untouched, Dead
    <2>. QED BY <2>1, <2>2, <2>3, <2>4
<1>5. CASE IdleRefuses
    <2>1. Steps'
        BY <1>5 DEF IdleRefuses, Finish, In, Steps
    <2>2. ASSUME ~raced'.overwrote PROVE Shown'
        BY <1>5, <2>2 DEF IdleRefuses, Finish, In, Steps, Shown, Untouched, EmergencyStates
    <2>3. ASSUME ~raced'.overwrote PROVE Untouched'
        BY <1>5, <2>3 DEF IdleRefuses, Finish, In, Steps, Shown, Untouched, EmergencyStates
    <2>4. ASSUME ~raced'.overwrote PROVE Dead'
        BY <1>5, <2>4 DEF IdleRefuses, Finish, In, Steps, Shown, Untouched, Dead
    <2>. QED BY <2>1, <2>2, <2>3, <2>4
<1>6. CASE IdleReturns
    <2>1. Steps'
        <3>1. CASE Ends
            BY <1>6, <3>1 DEF IdleReturns, In, Steps, Ends, Loop
        <3>2. CASE Finish("ENTER")
            BY <1>6, <3>2 DEF IdleReturns, In, Steps, Finish
        <3>. QED BY <1>6, <3>1, <3>2 DEF IdleReturns
    <2>2. ASSUME ~raced'.overwrote PROVE Shown'
        BY <1>6, <2>2 DEF IdleReturns, Ends, Finish, In, Loop, Steps, Shown, Untouched, EmergencyStates
    <2>3. ASSUME ~raced'.overwrote PROVE Untouched'
        <3>1. CASE Ends
            BY <1>6, <2>3, <3>1 DEF IdleReturns, In, Steps, Shown, Untouched, EmergencyStates, Ends, Loop
        <3>2. CASE Finish("ENTER")
            BY <1>6, <2>3, <3>2 DEF IdleReturns, In, Steps, Shown, Untouched, EmergencyStates, Finish
        <3>. QED BY <1>6, <3>1, <3>2 DEF IdleReturns
    <2>4. ASSUME ~raced'.overwrote PROVE Dead'
        BY <1>6, <2>4 DEF IdleReturns, Ends, Finish, In, Loop, Steps, Shown, Untouched, Dead
    <2>. QED BY <2>1, <2>2, <2>3, <2>4
<1>7. CASE IdleClears
    <2>1. Steps'
        BY <1>7 DEF IdleClears, Ends, In, Loop, Steps
    <2>2. ASSUME ~raced'.overwrote PROVE Shown'
        BY <1>7, <2>2 DEF IdleClears, Ends, In, Loop, Steps, Shown, Untouched, EmergencyStates
    <2>3. ASSUME ~raced'.overwrote PROVE Untouched'
        BY <1>7, <2>3 DEF IdleClears, Ends, In, Loop, Steps, Shown, Untouched, EmergencyStates
    <2>4. ASSUME ~raced'.overwrote PROVE Dead'
        BY <1>7, <2>4 DEF IdleClears, Ends, In, Loop, Steps, Shown, Untouched, Dead
    <2>. QED BY <2>1, <2>2, <2>3, <2>4
<1>8. CASE StateEnter
    <2>1. Steps'
        BY <1>8 DEF StateEnter, Finish, In, Steps
    <2>2. ASSUME ~raced'.overwrote PROVE Shown'
        BY <1>8, <2>2 DEF StateEnter, Finish, In, Steps, Shown, Untouched, EmergencyStates
    <2>3. ASSUME ~raced'.overwrote PROVE Untouched'
        BY <1>8, <2>3 DEF StateEnter, Finish, In, Steps, Shown, Untouched, EmergencyStates
    <2>4. ASSUME ~raced'.overwrote PROVE Dead'
        BY <1>8, <2>4 DEF StateEnter, Finish, In, Steps, Shown, Untouched, Dead
    <2>. QED BY <2>1, <2>2, <2>3, <2>4
<1>9. CASE Process
    <2>1. Steps'
        BY <1>9 DEF Process, Goto, In, Steps
    <2>2. ASSUME ~raced'.overwrote PROVE Shown'
        BY <1>9, <2>2 DEF Process, Goto, In, Steps, Shown, Untouched, EmergencyStates
    <2>3. ASSUME ~raced'.overwrote PROVE Untouched'
        BY <1>9, <2>3 DEF Process, Goto, In, Steps, Shown, Untouched, EmergencyStates
    <2>4. ASSUME ~raced'.overwrote PROVE Dead'
        BY <1>9, <2>4 DEF Process, Goto, In, Steps, Shown, Untouched, Dead
    <2>. QED BY <2>1, <2>2, <2>3, <2>4
<1>10. CASE ProcessSetsMain
    <2>1. Steps'
        BY <1>10 DEF ProcessSetsMain, Goto, Overwrite, In, Steps
    <2>2. ASSUME ~raced'.overwrote PROVE Shown'
        BY <1>10, <2>2 DEF ProcessSetsMain, Goto, Overwrite, In, Steps, Shown, Untouched, EmergencyStates
    <2>3. ASSUME ~raced'.overwrote PROVE Untouched'
        BY <1>10, <2>3 DEF ProcessSetsMain, Goto, Overwrite, In, Steps, Shown, Untouched, EmergencyStates
    <2>4. ASSUME ~raced'.overwrote PROVE Dead'
        BY <1>10, <2>4 DEF ProcessSetsMain, Goto, Overwrite, In, Steps, Shown, Untouched, Dead
    <2>. QED BY <2>1, <2>2, <2>3, <2>4
<1>11. CASE ProcessMissing
    <2>1. Steps'
        BY <1>11 DEF ProcessMissing, Goto, Overwrite, In, Steps
    <2>2. ASSUME ~raced'.overwrote PROVE Shown'
        BY <1>11, <2>2 DEF ProcessMissing, Goto, Overwrite, In, Steps, Shown, Untouched, EmergencyStates
    <2>3. ASSUME ~raced'.overwrote PROVE Untouched'
        BY <1>11, <2>3 DEF ProcessMissing, Goto, Overwrite, In, Steps, Shown, Untouched, EmergencyStates
    <2>4. ASSUME ~raced'.overwrote PROVE Dead'
        BY <1>11, <2>4 DEF ProcessMissing, Goto, Overwrite, In, Steps, Shown, Untouched, Dead
    <2>. QED BY <2>1, <2>2, <2>3, <2>4
<1>12. CASE ProcessEnds
    <2>1. Steps'
        <3>1. CASE Ends
            BY <1>12, <3>1 DEF ProcessEnds, In, Steps, Ends, Loop
        <3>2. CASE Finish("EXIT")
            BY <1>12, <3>2 DEF ProcessEnds, In, Steps, Finish
        <3>. QED BY <1>12, <3>1, <3>2 DEF ProcessEnds
    <2>2. ASSUME ~raced'.overwrote PROVE Shown'
        BY <1>12, <2>2 DEF ProcessEnds, Ends, Finish, In, Loop, Steps, Shown, Untouched, EmergencyStates
    <2>3. ASSUME ~raced'.overwrote PROVE Untouched'
        <3>1. CASE Ends
            BY <1>12, <2>3, <3>1 DEF ProcessEnds, In, Steps, Shown, Untouched, EmergencyStates, Ends, Loop
        <3>2. CASE Finish("EXIT")
            BY <1>12, <2>3, <3>2 DEF ProcessEnds, In, Steps, Shown, Untouched, EmergencyStates, Finish
        <3>. QED BY <1>12, <3>1, <3>2 DEF ProcessEnds
    <2>4. ASSUME ~raced'.overwrote PROVE Dead'
        BY <1>12, <2>4 DEF ProcessEnds, Ends, Finish, In, Loop, Steps, Shown, Untouched, Dead
    <2>. QED BY <2>1, <2>2, <2>3, <2>4
<1>13. CASE StateExit
    <2>1. Steps'
        BY <1>13 DEF StateExit, Goto, In, Steps
    <2>2. ASSUME ~raced'.overwrote PROVE Shown'
        BY <1>13, <2>2 DEF StateExit, Goto, In, Steps, Shown, Untouched, EmergencyStates
    <2>3. ASSUME ~raced'.overwrote PROVE Untouched'
        BY <1>13, <2>3 DEF StateExit, Goto, In, Steps, Shown, Untouched, EmergencyStates
    <2>4. ASSUME ~raced'.overwrote PROVE Dead'
        BY <1>13, <2>4 DEF StateExit, Goto, In, Steps, Shown, Untouched, Dead
    <2>. QED BY <2>1, <2>2, <2>3, <2>4
<1>14. CASE ExitStays
    <2>1. Steps'
        BY <1>14 DEF ExitStays, Finish, In, Steps
    <2>2. ASSUME ~raced'.overwrote PROVE Shown'
        BY <1>14, <2>2 DEF ExitStays, Finish, In, Steps, Shown, Untouched, EmergencyStates
    <2>3. ASSUME ~raced'.overwrote PROVE Untouched'
        BY <1>14, <2>3 DEF ExitStays, Finish, In, Steps, Shown, Untouched, EmergencyStates
    <2>4. ASSUME ~raced'.overwrote PROVE Dead'
        BY <1>14, <2>4 DEF ExitStays, Finish, In, Steps, Shown, Untouched, Dead
    <2>. QED BY <2>1, <2>2, <2>3, <2>4
<1>15. CASE ExitRemoves
    <2>1. Steps'
        BY <1>15 DEF ExitRemoves, Goto, In, Steps
    <2>2. ASSUME ~raced'.overwrote PROVE Shown'
        BY <1>15, <2>2 DEF ExitRemoves, Goto, In, Steps, Shown, Untouched, EmergencyStates
    <2>3. ASSUME ~raced'.overwrote PROVE Untouched'
        BY <1>15, <2>3 DEF ExitRemoves, Goto, In, Steps, Shown, Untouched, EmergencyStates
    <2>4. ASSUME ~raced'.overwrote PROVE Dead'
        BY <1>15, <2>4 DEF ExitRemoves, Goto, In, Steps, Shown, Untouched, Dead
    <2>. QED BY <2>1, <2>2, <2>3, <2>4
<1>16. CASE ExitClears
    <2>1. Steps'
        BY <1>16 DEF ExitClears, Finish, In, Steps
    <2>2. ASSUME ~raced'.overwrote PROVE Shown'
        BY <1>16, <2>2 DEF ExitClears, Finish, In, Steps, Shown, Untouched, EmergencyStates
    <2>3. ASSUME ~raced'.overwrote PROVE Untouched'
        BY <1>16, <2>3 DEF ExitClears, Finish, In, Steps, Shown, Untouched, EmergencyStates
    <2>4. ASSUME ~raced'.overwrote PROVE Dead'
        BY <1>16, <2>4 DEF ExitClears, Finish, In, Steps, Shown, Untouched, Dead
    <2>. QED BY <2>1, <2>2, <2>3, <2>4
<1>17. CASE ErrorCheck
    <2>1. Steps'
        BY <1>17 DEF ErrorCheck, Finish, In, Steps
    <2>2. ASSUME ~raced'.overwrote PROVE Shown'
        BY <1>17, <2>2 DEF ErrorCheck, Finish, In, Steps, Shown, Untouched, EmergencyStates
    <2>3. ASSUME ~raced'.overwrote PROVE Untouched'
        BY <1>17, <2>3 DEF ErrorCheck, Finish, In, Steps, Shown, Untouched, EmergencyStates
    <2>4. ASSUME ~raced'.overwrote PROVE Dead'
        BY <1>17, <2>4 DEF ErrorCheck, Finish, In, Steps, Shown, Untouched, Dead
    <2>. QED BY <2>1, <2>2, <2>3, <2>4
<1>18. CASE CountEnds
    <2>1. Steps'
        BY <1>18 DEF CountEnds, Finish, In, Steps
    <2>2. ASSUME ~raced'.overwrote PROVE Shown'
        BY <1>18, <2>2 DEF CountEnds, Finish, In, Steps, Shown, Untouched, EmergencyStates
    <2>3. ASSUME ~raced'.overwrote PROVE Untouched'
        BY <1>18, <2>3 DEF CountEnds, Finish, In, Steps, Shown, Untouched, EmergencyStates
    <2>4. ASSUME ~raced'.overwrote PROVE Dead'
        BY <1>18, <2>4 DEF CountEnds, Finish, In, Steps, Shown, Untouched, Dead
    <2>. QED BY <2>1, <2>2, <2>3, <2>4
<1>19. CASE CountGoesOn
    <2>1. Steps'
        <3>1. CASE Ends
            BY <1>19, <3>1 DEF CountGoesOn, In, Steps, Ends, Loop
        <3>2. CASE Finish("POWER_OFF")
            BY <1>19, <3>2 DEF CountGoesOn, In, Steps, Finish
        <3>. QED BY <1>19, <3>1, <3>2 DEF CountGoesOn
    <2>2. ASSUME ~raced'.overwrote PROVE Shown'
        BY <1>19, <2>2 DEF CountGoesOn, Ends, Finish, In, Loop, Steps, Shown, Untouched, EmergencyStates
    <2>3. ASSUME ~raced'.overwrote PROVE Untouched'
        <3>1. CASE Ends
            BY <1>19, <2>3, <3>1 DEF CountGoesOn, In, Steps, Shown, Untouched, EmergencyStates, Ends, Loop
        <3>2. CASE Finish("POWER_OFF")
            BY <1>19, <2>3, <3>2 DEF CountGoesOn, In, Steps, Shown, Untouched, EmergencyStates, Finish
        <3>. QED BY <1>19, <3>1, <3>2 DEF CountGoesOn
    <2>4. ASSUME ~raced'.overwrote PROVE Dead'
        BY <1>19, <2>4 DEF CountGoesOn, Ends, Finish, In, Loop, Steps, Shown, Untouched, Dead
    <2>. QED BY <2>1, <2>2, <2>3, <2>4
<1>20. CASE PowerOff
    <2>1. Steps'
        BY <1>20 DEF PowerOff, Ends, In, Loop, Steps
    <2>2. ASSUME ~raced'.overwrote PROVE Shown'
        BY <1>20, <2>2 DEF PowerOff, Ends, In, Loop, Steps, Shown, Untouched, EmergencyStates
    <2>3. ASSUME ~raced'.overwrote PROVE Untouched'
        BY <1>20, <2>3 DEF PowerOff, Ends, In, Loop, Steps, Shown, Untouched, EmergencyStates
    <2>4. ASSUME ~raced'.overwrote PROVE Dead'
        BY <1>20, <2>4 DEF PowerOff, Ends, In, Loop, Steps, Shown, Untouched, Dead
    <2>. QED BY <2>1, <2>2, <2>3, <2>4
<1>21. CASE EmergencyShows
    <2>1. Steps'
        BY <1>21 DEF EmergencyShows, Touch, Steps
    <2>2. ASSUME ~raced'.overwrote PROVE Shown'
        BY <1>21, <2>2 DEF EmergencyShows, Touch, Steps, Shown, Untouched, EmergencyStates
    <2>3. ASSUME ~raced'.overwrote PROVE Untouched'
        BY <1>21, <2>3 DEF EmergencyShows, Touch, Steps, Shown, Untouched, EmergencyStates
    <2>4. ASSUME ~raced'.overwrote PROVE Dead'
        BY <1>21, <2>4 DEF EmergencyShows, Touch, Steps, Shown, Untouched, Dead
    <2>. QED BY <2>1, <2>2, <2>3, <2>4
<1>22. CASE EmergencyActive
    <2>1. Steps'
        BY <1>22 DEF EmergencyActive, Touch, Steps
    <2>2. ASSUME ~raced'.overwrote PROVE Shown'
        BY <1>22, <2>2 DEF EmergencyActive, Touch, Steps, Shown, Untouched, EmergencyStates
    <2>3. ASSUME ~raced'.overwrote PROVE Untouched'
        BY <1>22, <2>3 DEF EmergencyActive, Touch, Steps, Shown, Untouched, EmergencyStates
    <2>4. ASSUME ~raced'.overwrote PROVE Dead'
        BY <1>22, <2>4 DEF EmergencyActive, Touch, Steps, Shown, Untouched, Dead
    <2>. QED BY <2>1, <2>2, <2>3, <2>4
<1>23. CASE EmergencyLeaves
    <2>1. Steps'
        BY <1>23 DEF EmergencyLeaves, Touch, Steps
    <2>2. ASSUME ~raced'.overwrote PROVE Shown'
        BY <1>23, <2>2 DEF EmergencyLeaves, Touch, Steps, Shown, Untouched, EmergencyStates
    <2>3. ASSUME ~raced'.overwrote PROVE Untouched'
        BY <1>23, <2>3 DEF EmergencyLeaves, Touch, Steps, Shown, Untouched, EmergencyStates
    <2>4. ASSUME ~raced'.overwrote PROVE Dead'
        BY <1>23, <2>4 DEF EmergencyLeaves, Touch, Steps, Shown, Untouched, Dead
    <2>. QED BY <2>1, <2>2, <2>3, <2>4
<1>24. CASE EmergencyOver
    <2>1. Steps'
        BY <1>24 DEF EmergencyOver, Touch, Steps
    <2>2. ASSUME ~raced'.overwrote PROVE Shown'
        BY <1>24, <2>2 DEF EmergencyOver, Touch, Steps, Shown, Untouched, EmergencyStates
    <2>3. ASSUME ~raced'.overwrote PROVE Untouched'
        BY <1>24, <2>3 DEF EmergencyOver, Touch, Steps, Shown, Untouched, EmergencyStates
    <2>4. ASSUME ~raced'.overwrote PROVE Dead'
        BY <1>24, <2>4 DEF EmergencyOver, Touch, Steps, Shown, Untouched, Dead
    <2>. QED BY <2>1, <2>2, <2>3, <2>4
<1>25. CASE menuEnter
    <2>1. Steps'
        BY <1>25 DEF menuEnter, Returns, Steps
    <2>2. ASSUME ~raced'.overwrote PROVE Shown'
        BY <1>25, <2>2 DEF menuEnter, Returns, Steps, Shown, Untouched, EmergencyStates
    <2>3. ASSUME ~raced'.overwrote PROVE Untouched'
        BY <1>25, <2>3 DEF menuEnter, Returns, Steps, Shown, Untouched, EmergencyStates
    <2>4. ASSUME ~raced'.overwrote PROVE Dead'
        BY <1>25, <2>4 DEF menuEnter, Returns, Steps, Shown, Untouched, Dead
    <2>. QED BY <2>1, <2>2, <2>3, <2>4
<1>26. CASE menuDrv_Exit
    <2>1. Steps'
        BY <1>26 DEF menuDrv_Exit, Returns, Steps
    <2>2. ASSUME ~raced'.overwrote PROVE Shown'
        BY <1>26, <2>2 DEF menuDrv_Exit, Returns, Steps, Shown, Untouched, EmergencyStates
    <2>3. ASSUME ~raced'.overwrote PROVE Untouched'
        BY <1>26, <2>3 DEF menuDrv_Exit, Returns, Steps, Shown, Untouched, EmergencyStates
    <2>4. ASSUME ~raced'.overwrote PROVE Dead'
        BY <1>26, <2>4 DEF menuDrv_Exit, Returns, Steps, Shown, Untouched, Dead
    <2>. QED BY <2>1, <2>2, <2>3, <2>4
<1>27. CASE Falls
    <2>1. Steps'
        BY <1>27 DEF Falls, Polls, Steps
    <2>2. ASSUME ~raced'.overwrote PROVE Shown'
        BY <1>27, <2>2 DEF Falls, Polls, Steps, Shown, Untouched, EmergencyStates
    <2>3. ASSUME ~raced'.overwrote PROVE Untouched'
        BY <1>27, <2>3 DEF Falls, Polls, Steps, Shown, Untouched, EmergencyStates
    <2>4. ASSUME ~raced'.overwrote PROVE Dead'
        BY <1>27, <2>4 DEF Falls, Polls, Steps, Shown, Untouched, Dead
    <2>. QED BY <2>1, <2>2, <2>3, <2>4
<1>28. CASE Held
    <2>1. Steps'
        BY <1>28 DEF Held, Touch, Polls, Steps
    <2>2. ASSUME ~raced'.overwrote PROVE Shown'
        BY <1>28, <2>2 DEF Held, Touch, Polls, Steps, Shown, Untouched, EmergencyStates
    <2>3. ASSUME ~raced'.overwrote PROVE Untouched'
        BY <1>28, <2>3 DEF Held, Touch, Polls, Steps, Shown, Untouched, EmergencyStates
    <2>4. ASSUME ~raced'.overwrote PROVE Dead'
        BY <1>28, <2>4 DEF Held, Touch, Polls, Steps, Shown, Untouched, Dead
    <2>. QED BY <2>1, <2>2, <2>3, <2>4
<1>29. CASE HeldTooEarly
    <2>1. Steps'
        BY <1>29 DEF HeldTooEarly, Polls, OnOff, Steps
    <2>2. ASSUME ~raced'.overwrote PROVE Shown'
        BY <1>29, <2>2 DEF HeldTooEarly, Polls, OnOff, Steps, Shown, Untouched, EmergencyStates
    <2>3. ASSUME ~raced'.overwrote PROVE Untouched'
        BY <1>29, <2>3 DEF HeldTooEarly, Polls, OnOff, Steps, Shown, Untouched, EmergencyStates
    <2>4. ASSUME ~raced'.overwrote PROVE Dead'
        BY <1>29, <2>4 DEF HeldTooEarly, Polls, OnOff, Steps, Shown, Untouched, Dead
    <2>. QED BY <2>1, <2>2, <2>3, <2>4
<1>30. CASE HeldLong
    <2>1. Steps'
        BY <1>30 DEF HeldLong, Touch, Polls, OnOff, Steps
    <2>2. ASSUME ~raced'.overwrote PROVE Shown'
        BY <1>30, <2>2 DEF HeldLong, Touch, Polls, OnOff, Steps, Shown, Untouched, EmergencyStates
    <2>3. ASSUME ~raced'.overwrote PROVE Untouched'
        BY <1>30, <2>3 DEF HeldLong, Touch, Polls, OnOff, Steps, Shown, Untouched, EmergencyStates
    <2>4. ASSUME ~raced'.overwrote PROVE Dead'
        BY <1>30, <2>4 DEF HeldLong, Touch, Polls, OnOff, Steps, Shown, Untouched, Dead
    <2>. QED BY <2>1, <2>2, <2>3, <2>4
<1>31. CASE Rises
    <2>1. Steps'
        BY <1>31 DEF Rises, Polls, OnOff, Steps
    <2>2. ASSUME ~raced'.overwrote PROVE Shown'
        BY <1>31, <2>2 DEF Rises, Polls, OnOff, Steps, Shown, Untouched, EmergencyStates
    <2>3. ASSUME ~raced'.overwrote PROVE Untouched'
        BY <1>31, <2>3 DEF Rises, Polls, OnOff, Steps, Shown, Untouched, EmergencyStates
    <2>4. ASSUME ~raced'.overwrote PROVE Dead'
        BY <1>31, <2>4 DEF Rises, Polls, OnOff, Steps, Shown, Untouched, Dead
    <2>. QED BY <2>1, <2>2, <2>3, <2>4
<1>32. CASE Pressed
    <2>1. Steps'
        BY <1>32 DEF Pressed, Polls, Steps
    <2>2. ASSUME ~raced'.overwrote PROVE Shown'
        BY <1>32, <2>2 DEF Pressed, Polls, Steps, Shown, Untouched, EmergencyStates
    <2>3. ASSUME ~raced'.overwrote PROVE Untouched'
        BY <1>32, <2>3 DEF Pressed, Polls, Steps, Shown, Untouched, EmergencyStates
    <2>4. ASSUME ~raced'.overwrote PROVE Dead'
        BY <1>32, <2>4 DEF Pressed, Polls, Steps, Shown, Untouched, Dead
    <2>. QED BY <2>1, <2>2, <2>3, <2>4
<1>33. CASE UNCHANGED vars
    BY <1>33 DEF vars, Steps, Shown, Untouched, Dead
<1>. QED
    BY <1>1, <1>2, <1>3, <1>4, <1>5, <1>6, <1>7, <1>8, <1>9, <1>10, <1>11, <1>12, <1>13, <1>14, <1>15, <1>16, <1>17, <1>18, <1>19, <1>20, <1>21, <1>22, <1>23, <1>24, <1>25, <1>26, <1>27, <1>28, <1>29, <1>30, <1>31, <1>32, <1>33 DEF Next, MenuTask, ButtonTask, User

(* Unless a handler and the other task overwrote each other's state, the   *)
(* emergency is shown for as long as it lasts, with the buttons of the     *)
(* menu dead, and is gone afterwards: for any menus and any callbacks.     *)
THEOREM EmergencyIsShown == Spec => []EmergencyShown
<1>1. TypeOK /\ Emergency => EmergencyShown
    BY DEF EmergencyShown, TypeOK, CtxType, Emergency, Shown, Untouched, Dead, Active, Between,
           EmergencyStates, Polls, In
<1>. QED BY <1>1, TypeCorrect, EmergencyInit, EmergencyNext, PTL DEF Spec
=============================================================================
