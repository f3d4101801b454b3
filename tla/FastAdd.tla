------------------------------- MODULE FastAdd -------------------------------
(***************************************************************************)
(* The repeater of a button that is held, drv/fast_add.c: a list of values *)
(* that the task fast_add moves, tick by tick, towards their limits.       *)
(*                                                                         *)
(* The application calls fastProcessStart and fastProcessStop (nothing in  *)
(* the repository does): here one task starts and any number stop.  The    *)
(* mutex protects the list, but list_cnt is read without it, by Start      *)
(* before it takes the mutex and by the task before each entry; and every  *)
(* wait for the mutex has a limit, after which the call, or the entry, is  *)
(* given up.                                                               *)
(*                                                                         *)
(* Taken for granted: nobody else changes a listed value, and its limits   *)
(* are always the same, the lower one first.  fastProcessDeInit, which     *)
(* clears the list without the mutex, is left out, and so is func, which   *)
(* is told of each change.                                                 *)
(***************************************************************************)
EXTENDS Integers

CONSTANTS
    Keys,       \* the addresses given as value
    NULL,       \* no address
    Starters,   \* the tasks that call fastProcessStart
    Stoppers,   \* the tasks that call fastProcessStop
    Size,       \* FAST_ADD_LIST_SIZE
    Slow,       \* 15: the moves made at half the speed
    Ten,        \* 10: the step of FP_PLUS_10 and FP_MINUS_10
    Word,       \* 2^32, at which the sums and differences wrap
    MinOf, MaxOf,   \* the limits of each value
    SignsOf     \* the ways its buttons move it

Signs == {"FP_PLUS", "FP_MINUS", "FP_PLUS_10", "FP_MINUS_10"}

ASSUME KeysAssumption == NULL \notin Keys
ASSUME SizeAssumption == Size \in Nat \ {0} /\ Slow \in Nat \ {0}
ASSUME WordAssumption == Ten \in Nat /\ Word \in Nat /\ Ten < Word
ASSUME LimitsAssumption ==
    /\ MinOf \in [Keys -> 0 .. Word - 1] /\ MaxOf \in [Keys -> 0 .. Word - 1]
    /\ \A k \in Keys : MinOf[k] <= MaxOf[k]
ASSUME SignsAssumption == SignsOf \in [Keys -> SUBSET Signs]
(* With two, both may find room for one entry more and overrun the list.   *)
ASSUME StartersAssumption == \A s, t \in Starters : s = t
ASSUME NamesAssumption ==
    \A n \in {"free", "fast_add"} : n \notin Starters /\ n \notin Stoppers

VARIABLES
    list,       \* list
    list_cnt,   \* list_cnt
    val,        \* what each address holds
    mutex,      \* who holds xSemaphore
    call,       \* what each calling task is doing
    fa,         \* where the task fast_add is, and its index i
    crashed     \* an entry without a value has been processed

vars == <<list, list_cnt, val, mutex, call, fa, crashed>>

Callers == Starters \union Stoppers
Free == "free"
Task == "fast_add"
Zeroed == [value |-> NULL, sign |-> "FP_MINUS", counter |-> 0, delay |-> 0]
NoCall == [pc |-> "idle", value |-> NULL, sign |-> "FP_MINUS"]
Used == 0 .. list_cnt - 1

Init ==
    /\ list = [i \in 0 .. Size - 1 |-> Zeroed] /\ list_cnt = 0
    /\ val \in [Keys -> 0 .. Word - 1] /\ \A k \in Keys : MinOf[k] <= val[k] /\ val[k] <= MaxOf[k]
    /\ mutex = Free
    /\ call = [c \in Callers |-> NoCall]
    /\ fa = [pc |-> "loop", i |-> 0]
    /\ crashed = FALSE

Take(t) == mutex = Free /\ mutex' = t
Give == mutex' = Free
At(c, l) == call[c].pc = l
Goto(c, l) == call' = [call EXCEPT ![c].pc = l]
Return(c) == call' = [call EXCEPT ![c] = NoCall]

-----------------------------------------------------------------------------
(* fastProcessStart.                                                       *)

(* Mutant: a list that is full is taken to have room.                      *)
HasRoom_OneMore == list_cnt <= Size

HasRoom == list_cnt < Size

Start(c, k, s) ==
    /\ At(c, "idle") /\ c \in Starters
    /\ HasRoom
    /\ call' = [call EXCEPT ![c] = [pc |-> "start", value |-> k, sign |-> s]]
    /\ UNCHANGED <<list, list_cnt, val, mutex, fa, crashed>>

StartTakes(c) ==
    /\ At(c, "start") /\ Take(c) /\ Goto(c, "started")
    /\ UNCHANGED <<list, list_cnt, val, fa, crashed>>

(* Mutant: the list is not searched.                                       *)
Listed_Unsearched(k) == FALSE

Listed(k) == \E i \in Used : list[i].value = k

(* The value is in the list: fastProcessStop waits for the mutex that this *)
(* very call holds, gives up, and nothing is stopped.                      *)
StartAgain(c) ==
    /\ At(c, "started") /\ Listed(call[c].value)
    /\ Give /\ Return(c)
    /\ UNCHANGED <<list, list_cnt, val, fa, crashed>>

StartAdds(c) ==
    /\ At(c, "started") /\ ~Listed(call[c].value)
    /\ list' = [list EXCEPT ![list_cnt] =
                   [value |-> call[c].value, sign |-> call[c].sign, counter |-> 0, delay |-> 0]]
    /\ list_cnt' = list_cnt + 1
    /\ Give /\ Return(c)
    /\ UNCHANGED <<val, fa, crashed>>

-----------------------------------------------------------------------------
(* fastProcessStop.                                                        *)

Stop(c, k) ==
    /\ At(c, "idle") /\ c \in Stoppers
    /\ call' = [call EXCEPT ![c] = [pc |-> "stop", value |-> k, sign |-> "FP_MINUS"]]
    /\ UNCHANGED <<list, list_cnt, val, mutex, fa, crashed>>

StopTakes(c) ==
    /\ At(c, "stop") /\ Take(c) /\ Goto(c, "stopping")
    /\ UNCHANGED <<list, list_cnt, val, fa, crashed>>

(* Mutant: the entry that was last is not cleared.                         *)
Removed_NotCleared(i) == [list EXCEPT ![i] = list[list_cnt - 1]]

(* The last entry takes the place of entry i, and its own is cleared. *)
Removed(i) == [list EXCEPT ![i] = list[list_cnt - 1], ![list_cnt - 1] = Zeroed]

StopRemoves(c) ==
    /\ At(c, "stopping")
    /\ \/ \E i \in Used :
            /\ list[i].value = call[c].value /\ \A j \in 0 .. i - 1 : list[j].value # call[c].value
            /\ list' = Removed(i) /\ list_cnt' = list_cnt - 1
       \/ ~Listed(call[c].value) /\ UNCHANGED <<list, list_cnt>>
    /\ Give /\ Return(c)
    /\ UNCHANGED <<val, fa, crashed>>

(* A hundred ticks have passed: the call returns, with nothing done.       *)
GivesUp(c) ==
    /\ At(c, "start") \/ At(c, "stop")
    /\ mutex # Free /\ Return(c)
    /\ UNCHANGED <<list, list_cnt, val, mutex, fa, crashed>>

-----------------------------------------------------------------------------
(* The task fast_add.                                                      *)

(* list_cnt is read without the mutex; after the last entry the task       *)
(* sleeps.                                                                 *)
NextEntry ==
    /\ fa.pc = "loop"
    /\ fa' = IF fa.i < list_cnt THEN [fa EXCEPT !.pc = "take"] ELSE [fa EXCEPT !.i = 0]
    /\ UNCHANGED <<list, list_cnt, val, mutex, call, crashed>>

TakesEntry ==
    /\ fa.pc = "take" /\ Take(Task)
    /\ fa' = [fa EXCEPT !.pc = "process"]
    /\ UNCHANGED <<list, list_cnt, val, call, crashed>>

SkipsEntry ==
    /\ fa.pc = "take" /\ mutex # Free
    /\ fa' = [pc |-> "loop", i |-> fa.i + 1]
    /\ UNCHANGED <<list, list_cnt, val, mutex, call, crashed>>

(* Mutant: the step is made before the limit is looked at.                 *)
Moved_Overruns(v, sign, min, max) ==
    CASE sign = "FP_PLUS" -> IF v < max THEN v + 1 ELSE v
      [] sign = "FP_MINUS" -> IF v > min THEN v - 1 ELSE v
      [] sign = "FP_PLUS_10" -> IF v < max THEN (v + Ten) % Word ELSE v
      [] sign = "FP_MINUS_10" -> IF v > min THEN (v - Ten) % Word ELSE v

(* _add_process; max - 10 and min + 10 are unsigned, and both wrap.        *)
Moved(v, sign, min, max) ==
    CASE sign = "FP_PLUS" -> IF v < max THEN v + 1 ELSE v
      [] sign = "FP_MINUS" -> IF v > min THEN v - 1 ELSE v
      [] sign = "FP_PLUS_10" -> IF v < (max - Ten) % Word THEN (v + Ten) % Word
                                ELSE IF v < max THEN max ELSE v
      [] sign = "FP_MINUS_10" -> IF v > (min + Ten) % Word THEN (v - Ten) % Word
                                 ELSE IF v > min THEN min ELSE v

(* Mutant: the first tick already moves.                                   *)
Waits_Never(e) == FALSE

(* The entry lets a tick pass: every other one, until it has made Slow     *)
(* moves.                                                                  *)
Waits(e) == e.counter < Slow /\ e.delay < 1

(* The counter is kept at Slow when it is there. *)
Process ==
    /\ fa.pc = "process"
    /\ LET e == list[fa.i]
           k == e.value
       IN IF Waits(e)
          THEN list' = [list EXCEPT ![fa.i].delay = @ + 1] /\ UNCHANGED <<val, crashed>>
          ELSE /\ list' = [list EXCEPT ![fa.i] =
                             [value |-> k, sign |-> e.sign, delay |-> 0,
                              counter |-> IF e.counter < Slow THEN e.counter + 1 ELSE e.counter]]
               /\ IF k = NULL
                  THEN crashed' = TRUE /\ UNCHANGED val
                  ELSE /\ val' = [val EXCEPT ![k] = Moved(@, e.sign, MinOf[k], MaxOf[k])]
                       /\ UNCHANGED crashed
    /\ Give
    /\ fa' = [pc |-> "loop", i |-> fa.i + 1]
    /\ UNCHANGED <<list_cnt, call>>

TaskStep == NextEntry \/ TakesEntry \/ SkipsEntry \/ Process

CallStep(c) ==
    StartTakes(c) \/ StartAgain(c) \/ StartAdds(c) \/ StopTakes(c) \/ StopRemoves(c) \/ GivesUp(c)

Next ==
    /\ ~crashed
    /\ \/ TaskStep
       \/ \E c \in Callers :
             \/ CallStep(c)
             \/ \E k \in Keys : Stop(c, k) \/ \E s \in SignsOf[k] : Start(c, k, s)

Spec == Init /\ [][Next]_vars

-----------------------------------------------------------------------------
Entries == [value : Keys \union {NULL}, sign : Signs, counter : 0 .. Slow, delay : 0 .. 1]

TypeOK ==
    /\ list \in [0 .. Size - 1 -> Entries] /\ list_cnt \in 0 .. Size
    /\ val \in [Keys -> 0 .. Word - 1]
    /\ mutex \in Callers \union {Free, Task}
    /\ call \in [Callers -> [pc : {"idle", "start", "started", "stop", "stopping"},
                             value : Keys \union {NULL}, sign : Signs]]
    /\ fa \in [pc : {"loop", "take", "process"}, i : 0 .. Size]
    /\ crashed \in BOOLEAN

(* The task never follows the NULL of a cleared entry, although it reads   *)
(* list_cnt before it has the mutex: an entry that was removed meanwhile   *)
(* has the delay of its first tick before it.                              *)
NoNullEntry == ~crashed

(* A value is in the list once, however starts and stops race: stopping it *)
(* once stops it.                                                          *)
ListedOnce == \A i, j \in Used : list[i].value = list[j].value => i = j

(* A value that is not in the list does not move: nothing goes on changing *)
(* it after it was removed.                                                *)
OnlyListedMove == [][\A k \in Keys : val'[k] # val[k] => Listed(k)]_vars

(* The steps of ten need limits that max - 10 and min + 10 do not wrap at. *)
StepsFit(k) ==
    /\ "FP_PLUS_10" \in SignsOf[k] => MaxOf[k] >= Ten
    /\ "FP_MINUS_10" \in SignsOf[k] => MinOf[k] + Ten < Word

(* No value passes its limits, except where a step of ten wraps: a maximum *)
(* below ten is no limit to FP_PLUS_10, nor is a minimum within ten of     *)
(* 2^32 to FP_MINUS_10.                                                    *)
WithinLimits == \A k \in Keys : StepsFit(k) => MinOf[k] <= val[k] /\ val[k] <= MaxOf[k]
=============================================================================
