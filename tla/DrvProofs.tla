----------------------------- MODULE DrvProofs -----------------------------
(***************************************************************************)
(* Theorems about two drivers of drv/.                                     *)
(* The repeater, for any list size, speed, limits and values, with one     *)
(* task that starts.  The ring buffer, for a word of any size and any      *)
(* number of elements that ring_buffer_init accepts and that divides the   *)
(* word.  They share nothing; the names of the ring buffer begin with Ring *)
(* where both have one.                                                    *)
(***************************************************************************)
EXTENDS FastAdd, RingBuffer, SequenceTheorems, TLAPS

-----------------------------------------------------------------------------
(* The repeater.                                                           *)

(* Who is past a wait for the mutex holds it, and nobody takes a place     *)
(* that the one starting task has found free.                              *)
CallInv ==
    /\ \A c \in Callers :
          /\ call[c].pc \in {"start", "started"} =>
                c \in Starters /\ call[c].value \in Keys /\ list_cnt < Size
          /\ call[c].pc \in {"started", "stopping"} => mutex = c
    /\ fa.pc = "process" => mutex = Task
    /\ fa.pc \in {"take", "process"} => fa.i < Size

(* The places that are used hold a value.  The others are cleared: the     *)
(* task may have let one tick pass on such a place, but it will not come   *)
(* back to it before it is used, and cleared, again.                       *)
PlacesInv ==
    \A i \in 0 .. Size - 1 :
        IF i < list_cnt
        THEN list[i].value # NULL
        ELSE /\ list[i].value = NULL /\ list[i].counter = 0
             /\ fa.pc \in {"take", "process"} /\ fa.i = i => list[i].delay = 0

IInv == TypeOK /\ CallInv /\ PlacesInv /\ NoNullEntry

USE DEF Take, Give, At, Goto, Return, Callers, Free, Task

LEMMA InitIInv == Init => IInv
  <1> SUFFICES ASSUME Init PROVE IInv
    OBVIOUS
  <1> USE KeysAssumption, SizeAssumption, NamesAssumption, WordAssumption DEF Init, Zeroed, NoCall, Signs
  <1>1. TypeOK
    <2>1. Zeroed \in Entries
      BY DEF Entries
    <2>2. list \in [0 .. Size - 1 -> Entries] /\ list_cnt \in 0 .. Size
      BY <2>1
    <2>3. call \in [Callers -> [pc : {"idle", "start", "started", "stop", "stopping"},
                               value : Keys \union {NULL}, sign : Signs]]
      OBVIOUS
    <2> QED BY <2>2, <2>3 DEF TypeOK
  <1>2. CallInv
    BY DEF CallInv
  <1>3. PlacesInv
    BY DEF PlacesInv
  <1> QED BY <1>1, <1>2, <1>3 DEF IInv, NoNullEntry

-----------------------------------------------------------------------------
(* What a step of _add_process computes.                                   *)
LEMMA MovedType ==
  ASSUME NEW v \in 0 .. Word - 1, NEW s \in Signs, NEW min \in 0 .. Word - 1, NEW max \in 0 .. Word - 1
  PROVE  Moved(v, s, min, max) \in 0 .. Word - 1
  <1> USE WordAssumption
  <1>1. (v + Ten) % Word \in 0 .. Word - 1 /\ (v - Ten) % Word \in 0 .. Word - 1
    OBVIOUS
  <1>2. CASE s = "FP_PLUS"
    BY <1>2 DEF Moved
  <1>3. CASE s = "FP_MINUS"
    BY <1>3 DEF Moved
  <1>4. CASE s = "FP_PLUS_10"
    BY <1>1, <1>4 DEF Moved
  <1>5. CASE s = "FP_MINUS_10"
    BY <1>1, <1>5 DEF Moved
  <1> QED BY <1>2, <1>3, <1>4, <1>5 DEF Signs

LEMMA MovedWithin ==
  ASSUME NEW s \in Signs, NEW min \in 0 .. Word - 1, NEW max \in 0 .. Word - 1,
         s = "FP_PLUS_10" => max >= Ten, s = "FP_MINUS_10" => min + Ten < Word,
         NEW v \in min .. max
  PROVE  Moved(v, s, min, max) \in min .. max
  <1> USE WordAssumption
  <1>2. CASE s = "FP_PLUS"
    BY <1>2 DEF Moved
  <1>3. CASE s = "FP_MINUS"
    BY <1>3 DEF Moved
  <1>4. CASE s = "FP_PLUS_10"
    <2>1. (max - Ten) % Word = max - Ten
      BY <1>4
    <2>2. v < max - Ten => (v + Ten) % Word = v + Ten
      OBVIOUS
    <2> QED BY <1>4, <2>1, <2>2 DEF Moved
  <1>5. CASE s = "FP_MINUS_10"
    <2>1. (min + Ten) % Word = min + Ten
      BY <1>5
    <2>2. v > min + Ten => (v - Ten) % Word = v - Ten
      OBVIOUS
    <2> QED BY <1>5, <2>1, <2>2 DEF Moved
  <1> QED BY <1>2, <1>3, <1>4, <1>5 DEF Signs

-----------------------------------------------------------------------------
(* The calls.  Most steps touch neither the list nor the task.             *)
LEMMA PlacesKept ==
  ASSUME PlacesInv, UNCHANGED <<list, list_cnt, fa>>
  PROVE  PlacesInv'
  BY DEF PlacesInv

LEMMA CallSteps ==
  ASSUME IInv, NEW c \in Callers,
         \/ \E k \in Keys : Stop(c, k) \/ \E s \in SignsOf[k] : Start(c, k, s)
         \/ StartTakes(c) \/ StartAgain(c) \/ StopTakes(c) \/ GivesUp(c)
  PROVE  IInv'
  <1> USE NamesAssumption, SignsAssumption DEF IInv, TypeOK, NoCall, Signs
  <1>1. ASSUME NEW k \in Keys, Stop(c, k) PROVE IInv'
    <2>1. TypeOK'
      BY <1>1 DEF Stop
    <2>2. CallInv'
      BY <1>1 DEF Stop, CallInv
    <2> QED BY <1>1, <2>1, <2>2, PlacesKept DEF Stop, NoNullEntry
  <1>2. ASSUME NEW k \in Keys, NEW s \in SignsOf[k], Start(c, k, s) PROVE IInv'
    <2>1. s \in Signs
      OBVIOUS
    <2>2. TypeOK'
      BY <1>2, <2>1 DEF Start
    <2>3. CallInv'
      BY <1>2, <2>1 DEF Start, HasRoom, CallInv
    <2> QED BY <1>2, <2>2, <2>3, PlacesKept DEF Start, NoNullEntry
  <1>3. CASE StartTakes(c)
    <2>1. TypeOK'
      BY <1>3 DEF StartTakes
    <2>2. CallInv'
      BY <1>3 DEF StartTakes, CallInv
    <2> QED BY <1>3, <2>1, <2>2, PlacesKept DEF StartTakes, NoNullEntry
  <1>4. CASE StartAgain(c)
    <2>1. TypeOK'
      BY <1>4 DEF StartAgain
    <2>2. CallInv'
      BY <1>4 DEF StartAgain, CallInv
    <2> QED BY <1>4, <2>1, <2>2, PlacesKept DEF StartAgain, NoNullEntry
  <1>5. CASE StopTakes(c)
    <2>1. TypeOK'
      BY <1>5 DEF StopTakes
    <2>2. CallInv'
      BY <1>5 DEF StopTakes, CallInv
    <2> QED BY <1>5, <2>1, <2>2, PlacesKept DEF StopTakes, NoNullEntry
  <1>6. CASE GivesUp(c)
    <2>1. TypeOK'
      BY <1>6 DEF GivesUp
    <2>2. CallInv'
      BY <1>6 DEF GivesUp, CallInv
    <2> QED BY <1>6, <2>1, <2>2, PlacesKept DEF GivesUp, NoNullEntry
  <1> QED BY <1>1, <1>2, <1>3, <1>4, <1>5, <1>6

LEMMA StartAddsStep ==
  ASSUME IInv, NEW c \in Callers, StartAdds(c)
  PROVE  IInv'
  <1> USE SizeAssumption, KeysAssumption DEF IInv, TypeOK, StartAdds
  <1>1. /\ c \in Starters /\ call[c].value \in Keys /\ mutex = c
        /\ list_cnt \in 0 .. Size - 1
    BY DEF CallInv
  <1>2. [value |-> call[c].value, sign |-> call[c].sign, counter |-> 0, delay |-> 0] \in Entries
    BY DEF Entries
  <1>3. TypeOK'
    BY <1>1, <1>2 DEF NoCall, Signs
  <1>4. CallInv'
    BY <1>1, StartersAssumption, NamesAssumption DEF CallInv, NoCall
  <1>5. PlacesInv'
    BY <1>1 DEF PlacesInv
  <1> QED BY <1>3, <1>4, <1>5 DEF NoNullEntry

LEMMA StopRemovesStep ==
  ASSUME IInv, NEW c \in Callers, StopRemoves(c)
  PROVE  IInv'
  <1> USE SizeAssumption, KeysAssumption DEF IInv, TypeOK
  <1>1. CASE UNCHANGED <<list, list_cnt>>
    <2>1. TypeOK'
      BY <1>1 DEF StopRemoves, NoCall, Signs
    <2>2. CallInv'
      BY <1>1, NamesAssumption DEF StopRemoves, CallInv, NoCall
    <2> QED BY <1>1, <2>1, <2>2, PlacesKept DEF StopRemoves, NoNullEntry
  <1>2. ASSUME NEW i \in Used, list' = Removed(i), list_cnt' = list_cnt - 1
        PROVE  IInv'
    <2>1. i \in 0 .. Size - 1 /\ list_cnt - 1 \in 0 .. Size - 1 /\ list_cnt' \in 0 .. Size - 1
      BY <1>2 DEF Used
    <2>2. Zeroed \in Entries
      BY DEF Zeroed, Entries, Signs
    <2>3. list' \in [0 .. Size - 1 -> Entries]
      BY <1>2, <2>1, <2>2 DEF Removed
    <2>4. TypeOK'
      BY <2>1, <2>3 DEF StopRemoves, NoCall, Signs
    <2>5. CallInv'
      BY <1>2, <2>1, NamesAssumption DEF StopRemoves, CallInv, NoCall
    <2>6. PlacesInv'
      BY <1>2, <2>1 DEF PlacesInv, Removed, Zeroed, Used, StopRemoves
    <2> QED BY <2>4, <2>5, <2>6 DEF StopRemoves, NoNullEntry
  <1> QED BY <1>1, <1>2 DEF StopRemoves

-----------------------------------------------------------------------------
(* The task.                                                               *)
LEMMA WalkSteps ==
  ASSUME IInv, NextEntry \/ TakesEntry \/ SkipsEntry
  PROVE  IInv'
  <1> USE SizeAssumption, NamesAssumption DEF IInv, TypeOK
  <1>1. CASE NextEntry
    <2>1. TypeOK'
      BY <1>1 DEF NextEntry
    <2>2. CallInv'
      BY <1>1 DEF NextEntry, CallInv
    <2>3. PlacesInv'
      BY <1>1 DEF NextEntry, PlacesInv
    <2> QED BY <1>1, <2>1, <2>2, <2>3 DEF NextEntry, NoNullEntry
  <1>2. CASE TakesEntry
    <2>1. TypeOK'
      BY <1>2 DEF TakesEntry
    <2>2. CallInv'
      BY <1>2 DEF TakesEntry, CallInv
    <2>3. PlacesInv'
      BY <1>2 DEF TakesEntry, PlacesInv
    <2> QED BY <1>2, <2>1, <2>2, <2>3 DEF TakesEntry, NoNullEntry
  <1>3. CASE SkipsEntry
    <2>1. TypeOK'
      BY <1>3 DEF SkipsEntry, CallInv
    <2>2. CallInv'
      BY <1>3 DEF SkipsEntry, CallInv
    <2>3. PlacesInv'
      BY <1>3 DEF SkipsEntry, PlacesInv
    <2> QED BY <1>3, <2>1, <2>2, <2>3 DEF SkipsEntry, NoNullEntry
  <1> QED BY <1>1, <1>2, <1>3

(* A place that is cleared waits, and so no NULL is followed.              *)
LEMMA ProcessReads ==
  ASSUME IInv, Process
  PROVE  /\ fa.i \in 0 .. Size - 1 /\ list[fa.i] \in Entries
         /\ ~Waits(list[fa.i]) => fa.i < list_cnt /\ list[fa.i].value \in Keys
  <1>1. fa.i \in 0 .. Size - 1 /\ fa.pc = "process"
    BY SizeAssumption DEF IInv, TypeOK, CallInv, Process
  <1>2. list[fa.i] \in Entries
    BY <1>1 DEF IInv, TypeOK
  <1>3. CASE ~(fa.i < list_cnt)
    <2>1. list[fa.i].counter = 0 /\ list[fa.i].delay = 0
      BY <1>1, <1>3 DEF IInv, PlacesInv
    <2> QED BY <1>1, <1>2, <2>1, SizeAssumption DEF Waits
  <1>4. CASE fa.i < list_cnt
    BY <1>1, <1>2, <1>4 DEF IInv, PlacesInv, Entries
  <1> QED BY <1>3, <1>4

(* What Process does to the list and to the values. *)
LEMMA ProcessWrites ==
  ASSUME IInv, Process
  PROVE  /\ list' \in [0 .. Size - 1 -> Entries]
         /\ \A i \in 0 .. Size - 1 :
               /\ list'[i].value = list[i].value /\ list'[i].sign = list[i].sign
               /\ i # fa.i => list'[i] = list[i]
               /\ list'[i].counter # list[i].counter => i < list_cnt
         /\ crashed' = crashed
         /\ \/ UNCHANGED val
            \/ \E k \in Keys :
                  /\ fa.i < list_cnt /\ k = list[fa.i].value
                  /\ val' = [val EXCEPT ![k] = Moved(val[k], list[fa.i].sign, MinOf[k], MaxOf[k])]
  <1> DEFINE e == list[fa.i]
  <1>1. /\ fa.i \in 0 .. Size - 1 /\ e \in Entries
        /\ ~Waits(e) => fa.i < list_cnt /\ e.value \in Keys
    BY ProcessReads
  <1>2. list \in [0 .. Size - 1 -> Entries]
    BY DEF IInv, TypeOK
  <1>3. CASE Waits(e)
    <2>1. list' = [list EXCEPT ![fa.i].delay = e.delay + 1] /\ UNCHANGED <<val, crashed>>
      BY <1>3 DEF Process
    <2>2. [e EXCEPT !.delay = e.delay + 1] \in Entries
      BY <1>1, <1>3 DEF Waits, Entries
    <2> QED BY <1>1, <1>2, <2>1, <2>2 DEF Entries
  <1>4. CASE ~Waits(e)
    <2>1. e.value \in Keys /\ e.value # NULL /\ fa.i < list_cnt
      BY <1>1, <1>4, KeysAssumption
    <2> DEFINE new == [value |-> e.value, sign |-> e.sign, delay |-> 0,
                       counter |-> IF e.counter < Slow THEN e.counter + 1 ELSE e.counter]
    <2>2. /\ list' = [list EXCEPT ![fa.i] = new]
          /\ val' = [val EXCEPT ![e.value] = Moved(val[e.value], e.sign, MinOf[e.value], MaxOf[e.value])]
          /\ UNCHANGED crashed
      BY <1>4, <2>1 DEF Process
    <2>3. new \in Entries /\ new.value = e.value /\ new.sign = e.sign
      BY <1>1, SizeAssumption DEF Entries
    <2> HIDE DEF new
    <2> QED BY <1>1, <1>2, <2>1, <2>2, <2>3
  <1> QED BY <1>3, <1>4

LEMMA ProcessStep ==
  ASSUME IInv, Process
  PROVE  IInv'
  <1>1. /\ fa.i \in 0 .. Size - 1 /\ fa.pc = "process" /\ fa' = [pc |-> "loop", i |-> fa.i + 1]
        /\ mutex' = Free /\ UNCHANGED <<list_cnt, call>>
    BY ProcessReads DEF Process
  <1>2. val' \in [Keys -> 0 .. Word - 1]
    <2>1. val \in [Keys -> 0 .. Word - 1]
      BY DEF IInv, TypeOK
    <2>2. ASSUME NEW k \in Keys PROVE Moved(val[k], list[fa.i].sign, MinOf[k], MaxOf[k]) \in 0 .. Word - 1
      BY <1>1, <2>1, ProcessReads, MovedType, LimitsAssumption DEF Entries
    <2> QED BY <2>1, <2>2, ProcessWrites
  <1>3. TypeOK'
    BY <1>1, <1>2, ProcessWrites, SizeAssumption DEF IInv, TypeOK
  <1>4. CallInv'
    BY <1>1, NamesAssumption DEF IInv, CallInv, TypeOK
  <1>5. PlacesInv'
    BY <1>1, ProcessWrites, SizeAssumption DEF IInv, PlacesInv, TypeOK
  <1> QED BY <1>3, <1>4, <1>5, ProcessWrites DEF IInv, NoNullEntry

LEMMA StepIInv == IInv /\ [Next]_vars => IInv'
  <1> SUFFICES ASSUME IInv, [Next]_vars PROVE IInv'
    OBVIOUS
  <1>1. CASE UNCHANGED vars
    BY <1>1 DEF vars, IInv, TypeOK, CallInv, PlacesInv, NoNullEntry
  <1>2. CASE TaskStep
    BY <1>2, WalkSteps, ProcessStep DEF TaskStep
  <1>3. ASSUME NEW c \in Callers, CallStep(c) PROVE IInv'
    BY <1>3, CallSteps, StartAddsStep, StopRemovesStep DEF CallStep
  <1>4. ASSUME NEW c \in Callers, NEW k \in Keys,
               Stop(c, k) \/ \E s \in SignsOf[k] : Start(c, k, s)
        PROVE  IInv'
    BY <1>4, CallSteps
  <1> QED BY <1>1, <1>2, <1>3, <1>4 DEF Next

LEMMA Invariant == Spec => []IInv
  BY InitIInv, StepIInv, PTL DEF Spec

-----------------------------------------------------------------------------
(* The list never outgrows its places, although the room is looked for     *)
(* before the mutex is taken (fastProcessStart).                           *)
THEOREM TypeCorrect == Spec => []TypeOK
  <1>1. IInv => TypeOK
    BY DEF IInv
  <1> QED BY <1>1, Invariant, PTL

(* The task never follows the NULL of a place that was cleared after it    *)
(* read list_cnt (fast_add, fastProcessStop).                              *)
THEOREM NullNeverFollowed == Spec => []NoNullEntry
  <1>1. IInv => NoNullEntry
    BY DEF IInv
  <1> QED BY <1>1, Invariant, PTL

(* Only a value that is listed moves: the task never changes one that      *)
(* fastProcessStop has removed.                                            *)
THEOREM OnlyListedValuesMove == Spec => OnlyListedMove
  <1>1. IInv /\ [Next]_vars => [\A k \in Keys : val'[k] # val[k] => Listed(k)]_vars
    <2> SUFFICES ASSUME IInv, Next, NEW k \in Keys, val'[k] # val[k]
                 PROVE  Listed(k)
      BY DEF vars
    <2>1. Process
      BY DEF Next, TaskStep, CallStep, NextEntry, TakesEntry, SkipsEntry, Start, StartTakes,
             StartAgain, StartAdds, Stop, StopTakes, StopRemoves, GivesUp
    <2>2. val \in [Keys -> 0 .. Word - 1] /\ list_cnt \in Nat /\ fa.i \in Nat
      BY <2>1, ProcessReads DEF IInv, TypeOK
    <2>3. fa.i < list_cnt /\ k = list[fa.i].value
      BY <2>1, <2>2, ProcessWrites
    <2> QED BY <2>2, <2>3 DEF Listed, Used
  <1> QED BY <1>1, Invariant, PTL DEF Spec, OnlyListedMove

-----------------------------------------------------------------------------
LEMMA OtherSteps ==
  ASSUME IInv, Next
  PROVE  \/ Process
         \/ \E c \in Callers : StartAdds(c) \/ StopRemoves(c)
         \/ UNCHANGED <<list, list_cnt, val>>
  BY DEF Next, TaskStep, CallStep, NextEntry, TakesEntry, SkipsEntry, Start, StartTakes,
         StartAgain, Stop, StopTakes, GivesUp

(* A value is listed once, however starts and stops race: one              *)
(* fastProcessStop is enough to stop it.                                   *)
THEOREM ListedAtMostOnce == Spec => []ListedOnce
  <1>1. Init => ListedOnce
    BY DEF Init, ListedOnce, Used
  <1>2. ListedOnce /\ IInv /\ [Next]_vars => ListedOnce'
    <2> SUFFICES ASSUME ListedOnce, IInv, [Next]_vars PROVE ListedOnce'
      OBVIOUS
    <2>0. list \in [0 .. Size - 1 -> Entries] /\ list_cnt \in 0 .. Size /\ Size \in Nat
      BY SizeAssumption DEF IInv, TypeOK
    <2>1. CASE UNCHANGED <<list, list_cnt>>
      BY <2>1 DEF ListedOnce, Used
    <2>2. CASE Process
      <3>1. list_cnt' = list_cnt
        BY <2>2 DEF Process
      <3>2. \A i \in Used : list'[i].value = list[i].value
        BY <2>0, <2>2, ProcessWrites DEF Used
      <3> QED BY <3>1, <3>2 DEF ListedOnce, Used
    <2>3. ASSUME NEW c \in Callers, StartAdds(c) PROVE ListedOnce'
      <3>1. list_cnt \in 0 .. Size - 1
        BY <2>0, <2>3 DEF IInv, CallInv, StartAdds
      <3>2. /\ list_cnt' = list_cnt + 1 /\ list'[list_cnt].value = call[c].value
            /\ \A i \in Used : list'[i] = list[i] /\ list[i].value # call[c].value
        BY <2>0, <2>3, <3>1 DEF StartAdds, Listed, Used
      <3> QED BY <2>0, <3>1, <3>2 DEF ListedOnce, Used
    <2>4. ASSUME NEW c \in Callers, StopRemoves(c) PROVE ListedOnce'
      <3>1. CASE UNCHANGED <<list, list_cnt>>
        BY <3>1 DEF ListedOnce, Used
      <3>2. ASSUME NEW i \in Used, list' = Removed(i), list_cnt' = list_cnt - 1
            PROVE  ListedOnce'
        <4>1. i \in 0 .. list_cnt - 1 /\ list_cnt - 1 \in 0 .. Size - 1
          BY <2>0, <3>2 DEF Used
        <4>2. \A j \in 0 .. list_cnt - 2 :
                 list'[j] = IF j = i THEN list[list_cnt - 1] ELSE list[j]
          BY <2>0, <3>2, <4>1 DEF Removed
        <4> QED BY <2>0, <3>2, <4>1, <4>2 DEF ListedOnce, Used
      <3> QED BY <2>4, <3>1, <3>2 DEF StopRemoves
    <2> QED BY <2>1, <2>2, <2>3, <2>4, OtherSteps DEF vars
  <1> QED BY <1>1, <1>2, Invariant, PTL DEF Spec

(* A value is only ever moved in the ways of its own buttons.              *)
SignInv ==
    /\ \A i \in Used : list[i].value \in Keys /\ list[i].sign \in SignsOf[list[i].value]
    /\ \A c \in Callers :
          call[c].pc \in {"start", "started"} => call[c].sign \in SignsOf[call[c].value]

(* A step changes one call at most, and only Start makes one that will add. *)
LEMMA SignCalls ==
  ASSUME IInv, SignInv, Next
  PROVE  \A c \in Callers :
            call'[c].pc \in {"start", "started"} => call'[c].sign \in SignsOf[call'[c].value]
  <1> DEFINE Fits == \A c \in Callers :
            call[c].pc \in {"start", "started"} => call[c].sign \in SignsOf[call[c].value]
  <1>0. Fits /\ DOMAIN call = Callers /\ \A c \in Callers :
            call[c] = [pc |-> call[c].pc, value |-> call[c].value, sign |-> call[c].sign]
    BY DEF SignInv, IInv, TypeOK
  <1>1. CASE TaskStep
    BY <1>0, <1>1 DEF TaskStep, NextEntry, TakesEntry, SkipsEntry, Process
  <1>2. ASSUME NEW c \in Callers, CallStep(c)
        PROVE  Fits'
    <2>1. CASE call' = [call EXCEPT ![c] = NoCall]
      BY <1>0, <2>1 DEF NoCall
    <2>2. CASE StartTakes(c)
      BY <1>0, <2>2 DEF StartTakes
    <2>3. CASE StopTakes(c)
      BY <1>0, <2>3 DEF StopTakes
    <2> QED BY <1>2, <2>1, <2>2, <2>3 DEF CallStep, StartAgain, StartAdds, StopRemoves, GivesUp
  <1>3. ASSUME NEW c \in Callers, NEW k \in Keys, Stop(c, k) \/ \E s \in SignsOf[k] : Start(c, k, s)
        PROVE  Fits'
    BY <1>0, <1>3 DEF Stop, Start
  <1> QED BY <1>1, <1>2, <1>3 DEF Next

LEMMA StepSignInv == SignInv /\ IInv /\ [Next]_vars => SignInv'
  <1> SUFFICES ASSUME SignInv, IInv, [Next]_vars PROVE SignInv'
    OBVIOUS
  <1>0. list \in [0 .. Size - 1 -> Entries] /\ list_cnt \in 0 .. Size /\ Size \in Nat
    BY SizeAssumption DEF IInv, TypeOK
  <1>1. CASE UNCHANGED vars
    BY <1>1 DEF vars, SignInv, Used
  <1>2. CASE Next
    <2> DEFINE Fit(e) == e.value \in Keys /\ e.sign \in SignsOf[e.value]
    <2>1. \A i \in Used : Fit(list[i])
      BY DEF SignInv
    <2>2. (\A i \in Used : Fit(list[i]))'
      <3>1. CASE Process
        <4>1. list_cnt' = list_cnt
          BY <3>1 DEF Process
        <4>2. \A i \in Used : list'[i].value = list[i].value /\ list'[i].sign = list[i].sign
          BY <1>0, <3>1, ProcessWrites DEF Used
        <4> QED BY <2>1, <4>1, <4>2 DEF Used
      <3>2. ASSUME NEW c \in Callers, StartAdds(c)
            PROVE  (\A i \in Used : Fit(list[i]))'
        <4>1. list_cnt \in 0 .. Size - 1 /\ call[c].value \in Keys /\ call[c].sign \in SignsOf[call[c].value]
          BY <1>0, <3>2 DEF IInv, CallInv, SignInv, StartAdds
        <4>2. /\ list_cnt' = list_cnt + 1
              /\ list'[list_cnt].value = call[c].value /\ list'[list_cnt].sign = call[c].sign
              /\ \A i \in Used : list'[i] = list[i]
          BY <1>0, <3>2, <4>1 DEF StartAdds, Used
        <4> QED BY <1>0, <2>1, <4>1, <4>2 DEF Used
      <3>3. ASSUME NEW c \in Callers, StopRemoves(c)
            PROVE  (\A i \in Used : Fit(list[i]))'
        <4>1. CASE UNCHANGED <<list, list_cnt>>
          BY <2>1, <4>1 DEF Used
        <4>2. ASSUME NEW i \in Used, list' = Removed(i), list_cnt' = list_cnt - 1
              PROVE  (\A j \in Used : Fit(list[j]))'
          <5>1. i \in 0 .. list_cnt - 1 /\ list_cnt - 1 \in Used
            BY <1>0, <4>2 DEF Used
          <5>2. \A j \in 0 .. list_cnt - 2 : list'[j] = IF j = i THEN list[list_cnt - 1] ELSE list[j]
            BY <1>0, <4>2, <5>1 DEF Removed, Used
          <5> QED BY <1>0, <2>1, <4>2, <5>1, <5>2 DEF Used
        <4> QED BY <3>3, <4>1, <4>2 DEF StopRemoves
      <3>4. CASE UNCHANGED <<list, list_cnt>>
        BY <2>1, <3>4 DEF Used
      <3> QED BY <1>2, <3>1, <3>2, <3>3, <3>4, OtherSteps
    <2> QED BY <1>2, <2>2, SignCalls DEF SignInv
  <1> QED BY <1>1, <1>2

(* No value passes its limits (_add_process), unless a step of ten that    *)
(* its buttons make wraps: max - 10 under a maximum below ten, min + 10    *)
(* under a minimum within ten of 2^32.                                     *)
THEOREM LimitsKept == Spec => []WithinLimits
  <1>1. Init => WithinLimits
    BY DEF Init, WithinLimits
  <1>2. Init => SignInv
    BY DEF Init, SignInv, Used, NoCall
  <1>3. WithinLimits /\ SignInv /\ IInv /\ [Next]_vars => WithinLimits'
    <2> SUFFICES ASSUME WithinLimits, SignInv, IInv, [Next]_vars, NEW k \in Keys, StepsFit(k)
                 PROVE  MinOf[k] <= val'[k] /\ val'[k] <= MaxOf[k]
      BY DEF WithinLimits, StepsFit
    <2>1. /\ MinOf[k] \in 0 .. Word - 1 /\ MaxOf[k] \in 0 .. Word - 1
          /\ val \in [Keys -> 0 .. Word - 1] /\ val[k] \in MinOf[k] .. MaxOf[k]
      BY LimitsAssumption, WordAssumption DEF WithinLimits, IInv, TypeOK
    <2>2. CASE UNCHANGED val
      BY <2>1, <2>2
    <2>3. CASE Process
      <3>1. list[fa.i].sign \in Signs
        BY <2>3, ProcessReads DEF Entries
      <3>2. ASSUME fa.i < list_cnt, k = list[fa.i].value
            PROVE  Moved(val[k], list[fa.i].sign, MinOf[k], MaxOf[k]) \in MinOf[k] .. MaxOf[k]
        <4>1. list[fa.i].sign \in SignsOf[k]
          BY <2>3, <3>2, ProcessReads DEF SignInv, Used, IInv, TypeOK
        <4> QED BY <2>1, <3>1, <4>1, MovedWithin DEF StepsFit
      <3> QED BY <2>1, <2>3, <3>2, ProcessWrites
    <2>4. CASE \E c \in Callers : StartAdds(c) \/ StopRemoves(c)
      BY <2>2, <2>4 DEF StartAdds, StopRemoves
    <2> QED BY <2>2, <2>3, <2>4, OtherSteps DEF vars
  <1> QED BY <1>1, <1>2, <1>3, StepSignInv, Invariant, PTL DEF Spec

-----------------------------------------------------------------------------
(* The remainders that the counters and the mask are.                      *)

LEMMA Mul ==
  ASSUME NEW n \in Nat \ {0}, NEW k \in Int, k >= 1
  PROVE  n * k \in Int /\ n * k >= n
  <1>1. n * (k - 1) >= 0 OBVIOUS
  <1>2. n * k = n * (k - 1) + n OBVIOUS
  <1> QED BY <1>1, <1>2

LEMMA DivMod ==
  ASSUME NEW n \in Nat \ {0}, NEW a \in Int
  PROVE /\ a % n \in 0 .. n - 1
        /\ a \div n \in Int
        /\ a = n * (a \div n) + (a % n)
OBVIOUS

LEMMA ModUnique ==
  ASSUME NEW n \in Nat \ {0}, NEW q \in Int, NEW d \in Int,
         NEW r \in 0 .. n - 1, NEW s \in 0 .. n - 1, n * q + r = n * d + s
  PROVE  r = s
  <1>1. n * (q - d) = s - r OBVIOUS
  <1>2. CASE q > d 
    <2>1. n * (q - d) >= n BY Mul, <1>2
    <2> QED BY <2>1, <1>1
  <1>3. CASE q < d
    <2>1. n * (d - q) >= n BY Mul, <1>3
    <2>2. n * (d - q) = r - s BY <1>1
    <2> QED BY <2>1, <2>2
  <1>4. CASE q = d BY <1>4, <1>1
  <1> QED BY <1>2, <1>3, <1>4

LEMMA ModShift ==
  ASSUME NEW n \in Nat \ {0}, NEW a \in Int, NEW k \in Int
  PROVE  (a + n * k) % n = a % n
  <1> DEFINE b == a + n * k
  <1>0. n * k \in Int /\ b \in Int OBVIOUS
  <1>1. a = n * (a \div n) + (a % n) /\ a % n \in 0 .. n - 1 /\ a \div n \in Int BY DivMod
  <1>2. b = n * (b \div n) + (b % n) /\ b % n \in 0 .. n - 1 /\ b \div n \in Int BY <1>0, DivMod
  <1>3. n * ((a \div n) + k) = n * (a \div n) + n * k BY <1>1
  <1>4. n * ((a \div n) + k) + (a % n) = n * (b \div n) + (b % n) BY <1>1, <1>2, <1>3, <1>0
  <1> DEFINE q == (a \div n) + k  r == a % n  d == b \div n  s == b % n
  <1>5. q \in Int /\ d \in Int /\ r \in 0 .. n - 1 /\ s \in 0 .. n - 1 BY <1>1, <1>2
  <1>6. n * q + r = n * d + s BY <1>4
  <1>7. r = s
    <2> HIDE DEF q, r, d, s
    <2> QED BY <1>5, <1>6, ModUnique
  <1> QED BY <1>7

LEMMA ModMod ==
  ASSUME NEW n \in Nat \ {0}, NEW w \in Nat \ {0}, w % n = 0, NEW a \in Int, NEW i \in Int
  PROVE  ((a % w) + i) % n = (a + i) % n
  <1> DEFINE m == w \div n  d == a \div w
  <1>1. w = n * m /\ m \in Int BY DivMod
  <1>2. a = w * d + (a % w) /\ d \in Int /\ a % w \in Int BY DivMod
  <1>3. w * d = n * (m * d) /\ m * d \in Int
    <2> HIDE DEF m, d
    <2> QED BY <1>1, <1>2
  <1>4. a + i = ((a % w) + i) + n * (m * d) BY <1>2, <1>3
  <1>5. ((a % w) + i) \in Int BY <1>2
  <1> QED 
    <2> HIDE DEF m, d
    <2> QED BY <1>4, <1>5, <1>3, ModShift

LEMMA ModDiffer ==
  ASSUME NEW n \in Nat \ {0}, NEW a \in Int, NEW b \in Int, a < b, b < a + n
  PROVE  a % n # b % n
  <1> SUFFICES ASSUME a % n = b % n PROVE FALSE OBVIOUS
  <1>1. a = n * (a \div n) + (a % n) /\ a \div n \in Int /\ a % n \in Int BY DivMod
  <1>2. b = n * (b \div n) + (b % n) /\ b \div n \in Int BY DivMod
  <1> DEFINE p == a \div n  q == b \div n
  <1> HIDE DEF p, q
  <1>3. n * (q - p) = b - a /\ q - p \in Int BY <1>1, <1>2 DEF p, q
  <1>4. CASE q - p >= 1
    <2>1. n * (q - p) >= n BY <1>3, <1>4, Mul
    <2> QED BY <2>1, <1>3
  <1>5. CASE q - p <= 0
    <2>1. n * (q - p) <= 0 BY <1>3, <1>5
    <2> QED BY <2>1, <1>3
  <1> QED BY <1>3, <1>4, <1>5
LEMMA ModMinus ==
  ASSUME NEW n \in Nat \ {0}, NEW w \in Nat \ {0}, w % n = 0, NEW a \in Int, NEW i \in Int
  PROVE  (i - (a % w)) % n = (i - a) % n
  <1> DEFINE m == w \div n  d == a \div w
  <1>1. w = n * m /\ m \in Int BY DivMod
  <1>2. a = w * d + (a % w) /\ d \in Int /\ a % w \in Int BY DivMod
  <1>3. w * d = n * (m * d) /\ m * d \in Int
    <2> HIDE DEF m, d
    <2> QED BY <1>1, <1>2
  <1>4. i - (a % w) = (i - a) + n * (m * d) BY <1>2, <1>3
  <1>5. i - a \in Int OBVIOUS
  <1> QED
    <2> HIDE DEF m, d
    <2> QED BY <1>4, <1>5, <1>3, ModShift

LEMMA ModSmall == ASSUME NEW n \in Nat \ {0}, NEW a \in 0 .. n - 1 PROVE a % n = a
OBVIOUS

LEMMA ModSelf == ASSUME NEW n \in Nat \ {0} PROVE n % n = 0
OBVIOUS

-----------------------------------------------------------------------------
(* The counters.                                                           *)

LEMMA RingSize ==
  ASSUME RingTypeOK
  PROVE  /\ n_elem \in Nat /\ n_elem < Wrap /\ Wrap \in Nat \ {0}
         /\ n_elem > 0 => Wrap % n_elem = 0
BY WrapAssumption, SizesAssumption DEF RingTypeOK

LEMMA CountType == ASSUME RingTypeOK PROVE count \in 0 .. Wrap - 1
  <1>1. head \in Int /\ tail \in Int BY WrapAssumption DEF RingTypeOK
  <1>2. head - tail \in Int BY <1>1
  <1> QED BY <1>2, WrapAssumption, DivMod DEF count

(* tail and count make head. *)
LEMMA HeadPlace ==
  ASSUME RingTypeOK, n_elem > 0
  PROVE  offset(head) = offset(tail + count)
  <1>1. head \in Int /\ tail \in Int /\ head - tail \in Int BY WrapAssumption DEF RingTypeOK
  <1>2. n_elem \in Nat \ {0} /\ Wrap \in Nat \ {0} /\ Wrap % n_elem = 0 BY RingSize
  <1>3. (count + tail) % n_elem = ((head - tail) + tail) % n_elem BY <1>1, <1>2, ModMod DEF count
  <1>4. count + tail = tail + count /\ (head - tail) + tail = head BY <1>1, CountType, WrapAssumption
  <1> QED BY <1>3, <1>4 DEF offset

(* Other places are different ones. *)
LEMMA OtherPlaces ==
  ASSUME RingTypeOK, NEW i \in Int, NEW j \in Int, i < j, j < i + n_elem
  PROVE  offset(tail + i) # offset(tail + j)
  <1>1. tail \in Int /\ n_elem \in Nat \ {0} BY RingSize, WrapAssumption DEF RingTypeOK
  <1>2. tail + i \in Int /\ tail + j \in Int /\ tail + i < tail + j /\ tail + j < tail + i + n_elem BY <1>1
  <1> QED BY <1>1, <1>2, ModDiffer DEF offset

LEMMA InSlots == ASSUME RingTypeOK, n_elem > 0, NEW i \in Int PROVE offset(i) \in Slots
  <1>1. n_elem \in Nat \ {0} BY RingSize
  <1> QED BY <1>1, DivMod DEF offset, Slots

LEMMA PutCount ==
  ASSUME RingTypeOK, count < n_elem
  PROVE  (((head + 1) % Wrap) - tail) % Wrap = count + 1
  <1>1. head \in Int /\ tail \in Int /\ head - tail \in Int /\ head + 1 \in Int /\ -tail \in Int
    BY WrapAssumption DEF RingTypeOK
  <1>2. Wrap \in Nat \ {0} /\ n_elem \in Nat /\ n_elem < Wrap /\ Wrap % Wrap = 0 BY RingSize, ModSelf
  <1>3. count \in 0 .. Wrap - 1 BY CountType
  <1>4. (((head + 1) % Wrap) + (-tail)) % Wrap = ((head + 1) + (-tail)) % Wrap BY <1>1, <1>2, ModMod
  <1>5. (count + 1) % Wrap = ((head - tail) + 1) % Wrap
    <2> DEFINE a == head - tail  i == 1
    <2>1. a \in Int /\ i \in Int BY <1>1
    <2>2. ((a % Wrap) + i) % Wrap = (a + i) % Wrap
      <3> HIDE DEF a, i
      <3> QED BY <2>1, <1>2, ModMod
    <2> QED BY <2>2 DEF count
  <1>6. (count + 1) % Wrap = count + 1
    <2>1. count + 1 \in 0 .. Wrap - 1 BY <1>2, <1>3
    <2> QED BY <2>1, <1>2, ModSmall
  <1>7. (head + 1) + (-tail) = (head - tail) + 1 BY <1>1
  <1>8. (head + 1) % Wrap \in Int BY <1>1, <1>2, DivMod
  <1>9. ((head + 1) % Wrap) - tail = ((head + 1) % Wrap) + (-tail) BY <1>8, <1>1
  <1> QED BY <1>4, <1>5, <1>6, <1>7, <1>9

LEMMA GetCount ==
  ASSUME RingTypeOK, count > 0
  PROVE  (head - ((tail + 1) % Wrap)) % Wrap = count - 1
  <1>1. head \in Int /\ tail \in Int /\ head - tail \in Int /\ tail + 1 \in Int /\ -1 \in Int
    BY WrapAssumption DEF RingTypeOK
  <1>2. Wrap \in Nat \ {0} /\ Wrap % Wrap = 0 BY RingSize, ModSelf
  <1>3. count \in 0 .. Wrap - 1 BY CountType
  <1>4. (head - ((tail + 1) % Wrap)) % Wrap = (head - (tail + 1)) % Wrap
    <2> DEFINE a == tail + 1  h == head  w == Wrap
    <2>1. a \in Int /\ h \in Int /\ w \in Nat \ {0} /\ w % w = 0 BY <1>1, <1>2
    <2>2. (h - (a % w)) % w = (h - a) % w
      <3> HIDE DEF a, h, w
      <3> QED BY <2>1, ModMinus
    <2> QED BY <2>2
  <1>5. (count + (-1)) % Wrap = ((head - tail) + (-1)) % Wrap
    <2> DEFINE a == head - tail  i == -1
    <2>1. a \in Int /\ i \in Int BY <1>1
    <2>2. ((a % Wrap) + i) % Wrap = (a + i) % Wrap
      <3> HIDE DEF a, i
      <3> QED BY <2>1, <1>2, ModMod
    <2> QED BY <2>2 DEF count
  <1>6. count - 1 \in 0 .. Wrap - 1 /\ count + (-1) = count - 1 BY <1>2, <1>3
  <1>7. (count - 1) % Wrap = count - 1 BY <1>6, <1>2, ModSmall
  <1>8. head - (tail + 1) = (head - tail) + (-1) BY <1>1
  <1> QED BY <1>4, <1>5, <1>6, <1>7, <1>8

(* The places behind the oldest element, when that one has been taken.     *)
LEMMA NextPlaces ==
  ASSUME RingTypeOK, n_elem > 0, NEW i \in Int
  PROVE  offset(((tail + 1) % Wrap) + i) = offset(tail + (i + 1))
  <1>1. tail \in Int /\ tail + 1 \in Int BY WrapAssumption DEF RingTypeOK
  <1>2. n_elem \in Nat \ {0} /\ Wrap \in Nat \ {0} /\ Wrap % n_elem = 0 BY RingSize
  <1>3. (((tail + 1) % Wrap) + i) % n_elem = ((tail + 1) + i) % n_elem BY <1>1, <1>2, ModMod
  <1>4. (tail + 1) + i = tail + (i + 1) BY <1>1
  <1> QED BY <1>3, <1>4 DEF offset

(* The place the next element goes to. *)
LEMMA NextHead ==
  ASSUME RingTypeOK, n_elem > 0
  PROVE  offset((head + 1) % Wrap) \in Slots
  <1>1. head + 1 \in Int /\ Wrap \in Nat \ {0} BY WrapAssumption DEF RingTypeOK
  <1>2. (head + 1) % Wrap \in Int BY <1>1, DivMod
  <1> QED BY <1>2, InSlots

-----------------------------------------------------------------------------
(* A call that has passed its check still has its place: only the other    *)
(* task has run, and it makes room or fills it.                            *)
Counted ==
    /\ count <= n_elem
    /\ prod.pc # "idle" => count < n_elem
    /\ cons.pc # "idle" => count > 0

(* No element between tail and head is half written. *)
Whole == \A i \in 0 .. count - 1 : \E d \in Data : buf[offset(tail + i)] = [low |-> d, high |-> d]

(* What has been copied so far. *)
Writing ==
    /\ prod.pc # "idle" => prod.data \in Data
    /\ prod.pc \in {"high", "count"} => buf[offset(head)].low = prod.data
    /\ prod.pc = "count" => buf[offset(head)].high = prod.data

Reading ==
    /\ cons.pc \in {"high", "count"} => cons.low = buf[offset(tail)].low
    /\ cons.pc = "count" => cons.high = buf[offset(tail)].high

RingIInv == RingTypeOK /\ Counted /\ Whole /\ Writing /\ Reading

LEMMA InitRingIInv == RingInit => RingIInv
  <1> SUFFICES ASSUME RingInit PROVE RingIInv
    OBVIOUS
  <1>1. n_elem \in Nat /\ n_elem < Wrap /\ Wrap \in Nat \ {0}
    BY WrapAssumption, SizesAssumption DEF RingInit
  <1>2. 0 % Wrap = 0
    BY <1>1
  <1>3. count = 0
    BY <1>1, <1>2 DEF RingInit, count
  <1>4. RingTypeOK
    BY <1>1 DEF RingInit, RingTypeOK, Elements, Nothing
  <1> QED BY <1>1, <1>3, <1>4 DEF RingInit, RingIInv, Counted, Whole, Writing, Reading

(* Where the elements are is said by three fields alone.                   *)
LEMMA PlacesStay ==
  ASSUME UNCHANGED <<n_elem, head, tail>>
  PROVE  count' = count /\ Slots' = Slots /\ \A i : offset(i)' = offset(i)
BY DEF count, Slots, offset

LEMMA PutLowRingIInv == RingIInv /\ PutLow => RingIInv'
  <1> SUFFICES ASSUME RingIInv, PutLow PROVE RingIInv'
    OBVIOUS
  <1> USE DEF RingIInv
  <1>1. UNCHANGED <<n_elem, head, tail, cons>> /\ prod.pc = "low" /\ prod' = [prod EXCEPT !.pc = "high"]
        /\ buf' = [buf EXCEPT ![offset(head)].low = prod.data]
    BY DEF PutLow
  <1>2. count' = count /\ Slots' = Slots /\ \A i : offset(i)' = offset(i)
    BY <1>1, PlacesStay
  <1>3. count < n_elem /\ n_elem > 0 /\ count \in Nat /\ n_elem \in Nat
    BY <1>1, CountType, RingSize DEF Counted
  <1>4. head \in Int /\ tail \in Int /\ offset(head) \in Slots
    BY <1>3, InSlots, WrapAssumption DEF RingTypeOK
  <1>5. \A i \in 0 .. count - 1 : offset(tail + i) # offset(head)
    BY <1>3, OtherPlaces, HeadPlace
  <1>6. prod.data \in Data /\ buf \in [Slots -> Elements] /\ buf[offset(head)] \in Elements
    BY <1>1, <1>4 DEF Writing, RingTypeOK
  <1>7. buf' \in [Slots -> Elements]
    BY <1>1, <1>4, <1>6 DEF Elements
  <1>8. RingTypeOK'
    BY <1>1, <1>2, <1>7 DEF RingTypeOK, Elements
  <1>9. Counted'
    BY <1>1, <1>2 DEF Counted
  <1>10. Whole'
    <2> SUFFICES ASSUME NEW i \in 0 .. count - 1
                 PROVE  \E d \in Data : buf'[offset(tail + i)] = [low |-> d, high |-> d]
      BY <1>1, <1>2 DEF Whole
    <2>1. offset(tail + i) \in Slots /\ offset(tail + i) # offset(head)
      BY <1>3, <1>4, <1>5, InSlots
    <2>2. buf'[offset(tail + i)] = buf[offset(tail + i)]
      BY <1>1, <1>6, <2>1
    <2> QED BY <2>2 DEF Whole
  <1>11. Writing'
    BY <1>1, <1>2, <1>4, <1>6 DEF Writing, RingTypeOK, Elements
  <1>12. cons.pc # "idle" => offset(tail) # offset(head)
    <2>1. cons.pc # "idle" => 0 \in 0 .. count - 1
      BY <1>3 DEF Counted
    <2> QED BY <2>1, <1>5, <1>4
  <1>13. Reading'
    BY <1>1, <1>2, <1>4, <1>6, <1>12 DEF Reading
  <1> QED BY <1>8, <1>9, <1>10, <1>11, <1>13

LEMMA PutHighRingIInv == RingIInv /\ PutHigh => RingIInv'
  <1> SUFFICES ASSUME RingIInv, PutHigh PROVE RingIInv'
    OBVIOUS
  <1> USE DEF RingIInv
  <1>1. UNCHANGED <<n_elem, head, tail, cons>> /\ prod.pc = "high" /\ prod' = [prod EXCEPT !.pc = "count"]
        /\ buf' = [buf EXCEPT ![offset(head)].high = prod.data]
    BY DEF PutHigh
  <1>2. count' = count /\ Slots' = Slots /\ \A i : offset(i)' = offset(i)
    BY <1>1, PlacesStay
  <1>3. count < n_elem /\ n_elem > 0 /\ count \in Nat /\ n_elem \in Nat
    BY <1>1, CountType, RingSize DEF Counted
  <1>4. head \in Int /\ tail \in Int /\ offset(head) \in Slots
    BY <1>3, InSlots, WrapAssumption DEF RingTypeOK
  <1>5. \A i \in 0 .. count - 1 : offset(tail + i) # offset(head)
    BY <1>3, OtherPlaces, HeadPlace
  <1>6. prod.data \in Data /\ buf \in [Slots -> Elements] /\ buf[offset(head)] \in Elements
    BY <1>1, <1>4 DEF Writing, RingTypeOK
  <1>7. buf' \in [Slots -> Elements]
    BY <1>1, <1>4, <1>6 DEF Elements
  <1>8. RingTypeOK'
    BY <1>1, <1>2, <1>7 DEF RingTypeOK, Elements
  <1>9. Counted'
    BY <1>1, <1>2 DEF Counted
  <1>10. Whole'
    <2> SUFFICES ASSUME NEW i \in 0 .. count - 1
                 PROVE  \E d \in Data : buf'[offset(tail + i)] = [low |-> d, high |-> d]
      BY <1>1, <1>2 DEF Whole
    <2>1. offset(tail + i) \in Slots /\ offset(tail + i) # offset(head)
      BY <1>3, <1>4, <1>5, InSlots
    <2>2. buf'[offset(tail + i)] = buf[offset(tail + i)]
      BY <1>1, <1>6, <2>1
    <2> QED BY <2>2 DEF Whole
  <1>11. Writing'
    BY <1>1, <1>2, <1>4, <1>6 DEF Writing, RingTypeOK, Elements
  <1>12. cons.pc # "idle" => offset(tail) # offset(head)
    <2>1. cons.pc # "idle" => 0 \in 0 .. count - 1
      BY <1>3 DEF Counted
    <2> QED BY <2>1, <1>5, <1>4
  <1>13. Reading'
    BY <1>1, <1>2, <1>4, <1>6, <1>12 DEF Reading
  <1> QED BY <1>8, <1>9, <1>10, <1>11, <1>13

LEMMA PutCountsRingIInv == RingIInv /\ PutCounts => RingIInv' /\ count' = count + 1
  <1> SUFFICES ASSUME RingIInv, PutCounts PROVE RingIInv' /\ count' = count + 1
    OBVIOUS
  <1> USE DEF RingIInv
  <1>1. UNCHANGED <<n_elem, tail, buf, cons>> /\ prod.pc = "count"
        /\ prod' = [pc |-> "idle", data |-> None, err |-> 0] /\ head' = (head + 1) % Wrap
    BY DEF PutCounts
  <1>2. count < n_elem /\ n_elem > 0 /\ count \in Nat /\ n_elem \in Nat
    BY <1>1, CountType, RingSize DEF Counted
  <1>3. count' = count + 1
    BY <1>1, <1>2, PutCount DEF count
  <1>4. Slots' = Slots /\ \A i : offset(i)' = offset(i)
    BY <1>1 DEF Slots, offset
  <1>5. head' \in 0 .. Wrap - 1
    BY <1>1, WrapAssumption, DivMod DEF RingTypeOK
  <1>6. RingTypeOK'
    BY <1>1, <1>4, <1>5 DEF RingTypeOK
  <1>7. Counted'
    BY <1>1, <1>2, <1>3 DEF Counted
  <1>8. \E d \in Data : buf[offset(tail + count)] = [low |-> d, high |-> d]
    <2>1. offset(head) \in Slots /\ offset(tail + count) = offset(head)
      BY <1>2, InSlots, HeadPlace, WrapAssumption DEF RingTypeOK
    <2>2. buf[offset(head)] \in Elements /\ buf[offset(head)].low = prod.data
          /\ buf[offset(head)].high = prod.data /\ prod.data \in Data
      BY <1>1, <2>1 DEF RingTypeOK, Writing
    <2>3. buf[offset(head)] = [low |-> prod.data, high |-> prod.data]
      BY <2>2 DEF Elements
    <2> QED BY <2>1, <2>2, <2>3
  <1>9. Whole'
    <2> SUFFICES ASSUME NEW i \in 0 .. count PROVE \E d \in Data : buf[offset(tail + i)] = [low |-> d, high |-> d]
      <3>1. (count + 1) - 1 = count
        BY <1>2
      <3> QED BY <1>1, <1>3, <1>4, <3>1 DEF Whole
    <2>1. CASE i = count
      BY <2>1, <1>8
    <2>2. CASE i # count
      <3>1. i \in 0 .. count - 1
        BY <1>2, <2>2
      <3> QED BY <3>1 DEF Whole
    <2> QED BY <2>1, <2>2
  <1>10. Writing' /\ Reading'
    BY <1>1, <1>4 DEF Writing, Reading
  <1> QED BY <1>3, <1>6, <1>7, <1>9, <1>10

LEMMA GetCountsRingIInv == RingIInv /\ GetCounts => RingIInv' /\ count' = count - 1
  <1> SUFFICES ASSUME RingIInv, GetCounts PROVE RingIInv' /\ count' = count - 1
    OBVIOUS
  <1> USE DEF RingIInv
  <1>1. UNCHANGED <<n_elem, head, buf, prod>> /\ cons.pc = "count" /\ tail' = (tail + 1) % Wrap
        /\ cons' = [pc |-> "idle", low |-> None, high |-> None, got |-> [low |-> cons.low, high |-> cons.high]]
    BY DEF GetCounts
  <1>2. count > 0 /\ count <= n_elem /\ n_elem > 0 /\ count \in Nat /\ n_elem \in Nat
    BY <1>1, CountType, RingSize DEF Counted
  <1>3. count' = count - 1
    BY <1>1, <1>2, GetCount DEF count
  <1>4. Slots' = Slots /\ \A i : offset(i)' = offset(i)
    BY <1>1 DEF Slots, offset
  <1>5. tail' \in 0 .. Wrap - 1
    BY <1>1, WrapAssumption, DivMod DEF RingTypeOK
  <1>6. RingTypeOK'
    BY <1>1, <1>4, <1>5 DEF RingTypeOK, Elements
  <1>7. Counted'
    BY <1>1, <1>2, <1>3 DEF Counted
  <1>8. Whole'
    <2> SUFFICES ASSUME NEW i \in 0 .. count - 2
                 PROVE  \E d \in Data : buf[offset(tail' + i)] = [low |-> d, high |-> d]
      <3>1. (count - 1) - 1 = count - 2
        BY <1>2
      <3> QED BY <1>1, <1>3, <1>4, <3>1 DEF Whole
    <2>1. offset(tail' + i) = offset(tail + (i + 1))
      BY <1>1, <1>2, NextPlaces
    <2>2. i + 1 \in 0 .. count - 1
      BY <1>2
    <2>3. \E d \in Data : buf[offset(tail + (i + 1))] = [low |-> d, high |-> d]
      BY <2>2 DEF Whole
    <2> QED BY <2>1, <2>3
  <1>9. Writing' /\ Reading'
    BY <1>1, <1>4 DEF Writing, Reading
  <1> QED BY <1>3, <1>6, <1>7, <1>8, <1>9

LEMMA NextRingIInv == RingIInv /\ [RingNext]_ringVars => RingIInv'
  <1> SUFFICES ASSUME RingIInv, [RingNext]_ringVars PROVE RingIInv'
    OBVIOUS
  <1> USE DEF RingIInv
  <1>1. count \in Nat /\ n_elem \in Nat
    BY CountType, RingSize
  <1>2. CASE PutStarts
    <2>1. UNCHANGED <<n_elem, head, tail, buf, cons>> /\ ~ring_buffer_full
      BY <1>2 DEF PutStarts
    <2>2. PICK d \in Data : prod' = [prod EXCEPT !.pc = "low", !.data = d]
      BY <1>2 DEF PutStarts
    <2>3. count' = count /\ Slots' = Slots /\ \A i : offset(i)' = offset(i)
      BY <2>1, PlacesStay
    <2>4. RingTypeOK'
      BY <2>1, <2>2, <2>3 DEF RingTypeOK
    <2>5. Counted'
      BY <1>1, <2>1, <2>2, <2>3 DEF Counted, ring_buffer_full
    <2>6. Whole' /\ Reading'
      BY <2>1, <2>3 DEF Whole, Reading
    <2>7. Writing'
      BY <2>1, <2>2, <2>3 DEF Writing, RingTypeOK
    <2> QED BY <2>4, <2>5, <2>6, <2>7
  <1>3. CASE PutRefused
    <2>1. UNCHANGED <<n_elem, head, tail, buf, cons>> /\ prod.pc = "idle" /\ prod' = [prod EXCEPT !.err = -1]
      BY <1>3 DEF PutRefused
    <2>2. count' = count /\ Slots' = Slots /\ \A i : offset(i)' = offset(i)
      BY <2>1, PlacesStay
    <2>3. RingTypeOK'
      BY <2>1, <2>2 DEF RingTypeOK
    <2> QED BY <2>1, <2>2, <2>3 DEF RingTypeOK, Counted, Whole, Writing, Reading
  <1>4. CASE PutLow
    BY <1>4, PutLowRingIInv
  <1>5. CASE PutHigh
    BY <1>5, PutHighRingIInv
  <1>6. CASE PutCounts
    BY <1>6, PutCountsRingIInv
  <1>7. CASE GetStarts
    <2>1. UNCHANGED <<n_elem, head, tail, buf, prod>> /\ ~ring_buffer_empty /\ cons' = [cons EXCEPT !.pc = "low"]
      BY <1>7 DEF GetStarts
    <2>2. count' = count /\ Slots' = Slots /\ \A i : offset(i)' = offset(i)
      BY <2>1, PlacesStay
    <2>3. RingTypeOK'
      BY <2>1, <2>2 DEF RingTypeOK
    <2>4. Counted'
      BY <1>1, <2>1, <2>2 DEF Counted, ring_buffer_empty
    <2> QED BY <2>1, <2>2, <2>3, <2>4 DEF RingTypeOK, Whole, Writing, Reading
  <1>8. CASE GetRefused
    <2>1. UNCHANGED <<n_elem, head, tail, buf, prod>> /\ cons.pc = "idle" /\ cons' = [cons EXCEPT !.got = Nothing]
      BY <1>8 DEF GetRefused
    <2>2. count' = count /\ Slots' = Slots /\ \A i : offset(i)' = offset(i)
      BY <2>1, PlacesStay
    <2>3. RingTypeOK'
      BY <2>1, <2>2 DEF RingTypeOK, Elements, Nothing
    <2> QED BY <2>1, <2>2, <2>3 DEF RingTypeOK, Counted, Whole, Writing, Reading
  <1>9. CASE GetLow \/ GetHigh
    <2>1. UNCHANGED <<n_elem, head, tail, buf, prod>> /\ cons.pc # "idle"
      BY <1>9 DEF GetLow, GetHigh
    <2>2. count' = count /\ Slots' = Slots /\ \A i : offset(i)' = offset(i)
      BY <2>1, PlacesStay
    <2>3. n_elem > 0 /\ tail \in Int
      BY <1>1, <2>1, WrapAssumption DEF Counted, RingTypeOK
    <2>4. buf[offset(tail)] \in Elements
      BY <2>3, InSlots DEF RingTypeOK
    <2>5. RingTypeOK'
      BY <1>9, <2>1, <2>2, <2>4 DEF RingTypeOK, GetLow, GetHigh, Elements
    <2>6. Reading'
      BY <1>9, <2>1, <2>2 DEF RingTypeOK, Reading, GetLow, GetHigh
    <2>7. Counted'
      BY <1>1, <2>1, <2>2 DEF Counted
    <2>8. Whole' /\ Writing'
      BY <2>1, <2>2 DEF Whole, Writing
    <2> QED BY <2>5, <2>6, <2>7, <2>8
  <1>10. CASE GetCounts
    BY <1>10, GetCountsRingIInv
  <1>11. CASE UNCHANGED ringVars
    <2>1. count' = count /\ Slots' = Slots /\ \A i : offset(i)' = offset(i)
      BY <1>11, PlacesStay DEF ringVars
    <2> QED BY <1>11, <2>1 DEF ringVars, RingTypeOK, Counted, Whole, Writing, Reading
  <1> QED BY <1>2, <1>3, <1>4, <1>5, <1>6, <1>7, <1>8, <1>9, <1>10, <1>11 DEF RingNext

(* What RingTypeOK needs to be kept: no call loses its place, no element       *)
(* between the counters is torn.                                           *)
THEOREM RingInvariance == RingSpec => []RingIInv
  BY InitRingIInv, NextRingIInv, PTL DEF RingSpec

-----------------------------------------------------------------------------
(* The queue.                                                              *)
Items == {[low |-> d, high |-> d] : d \in Data}

ContentsAre ==
    /\ contents \in Seq(Items) /\ Len(contents) = count
    /\ \A i \in 1 .. count : contents[i] = buf[offset(tail + (i - 1))]

LEMMA ContentsType == RingIInv => ContentsAre
  <1> SUFFICES ASSUME RingIInv PROVE ContentsAre
    OBVIOUS
  <1>1. count \in Nat /\ tail \in Int
    BY CountType, WrapAssumption DEF RingIInv, RingTypeOK
  <1>2. \A i \in 1 .. count : i - 1 \in 0 .. count - 1
    BY <1>1
  <1>3. \A i \in 1 .. count : buf[offset(tail + (i - 1))] \in Items
    BY <1>2 DEF RingIInv, Whole, Items
  <1>4. contents \in [1 .. count -> Items]
    BY <1>3, Zenon DEF contents
  <1>5. contents \in Seq(Items)
    BY <1>1, <1>4, SeqDef
  <1>6. Len(contents) = count
    BY <1>1, <1>4, <1>5, LenProperties
  <1> QED BY <1>5, <1>6 DEF contents, ContentsAre

(* The queue stays when its places do. *)
LEMMA ContentsStay ==
  ASSUME RingIInv, RingIInv', UNCHANGED <<n_elem, head, tail>>,
         \A i \in 0 .. count - 1 : buf'[offset(tail + i)] = buf[offset(tail + i)]
  PROVE  contents' = contents
  <1>1. count' = count /\ \A i : offset(i)' = offset(i)
    BY PlacesStay
  <1>2. count \in Nat /\ \A i \in 1 .. count : i - 1 \in 0 .. count - 1
    BY CountType DEF RingIInv
  <1>3. ContentsAre /\ ContentsAre'
    BY ContentsType, PTL
  <1>4. \A i \in 1 .. count : contents'[i] = buf'[offset(tail + (i - 1))]
    BY <1>1, <1>3 DEF ContentsAre
  <1>5. \A i \in 1 .. count : contents'[i] = contents[i]
    BY <1>2, <1>3, <1>4 DEF ContentsAre
  <1> QED BY <1>1, <1>3, <1>5, SeqEqual DEF ContentsAre

LEMMA StepImplements == RingIInv /\ RingIInv' /\ [RingNext]_ringVars => [Queue!Next]_Queue!vars
  <1> SUFFICES ASSUME RingIInv, RingIInv', [RingNext]_ringVars PROVE Queue!Next \/ UNCHANGED Queue!vars
    OBVIOUS
  <1>1. count \in Nat /\ n_elem \in Nat /\ tail \in Int /\ head \in Int /\ RingTypeOK /\ Counted
    BY CountType, RingSize, WrapAssumption DEF RingIInv, RingTypeOK
  <1>2. ContentsAre /\ ContentsAre'
    BY ContentsType, PTL
  <1> USE DEF Queue!vars
  <1>3. CASE PutStarts \/ GetStarts \/ GetLow \/ GetHigh \/ UNCHANGED ringVars
    <2>1. UNCHANGED <<n_elem, head, tail, buf>> /\ prod'.err = prod.err /\ cons'.got = cons.got
      BY <1>1, <1>3 DEF RingTypeOK, PutStarts, GetStarts, GetLow, GetHigh, ringVars
    <2>2. contents' = contents
      BY <2>1, ContentsStay
    <2> QED BY <2>1, <2>2
  <1>4. CASE PutLow \/ PutHigh
    <2>1. UNCHANGED <<n_elem, head, tail, cons>> /\ prod'.err = prod.err /\ count < n_elem
      BY <1>1, <1>4 DEF RingTypeOK, PutLow, PutHigh, Counted
    <2>2. \A i \in 0 .. count - 1 : buf'[offset(tail + i)] = buf[offset(tail + i)]
      <3> SUFFICES ASSUME NEW i \in 0 .. count - 1 PROVE buf'[offset(tail + i)] = buf[offset(tail + i)]
        OBVIOUS
      <3>1. n_elem > 0 /\ tail + i \in Int /\ i < count /\ count < i + n_elem
        BY <1>1, <2>1
      <3>2. offset(tail + i) \in Slots /\ offset(tail + i) # offset(head)
        BY <1>1, <3>1, InSlots, OtherPlaces, HeadPlace
      <3> QED BY <1>1, <1>4, <3>2 DEF RingTypeOK, PutLow, PutHigh
    <2>3. contents' = contents
      BY <2>1, <2>2, ContentsStay
    <2> QED BY <2>1, <2>3
  <1>5. CASE PutRefused
    <2>1. UNCHANGED <<n_elem, head, tail, buf, cons>> /\ count = n_elem /\ prod'.err = -1
      BY <1>1, <1>5 DEF RingTypeOK, PutRefused, ring_buffer_full
    <2>2. contents' = contents
      BY <2>1, ContentsStay
    <2>3. Queue!PutRefused
      BY <1>2, <2>1, <2>2 DEF Queue!PutRefused, ContentsAre
    <2> QED BY <2>3 DEF Queue!Next
  <1>6. CASE GetRefused
    <2>1. UNCHANGED <<n_elem, head, tail, buf, prod>> /\ count = 0 /\ cons'.got = Nothing
      BY <1>1, <1>6 DEF RingTypeOK, GetRefused, ring_buffer_empty
    <2>2. contents' = contents
      BY <2>1, ContentsStay
    <2>3. contents = <<>>
      BY <1>2, <2>1, EmptySeq DEF ContentsAre
    <2>4. Queue!GetRefused
      BY <2>1, <2>2, <2>3 DEF Queue!GetRefused
    <2> QED BY <2>4 DEF Queue!Next
  <1>7. CASE PutCounts
    <2>1. UNCHANGED <<n_elem, tail, buf, cons>> /\ prod'.err = 0 /\ count < n_elem /\ count' = count + 1
      BY <1>1, <1>7, PutCountsRingIInv DEF PutCounts, Counted
    <2>2. \A i : offset(i)' = offset(i)
      BY <2>1 DEF offset
    <2>3. \A i \in 1 .. count + 1 : contents'[i] = buf[offset(tail + (i - 1))]
      BY <1>2, <2>1, <2>2 DEF ContentsAre
    <2> DEFINE e == contents'[count + 1]
    <2>4. e \in Items
      BY <1>1, <1>2, <2>1, ElementOfSeq DEF ContentsAre
    <2>5. Append(contents, e) \in Seq(Items) /\ Len(Append(contents, e)) = count + 1
          /\ \A i \in 1 .. count + 1 : Append(contents, e)[i] = IF i <= count THEN contents[i] ELSE e
      <3> DEFINE s == contents
      <3>1. s \in Seq(Items) /\ Len(s) = count /\ e \in Items
        BY <1>2, <2>4 DEF ContentsAre
      <3> HIDE DEF e, s
      <3>2. Append(s, e) \in Seq(Items) /\ Len(Append(s, e)) = Len(s) + 1
            /\ (\A i \in 1 .. Len(s) : Append(s, e)[i] = s[i]) /\ Append(s, e)[Len(s) + 1] = e
        BY <3>1, AppendProperties
      <3>3. Append(s, e) \in Seq(Items) /\ Len(Append(s, e)) = count + 1
            /\ \A i \in 1 .. count + 1 : Append(s, e)[i] = IF i <= count THEN s[i] ELSE e
        BY <1>1, <3>1, <3>2
      <3> QED BY <3>3 DEF s
    <2>6. \A i \in 1 .. count + 1 : contents'[i] = Append(contents, e)[i]
      <3> SUFFICES ASSUME NEW i \in 1 .. count + 1 PROVE contents'[i] = Append(contents, e)[i]
        OBVIOUS
      <3>1. CASE i <= count
        <4>1. i \in 1 .. count
          BY <1>1, <3>1
        <4> QED BY <1>2, <2>3, <2>5, <3>1, <4>1 DEF ContentsAre
      <3>2. CASE ~(i <= count)
        <4>1. i = count + 1
          BY <1>1, <3>2
        <4> QED BY <2>5, <3>2, <4>1
      <3> QED BY <3>1, <3>2
    <2>7. contents' = Append(contents, e)
      <3> HIDE DEF e
      <3> QED BY <1>2, <2>1, <2>5, <2>6, SeqEqual DEF ContentsAre
    <2>8. Queue!Put
      BY <1>2, <2>1, <2>4, <2>7 DEF Queue!Put, ContentsAre, Items
    <2> QED BY <2>8 DEF Queue!Next
  <1>8. CASE GetCounts
    <2>1. UNCHANGED <<n_elem, head, buf, prod>> /\ count' = count - 1 /\ count > 0 /\ n_elem > 0
          /\ tail' = (tail + 1) % Wrap /\ cons'.got = [low |-> cons.low, high |-> cons.high]
      BY <1>1, <1>8, GetCountsRingIInv DEF GetCounts, Counted
    <2>2. \A i : offset(i)' = offset(i)
      BY <2>1 DEF offset
    <2>3. contents # <<>> /\ 1 \in 1 .. count
      BY <1>1, <1>2, <2>1, EmptySeq DEF ContentsAre
    <2>4. Tail(contents) \in Seq(Items) /\ Len(Tail(contents)) = count - 1
          /\ \A i \in 1 .. count - 1 : Tail(contents)[i] = contents[i + 1]
      BY <1>2, <2>3, HeadTailProperties DEF ContentsAre
    <2>5. \A i \in 1 .. count - 1 : contents'[i] = Tail(contents)[i]
      <3> SUFFICES ASSUME NEW i \in 1 .. count - 1 PROVE contents'[i] = Tail(contents)[i]
        OBVIOUS
      <3>1. contents'[i] = buf[offset(tail' + (i - 1))]
        BY <1>2, <2>1, <2>2 DEF ContentsAre
      <3>2. offset(tail' + (i - 1)) = offset(tail + ((i - 1) + 1))
        BY <1>1, <2>1, NextPlaces
      <3>3. i + 1 \in 1 .. count /\ (i - 1) + 1 = (i + 1) - 1
        BY <1>1
      <3>4. contents[i + 1] = buf[offset(tail + ((i + 1) - 1))]
        BY <1>2, <3>3 DEF ContentsAre
      <3> QED BY <2>4, <3>1, <3>2, <3>3, <3>4
    <2>6. contents' = Tail(contents)
      BY <1>2, <2>1, <2>4, <2>5, SeqEqual DEF ContentsAre
    <2>7. Head(contents) = buf[offset(tail)]
      <3>1. tail + (1 - 1) = tail
        BY <1>1
      <3> QED BY <1>2, <2>3, <3>1 DEF ContentsAre
    <2>8. buf[offset(tail)] \in Elements
      BY <1>1, <2>1, InSlots DEF RingTypeOK
    <2>9. buf[offset(tail)] = [low |-> cons.low, high |-> cons.high]
      BY <1>8, <2>8 DEF RingIInv, Reading, GetCounts, Elements
    <2>10. Queue!Get
      BY <2>1, <2>3, <2>6, <2>7, <2>9 DEF Queue!Get
    <2> QED BY <2>10 DEF Queue!Next
  <1> QED BY <1>3, <1>4, <1>5, <1>6, <1>7, <1>8 DEF RingNext

LEMMA InitImplements == RingInit => Queue!Init
  <1> SUFFICES ASSUME RingInit PROVE Queue!Init
    OBVIOUS
  <1>1. RingIInv
    BY InitRingIInv
  <1>2. ContentsAre
    BY <1>1, ContentsType
  <1>3. Wrap \in Nat \ {0} /\ n_elem \in Nat
    BY <1>1, RingSize DEF RingIInv
  <1>4. count = 0
    BY <1>3 DEF RingInit, count
  <1>5. contents = <<>>
    BY <1>2, <1>4, EmptySeq DEF ContentsAre
  <1> QED BY <1>3, <1>5 DEF RingInit, Queue!Init

(* QueueSpec: two tasks without a lock see a queue of which they put and   *)
(* get whole elements in single steps, for any size that divides the word. *)
THEOREM ImplementsQueue == RingSpec => QueueSpec
  <1>1. RingInit => Queue!Init
    BY InitImplements
  <1>2. RingIInv /\ RingIInv' /\ [RingNext]_ringVars => [Queue!Next]_Queue!vars
    BY StepImplements
  <1>3. RingSpec => []RingIInv
    BY RingInvariance
  <1> QED BY <1>1, <1>2, <1>3, PTL DEF RingSpec, QueueSpec, Queue!Spec

(* RingTypeOK: head and tail are words, prod and cons of their types.          *)
THEOREM RingTypeCorrect == RingSpec => []RingTypeOK
  BY RingInvariance, PTL DEF RingIInv

=============================================================================
