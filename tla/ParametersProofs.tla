-------------------------- MODULE ParametersProofs --------------------------
(* Theorems about the parameter store, for any table of parameters.        *)
EXTENDS Parameters, TLAPS

(* NeverAboveMax is not inductive: what a save has copied so far, and what *)
(* it has set in NVS, must already be within the maxima when it commits.   *)
SaveInv ==
    /\ save = "copy" => \A p \in copied : blob[p] <= MaxValue[p]
    /\ save = "commit" => pending = blob /\ WithinMax(blob)
    /\ save # "none" => boot \in {"save", "run"}

IInv == TypeOK /\ NeverAboveMax /\ SaveInv

LEMMA ZerosTable == Zeros \in Tables
  BY U32Assumption DEF Zeros, Tables

LEMMA DefaultWithinLimits == DefaultValue \in Tables /\ check_values(DefaultValue)
  BY U32Assumption, TableAssumption DEF Tables, check_values, WithinMax, WithinMin

(* The zeros a failed read leaves in the array never pass the check.       *)
LEMMA ZerosRefused == ~check_values(Zeros)
  <1>1. PICK p \in Params : MinValue[p] > 0
    BY TableAssumption
  <1>2. MinValue[p] \in Nat
    BY U32Assumption, TableAssumption
  <1>3. ~(Zeros[p] >= MinValue[p])
    BY <1>1, <1>2 DEF Zeros
  <1> QED BY <1>3 DEF check_values, WithinMin

LEMMA InitIInv == Init => IInv
  <1> SUFFICES ASSUME Init PROVE IInv
    OBVIOUS
  <1>1. TypeOK
    BY ZerosTable DEF Init, TypeOK
  <1>2. NeverAboveMax /\ SaveInv
    BY DEF Init, NeverAboveMax, SaveInv
  <1> QED BY <1>1, <1>2 DEF IInv

LEMMA StepIInv == IInv /\ [Next]_vars => IInv'
  <1> SUFFICES ASSUME IInv, [Next]_vars PROVE IInv'
    OBVIOUS
  <1> USE DEF IInv
  <1>1. CASE BootRead
    <2>1. TypeOK'
      BY <1>1 DEF BootRead, TypeOK, BlobFits
    <2>2. NeverAboveMax' /\ SaveInv'
      BY <1>1 DEF BootRead, NeverAboveMax, SaveInv, WithinMax
    <2> QED BY <2>1, <2>2
  <1>2. CASE BootCheck
    <2>1. TypeOK'
      BY <1>2 DEF BootCheck, TypeOK
    <2>2. NeverAboveMax' /\ SaveInv'
      BY <1>2 DEF BootCheck, NeverAboveMax, SaveInv, WithinMax, check_values
    <2> QED BY <2>1, <2>2
  <1>3. CASE BootReset
    <2>1. TypeOK'
      BY <1>3, DefaultWithinLimits DEF BootReset, TypeOK
    <2>2. NeverAboveMax' /\ SaveInv'
      BY <1>3, DefaultWithinLimits
      DEF BootReset, NeverAboveMax, SaveInv, WithinMax, check_values
    <2> QED BY <2>1, <2>2
  <1>4. CASE BootDone
    BY <1>4 DEF BootDone, TypeOK, NeverAboveMax, SaveInv, WithinMax
  <1>5. CASE SetValue
    <2>1. PICK p \in Params, v \in U32 :
              MaySet(p, v) /\ value' = [value EXCEPT ![p] = v]
      BY <1>5 DEF SetValue
    <2>2. TypeOK'
      BY <1>5, <2>1 DEF SetValue, TypeOK, Tables
    <2>3. WithinMax(value')
      BY <1>5, <2>1 DEF SetValue, MaySet, TypeOK, NeverAboveMax, WithinMax, Tables
    <2>4. NeverAboveMax' /\ SaveInv'
      BY <1>5, <2>3 DEF SetValue, NeverAboveMax, SaveInv, WithinMax
    <2> QED BY <2>2, <2>4
  <1>6. CASE SetDefaultValues
    <2>1. TypeOK'
      BY <1>6, DefaultWithinLimits DEF SetDefaultValues, TypeOK
    <2>2. NeverAboveMax' /\ SaveInv'
      BY <1>6, DefaultWithinLimits
      DEF SetDefaultValues, NeverAboveMax, SaveInv, WithinMax, check_values
    <2> QED BY <2>1, <2>2
  <1>7. CASE SaveBegin \/ SaveOpen \/ SaveFail
    BY <1>7 DEF SaveBegin, SaveOpen, SaveFail, TypeOK, NeverAboveMax, SaveInv, WithinMax
  <1>8. CASE SaveCopy
    <2>1. PICK p \in Params \ copied :
              copied' = copied \union {p} /\ blob' = [blob EXCEPT ![p] = value[p]]
      BY <1>8 DEF SaveCopy
    <2>2. TypeOK'
      BY <1>8, <2>1 DEF SaveCopy, TypeOK, Tables
    <2>3. \A q \in copied' : blob'[q] <= MaxValue[q]
      BY <1>8, <2>1 DEF SaveCopy, TypeOK, NeverAboveMax, SaveInv, WithinMax, Tables
    <2>4. NeverAboveMax' /\ SaveInv'
      BY <1>8, <2>3 DEF SaveCopy, NeverAboveMax, SaveInv, WithinMax
    <2> QED BY <2>2, <2>4
  <1>9. CASE SaveSet
    BY <1>9 DEF SaveSet, TypeOK, NeverAboveMax, SaveInv, WithinMax
  <1>10. CASE SaveCommit
    BY <1>10 DEF SaveCommit, TypeOK, NeverAboveMax, SaveInv, WithinMax
  <1>11. CASE PowerCycle
    <2>1. TypeOK'
      BY <1>11, ZerosTable DEF PowerCycle, TypeOK
    <2>2. NeverAboveMax' /\ SaveInv'
      BY <1>11 DEF PowerCycle, NeverAboveMax, SaveInv, WithinMax
    <2> QED BY <2>1, <2>2
  <1>12. CASE UNCHANGED vars
    BY <1>12 DEF vars, TypeOK, NeverAboveMax, SaveInv, WithinMax
  <1> QED BY <1>1, <1>2, <1>3, <1>4, <1>5, <1>6, <1>7, <1>8, <1>9, <1>10, <1>11, <1>12
          DEF Next

(* The store keeps its types, whatever fails and whenever the power goes.  *)
THEOREM TypeCorrect == Spec => []TypeOK
  <1>1. IInv => TypeOK
    BY DEF IInv
  <1> QED BY InitIInv, StepIInv, <1>1, PTL DEF Spec

(* Once parameters_init has returned, no entry of the RAM and of a saved   *)
(* blob is above its maximum.                                              *)
THEOREM AboveMaxExcluded == Spec => []NeverAboveMax
  <1>1. IInv => NeverAboveMax
    BY DEF IInv
  <1> QED BY InitIInv, StepIInv, <1>1, PTL DEF Spec
-----------------------------------------------------------------------------
(* While it is being checked, the array is the saved blob, or still zeros. *)
BootInv ==
    /\ boot = "read" => value = Zeros
    /\ boot = "check" => value \in {flash, Zeros}

LEMMA StepBootInv == BootInv /\ SaveInv /\ [Next]_vars => BootInv'
  <1> SUFFICES ASSUME BootInv, SaveInv, [Next]_vars PROVE BootInv'
    OBVIOUS
  <1>1. CASE BootRead \/ BootCheck \/ BootReset \/ BootDone
    BY <1>1 DEF BootRead, BootCheck, BootReset, BootDone, BootInv
  <1>2. CASE SetValue \/ SetDefaultValues
    BY <1>2 DEF SetValue, SetDefaultValues, BootInv
  <1>3. CASE SaveBegin \/ SaveOpen \/ SaveCopy \/ SaveSet \/ SaveCommit \/ SaveFail
    BY <1>3 DEF SaveBegin, SaveOpen, SaveCopy, SaveSet, SaveCommit, SaveFail, BootInv, SaveInv
  <1>4. CASE PowerCycle
    BY <1>4 DEF PowerCycle, BootInv
  <1>5. CASE UNCHANGED vars
    BY <1>5 DEF vars, BootInv
  <1> QED BY <1>1, <1>2, <1>3, <1>4, <1>5 DEF Next

(* A boot either adopts the very blob that was saved or resets: it never   *)
(* goes on with the zeros of a read that failed.                           *)
THEOREM BootNeverAdoptsZeros == Spec => BootAdoptsSaved
  <1>1. Init => BootInv
    BY DEF Init, BootInv
  <1>2. BootInv /\ [Next]_vars =>
            [boot = "check" /\ boot' = "run" => value' = flash /\ check_values(value')]_vars
    <2> SUFFICES ASSUME BootInv, Next, boot = "check", boot' = "run"
                 PROVE  value' = flash /\ check_values(value')
      OBVIOUS
    <2>1. BootCheck
      BY DEF Next, BootRead, BootCheck, BootReset, BootDone, SetValue, SetDefaultValues,
             SaveBegin, SaveOpen, SaveCopy, SaveSet, SaveCommit, SaveFail, PowerCycle, BootInv
    <2>2. value' = value /\ check_values(value)
      BY <2>1 DEF BootCheck
    <2> QED BY <2>2, ZerosRefused DEF BootInv
  <1>3. IInv => SaveInv
    BY DEF IInv
  <1> QED BY InitIInv, StepIInv, StepBootInv, <1>1, <1>2, <1>3, PTL DEF Spec, BootAdoptsSaved
=============================================================================
