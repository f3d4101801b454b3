----------------------------- MODULE Parameters -----------------------------
(***************************************************************************)
(* The parameter store, backend/parameters.c: an array of uint32 in RAM    *)
(* with a minimum, a maximum and a default per entry, and one NVS blob,    *)
(* "menu", that holds a copy of the array.  Any task sets values; a save   *)
(* copies the array into the blob while other tasks go on setting values;  *)
(* the power may go at any step, and the boot that follows adopts the      *)
(* blob, or resets every entry to its default.                             *)
(*                                                                         *)
(* nvs_open, nvs_set_blob, nvs_get_blob and nvs_commit are external: each  *)
(* may fail, and what was set but not committed may or may not survive a   *)
(* loss of power.  The string parameters are not persistent and are left   *)
(* out.                                                                    *)
(***************************************************************************)
EXTENDS Integers

CONSTANTS
    Params,         \* the entries of the table
    U32,            \* the values a uint32 parameter may be asked to take
    MinValue,       \* .min_value of each entry
    MaxValue,       \* .max_value of each entry
    DefaultValue,   \* .default_value of each entry
    NoBlob          \* the key "menu" is absent, or holds a blob of another size

ASSUME U32Assumption == U32 \subseteq Nat /\ 0 \in U32

(* The table: each default is within its limits, and one entry at least    *)
(* (power_on_minutes) has a minimum above 0.                               *)
ASSUME TableAssumption ==
    /\ MinValue \in [Params -> U32]
    /\ MaxValue \in [Params -> U32]
    /\ DefaultValue \in [Params -> U32]
    /\ \A p \in Params : MinValue[p] <= DefaultValue[p] /\ DefaultValue[p] <= MaxValue[p]
    /\ \E p \in Params : MinValue[p] > 0

Tables == [Params -> U32]

ASSUME NoBlobAssumption == NoBlob \notin Tables

VARIABLES
    value,      \* parameters_value, the array in RAM
    flash,      \* the blob "menu" as a boot would read it
    pending,    \* the blob set in NVS and not committed
    boot,       \* where parameters_init is; "run" once it has returned
    save,       \* where the running parameters_save is
    copied,     \* the entries nvs_set_blob has already copied ...
    blob,       \* ... and what it has copied of them
    acked       \* the last blob whose save returned true

vars == <<value, flash, pending, boot, save, copied, blob, acked>>

Zeros == [p \in Params |-> 0]

(* The array starts as zeros; the flash holds nothing, or whatever an      *)
(* earlier firmware, with limits of its own, has left there.               *)
Init ==
    /\ value = Zeros
    /\ flash \in Tables \union {NoBlob}
    /\ pending = NoBlob
    /\ boot = "read"
    /\ save = "none"
    /\ copied = {}
    /\ blob = Zeros
    /\ acked = NoBlob

WithinMax(t) == \A p \in Params : t[p] <= MaxValue[p]
WithinMin(t) == \A p \in Params : t[p] >= MinValue[p]

(* Mutant: the boot check forgets the minimum.                           *)
check_values_MaxOnly(t) == WithinMax(t)

check_values(t) == WithinMax(t) /\ WithinMin(t)

-----------------------------------------------------------------------------
(* parameters_init: read the blob, check every entry, and set and save the *)
(* defaults when either fails.                                             *)

(* Mutant: a blob of any size is read.                                   *)
BlobFits_SizeIgnored == TRUE

(* required_size is the size of the array. *)
BlobFits == flash # NoBlob

(* The second nvs_get_blob may fail with the array untouched: _read_       *)
(* parameters returns true all the same.                                   *)
BootRead ==
    /\ boot = "read"
    /\ \/ /\ boot' = "reset"
          /\ UNCHANGED value
       \/ /\ BlobFits
          /\ boot' = "check"
          /\ value' \in {flash, value}
    /\ UNCHANGED <<flash, pending, save, copied, blob, acked>>

BootCheck ==
    /\ boot = "check"
    /\ boot' = IF check_values(value) THEN "run" ELSE "reset"
    /\ UNCHANGED <<value, flash, pending, save, copied, blob, acked>>

BootReset ==
    /\ boot = "reset"
    /\ value' = DefaultValue
    /\ boot' = "save"
    /\ save' = "open"
    /\ UNCHANGED <<flash, pending, copied, blob, acked>>

BootDone ==
    /\ boot = "save"
    /\ save = "none"
    /\ boot' = "run"
    /\ UNCHANGED <<value, flash, pending, save, copied, blob, acked>>

-----------------------------------------------------------------------------
(* The calls of a running system.  parameters_setValue compares with the   *)
(* maximum only.                                                           *)

(* Mutant: setValue compares with nothing.                               *)
MaySet_Unchecked(p, v) == v \in U32

MaySet(p, v) == v <= MaxValue[p]

SetValue ==
    /\ boot = "run"
    /\ \E p \in Params, v \in U32 :
          /\ MaySet(p, v)
          /\ value' = [value EXCEPT ![p] = v]
    /\ UNCHANGED <<flash, pending, boot, save, copied, blob, acked>>

SetDefaultValues ==
    /\ boot = "run"
    /\ value' = DefaultValue
    /\ UNCHANGED <<flash, pending, boot, save, copied, blob, acked>>

(* parameters_save.  Its only callers are parameters_init and the menu, so *)
(* one save runs at a time; nvs_set_blob copies the live array one entry   *)
(* after the other.                                                        *)
SaveBegin ==
    /\ boot = "run"
    /\ save = "none"
    /\ save' = "open"
    /\ UNCHANGED <<value, flash, pending, boot, copied, blob, acked>>

SaveOpen ==
    /\ save = "open"
    /\ save' = "copy"
    /\ copied' = {}
    /\ UNCHANGED <<value, flash, pending, boot, blob, acked>>

SaveCopy ==
    /\ save = "copy"
    /\ \E p \in Params \ copied :
          /\ copied' = copied \union {p}
          /\ blob' = [blob EXCEPT ![p] = value[p]]
    /\ UNCHANGED <<value, flash, pending, boot, save, acked>>

SaveSet ==
    /\ save = "copy"
    /\ copied = Params
    /\ pending' = blob
    /\ save' = "commit"
    /\ UNCHANGED <<value, flash, boot, copied, blob, acked>>

(* The save returns true. *)
SaveCommit ==
    /\ save = "commit"
    /\ flash' = pending
    /\ pending' = NoBlob
    /\ acked' = blob
    /\ save' = "none"
    /\ UNCHANGED <<value, boot, copied, blob>>

(* nvs_open, nvs_set_blob or nvs_commit fails: the save returns false.     *)
SaveFail ==
    /\ save # "none"
    /\ save' = "none"
    /\ UNCHANGED <<value, flash, pending, boot, copied, blob, acked>>

(* The power goes: the RAM is lost, and a pending blob has or has not      *)
(* reached the flash.                                                      *)
PowerCycle ==
    /\ flash' \in {flash} \union ({pending} \ {NoBlob})
    /\ pending' = NoBlob
    /\ value' = Zeros
    /\ boot' = "read"
    /\ save' = "none"
    /\ UNCHANGED <<copied, blob, acked>>

Next ==
    \/ BootRead \/ BootCheck \/ BootReset \/ BootDone
    \/ SetValue \/ SetDefaultValues
    \/ SaveBegin \/ SaveOpen \/ SaveCopy \/ SaveSet \/ SaveCommit \/ SaveFail
    \/ PowerCycle

Spec == Init /\ [][Next]_vars

-----------------------------------------------------------------------------
TypeOK ==
    /\ value \in Tables
    /\ flash \in Tables \union {NoBlob}
    /\ pending \in Tables \union {NoBlob}
    /\ boot \in {"read", "check", "reset", "save", "run"}
    /\ save \in {"none", "open", "copy", "commit"}
    /\ copied \subseteq Params
    /\ blob \in Tables
    /\ acked \in Tables \union {NoBlob}

(* Whatever the flash held, once parameters_init has returned no entry is  *)
(* above its maximum, in RAM or in a blob whose save returned true: a blob *)
(* of an earlier firmware, or one copied while the array was being set,    *)
(* never brings one in.                                                    *)
NeverAboveMax ==
    /\ boot \in {"save", "run"} => WithinMax(value)
    /\ acked # NoBlob => WithinMax(acked)

(* A boot that does not reset has adopted the saved blob itself: when the  *)
(* read failed and left the zeros of the array, _check_values refuses them *)
(* (power_on_minutes is never 0) and the defaults are set.                 *)
BootAdoptsSaved ==
    [][boot = "check" /\ boot' = "run" => value' = flash /\ check_values(value')]_vars

(* parameters_save, parameters.h: "Save parameters in nvm. @return true -  *)
(* if success".  What such a save has stored and a boot has read back is   *)
(* not thrown away.                                                        *)
SavedSurvivesBoot ==
    [][boot = "check" /\ value = acked => boot' # "reset"]_vars
=============================================================================
