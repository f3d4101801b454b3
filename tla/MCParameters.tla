---------------------------- MODULE MCParameters ----------------------------
(* Two entries: a flag (0..1, default 1) like "buzzer", and an entry with  *)
(* a minimum, like "power_on_minutes".  2 is above the maximum of the flag *)
(* and 0 below the minimum of the other.                                   *)
EXTENDS Parameters

CONSTANTS flag, minutes

MCParams == {flag, minutes}
MCU32 == 0..2
MCMin == [p \in MCParams |-> IF p = minutes THEN 1 ELSE 0]
MCMax == [p \in MCParams |-> IF p = minutes THEN 2 ELSE 1]
MCDefault == [p \in MCParams |-> 1]
=============================================================================
