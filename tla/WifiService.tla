----------------------------- MODULE WifiService -----------------------------
(***************************************************************************)
(* What backend/wifidrv.c promises to the rest of the program, without     *)
(* saying how: the tasks that registered callbacks are told in turn that   *)
(* the network is up and that it is down, and a request to connect is      *)
(* settled, by a connection or by giving up, only while they were last     *)
(* told down.  WifiDrv implements this specification.                      *)
(***************************************************************************)

VARIABLES
    up,         \* which of the two callback lists ran last
    asked       \* a connection was asked for, and the request is not settled

Init == up = FALSE /\ asked = FALSE

Ask == ~asked /\ asked' = TRUE /\ up' = up

Settle == asked /\ ~up /\ asked' = FALSE /\ up' = up

TellUp == ~up /\ up' = TRUE /\ asked' = asked

TellDown == up /\ up' = FALSE /\ asked' = asked

Next == Ask \/ Settle \/ TellUp \/ TellDown

(* A request takes the network down first, and is settled in the end.      *)
Spec ==
    /\ Init /\ [][Next]_<<up, asked>>
    /\ SF_<<up, asked>>(Settle)
    /\ WF_<<up, asked>>(asked /\ TellDown)
=============================================================================
