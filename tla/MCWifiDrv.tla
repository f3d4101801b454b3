------------------------------ MODULE MCWifiDrv ------------------------------
(* Both modes; an attempt fails twice before it is given up; room for the   *)
(* events of two attempts, so that one is late when the next is made.       *)
EXTENDS WifiDrv

MCTypes == {"server", "client"}
=============================================================================
