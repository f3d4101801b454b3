----------------------------- MODULE MCCmdClient -----------------------------
(* One or two descriptors: lwIP hands out the lowest free one, so a new     *)
(* connection mostly has the number of the old one, and another when some   *)
(* other socket of the device took it meanwhile.                            *)
EXTENDS CmdClient

MCFds == 0..1
=============================================================================
