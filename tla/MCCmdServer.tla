----------------------------- MODULE MCCmdServer -----------------------------
(* Three descriptors: one more than the server uses, so that the numbers    *)
(* move from one connection to the next.                                    *)
EXTENDS CmdServer

MCFds == 0..2
=============================================================================
