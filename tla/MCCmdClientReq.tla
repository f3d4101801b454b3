--------------------------- MODULE MCCmdClientReq ---------------------------
(* Two callers and one parameter: the client rejects off, the server max.   *)
EXTENDS CmdClientReq, TLC

CONSTANTS p1, off, on, max

MCParams == {p1}
MCValues == {off, on, max}
MCClient == MCParams \X {on, max}
MCServer == MCParams \X {off, on}
MCTable == [p \in MCParams |-> off]
MCSymmetry == Permutations(Callers) \union Permutations(Blocks)
=============================================================================
