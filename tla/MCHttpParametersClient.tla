----------------------- MODULE MCHttpParametersClient -----------------------
(***************************************************************************)
(* Two callers, a heap of one request, a queue of one, two parameters.     *)
(* The server has a value of "on", 1, that the client does not accept; of  *)
(* "level" the client accepts 1, which the server refuses, and 2, which    *)
(* "%ld" prints as negative and the server reads as 0.                     *)
(***************************************************************************)
EXTENDS HttpParametersClient, TLC

CONSTANTS a, b, on, level

MCCallers == {a, b}
MCParams == {on, level}
MCValues == 0 .. 2
MCClientMax == on :> 0 @@ level :> 2
MCServerMax == on :> 1 @@ level :> 0
=============================================================================
