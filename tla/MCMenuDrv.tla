------------------------------ MODULE MCMenuDrv ------------------------------
(***************************************************************************)
(* The menu driver with two menus, one of them without a process callback, *)
(* and a table of three, which two calls to enter fill.                    *)
(***************************************************************************)
EXTENDS MenuDrv
=============================================================================
