------------------------------ MODULE MCTraps -------------------------------
(***************************************************************************)
(* TLC instances of Traps.                                                 *)
(***************************************************************************)
EXTENDS Traps, TLC

CONSTANTS l1, l2, l3
=============================================================================
