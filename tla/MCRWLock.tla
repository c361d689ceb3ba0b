------------------------------ MODULE MCRWLock ------------------------------
(***************************************************************************)
(* RWLock for TLC.                                                         *)
(***************************************************************************)
EXTENDS RWLock, TLC

\* The LWPs are interchangeable.
Symmetry == Permutations(LWP)
=============================================================================
