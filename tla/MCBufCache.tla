----------------------------- MODULE MCBufCache -----------------------------
(***************************************************************************)
(* TLC instances of BufCache.                                              *)
(***************************************************************************)
EXTENDS BufCache

Symmetry == Permutations(Lwp) \cup Permutations(Blk) \cup Permutations(Buf)
=============================================================================
