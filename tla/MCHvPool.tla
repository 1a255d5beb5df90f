------------------------------ MODULE MCHvPool ------------------------------
(***************************************************************************)
(* Small instances of HvPool.                                              *)
(***************************************************************************)
EXTENDS HvPool, TLC

MCSymmetry == Permutations(Cores)
=============================================================================
