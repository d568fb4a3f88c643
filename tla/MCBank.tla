------------------------------- MODULE MCBank -------------------------------
(***************************************************************************)
(* Bank on small instances, for TLC.                                       *)
(***************************************************************************)
EXTENDS Bank, TLC

Symmetry == Permutations(Thread)
=============================================================================
