----------------------------- MODULE MCLabeling -----------------------------
(***************************************************************************)
(* Labeling on small instances, for TLC.                                   *)
(***************************************************************************)
EXTENDS Labeling, TLC

Symmetry == Permutations(Image) \cup Permutations(Class) \cup Permutations(Request)
=============================================================================
