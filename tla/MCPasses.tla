------------------------------ MODULE MCPasses ------------------------------
(***************************************************************************)
(* Passes on small instances, for TLC.                                     *)
(***************************************************************************)
EXTENDS Passes, TLC
=============================================================================
