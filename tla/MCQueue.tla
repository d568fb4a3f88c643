------------------------------ MODULE MCQueue -------------------------------
(***************************************************************************)
(* For TLC: two people and, in some behaviours, a third who stays on one of *)
(* the two images.                                                         *)
(***************************************************************************)
EXTENDS Queue, TLC

CONSTANTS u3, i1

MCStarts == {NoClaims, [NoClaims EXCEPT ![i1] = [by |-> u3, age |-> 0]]}
=============================================================================
