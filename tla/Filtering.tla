----------------------------- MODULE Filtering -----------------------------
(***************************************************************************)
(* Array.filter.  SelectSeq with the test "is in S" returns the same list  *)
(* (MCScreens compares them); written with sets of places, Keep can be     *)
(* proved about.                                                           *)
(***************************************************************************)
EXTENDS Naturals, Sequences, FiniteSets

\* The j-th smallest member of a set of places.
Nth(K, j) == CHOOSE k \in K : Cardinality({i \in K : i <= k}) = j

\* The elements of s that are in S, in their order.
Keep(s, S) ==
  LET K == {k \in DOMAIN s : s[k] \in S}
  IN  [j \in 1..Cardinality(K) |-> s[Nth(K, j)]]
=============================================================================
