----------------------------- MODULE ClassLists -----------------------------
(***************************************************************************)
(* Append-only class lists.  CT-Flow keeps two for the pool of a project:  *)
(* the rows of table classes (backend/internal/infra/store/store.go) and   *)
(* the key order of the prompt bank (backend/inference/bank.py).  A label  *)
(* is a position in such a list, so what matters about a list is the index *)
(* it gives to each name.                                                  *)
(***************************************************************************)
EXTENDS Integers, FiniteSets, Sequences

CONSTANT Class      \* the class names users can draw

ASSUME ClassFinite == IsFiniteSet(Class)

(***************************************************************************)
(* A list maps a class to its index, and to Unlisted when it is not there. *)
(***************************************************************************)
Unlisted == -1
ClassList == [Class -> Nat \cup {Unlisted}]
EmptyList == [c \in Class |-> Unlisted]

Known(list) == {c \in Class : list[c] # Unlisted}

(***************************************************************************)
(* The boxes of one request, as the sequence of the classes they name in   *)
(* order of first appearance: two boxes of one class are the same class    *)
(* twice, which neither list tells apart.                                  *)
(***************************************************************************)
Names(drawn) == {drawn[k] : k \in DOMAIN drawn}
At(drawn, c) == CHOOSE k \in DOMAIN drawn : drawn[k] = c
Drawings(n) == {d \in UNION {[1..m -> Class] : m \in 0..n} :
                  \A j, k \in DOMAIN d : d[j] = d[k] => j = k}

(***************************************************************************)
(* Get-or-create every class of drawn, in order.  A new class gets the     *)
(* index after the last one: COALESCE(MAX(idx), -1) + 1 in the database    *)
(* and the end of the dict in the bank.  The list has no gap, so that      *)
(* index is the number of classes already there.                           *)
(***************************************************************************)
Fresh(list, drawn) == Names(drawn) \ Known(list)

Register(list, drawn) ==
  LET fresh == Fresh(list, drawn)
      ahead(c) == {d \in fresh : At(drawn, d) < At(drawn, c)}
  IN  [c \in Class |-> IF c \in fresh
                       THEN Cardinality(Known(list)) + Cardinality(ahead(c))
                       ELSE list[c]]
=============================================================================
