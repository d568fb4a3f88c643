----------------------------- MODULE AtomicBank -----------------------------
(***************************************************************************)
(* What the prompt bank promises, apart from its two files and its lock:    *)
(* one list of vectors per class and one model, changed by whole calls, one *)
(* after another.  A bank has no model until a call locks it, to any model  *)
(* while it is empty and to the default one if its vectors are from before  *)
(* models could be chosen; to any model, too, once a call has gone on with  *)
(* vectors and no model (skipped).  From then on a teach adds a vector, and *)
(* a reembed gives every vector and the bank itself to another model at     *)
(* once.                                                                    *)
(***************************************************************************)
EXTENDS Naturals, Sequences

CONSTANTS Class, Model,
          Default,   \* the model of a bank that has vectors and no model
          NoModel

VARIABLES vec,       \* the vectors of each class, by the model they are from
          model,     \* the model the bank is locked to
          skipped    \* a call has gone on with vectors and no model

bank == <<vec, model, skipped>>

IsEmpty == \A c \in Class : vec[c] = <<>>

Init ==
  /\ model = NoModel
  /\ skipped = FALSE
  /\ \A c \in Class : \A k \in DOMAIN vec[c] : vec[c][k] = Default

LockModel(m) ==
  /\ model = NoModel
  /\ IsEmpty \/ m = Default \/ skipped
  /\ model' = m
  /\ UNCHANGED <<vec, skipped>>

\* A call finds vectors without a model and goes on all the same.
Skip ==
  /\ ~IsEmpty
  /\ skipped' = TRUE
  /\ UNCHANGED <<vec, model>>

\* The model is the teach's own: add does not ask which one the bank has by then.
Teach(c, m) ==
  /\ model # NoModel
  /\ vec' = [vec EXCEPT ![c] = Append(@, m)]
  /\ UNCHANGED <<model, skipped>>

Reembed(m) ==
  /\ model # NoModel
  /\ vec' = [c \in Class |-> [k \in 1..Len(vec[c]) |-> m]]
  /\ model' = m
  /\ UNCHANGED skipped

Next == \/ Skip
        \/ \E m \in Model : \/ LockModel(m) \/ Reembed(m)
                            \/ \E c \in Class : Teach(c, m)

Spec == Init /\ [][Next]_bank
=============================================================================
