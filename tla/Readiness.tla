----------------------------- MODULE Readiness -----------------------------
(***************************************************************************)
(* Measuring the model and handing the rest of the pool to it: the         *)
(* readiness card of PoolPanel.tsx, the model picker with its confirmation *)
(* and the guarded jobs of session.ts, against a server on which somebody  *)
(* else switches models too.                                   *)
(*                                                                         *)
(* Of a bank only its model matters here.  There is an answer key to       *)
(* measure against, see Benchmark.                                         *)
(***************************************************************************)
EXTENDS Naturals, FiniteSets

CONSTANTS Models, None,
          MaxOps,      \* bound: jobs and saves of this tab
          MaxOthers    \* bound: what the other annotator does to the bank

VARIABLES
  bank,          \* the model of the bank as last heard
  evalResult,    \* what was measured, and whether it clears the bar
  staleScores,   \* saves since the last re-check
  left,          \* images remain to be labeled
  confirm,       \* confirmAuto: the warning about a low F1
  target,        \* the model chosen to switch to, its confirmation open
  busy, ops,
  srvBank, opCount, others,
  raced,         \* history: Enter was pressed while something ran
  lost           \* history: a switch of models was not heard to the end

tab  == <<bank, evalResult, staleScores, left, confirm, target, busy>>
used == <<opCount, others, raced, lost>>
vars == <<tab, ops, srvBank, used>>

Measured == [bank : Models, ready : BOOLEAN]
Kinds    == {"eval", "append", "rescore", "auto", "reembed", "save"}
Op == [id : 1..MaxOps, kind : Kinds, to : Models \cup {None}, st : {"sent", "served"},
       bank : Models \cup {None}, ready : BOOLEAN]

TypeOK ==
  /\ {bank, srvBank} \subseteq Models
  /\ evalResult \in Measured \cup {None}
  /\ staleScores \in 0..MaxOps
  /\ {left, confirm, busy, raced, lost} \subseteq BOOLEAN
  /\ target \in Models \cup {None}
  /\ ops \subseteq Op /\ opCount \in 0..MaxOps /\ others \in 0..MaxOthers

-----------------------------------------------------------------------------
guard(kind, to) ==
  /\ opCount < MaxOps /\ opCount' = opCount + 1
  /\ ops' = ops \cup {[id |-> opCount + 1, kind |-> kind, to |-> to, st |-> "sent",
                       bank |-> None, ready |-> FALSE]}
  /\ busy' = TRUE
  /\ raced' = (raced \/ busy)
  /\ UNCHANGED <<bank, evalResult, staleScores, left, srvBank, others, lost>>

\* The page behind an open dialog has no buttons, but its keys.
NoDialog == ~(confirm /\ evalResult # None) /\ target = None

runEval == NoDialog /\ ~busy /\ guard("eval", None) /\ UNCHANGED <<confirm, target>>
rescore == NoDialog /\ ~busy /\ guard("rescore", None) /\ UNCHANGED <<confirm, target>>

\* Enter saves whatever runs.
save == guard("save", None) /\ UNCHANGED <<confirm, target>>

SaveNothing == /\ busy /\ busy' = FALSE /\ raced' = TRUE
               /\ UNCHANGED <<bank, evalResult, staleScores, left, confirm, target, ops, srvBank,
                              opCount, others, lost>>

runAuto == guard("auto", None)

\* Under the bar the warning comes first; its button asks nothing more.
askAutoLabel ==
  /\ NoDialog /\ evalResult # None /\ left /\ ~busy
  /\ \/ evalResult.ready /\ runAuto /\ UNCHANGED <<confirm, target>>
     \/ /\ ~evalResult.ready /\ confirm' = TRUE
        /\ UNCHANGED <<bank, evalResult, staleScores, left, target, busy, ops, srvBank, used>>

LabelAnyway == /\ confirm /\ evalResult # None
               /\ runAuto /\ confirm' = FALSE /\ UNCHANGED target

NotNow == /\ confirm /\ evalResult # None /\ confirm' = FALSE
          /\ UNCHANGED <<bank, evalResult, staleScores, left, target, busy, ops, srvBank, used>>

\* The model picker: choose, Go, confirm.
Go(m) == /\ NoDialog /\ ~busy /\ m # bank /\ target' = m
         /\ UNCHANGED <<bank, evalResult, staleScores, left, confirm, busy, ops, srvBank, used>>

reembedModel == target # None /\ guard("reembed", target) /\ target' = None /\ UNCHANGED confirm

KeepModel == /\ target # None /\ target' = None
             /\ UNCHANGED <<bank, evalResult, staleScores, left, confirm, busy, ops, srvBank, used>>

-----------------------------------------------------------------------------
\* runJob polls until the job is finished: what it did, it did before.
Serve(op) ==
  /\ op.st = "sent"
  /\ srvBank' = IF op.kind = "reembed" THEN op.to ELSE srvBank
  /\ \E ready \in IF op.kind = "eval" THEN BOOLEAN ELSE {FALSE} :
       ops' = (ops \ {op}) \cup {[op EXCEPT !.st = "served", !.ready = ready, !.bank = srvBank']}
  /\ UNCHANGED <<tab, used>>

Settle(op) == op.st = "served" /\ ops' = ops \ {op} /\ busy' = FALSE
              /\ UNCHANGED <<target, srvBank, used>>

\* The result counts before its place in the history is written.
EvalAnswer(op) ==
  /\ op.kind = "eval" /\ op.st = "served"
  /\ evalResult' = [bank |-> op.bank, ready |-> op.ready]
  /\ ops' = (ops \ {op}) \cup {[op EXCEPT !.kind = "append", !.st = "sent", !.bank = None, !.ready = FALSE]}
  /\ UNCHANGED <<bank, staleScores, left, confirm, target, busy, srvBank, used>>

AppendAnswer(op) == op.kind = "append" /\ Settle(op)
                    /\ UNCHANGED <<bank, evalResult, staleScores, left, confirm>>

RescoreAnswer(op) == op.kind = "rescore" /\ Settle(op) /\ staleScores' = 0
                     /\ UNCHANGED <<bank, evalResult, left, confirm>>

AutoAnswer(op) == op.kind = "auto" /\ Settle(op) /\ bank' = op.bank /\ left' \in {left, FALSE}
                  /\ UNCHANGED <<evalResult, staleScores, confirm>>

SaveAnswer(op) == op.kind = "save" /\ Settle(op) /\ bank' = op.bank /\ left' \in {left, FALSE}
                  /\ staleScores' = staleScores + 1
                  /\ UNCHANGED <<evalResult, confirm>>

\* Deliberate bug: a switch keeps the measurement.
ReembedKeeps(op) == op.kind = "reembed" /\ Settle(op) /\ bank' = op.bank
                    /\ UNCHANGED <<evalResult, staleScores, left, confirm>>

\* Everything measured with the old model is forgotten.
ReembedAnswer(op) == op.kind = "reembed" /\ Settle(op) /\ bank' = op.bank
                     /\ evalResult' = None /\ staleScores' = 0
                     /\ UNCHANGED <<left, confirm>>

Answer(op) == \/ EvalAnswer(op) \/ AppendAnswer(op) \/ RescoreAnswer(op)
              \/ AutoAnswer(op) \/ SaveAnswer(op) \/ ReembedAnswer(op)

\* Refused, or lost before or after it was done.
OpFails(op) == /\ ops' = ops \ {op} /\ busy' = FALSE
               /\ lost' = (lost \/ op.kind = "reembed")
               /\ UNCHANGED <<bank, evalResult, staleScores, left, confirm, target, srvBank,
                              opCount, others, raced>>

OtherSwitches ==
  /\ others < MaxOthers /\ others' = others + 1
  /\ srvBank' \in Models
  /\ UNCHANGED <<tab, ops, opCount, raced, lost>>

Init ==
  /\ srvBank \in Models
  /\ bank = srvBank /\ evalResult = None /\ staleScores = 0 /\ left = TRUE
  /\ confirm = FALSE /\ target = None /\ busy = FALSE
  /\ ops = {} /\ opCount = 0 /\ others = 0 /\ raced = FALSE /\ lost = FALSE

Next ==
  \/ runEval \/ rescore \/ save \/ SaveNothing
  \/ askAutoLabel \/ LabelAnyway \/ NotNow
  \/ (\E m \in Models : Go(m)) \/ reembedModel \/ KeepModel
  \/ (\E op \in ops : Serve(op) \/ Answer(op) \/ OpFails(op)) \/ OtherSwitches

Spec == Init /\ [][Next]_vars

-----------------------------------------------------------------------------
(* The rest of the pool is only handed to the model that was measured, in  *)
(* every order of clicks, failures and answers: switching the model        *)
(* forgets the measurement (session.ts:759-774) -- unless Enter starts a   *)
(* save while something runs, the answer of a switch is lost, or somebody  *)
(* else changes the bank.  Of the model only: what is saved after a        *)
(* measurement teaches the bank, and the measurement stands.               *)
HandsToMeasured ==
  \A op \in ops' \ ops :
    op.kind = "auto" /\ op.st = "sent" /\ ~raced' /\ ~lost /\ others = 0
      => evalResult # None /\ evalResult.bank = srvBank
=============================================================================
