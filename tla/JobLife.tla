------------------------------ MODULE JobLife ------------------------------
(***************************************************************************)
(* What starting a background pass promises the browser that starts it,    *)
(* apart from goroutines, streams and threads.  A run counts its images    *)
(* and comes to one verdict, which stands: success only when it has        *)
(* counted all it was asked to.  One that finds nothing to do is over when *)
(* it starts, and says so.  A restart of the server forgets every run.     *)
(* The browser hears of a success that happened, or of a failure.          *)
(***************************************************************************)
EXTENDS Naturals

CONSTANT Job

VARIABLES run,     \* of each job: its state, what it has counted, of how many
          told     \* what the browser that started it knows

life == <<run, told>>

Init ==
  /\ run = [j \in Job |-> [state |-> "unknown", done |-> 0, total |-> 0]]
  /\ told = [j \in Job |-> "none"]

Verdict(j, state) == run' = [run EXCEPT ![j].state = state]
Tell(j, what) == told' = [told EXCEPT ![j] = what]

Start(j) ==
  /\ run[j].state # "running" /\ told[j] # "polling"
  /\ LET n == run'[j].total
     IN  /\ n \in Nat
         /\ \E state \in {"running", "nothing"} :
              run' = [run EXCEPT ![j] = [state |-> state, done |-> 0, total |-> n]]
  /\ Tell(j, "polling")

Count(j) ==
  /\ run[j].state = "running"
  /\ run' = [run EXCEPT ![j].done = @ + 1]
  /\ UNCHANGED told

Succeed(j) ==
  /\ run[j].state = "running" /\ run[j].done >= run[j].total
  /\ Verdict(j, "succeeded")
  /\ UNCHANGED told

Fail(j) ==
  /\ run[j].state = "running"
  /\ Verdict(j, "failed")
  /\ UNCHANGED told

Hear(j) ==
  /\ told[j] = "polling" /\ run[j].state \in {"succeeded", "nothing"}
  /\ Tell(j, "resolved")
  /\ UNCHANGED run

\* Also of a run that nobody remembers, or that is out of reach.
Despair(j) ==
  /\ told[j] = "polling"
  /\ Tell(j, "rejected")
  /\ UNCHANGED run

Forget ==
  /\ run' = [j \in Job |-> [state |-> "unknown", done |-> 0, total |-> 0]]
  /\ UNCHANGED told

Next ==
  \/ \E j \in Job : \/ Start(j) \/ Count(j) \/ Succeed(j) \/ Fail(j)
                    \/ Hear(j) \/ Despair(j)
  \/ Forget

Spec == Init /\ [][Next]_life
=============================================================================
