------------------------------- MODULE Passes -------------------------------
(***************************************************************************)
(* Inference passes.  The API runs score, evaluate, autolabel and reembed   *)
(* in a goroutine each (transport/httpapi/jobs.go), reads the sidecar's     *)
(* NDJSON stream (infra/vpe/vpe.go), counts into the job tracker            *)
(* (platform/jobs) and is polled by the browser (runJob in the frontend's   *)
(* api.ts).  In the sidecar (inference/service.py, vpe.py) a pump thread    *)
(* per stream, and a thread per single call, share the checkpoints: one     *)
(* loaded model each, with one class list and one set of prompts, under one *)
(* reentrant lock.                                                          *)
(*                                                                         *)
(* A job's slot is used again when its goroutine, its pump and its poller   *)
(* are through, so a pump that outlives its job keeps the slot.             *)
(***************************************************************************)
EXTENDS Integers, Sequences, FiniteSets

CONSTANTS
  Job,          \* slots for background jobs
  Solo,         \* slots for single calls: /vpe/predict and /vpe/teach
  Checkpoint,   \* the checkpoints loaded
  MaxLines,     \* bound: the most images of a pass, or classes of a teach
  Faults,       \* inference and writes may fail, deadlines pass
  Crashes,      \* the API or the sidecar may restart
  Nobody        \* the owner of a free checkpoint

Worker == Job \cup Solo

ASSUME PassesAssumption ==
  /\ Job \cap Solo = {}
  /\ MaxLines \in Nat
  /\ Faults \in BOOLEAN
  /\ Crashes \in BOOLEAN
  /\ Nobody \notin Worker

VARIABLES
  jobs,         \* the tracker's map
  go,           \* where the goroutine of a job is
  wire,         \* what the stream of a job has sent and nobody has read
  conn,         \* the stream's connection
  poller,       \* the browser that started the job
  work,         \* the sidecar's pump or thread of each job or single call
  owner,        \* who holds a checkpoint's lock
  names,        \* whose class list a checkpoint's model is armed with
  prompts       \* whose boxes a checkpoint's predictor is prompted with

api == <<jobs, go, poller>>
model == <<owner, names, prompts>>
vars == <<api, wire, conn, work, model>>

Kind == {"score", "evaluate", "autolabel", "reembed"}
Op == Kind \cup {"predict", "teach"}

\* The jobs and calls that arm the model and predict, and those that extract.
Predicting == {"score", "evaluate", "autolabel", "predict"}
Extracting == {"reembed", "teach"}

\* A job reports what its pass found, or that there was nothing to do.
Result == {"none", "nothing", "pass"}

JobRecord == [known : BOOLEAN, total : Nat, done : Nat,
              finished : BOOLEAN, error : BOOLEAN, result : Result]
Unknown == [known |-> FALSE, total |-> 0, done |-> 0,
            finished |-> FALSE, error |-> FALSE, result |-> "none"]

WorkRecord == [at : {"call", "wait", "arm", "predict", "set", "get", "leave", "end"},
               op : Op, on : Checkpoint, left : Nat]
Idle == [at |-> "idle", op |-> "none", on |-> Nobody, left |-> 0]

Line == {"line", "done", "error"}

Init ==
  /\ jobs = [j \in Job |-> Unknown]
  /\ go = [j \in Job |-> "idle"]
  /\ wire = [j \in Job |-> <<>>]
  /\ conn = [j \in Job |-> "none"]
  /\ poller = [j \in Job |-> "none"]
  /\ work = [w \in Worker |-> Idle]
  /\ owner = [c \in Checkpoint |-> Nobody]
  /\ names = [c \in Checkpoint |-> Nobody]
  /\ prompts = [c \in Checkpoint |-> Nobody]

-----------------------------------------------------------------------------
(***************************************************************************)
(* The tracker (platform/jobs/jobs.go).                                     *)
(***************************************************************************)
Created(n) == [Unknown EXCEPT !.known = TRUE, !.total = n]

Tick(j) == jobs' = [jobs EXCEPT ![j].done = @ + 1]

\* A job of an API that has restarted since is not in the map any more.
Finish(j) == jobs' = [jobs EXCEPT ![j].finished = TRUE, ![j].result = "pass"]

\* The goroutine gives up: it closes the stream and records the error.
Fail(j) ==
  /\ jobs' = [jobs EXCEPT ![j].finished = TRUE, ![j].error = TRUE]
  /\ go' = [go EXCEPT ![j] = "idle"]
  /\ conn' = [conn EXCEPT ![j] = "none"]
  /\ wire' = [wire EXCEPT ![j] = <<>>]

\* A slot is free once its goroutine, its poller and its pump are through.
Free(j) == go[j] = "idle" /\ poller[j] # "polling" /\ work[j] = Idle

-----------------------------------------------------------------------------
(***************************************************************************)
(* A job: its handler, its goroutine, its poller.                           *)
(***************************************************************************)
\* n images, or n instances of the bank: a benchmark without ground truth and
\* a score of nothing do not get here.
Begin(j, op, c, n) ==
  /\ Free(j)
  /\ n = 0 => op \in {"autolabel", "reembed"}
  /\ jobs' = [jobs EXCEPT ![j] = Created(n)]
  /\ go' = [go EXCEPT ![j] = "call"]
  /\ poller' = [poller EXCEPT ![j] = "polling"]
  /\ work' = [work EXCEPT ![j] = [at |-> "call", op |-> op, on |-> c, left |-> n]]
  /\ UNCHANGED <<wire, conn, model>>

\* Score of n images with an empty bank, or of none: a job that is finished at
\* once, whatever n is.
BeginNothing(j, n) ==
  /\ Free(j)
  /\ jobs' = [jobs EXCEPT ![j] = [Created(n) EXCEPT !.finished = TRUE, !.result = "nothing"]]
  /\ poller' = [poller EXCEPT ![j] = "polling"]
  /\ UNCHANGED <<go, wire, conn, work, model>>

\* POST to the sidecar: the endpoint answers at once and starts the pump.  A
\* reembed plans the instances that are there now: a teach may have added some
\* since the job was created.
Call(j) ==
  /\ go[j] = "call"
  /\ go' = [go EXCEPT ![j] = "read"]
  /\ conn' = [conn EXCEPT ![j] = "open"]
  /\ \E n \in work[j].left..MaxLines :
       /\ n # work[j].left => work[j].op = "reembed"
       /\ work' = [work EXCEPT ![j].at = "wait", ![j].left = n]
  /\ UNCHANGED <<jobs, poller, wire, model>>

\* The sidecar refuses (a bank it cannot read) or cannot be reached.
CallRefused(j) ==
  /\ Faults /\ go[j] = "call"
  /\ Fail(j)
  /\ work' = [work EXCEPT ![j] = Idle]
  /\ UNCHANGED <<poller, model>>

ReadLine(j) ==
  /\ go[j] = "read" /\ wire[j] # <<>> /\ Head(wire[j]) = "line"
  /\ Tick(j)
  /\ wire' = [wire EXCEPT ![j] = Tail(@)]
  /\ UNCHANGED <<go, conn, poller, work, model>>

\* Deliberate bug: an error line is recorded and read past.
ReadErrorOn(j) ==
  /\ go[j] = "read" /\ wire[j] # <<>> /\ Head(wire[j]) = "error"
  /\ jobs' = [jobs EXCEPT ![j].finished = TRUE, ![j].error = TRUE]
  /\ go' = [go EXCEPT ![j] = "finish"]
  /\ conn' = [conn EXCEPT ![j] = "none"]
  /\ wire' = [wire EXCEPT ![j] = <<>>]
  /\ UNCHANGED <<poller, work, model>>

ReadError(j) ==
  /\ go[j] = "read" /\ wire[j] # <<>> /\ Head(wire[j]) = "error"
  /\ Fail(j)
  /\ UNCHANGED <<poller, work, model>>

ReadDone(j) ==
  /\ go[j] = "read" /\ wire[j] # <<>> /\ Head(wire[j]) = "done"
  /\ go' = [go EXCEPT ![j] = "finish"]
  /\ conn' = [conn EXCEPT ![j] = "none"]
  /\ wire' = [wire EXCEPT ![j] = <<>>]
  /\ UNCHANGED <<jobs, poller, work, model>>

\* Deliberate bug: the end of the body is the end of the pass.
EofIsDone(j) ==
  /\ go[j] = "read" /\ conn[j] = "cut"
  /\ wire' = [wire EXCEPT ![j] = <<>>]
  /\ go' = [go EXCEPT ![j] = "finish"]
  /\ conn' = [conn EXCEPT ![j] = "none"]
  /\ UNCHANGED <<jobs, poller, work, model>>

\* The body ends without the terminator; what it had not delivered is lost.
Eof(j) ==
  /\ go[j] = "read" /\ conn[j] = "cut"
  /\ Fail(j)
  /\ UNCHANGED <<poller, work, model>>

\* What follows the stream: metrics, MarkAuto, the bank's summary.
Complete(j) ==
  /\ go[j] = "finish"
  /\ Finish(j)
  /\ go' = [go EXCEPT ![j] = "idle"]
  /\ UNCHANGED <<poller, wire, conn, work, model>>

\* onLine cannot write, the summary cannot be read, or jobContext's deadline
\* has passed.  The sidecar is not told.
GiveUp(j) ==
  /\ Faults /\ go[j] \in {"read", "finish"}
  /\ Fail(j)
  /\ UNCHANGED <<poller, work, model>>

\* Deliberate bug: a job the API does not know is one that is still running.
PollOn(j) ==
  /\ poller[j] = "polling" /\ jobs[j].finished
  /\ poller' = [poller EXCEPT ![j] = IF jobs[j].error THEN "rejected" ELSE "resolved"]
  /\ UNCHANGED <<jobs, go, wire, conn, work, model>>

\* One GET /api/jobs/{id} that ends the polling.
Poll(j) ==
  /\ poller[j] = "polling"
  /\ jobs[j].known => jobs[j].finished
  /\ poller' = [poller EXCEPT ![j] = IF jobs[j].known /\ ~jobs[j].error
                                     THEN "resolved" ELSE "rejected"]
  /\ UNCHANGED <<jobs, go, wire, conn, work, model>>

\* Any error of the request itself ends the polling too.
PollFails(j) ==
  /\ Faults /\ poller[j] = "polling"
  /\ poller' = [poller EXCEPT ![j] = "rejected"]
  /\ UNCHANGED <<jobs, go, wire, conn, work, model>>

-----------------------------------------------------------------------------
(***************************************************************************)
(* The sidecar.  w is the pump of a job's stream or the thread of a call.   *)
(***************************************************************************)
Step(w, at) == work' = [work EXCEPT ![w].at = at]

\* A line goes to whoever still listens; the pump does not wait for anybody.
Send(w, line) ==
  wire' = [j \in Job |-> IF j = w /\ conn[j] = "open" THEN Append(wire[j], line) ELSE wire[j]]

\* POST /vpe/predict and /vpe/teach.  Whether the caller stays does not matter.
SoloCall(s, op, c, n) ==
  /\ work[s] = Idle
  /\ work' = [work EXCEPT ![s] = [at |-> "wait", op |-> op, on |-> c, left |-> n]]
  /\ UNCHANGED <<api, wire, conn, model>>

\* Deliberate bug: a pass does not take the lock.
EnterAnyway(w) ==
  /\ work[w].at = "wait"
  /\ owner' = [owner EXCEPT ![work[w].on] = w]
  /\ Step(w, IF work[w].op \in Predicting THEN "arm"
             ELSE IF work[w].left > 0 THEN "set" ELSE "leave")
  /\ UNCHANGED <<api, wire, conn, names, prompts>>

\* with model_lock(...), or the same inside armed().
Enter(w) ==
  /\ work[w].at = "wait" /\ owner[work[w].on] = Nobody
  /\ owner' = [owner EXCEPT ![work[w].on] = w]
  /\ Step(w, IF work[w].op \in Predicting THEN "arm"
             ELSE IF work[w].left > 0 THEN "set" ELSE "leave")
  /\ UNCHANGED <<api, wire, conn, names, prompts>>

Arm(w) ==
  /\ work[w].at = "arm"
  /\ names' = [names EXCEPT ![work[w].on] = w]
  /\ Step(w, IF work[w].left > 0 THEN "predict" ELSE "leave")
  /\ UNCHANGED <<api, wire, conn, owner, prompts>>

\* Deliberate bug: a queue of one line, which an absent reader never empties.
PredictIfRead(w) ==
  /\ work[w].at = "predict"
  /\ w \in Job => conn[w] = "open" /\ wire[w] = <<>>
  /\ Send(w, "line")
  /\ work' = [work EXCEPT ![w].left = @ - 1,
                          ![w].at = IF work[w].left = 1 THEN "leave" ELSE "predict"]
  /\ UNCHANGED <<api, conn, model>>

\* predict_one on the next image, decoded with the pass's own class list.
Predict(w) ==
  /\ work[w].at = "predict"
  /\ Send(w, "line")
  /\ work' = [work EXCEPT ![w].left = @ - 1,
                          ![w].at = IF work[w].left = 1 THEN "leave" ELSE "predict"]
  /\ UNCHANGED <<api, conn, model>>

\* extract_embedding: set_prompts, then get_vpe, under the lock, which a
\* reembed already holds.
SetPrompts(w) ==
  /\ work[w].at = "set"
  /\ prompts' = [prompts EXCEPT ![work[w].on] = w]
  /\ Step(w, "get")
  /\ UNCHANGED <<api, wire, conn, owner, names>>

\* A teach gives the lock back after each class, a reembed after the last.
GetVpe(w) ==
  /\ work[w].at = "get"
  /\ Send(w, "line")
  /\ work' = [work EXCEPT ![w].left = @ - 1,
                          ![w].at = IF work[w].op = "reembed" /\ work[w].left > 1
                                    THEN "set" ELSE "leave"]
  /\ UNCHANGED <<api, conn, model>>

\* Deliberate bug: the lock is released by a thread that does not hold it.
LeaveElsewhere(w) ==
  /\ work[w].at = "leave"
  /\ Step(w, IF work[w].left > 0 THEN "wait" ELSE "end")
  /\ UNCHANGED <<api, wire, conn, owner, names, prompts>>

Leave(w) ==
  /\ work[w].at = "leave"
  /\ owner' = [owner EXCEPT ![work[w].on] = Nobody]
  /\ Step(w, IF work[w].left > 0 THEN "wait" ELSE "end")
  /\ UNCHANGED <<api, wire, conn, names, prompts>>

\* The terminator, after the lock; a reembed commits first and may be refused.
Terminate(w) ==
  /\ work[w].at = "end"
  /\ \/ Send(w, "done")
     \/ Faults /\ work[w].op = "reembed" /\ Send(w, "error")
  /\ work' = [work EXCEPT ![w] = Idle]
  /\ UNCHANGED <<api, conn, model>>

\* An exception under the lock: the with statement releases it on the way out.
Raise(w) ==
  /\ Faults /\ work[w].at \in {"arm", "predict", "set", "get"}
  /\ owner' = [owner EXCEPT ![work[w].on] = Nobody]
  /\ Send(w, "error")
  /\ work' = [work EXCEPT ![w] = Idle]
  /\ UNCHANGED <<api, conn, names, prompts>>

-----------------------------------------------------------------------------
\* The tracker and the goroutines are gone; the sidecar's threads carry on.
RestartAPI ==
  /\ Crashes
  /\ jobs' = [j \in Job |-> Unknown]
  /\ go' = [j \in Job |-> "idle"]
  /\ conn' = [j \in Job |-> "none"]
  /\ wire' = [j \in Job |-> <<>>]
  /\ work' = [w \in Worker |-> IF work[w].at = "call" THEN Idle ELSE work[w]]
  /\ UNCHANGED <<poller, model>>

\* Every thread is gone, and the connections are cut.
RestartSidecar ==
  /\ Crashes
  /\ work' = [w \in Worker |-> IF work[w].at = "call" THEN work[w] ELSE Idle]
  /\ owner' = [c \in Checkpoint |-> Nobody]
  /\ names' = [c \in Checkpoint |-> Nobody]
  /\ prompts' = [c \in Checkpoint |-> Nobody]
  /\ conn' = [j \in Job |-> IF conn[j] = "open" THEN "cut" ELSE conn[j]]
  /\ UNCHANGED <<api, wire>>

WorkerStep(w) ==
  \/ Arm(w) \/ Predict(w) \/ SetPrompts(w) \/ GetVpe(w) \/ Leave(w) \/ Terminate(w)

JobStep(j) ==
  \/ Call(j) \/ ReadLine(j) \/ ReadError(j) \/ ReadDone(j) \/ Eof(j) \/ Complete(j)

Next ==
  \/ \E j \in Job :
       \/ \E n \in 0..MaxLines :
            BeginNothing(j, n) \/ \E op \in Kind, c \in Checkpoint : Begin(j, op, c, n)
       \/ CallRefused(j) \/ GiveUp(j) \/ Poll(j) \/ PollFails(j) \/ JobStep(j)
  \/ \E s \in Solo, c \in Checkpoint :
       \/ SoloCall(s, "predict", c, 1)
       \/ \E n \in 1..MaxLines : SoloCall(s, "teach", c, n)
  \/ \E w \in Worker : Enter(w) \/ WorkerStep(w) \/ Raise(w)
  \/ RestartAPI
  \/ RestartSidecar

Spec == Init /\ [][Next]_vars

\* Goroutines and threads run, browsers poll, and a thread that waits for a
\* checkpoint gets it when it keeps coming free.
Fairness ==
  /\ \A j \in Job : WF_vars(JobStep(j)) /\ WF_vars(Poll(j))
  /\ \A w \in Worker : SF_vars(Enter(w)) /\ WF_vars(WorkerStep(w))

FairSpec == Spec /\ Fairness

-----------------------------------------------------------------------------
(***************************************************************************)
(* Properties.                                                              *)
(***************************************************************************)

\* Every variable has its type, and the stream of a job is open only while
\* its goroutine reads.
TypeOK ==
  /\ jobs \in [Job -> JobRecord]
  /\ go \in [Job -> {"idle", "call", "read", "finish"}]
  /\ wire \in [Job -> Seq(Line)]
  /\ conn \in [Job -> {"none", "open", "cut"}]
  /\ poller \in [Job -> {"none", "polling", "resolved", "rejected"}]
  /\ work \in [Worker -> WorkRecord \cup {Idle}]
  /\ owner \in [Checkpoint -> Worker \cup {Nobody}]
  /\ names \in [Checkpoint -> Worker \cup {Nobody}]
  /\ prompts \in [Checkpoint -> Worker \cup {Nobody}]
  /\ \A j \in Job : conn[j] # "none" <=> go[j] = "read"

\* A pass decodes its detections with its own class list, and an extraction
\* averages its own boxes, whatever else runs on the checkpoint (vpe.py: a
\* second arm() would silently relabel the rest of the batch).
OwnResults ==
  \A w \in Worker :
    /\ work[w].at = "predict" => names[work[w].on] = w
    /\ work[w].at = "get" => prompts[work[w].on] = w

\* A job reports what its pass found only if the pass covered all it was asked
\* to: a stream cut short, by a crash of either process or an error, is a failure
\* (vpe.go: reporting it as success would record a partial run as a complete
\* one).  One that reports that there was nothing to do has not begun: it may
\* stand at none of n images (jobs.go, Score with an empty bank).
NoPartialResult ==
  \A j \in Job :
    /\ jobs[j].result = "pass" => ~jobs[j].error /\ jobs[j].done >= jobs[j].total
    /\ jobs[j].result = "nothing" => ~jobs[j].error /\ jobs[j].done = 0

\* What the tracker holds of a job.
RunOf(j) == [state |-> CASE jobs[j].result = "pass" -> "succeeded"
                         [] jobs[j].result = "nothing" -> "nothing"
                         [] jobs[j].error /\ jobs[j].result = "none" -> "failed"
                         [] jobs[j].known /\ ~jobs[j].error /\ jobs[j].result = "none" -> "running"
                         [] OTHER -> "unknown",
             done  |-> jobs[j].done,
             total |-> jobs[j].total]

Promise == INSTANCE JobLife WITH run <- [j \in Job |-> RunOf(j)], told <- poller

\* A run, whatever its stream, its pump and both processes do meanwhile, is
\* what its browser was promised: it counts while it runs, comes to one verdict
\* that no late line changes, succeeds only when it has counted all of its
\* images or was over before it began, and is reported as a success only if it
\* was one (jobs.go, vpe.go, api.ts: runJob).
RunsAsPromised == Promise!Spec

\* No checkpoint stays locked: a pass that its client has abandoned gives it
\* back as well (service.py, _ndjson: the pump drains the pass to its end).
CheckpointReleased == \A c \in Checkpoint : []<>(owner[c] = Nobody)

\* Every background job ends, without the help of its deadline.
EveryJobEnds == \A j \in Job : go[j] # "idle" ~> go[j] = "idle"

\* Every run the browser started is resolved or rejected, also when the API
\* that knew it restarts (api.ts, runJob).
EveryPollerSettles == \A j \in Job : poller[j] = "polling" ~> poller[j] # "polling"
=============================================================================
