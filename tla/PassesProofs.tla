---------------------------- MODULE PassesProofs ----------------------------
(***************************************************************************)
(* Proofs about Passes: any jobs, single calls, checkpoints and lengths,    *)
(* with failures, abandoned streams and restarts of either process.         *)
(***************************************************************************)
EXTENDS Passes, SequenceTheorems, TLAPS

\* Where a thread holds the lock of its checkpoint.
Inside == {"arm", "predict", "set", "get", "leave"}

\* The terminator is the last line of a stream, and ends it.
Ended(s) == Len(s) > 0 /\ s[Len(s)] # "line"

\* The images a stream has sent and nobody has counted.
Sent(s) == IF Ended(s) THEN Len(s) - 1 ELSE Len(s)

\* Mutual exclusion: whoever is inside owns the checkpoint.
Exclusive == \A w \in Worker : work[w].at \in Inside => owner[work[w].on] = w

\* What the steps under the lock rely on.
WorkOK ==
  \A w \in Worker :
    /\ work[w].at \in {"predict", "set", "get"} => work[w].left > 0
    /\ work[w].at = "end" => work[w].left = 0

\* A stream is lines and then at most one terminator; the pump of an open
\* stream is at work until it has sent it.  What a job has counted, what is on
\* the wire and what is left to do add up.  A job has no verdict as long as its
\* goroutine runs.
JobInv(j) ==
  /\ \A i \in 1..(Len(wire[j]) - 1) : wire[j][i] = "line"
  /\ go[j] = "call" => work[j].at = "call" /\ work[j].left >= jobs[j].total
  /\ work[j].at = "call" => go[j] = "call"
  /\ go[j] # "read" => wire[j] = <<>>
  /\ conn[j] = "open" => (Ended(wire[j]) <=> work[j] = Idle)
  /\ go[j] = "read" /\ Ended(wire[j]) /\ wire[j][Len(wire[j])] = "done" =>
       jobs[j].done + Sent(wire[j]) >= jobs[j].total
  /\ go[j] = "read" /\ conn[j] = "open" /\ ~Ended(wire[j]) =>
       jobs[j].done + Sent(wire[j]) + work[j].left >= jobs[j].total
  /\ go[j] = "finish" => jobs[j].done >= jobs[j].total
  /\ go[j] # "idle" => /\ jobs[j].known /\ ~jobs[j].finished
                       /\ ~jobs[j].error /\ jobs[j].result = "none"
  /\ jobs[j].result = "pass" => ~jobs[j].error /\ jobs[j].done >= jobs[j].total
  /\ jobs[j].result = "nothing" => ~jobs[j].error /\ jobs[j].done = 0

StreamInv == \A j \in Job : JobInv(j)

\* TypeOK, for the sidecar and for the API.
SidecarOK ==
  /\ work \in [Worker -> WorkRecord \cup {Idle}]
  /\ owner \in [Checkpoint -> Worker \cup {Nobody}]
  /\ names \in [Checkpoint -> Worker \cup {Nobody}]
  /\ prompts \in [Checkpoint -> Worker \cup {Nobody}]

APIOK ==
  /\ jobs \in [Job -> JobRecord]
  /\ go \in [Job -> {"idle", "call", "read", "finish"}]
  /\ wire \in [Job -> Seq(Line)]
  /\ conn \in [Job -> {"none", "open", "cut"}]
  /\ poller \in [Job -> {"none", "polling", "resolved", "rejected"}]
  /\ \A j \in Job : conn[j] # "none" <=> go[j] = "read"

LockInv == SidecarOK /\ Exclusive /\ WorkOK /\ OwnResults
Inv == APIOK /\ LockInv /\ StreamInv

-----------------------------------------------------------------------------
(***************************************************************************)
(* The sidecar: one thread at a time arms, prompts and predicts.            *)
(***************************************************************************)
LEMMA WorkTypes ==
  ASSUME SidecarOK, NEW w \in Worker, work[w].at # "idle"
  PROVE  /\ work[w] \in WorkRecord
         /\ work[w].on \in Checkpoint /\ work[w].left \in Nat /\ work[w].op \in Op
<1>1. work[w] # Idle  BY DEF Idle
<1>2. work[w] \in WorkRecord  BY <1>1 DEF SidecarOK
<1> QED  BY <1>2 DEF WorkRecord

\* A thread goes on to another step, with at most one image done.
LEMMA MoveType ==
  ASSUME SidecarOK, NEW w \in Worker, work[w].at # "idle",
         NEW at \in {"wait", "arm", "predict", "set", "get", "leave", "end"},
         NEW left \in Nat,
         work' = [work EXCEPT ![w].at = at, ![w].left = left]
  PROVE  work' \in [Worker -> WorkRecord \cup {Idle}]
<1> DEFINE r == [work[w] EXCEPT !.at = at, !.left = left]
<1>1. r \in WorkRecord  BY WorkTypes DEF WorkRecord
<1>2. work' = [work EXCEPT ![w] = r]  BY DEF SidecarOK
<1> HIDE DEF r
<1> QED  BY <1>1, <1>2 DEF SidecarOK

\* Two threads that are inside are inside different checkpoints.
LEMMA Apart ==
  ASSUME LockInv, NEW w \in Worker, NEW u \in Worker, u # w,
         work[w].at \in Inside, work[u].at \in Inside
  PROVE  work[u].on # work[w].on
BY DEF LockInv, Exclusive

LEMMA LockInit == Init => LockInv
BY DEF Init, LockInv, SidecarOK, Exclusive, WorkOK, OwnResults, Idle, Inside

LEMMA StartLock ==
  ASSUME LockInv, NEW w \in Worker, work[w] = Idle,
         NEW at \in {"call", "wait"}, NEW op \in Op, NEW c \in Checkpoint, NEW n \in Nat,
         work' = [work EXCEPT ![w] = [at |-> at, op |-> op, on |-> c, left |-> n]],
         UNCHANGED model
  PROVE  LockInv'
<1> DEFINE r == [at |-> at, op |-> op, on |-> c, left |-> n]
<1>1. r \in WorkRecord /\ r.at \in {"call", "wait"}  BY DEF WorkRecord
<1> HIDE DEF r
<1>2. work' = [work EXCEPT ![w] = r]  BY DEF r
<1>3. SidecarOK'  BY <1>1, <1>2 DEF LockInv, SidecarOK, model
<1>4. \A u \in Worker : u # w => work'[u] = work[u]  BY <1>2 DEF LockInv, SidecarOK
<1>5. work'[w].at \in {"call", "wait"}  BY <1>1, <1>2 DEF LockInv, SidecarOK
<1> QED  BY <1>3, <1>4, <1>5 DEF LockInv, Exclusive, WorkOK, OwnResults, Inside, model

\* A thread that is outside, or gone with the lock given back.
LEMMA StopLock ==
  ASSUME LockInv, NEW w \in Worker, work' = [work EXCEPT ![w] = Idle],
         UNCHANGED <<names, prompts>>,
         \/ UNCHANGED owner /\ work[w].at \notin Inside
         \/ owner' = [owner EXCEPT ![work[w].on] = Nobody] /\ work[w].at \in Inside
  PROVE  LockInv'
<1>1. SidecarOK'  BY DEF LockInv, SidecarOK
<1>2. \A u \in Worker : u # w => work'[u] = work[u]  BY DEF LockInv, SidecarOK
<1>3. work'[w].at = "idle"  BY DEF LockInv, SidecarOK, Idle
<1>4. Exclusive'
  <2> SUFFICES ASSUME NEW u \in Worker, work'[u].at \in Inside PROVE owner'[work'[u].on] = u
    BY DEF Exclusive
  <2>1. u # w /\ work'[u] = work[u]  BY <1>2, <1>3 DEF Inside
  <2>2. work[u].on \in Checkpoint  BY <2>1, WorkTypes DEF LockInv, Inside
  <2> QED  BY <2>1, <2>2, Apart DEF LockInv, SidecarOK, Exclusive
<1> QED  BY <1>1, <1>2, <1>3, <1>4 DEF LockInv, WorkOK, OwnResults

\* A step of thread w that ends inside, owning its checkpoint.
LEMMA InsideLock ==
  ASSUME LockInv, NEW w \in Worker, work[w].at # "idle",
         NEW at \in Inside, NEW left \in Nat,
         work' = [work EXCEPT ![w].at = at, ![w].left = left],
         SidecarOK',
         \/ work[w].at \in Inside /\ UNCHANGED owner
         \/ owner[work[w].on] = Nobody /\ owner' = [owner EXCEPT ![work[w].on] = w],
         \A c \in Checkpoint \ {work[w].on} : names'[c] = names[c] /\ prompts'[c] = prompts[c],
         at \in {"predict", "set", "get"} => left > 0,
         at = "predict" => names'[work[w].on] = w,
         at = "get" => prompts'[work[w].on] = w
  PROVE  LockInv'
<1>1. work[w].on \in Checkpoint  BY WorkTypes DEF LockInv
<1>2. /\ work'[w].at = at /\ work'[w].left = left /\ work'[w].on = work[w].on
      /\ \A u \in Worker : u # w => work'[u] = work[u]
  <2>1. work[w] \in WorkRecord  BY WorkTypes DEF LockInv
  <2>2. work'[w] = [work[w] EXCEPT !.at = at, !.left = left]  BY DEF LockInv, SidecarOK
  <2> QED  BY <2>1, <2>2 DEF WorkRecord, LockInv, SidecarOK
<1>3. owner'[work[w].on] = w
  BY <1>1 DEF LockInv, SidecarOK, Exclusive
<1>4. ASSUME NEW u \in Worker, u # w, work[u].at \in Inside
      PROVE  /\ work[u].on \in Checkpoint \ {work[w].on}
             /\ owner'[work[u].on] = u
  <2>1. work[u].on \in Checkpoint  BY <1>4, WorkTypes DEF LockInv, Inside
  <2>2. owner[work[u].on] = u  BY <1>4 DEF LockInv, Exclusive
  <2>3. work[u].on # work[w].on
    BY <1>4, <2>2, Apart, PassesAssumption
  <2> QED  BY <2>1, <2>2, <2>3 DEF LockInv, SidecarOK
<1>5. Exclusive'  BY <1>2, <1>3, <1>4 DEF Exclusive
<1>6. WorkOK'  BY <1>2 DEF LockInv, WorkOK, Inside
<1>7. OwnResults'
  <2> SUFFICES ASSUME NEW u \in Worker
               PROVE  /\ work'[u].at = "predict" => names'[work'[u].on] = u
                      /\ work'[u].at = "get" => prompts'[work'[u].on] = u
    BY DEF OwnResults
  <2>1. CASE u = w  BY <2>1, <1>2
  <2>2. ASSUME u # w, work[u].at \in {"predict", "get"}
        PROVE  /\ names'[work[u].on] = names[work[u].on]
               /\ prompts'[work[u].on] = prompts[work[u].on]
    BY <2>2, <1>4 DEF Inside
  <2>3. CASE u # w  BY <2>2, <2>3, <1>2 DEF LockInv, OwnResults
  <2> QED  BY <2>1, <2>3
<1> QED  BY <1>5, <1>6, <1>7 DEF LockInv

LEMMA EnterLock == ASSUME LockInv, NEW w \in Worker, Enter(w) PROVE LockInv'
<1> DEFINE at == IF work[w].op \in Predicting THEN "arm"
                 ELSE IF work[w].left > 0 THEN "set" ELSE "leave"
<1>1. work[w].at # "idle"  BY DEF Enter
<1>2. /\ at \in {"arm", "set", "leave"} /\ (at = "set" => work[w].left > 0)
      /\ work[w].left \in Nat /\ work[w].on \in Checkpoint
  BY <1>1, WorkTypes DEF LockInv
<1>3. work' = [work EXCEPT ![w].at = at]  BY DEF Enter, Step
<1> HIDE DEF at
<1>4. work' = [work EXCEPT ![w].at = at, ![w].left = work[w].left]
  <2>1. work[w] \in WorkRecord  BY <1>1, WorkTypes DEF LockInv
  <2>2. [work[w] EXCEPT !.at = at] = [work[w] EXCEPT !.at = at, !.left = work[w].left]
    BY <2>1 DEF WorkRecord
  <2> QED  BY <1>3, <2>2 DEF LockInv, SidecarOK
<1>5. SidecarOK'
  <2>1. work' \in [Worker -> WorkRecord \cup {Idle}]  BY <1>1, <1>2, <1>4, MoveType DEF LockInv
  <2> QED  BY <2>1 DEF LockInv, SidecarOK, Enter
<1> QED  BY <1>1, <1>2, <1>4, <1>5, InsideLock DEF Enter, Inside

\* A step of a thread that is inside already.
LEMMA StayLock ==
  ASSUME LockInv, NEW w \in Worker, work[w].at \in Inside,
         NEW at \in Inside, NEW left \in Nat,
         work' = [work EXCEPT ![w].at = at, ![w].left = left],
         UNCHANGED owner,
         UNCHANGED names \/ names' = [names EXCEPT ![work[w].on] = w],
         UNCHANGED prompts \/ prompts' = [prompts EXCEPT ![work[w].on] = w],
         at \in {"predict", "set", "get"} => left > 0,
         at = "predict" => names'[work[w].on] = w,
         at = "get" => prompts'[work[w].on] = w
  PROVE  LockInv'
<1>1. work[w].at # "idle"  BY DEF Inside
<1>2. work[w].on \in Checkpoint  BY <1>1, WorkTypes DEF LockInv
<1>3. work' \in [Worker -> WorkRecord \cup {Idle}]
  BY <1>1, MoveType DEF LockInv, Inside
<1>4. SidecarOK'  BY <1>2, <1>3 DEF LockInv, SidecarOK
<1>5. \A c \in Checkpoint \ {work[w].on} : names'[c] = names[c] /\ prompts'[c] = prompts[c]
  BY DEF LockInv, SidecarOK
<1> QED  BY <1>1, <1>4, <1>5, InsideLock

\* A thread gives the lock back and goes on outside.
LEMMA LeaveLock == ASSUME LockInv, NEW w \in Worker, Leave(w) PROVE LockInv'
<1> DEFINE at == IF work[w].left > 0 THEN "wait" ELSE "end"
<1>1. work[w].at = "leave"  BY DEF Leave
<1>2. work[w] \in WorkRecord /\ work[w].on \in Checkpoint /\ work[w].left \in Nat
  BY <1>1, WorkTypes DEF LockInv
<1>3. work' = [work EXCEPT ![w].at = at]  BY DEF Leave, Step
<1>4. at \in {"wait", "end"} /\ (at = "end" => work[w].left = 0)  BY <1>2
<1> HIDE DEF at
<1>5. /\ work'[w] = [work[w] EXCEPT !.at = at]
      /\ \A u \in Worker : u # w => work'[u] = work[u]
  BY <1>3 DEF LockInv, SidecarOK
<1>6. work'[w].at = at /\ work'[w].left = work[w].left /\ work'[w] \in WorkRecord
  BY <1>2, <1>4, <1>5 DEF WorkRecord
<1>7. SidecarOK'  BY <1>3, <1>5, <1>6 DEF LockInv, SidecarOK, Leave
<1>8. Exclusive'
  <2> SUFFICES ASSUME NEW u \in Worker, work'[u].at \in Inside PROVE owner'[work'[u].on] = u
    BY DEF Exclusive
  <2>1. u # w /\ work'[u] = work[u]  BY <1>4, <1>5, <1>6 DEF Inside
  <2>2. work[u].on \in Checkpoint /\ work[u].on # work[w].on
    BY <1>1, <2>1, WorkTypes, Apart DEF LockInv, Inside
  <2> QED  BY <2>1, <2>2 DEF LockInv, SidecarOK, Exclusive, Leave
<1>9. WorkOK'  BY <1>4, <1>5, <1>6 DEF LockInv, WorkOK
<1>10. OwnResults'
  <2> SUFFICES ASSUME NEW u \in Worker, work'[u].at \in {"predict", "get"}
               PROVE  /\ work'[u].at = "predict" => names[work'[u].on] = u
                      /\ work'[u].at = "get" => prompts[work'[u].on] = u
    BY DEF OwnResults, Leave
  <2>1. work'[u] = work[u]  BY <1>4, <1>5, <1>6
  <2> QED  BY <2>1 DEF LockInv, OwnResults
<1> QED  BY <1>7, <1>8, <1>9, <1>10 DEF LockInv

\* The ways the steps of a thread are written are the same.
LEMMA StepForm ==
  ASSUME SidecarOK, NEW w \in Worker, work[w].at # "idle", NEW at, Step(w, at)
  PROVE  work' = [work EXCEPT ![w].at = at, ![w].left = work[w].left]
<1>1. work[w] \in WorkRecord  BY WorkTypes
<1>2. [work[w] EXCEPT !.at = at] = [work[w] EXCEPT !.at = at, !.left = work[w].left]
  BY <1>1 DEF WorkRecord
<1> QED  BY <1>2 DEF SidecarOK, Step

LEMMA LeftForm ==
  ASSUME SidecarOK, NEW w \in Worker, work[w].at # "idle", NEW at, NEW left
  PROVE  [work EXCEPT ![w].left = left, ![w].at = at]
           = [work EXCEPT ![w].at = at, ![w].left = left]
<1>1. work[w] \in WorkRecord  BY WorkTypes
<1>2. [work[w] EXCEPT !.left = left, !.at = at] = [work[w] EXCEPT !.at = at, !.left = left]
  BY <1>1 DEF WorkRecord
<1> QED  BY <1>2 DEF SidecarOK

LEMMA PassLock ==
  ASSUME LockInv, NEW w \in Worker, Arm(w) \/ Predict(w) \/ SetPrompts(w) \/ GetVpe(w)
  PROVE  LockInv'
<1>1. work[w].at \in Inside /\ work[w].at # "idle"
  BY DEF Arm, Predict, SetPrompts, GetVpe, Inside
<1>2. work[w].left \in Nat /\ work[w].on \in Checkpoint  BY <1>1, WorkTypes DEF LockInv
<1>3. CASE Arm(w)
  <2> DEFINE at == IF work[w].left > 0 THEN "predict" ELSE "leave"
  <2>1. at \in Inside /\ (at \in {"predict", "set", "get"} => work[w].left > 0)
        /\ at # "get"
    BY DEF Inside
  <2>2. Step(w, at)  BY <1>3 DEF Arm
  <2> HIDE DEF at
  <2>3. work' = [work EXCEPT ![w].at = at, ![w].left = work[w].left]
    BY <1>1, <2>2, StepForm DEF LockInv
  <2>4. names' = [names EXCEPT ![work[w].on] = w] /\ names'[work[w].on] = w
        /\ UNCHANGED <<owner, prompts>>
    BY <1>2, <1>3 DEF Arm, LockInv, SidecarOK
  <2> QED  BY <1>1, <1>2, <2>1, <2>3, <2>4, StayLock
<1>4. CASE Predict(w)
  <2> DEFINE at == IF work[w].left = 1 THEN "leave" ELSE "predict"
             left == work[w].left - 1
  <2>1. work[w].left > 0 /\ names[work[w].on] = w
    BY <1>4 DEF Predict, LockInv, WorkOK, OwnResults
  <2>2. at \in Inside /\ left \in Nat /\ (at \in {"predict", "set", "get"} => left > 0)
        /\ at # "get"
    BY <1>2, <2>1 DEF Inside
  <2>3. work' = [work EXCEPT ![w].left = left, ![w].at = at] /\ UNCHANGED model
    BY <1>4 DEF Predict
  <2> HIDE DEF at, left
  <2>4. work' = [work EXCEPT ![w].at = at, ![w].left = left]
    BY <1>1, <2>3, LeftForm DEF LockInv
  <2> QED  BY <1>1, <2>1, <2>2, <2>3, <2>4, StayLock DEF model
<1>5. CASE SetPrompts(w)
  <2>1. work[w].left > 0  BY <1>5 DEF SetPrompts, LockInv, WorkOK
  <2>2. work' = [work EXCEPT ![w].at = "get", ![w].left = work[w].left]
    BY <1>1, <1>5, StepForm DEF SetPrompts, LockInv
  <2>3. prompts' = [prompts EXCEPT ![work[w].on] = w] /\ prompts'[work[w].on] = w
        /\ UNCHANGED <<owner, names>>
    BY <1>2, <1>5 DEF SetPrompts, LockInv, SidecarOK
  <2>4. "get" \in Inside  BY DEF Inside
  <2> QED  BY <1>1, <1>2, <2>1, <2>2, <2>3, <2>4, StayLock
<1>6. CASE GetVpe(w)
  <2> DEFINE at == IF work[w].op = "reembed" /\ work[w].left > 1 THEN "set" ELSE "leave"
             left == work[w].left - 1
  <2>1. work[w].left > 0  BY <1>6 DEF GetVpe, LockInv, WorkOK
  <2>2. at \in Inside /\ left \in Nat /\ (at \in {"predict", "set", "get"} => left > 0)
        /\ at # "get" /\ at # "predict"
    BY <1>2, <2>1 DEF Inside
  <2>3. work' = [work EXCEPT ![w].left = left, ![w].at = at] /\ UNCHANGED model
    BY <1>6 DEF GetVpe
  <2> HIDE DEF at, left
  <2>4. work' = [work EXCEPT ![w].at = at, ![w].left = left]
    BY <1>1, <2>3, LeftForm DEF LockInv
  <2> QED  BY <1>1, <2>2, <2>3, <2>4, StayLock DEF model
<1> QED  BY <1>3, <1>4, <1>5, <1>6

LEMMA RestartLock == ASSUME LockInv, RestartAPI \/ RestartSidecar PROVE LockInv'
<1>1. CASE RestartAPI
  <2>1. SidecarOK'  BY <1>1 DEF RestartAPI, LockInv, SidecarOK, model
  <2>2. \A w \in Worker : work'[w] = work[w] \/ work'[w] = Idle
    BY <1>1 DEF RestartAPI
  <2> QED  BY <1>1, <2>1, <2>2
           DEF RestartAPI, LockInv, Exclusive, WorkOK, OwnResults, model, Inside, Idle
<1>2. CASE RestartSidecar
  <2>1. SidecarOK'  BY <1>2 DEF RestartSidecar, LockInv, SidecarOK
  <2>2. \A w \in Worker : work'[w].at \in {"call", "idle"}
    BY <1>2 DEF RestartSidecar, Idle
  <2> QED  BY <2>1, <2>2 DEF LockInv, Exclusive, WorkOK, OwnResults, Inside
<1> QED  BY <1>1, <1>2

LEMMA CallLock == ASSUME LockInv, NEW j \in Job, Call(j), work[j].at = "call" PROVE LockInv'
<1>1. PICK n \in work[j].left..MaxLines :
        work' = [work EXCEPT ![j].at = "wait", ![j].left = n]
  BY DEF Call
<1>2. j \in Worker /\ work[j].at # "idle" /\ n \in Nat
  BY WorkTypes DEF LockInv, Worker
<1>3. work' \in [Worker -> WorkRecord \cup {Idle}]
  BY <1>1, <1>2, MoveType DEF LockInv
<1>4. work'[j].at = "wait"
  <2>1. work[j] \in WorkRecord  BY <1>2, WorkTypes DEF LockInv
  <2>2. work'[j] = [work[j] EXCEPT !.at = "wait", !.left = n]
    BY <1>1, <1>2 DEF LockInv, SidecarOK
  <2> QED  BY <2>1, <2>2 DEF WorkRecord
<1>5. \A u \in Worker : u # j => work'[u] = work[u]  BY <1>1 DEF LockInv, SidecarOK
<1> QED  BY <1>3, <1>4, <1>5
         DEF Call, model, LockInv, SidecarOK, Exclusive, WorkOK, OwnResults, Inside

-----------------------------------------------------------------------------
(***************************************************************************)
(* The streams.                                                             *)
(***************************************************************************)
\* What a step does not touch of a job keeps the job's invariant.
LEMMA Untouched ==
  ASSUME NEW j \in Job, JobInv(j),
         jobs'[j] = jobs[j], go'[j] = go[j], wire'[j] = wire[j], conn'[j] = conn[j],
         work'[j] = work[j]
  PROVE  JobInv(j)'
BY DEF JobInv, Ended, Sent

LEMMA StreamInit == Init => APIOK /\ StreamInv
<1> SUFFICES ASSUME Init PROVE APIOK /\ StreamInv  OBVIOUS
<1>1. Unknown \in JobRecord /\ Unknown.result = "none" /\ Idle.at # "call"
  BY DEF Unknown, JobRecord, Result, Idle
<1>2. <<>> \in Seq(Line) /\ Len(<<>>) = 0  BY EmptySeq
<1>3. APIOK  BY <1>1, <1>2 DEF Init, APIOK
<1>4. ASSUME NEW j \in Job PROVE JobInv(j)
  <2>1. /\ jobs[j] = Unknown /\ go[j] = "idle" /\ wire[j] = <<>> /\ conn[j] = "none"
        /\ work[j] = Idle
    BY DEF Init, Worker
  <2> QED  BY <1>1, <1>2, <2>1 DEF JobInv
<1> QED  BY <1>3, <1>4 DEF StreamInv

\* A goroutine that gives up, its stream with it.
LEMMA FailJob ==
  ASSUME Inv, NEW j \in Job, go[j] # "idle", Fail(j), UNCHANGED poller,
         work' = work \/ work' = [work EXCEPT ![j] = Idle], work'[j].at # "call"
  PROVE  APIOK' /\ StreamInv'
<1>1. /\ jobs' \in [Job -> JobRecord]
      /\ jobs'[j].finished /\ jobs'[j].error /\ jobs'[j].result = "none"
  <2>1. jobs[j].result = "none" /\ jobs[j] \in JobRecord  BY DEF Inv, StreamInv, JobInv, APIOK
  <2> QED  BY <2>1 DEF Fail, Inv, APIOK, JobRecord
<1>2. go'[j] = "idle" /\ conn'[j] = "none" /\ wire'[j] = <<>>
  BY DEF Fail, Inv, APIOK
<1>3. APIOK'  BY <1>1, <1>2 DEF Fail, Inv, APIOK
<1>4. JobInv(j)'  BY <1>1, <1>2 DEF JobInv, Ended
<1>5. ASSUME NEW i \in Job, i # j PROVE JobInv(i)'
  <2>1. JobInv(i)  BY DEF Inv, StreamInv
  <2>2. work'[i] = work[i]  BY <1>5 DEF Inv, LockInv, SidecarOK, Worker
  <2> QED  BY <1>5, <2>1, <2>2, Untouched DEF Fail, Inv, APIOK
<1> QED  BY <1>3, <1>4, <1>5 DEF StreamInv

LEMMA BeginJob ==
  ASSUME Inv, NEW j \in Job, NEW op \in Kind, NEW c \in Checkpoint, NEW n \in 0..MaxLines,
         Begin(j, op, c, n)
  PROVE  APIOK' /\ StreamInv'
<1>1. n \in Nat  OBVIOUS
<1>2. go[j] = "idle" /\ conn[j] = "none" /\ wire[j] = <<>>
  BY DEF Begin, Free, Inv, APIOK, StreamInv, JobInv
<1>3. /\ jobs' = [jobs EXCEPT ![j] = Created(n)] /\ Created(n) \in JobRecord
      /\ Created(n).known /\ ~Created(n).finished /\ ~Created(n).error /\ Created(n).result = "none"
      /\ Created(n).total = n
  BY <1>1 DEF Begin, Created, Unknown, JobRecord, Result
<1>4. jobs' \in [Job -> JobRecord] /\ jobs'[j] = Created(n)  BY <1>3 DEF Inv, APIOK
<1>5. go' = [go EXCEPT ![j] = "call"] /\ poller' = [poller EXCEPT ![j] = "polling"]
      /\ UNCHANGED <<wire, conn>>
  BY DEF Begin
<1>6. APIOK'  BY <1>2, <1>4, <1>5 DEF Inv, APIOK
<1>7. work'[j] = [at |-> "call", op |-> op, on |-> c, left |-> n]
  BY DEF Begin, Inv, LockInv, SidecarOK, Worker
<1>8. JobInv(j)'
  BY <1>1, <1>2, <1>3, <1>4, <1>5, <1>7 DEF Inv, APIOK, JobInv, Ended
<1>9. ASSUME NEW i \in Job, i # j PROVE JobInv(i)'
  <2>1. JobInv(i)  BY DEF Inv, StreamInv
  <2>2. work'[i] = work[i]  BY <1>9 DEF Begin, Inv, LockInv, SidecarOK, Worker
  <2> QED  BY <1>9, <2>1, <2>2, Untouched DEF Begin, Inv, APIOK
<1> QED  BY <1>6, <1>8, <1>9 DEF StreamInv

LEMMA BeginNothingJob ==
  ASSUME Inv, NEW j \in Job, NEW n \in 0..MaxLines, BeginNothing(j, n)
  PROVE  APIOK' /\ StreamInv'
<1> DEFINE r == [Created(n) EXCEPT !.finished = TRUE, !.result = "nothing"]
<1>0. n \in Nat  OBVIOUS
<1>1. r \in JobRecord /\ ~r.error /\ r.done = 0 /\ r.result = "nothing"
  BY <1>0 DEF Created, Unknown, JobRecord, Result
<1>2. jobs' = [jobs EXCEPT ![j] = r]  BY DEF BeginNothing
<1> HIDE DEF r
<1>3. jobs' \in [Job -> JobRecord] /\ jobs'[j] = r  BY <1>1, <1>2 DEF Inv, APIOK
<1>4. UNCHANGED <<go, wire, conn, work>> /\ go[j] = "idle" /\ work[j] = Idle
  BY DEF BeginNothing, Free
<1>5. APIOK'  BY <1>3, <1>4 DEF Inv, APIOK, BeginNothing
<1>6. JobInv(j)'
  BY <1>1, <1>3, <1>4 DEF Inv, APIOK, StreamInv, JobInv, Ended, Idle
<1>7. ASSUME NEW i \in Job, i # j PROVE JobInv(i)'
  BY <1>2, <1>4, <1>7, Untouched DEF Inv, APIOK, StreamInv
<1> QED  BY <1>5, <1>6, <1>7 DEF StreamInv

LEMMA CallJob ==
  ASSUME Inv, NEW j \in Job, Call(j)
  PROVE  APIOK' /\ StreamInv'
<1>1. PICK n \in work[j].left..MaxLines :
        work' = [work EXCEPT ![j].at = "wait", ![j].left = n]
  BY DEF Call
<1>2. go[j] = "call" /\ conn[j] = "none" /\ wire[j] = <<>> /\ work[j].at = "call"
      /\ work[j].left >= jobs[j].total
  BY DEF Call, Inv, APIOK, StreamInv, JobInv
<1>3. work[j] \in WorkRecord /\ work[j].left \in Nat /\ n \in Nat
  BY <1>2, WorkTypes DEF Inv, LockInv, Worker
<1>4. jobs[j].total \in Nat /\ jobs[j].done \in Nat  BY DEF Inv, APIOK, JobRecord
<1>5. work'[j].at = "wait" /\ work'[j].left = n
  <2>1. work'[j] = [work[j] EXCEPT !.at = "wait", !.left = n]
    BY <1>1 DEF Inv, LockInv, SidecarOK, Worker
  <2> QED  BY <1>3, <2>1 DEF WorkRecord
<1>6. go' = [go EXCEPT ![j] = "read"] /\ conn' = [conn EXCEPT ![j] = "open"]
      /\ UNCHANGED <<jobs, poller, wire>>
  BY DEF Call
<1>7. APIOK'  BY <1>6 DEF Inv, APIOK
<1>8. work'[j] # Idle  BY <1>5 DEF Idle
<1>9. JobInv(j)'
  <2>1. JobInv(j) /\ go'[j] = "read" /\ conn'[j] = "open" /\ wire'[j] = <<>> /\ jobs'[j] = jobs[j]
    BY <1>2, <1>6 DEF Inv, APIOK, StreamInv
  <2>2. n >= jobs[j].total  BY <1>1, <1>2, <1>3, <1>4
  <2> QED  BY <1>2, <1>4, <1>3, <1>5, <1>8, <2>1, <2>2 DEF JobInv, Ended, Sent
<1>10. ASSUME NEW i \in Job, i # j PROVE JobInv(i)'
  <2>1. work'[i] = work[i]  BY <1>1, <1>10 DEF Inv, LockInv, SidecarOK, Worker
  <2> QED  BY <1>6, <1>10, <2>1, Untouched DEF Inv, APIOK, StreamInv
<1> QED  BY <1>7, <1>9, <1>10 DEF StreamInv

\* Reading a line off a stream, and sending one.
LEMMA ReadStream ==
  ASSUME NEW s \in Seq(Line), NEW t \in Seq(Line), Len(s) > 0, s[1] = "line",
         Len(t) = Len(s) - 1, \A i \in 1..Len(t) : t[i] = s[i + 1],
         \A i \in 1..(Len(s) - 1) : s[i] = "line"
  PROVE  /\ \A i \in 1..(Len(t) - 1) : t[i] = "line"
         /\ (Ended(t) <=> Ended(s))
         /\ Sent(t) = Sent(s) - 1
         /\ (Ended(s) => t[Len(t)] = s[Len(s)])
<1>1. Len(s) \in Nat /\ Len(t) \in Nat  OBVIOUS
<1>2. ASSUME NEW i \in 1..(Len(t) - 1) PROVE t[i] = "line"
  <2>1. i \in 1..Len(t) /\ i + 1 \in 1..(Len(s) - 1)  BY <1>1
  <2> QED  BY <2>1
<1>3. CASE Len(s) = 1  BY <1>1, <1>2, <1>3 DEF Ended, Sent
<1>4. CASE Len(s) > 1
  <2>1. Len(t) \in 1..Len(t) /\ Len(t) + 1 = Len(s)  BY <1>1, <1>4
  <2>2. t[Len(t)] = s[Len(s)]  BY <2>1
  <2> QED  BY <1>1, <1>2, <1>4, <2>1, <2>2 DEF Ended, Sent
<1> QED  BY <1>1, <1>3, <1>4

LEMMA SendStream ==
  ASSUME NEW s \in Seq(Line), NEW l \in Line, ~Ended(s),
         \A i \in 1..(Len(s) - 1) : s[i] = "line"
  PROVE  /\ Append(s, l) \in Seq(Line)
         /\ \A i \in 1..(Len(Append(s, l)) - 1) : Append(s, l)[i] = "line"
         /\ Ended(Append(s, l)) <=> l # "line"
         /\ Append(s, l)[Len(Append(s, l))] = l
         /\ Sent(Append(s, l)) = IF l = "line" THEN Sent(s) + 1 ELSE Sent(s)
<1>1. /\ Append(s, l) \in Seq(Line) /\ Len(Append(s, l)) = Len(s) + 1 /\ Len(s) \in Nat
      /\ Append(s, l)[Len(s) + 1] = l
      /\ \A i \in 1..Len(s) : Append(s, l)[i] = s[i]
  OBVIOUS
<1>2. \A i \in 1..Len(s) : s[i] = "line"
  <2> SUFFICES ASSUME NEW i \in 1..Len(s) PROVE s[i] = "line"  OBVIOUS
  <2>1. CASE i = Len(s)  BY <2>1, <1>1 DEF Ended
  <2>2. CASE i # Len(s)  BY <2>2, <1>1
  <2> QED  BY <2>1, <2>2
<1>3. Ended(Append(s, l)) <=> l # "line"  BY <1>1 DEF Ended
<1> QED  BY <1>1, <1>2, <1>3 DEF Sent

LEMMA ReadLineJob ==
  ASSUME Inv, NEW j \in Job, ReadLine(j)
  PROVE  APIOK' /\ StreamInv'
<1> DEFINE r == [jobs[j] EXCEPT !.done = jobs[j].done + 1]
<1>1. /\ go[j] = "read" /\ wire[j] # <<>> /\ Head(wire[j]) = "line"
      /\ wire' = [wire EXCEPT ![j] = Tail(wire[j])]
      /\ jobs' = [jobs EXCEPT ![j] = r]
      /\ UNCHANGED <<go, conn, poller, work>>
  BY DEF ReadLine, Tick, Inv, APIOK
<1>2. jobs[j] \in JobRecord /\ wire[j] \in Seq(Line) /\ JobInv(j)
  BY DEF Inv, APIOK, StreamInv
<1>3. /\ r \in JobRecord /\ r.done = jobs[j].done + 1 /\ r.total = jobs[j].total
      /\ r.known = jobs[j].known /\ r.finished = jobs[j].finished
      /\ r.error = jobs[j].error /\ r.result = jobs[j].result
  BY <1>2 DEF JobRecord
<1> HIDE DEF r
<1>4. /\ wire'[j] \in Seq(Line)
      /\ \A i \in 1..(Len(wire'[j]) - 1) : wire'[j][i] = "line"
      /\ (Ended(wire'[j]) <=> Ended(wire[j]))
      /\ Sent(wire'[j]) = Sent(wire[j]) - 1
      /\ (Ended(wire[j]) => wire'[j][Len(wire'[j])] = wire[j][Len(wire[j])])
  <2>1. wire'[j] = Tail(wire[j])  BY <1>1 DEF Inv, APIOK
  <2>2. /\ wire'[j] \in Seq(Line) /\ Len(wire'[j]) = Len(wire[j]) - 1
        /\ \A i \in 1..Len(wire'[j]) : wire'[j][i] = wire[j][i + 1]
    BY <1>1, <1>2, <2>1, HeadTailProperties
  <2>3. Len(wire[j]) > 0 /\ wire[j][1] = "line"  BY <1>1, <1>2, EmptySeq
  <2>4. \A i \in 1..(Len(wire[j]) - 1) : wire[j][i] = "line"  BY <1>2 DEF JobInv
  <2> QED  BY <1>2, <2>2, <2>3, <2>4, ReadStream
<1>5. wire' \in [Job -> Seq(Line)]  BY <1>1, <1>4 DEF Inv, APIOK
<1>6. jobs'[j] = r /\ jobs' \in [Job -> JobRecord]  BY <1>1, <1>3 DEF Inv, APIOK
<1>7. APIOK'  BY <1>1, <1>5, <1>6 DEF Inv, APIOK
<1>8. JobInv(j)'
  <2>1. Sent(wire[j]) \in Int /\ jobs[j].done \in Nat /\ jobs[j].total \in Nat
    BY <1>2 DEF JobRecord, Sent
  <2>2. conn[j] = "open" /\ ~Ended(wire[j]) => work[j].left \in Nat
    BY <1>2, WorkTypes DEF JobInv, Inv, LockInv, SidecarOK, WorkRecord, Worker
  <2>3. go'[j] = "read" /\ conn'[j] = conn[j] /\ work'[j] = work[j]  BY <1>1
  <2>4. jobs'[j].done + Sent(wire'[j]) = jobs[j].done + Sent(wire[j])
    <3>1. jobs'[j].done = jobs[j].done + 1  BY <1>3, <1>6
    <3>2. Sent(wire'[j]) = Sent(wire[j]) - 1  BY <1>4
    <3> QED  BY <2>1, <3>1, <3>2
  <2> QED  BY <1>1, <1>2, <1>3, <1>4, <1>6, <2>1, <2>2, <2>3, <2>4 DEF JobInv
<1>9. ASSUME NEW i \in Job, i # j PROVE JobInv(i)'
  BY <1>1, <1>9, Untouched DEF Inv, APIOK, StreamInv
<1> QED  BY <1>7, <1>8, <1>9 DEF StreamInv

LEMMA ReadDoneJob ==
  ASSUME Inv, NEW j \in Job, ReadDone(j)
  PROVE  APIOK' /\ StreamInv'
<1>1. /\ go[j] = "read" /\ wire[j] # <<>> /\ Head(wire[j]) = "done"
      /\ go' = [go EXCEPT ![j] = "finish"]
      /\ conn' = [conn EXCEPT ![j] = "none"]
      /\ wire' = [wire EXCEPT ![j] = <<>>]
      /\ UNCHANGED <<jobs, poller, work>>
  BY DEF ReadDone
<1>2. wire[j] \in Seq(Line) /\ jobs[j] \in JobRecord /\ JobInv(j)
  BY DEF Inv, APIOK, StreamInv
<1>3. APIOK'
  <2>1. <<>> \in Seq(Line)  OBVIOUS
  <2> QED  BY <1>1, <2>1 DEF Inv, APIOK
<1>4. Len(wire[j]) = 1 /\ wire[j][1] = "done"
  <2>1. Len(wire[j]) \in Nat \ {0} /\ wire[j][1] = "done"  BY <1>1, <1>2, EmptySeq
  <2>2. \A i \in 1..(Len(wire[j]) - 1) : wire[j][i] = "line"  BY <1>2 DEF JobInv
  <2>3. ASSUME NEW s, NEW n \in Nat \ {0}, s[1] = "done",
               \A i \in 1..(n - 1) : s[i] = "line"
        PROVE  n = 1
    <3>1. 1 \notin 1..(n - 1)  BY <2>3
    <3> QED  BY <3>1
  <2> QED  BY <2>1, <2>2, <2>3
<1>5. jobs[j].done >= jobs[j].total
  BY <1>1, <1>2, <1>4 DEF JobInv, Ended, Sent, JobRecord
<1>6. JobInv(j)'
  <2>1. go'[j] = "finish" /\ conn'[j] = "none" /\ wire'[j] = <<>>
        /\ jobs'[j] = jobs[j] /\ work'[j] = work[j]
    BY <1>1 DEF Inv, APIOK
  <2> QED  BY <1>1, <1>2, <1>5, <2>1 DEF JobInv, Ended
<1>7. ASSUME NEW i \in Job, i # j PROVE JobInv(i)'
  BY <1>1, <1>7, Untouched DEF Inv, APIOK, StreamInv
<1> QED  BY <1>3, <1>6, <1>7 DEF StreamInv

LEMMA CompleteJob ==
  ASSUME Inv, NEW j \in Job, Complete(j)
  PROVE  APIOK' /\ StreamInv'
<1> DEFINE r == [jobs[j] EXCEPT !.finished = TRUE, !.result = "pass"]
<1>1. /\ go[j] = "finish" /\ go' = [go EXCEPT ![j] = "idle"]
      /\ UNCHANGED <<poller, wire, conn, work>>
      /\ jobs' = [jobs EXCEPT ![j] = r]
  BY DEF Complete, Finish, Inv, APIOK
<1>2. jobs[j] \in JobRecord /\ JobInv(j)  BY DEF Inv, APIOK, StreamInv
<1>3. r \in JobRecord /\ r.done = jobs[j].done /\ r.total = jobs[j].total
      /\ r.error = jobs[j].error /\ r.result = "pass"
  BY <1>2 DEF JobRecord, Result
<1> HIDE DEF r
<1>4. APIOK'  BY <1>1, <1>3 DEF Inv, APIOK
<1>5. JobInv(j)'
  <2>1. go'[j] = "idle" /\ conn[j] = "none" /\ wire[j] = <<>> /\ jobs'[j] = r
    BY <1>1, <1>2 DEF Inv, APIOK, JobInv
  <2> QED  BY <1>1, <1>2, <1>3, <2>1 DEF JobInv, Ended
<1>6. ASSUME NEW i \in Job, i # j PROVE JobInv(i)'
  BY <1>1, <1>6, Untouched DEF Inv, APIOK, StreamInv
<1> QED  BY <1>4, <1>5, <1>6 DEF StreamInv

\* A thread's step under the lock, or around it, that sends nothing.
LEMMA QuietJobs ==
  ASSUME Inv, NEW w \in Worker, work[w].at \notin {"call", "idle"},
         NEW at, at \notin {"call", "idle"}, Step(w, at), UNCHANGED <<api, wire, conn>>
  PROVE  APIOK' /\ StreamInv'
<1>1. work[w] \in WorkRecord  BY WorkTypes DEF Inv, LockInv
<1>2. /\ work'[w] = [work[w] EXCEPT !.at = at]
      /\ \A u \in Worker : u # w => work'[u] = work[u]
  BY DEF Step, Inv, LockInv, SidecarOK
<1>3. work'[w].at = at /\ work'[w].left = work[w].left  BY <1>1, <1>2 DEF WorkRecord
<1>4. work[w] # Idle /\ work'[w] # Idle  BY <1>3 DEF Idle
<1>5. UNCHANGED <<jobs, go, poller, wire, conn>>  BY DEF api
<1>6. APIOK'  BY <1>5 DEF Inv, APIOK
<1>7. ASSUME NEW j \in Job PROVE JobInv(j)'
  <2>1. JobInv(j) /\ j \in Worker  BY DEF Inv, StreamInv, Worker
  <2>2. CASE j = w
    <3>1. go[w] # "call"  BY <2>1, <2>2 DEF JobInv
    <3> QED  BY <1>3, <1>4, <1>5, <2>1, <2>2, <3>1 DEF JobInv, Ended, Sent
  <2>3. CASE j # w  BY <1>2, <1>5, <2>1, <2>3, Untouched
  <2> QED  BY <2>2, <2>3
<1> QED  BY <1>6, <1>7 DEF StreamInv

\* What a line does to the streams: to the thread's own, if anyone listens.
LEMMA SendType ==
  ASSUME Inv, NEW w \in Worker, work[w] # Idle, NEW l \in Line, Send(w, l)
  PROVE  /\ wire' \in [Job -> Seq(Line)]
         /\ \A j \in Job : j # w \/ conn[j] # "open" => wire'[j] = wire[j]
         /\ w \in Job /\ conn[w] = "open" =>
              /\ \A i \in 1..(Len(wire'[w]) - 1) : wire'[w][i] = "line"
              /\ (Ended(wire'[w]) <=> l # "line")
              /\ wire'[w][Len(wire'[w])] = l
              /\ Sent(wire'[w]) = IF l = "line" THEN Sent(wire[w]) + 1 ELSE Sent(wire[w])
<1>1. ASSUME NEW j \in Job, j # w \/ conn[j] # "open" PROVE wire'[j] = wire[j]
  BY <1>1 DEF Send
<1>2. ASSUME w \in Job, conn[w] = "open"
      PROVE  /\ wire'[w] \in Seq(Line)
             /\ \A i \in 1..(Len(wire'[w]) - 1) : wire'[w][i] = "line"
             /\ (Ended(wire'[w]) <=> l # "line")
             /\ wire'[w][Len(wire'[w])] = l
             /\ Sent(wire'[w]) = IF l = "line" THEN Sent(wire[w]) + 1 ELSE Sent(wire[w])
  <2>1. wire'[w] = Append(wire[w], l)  BY <1>2 DEF Send
  <2>2. JobInv(w) /\ wire[w] \in Seq(Line)  BY <1>2 DEF Inv, StreamInv, APIOK
  <2>3. ~Ended(wire[w]) /\ \A i \in 1..(Len(wire[w]) - 1) : wire[w][i] = "line"
    BY <1>2, <2>2 DEF JobInv
  <2> QED  BY <2>1, <2>2, <2>3, SendStream
<1>3. wire' \in [Job -> Seq(Line)]
  <2>1. \A j \in Job : wire'[j] \in Seq(Line)  BY <1>1, <1>2 DEF Inv, APIOK
  <2>2. wire' = [j \in Job |-> wire'[j]]  BY DEF Send
  <2> QED  BY <2>1, <2>2
<1> QED  BY <1>1, <1>2, <1>3

LEMMA LineJobs ==
  ASSUME Inv, NEW w \in Worker, work[w].at \notin {"call", "idle"}, work[w].left > 0,
         NEW at, at \notin {"call", "idle"}, Send(w, "line"), UNCHANGED <<api, conn>>,
         work' = [work EXCEPT ![w].left = work[w].left - 1, ![w].at = at]
  PROVE  APIOK' /\ StreamInv'
<1>1. work[w] \in WorkRecord /\ work[w].left \in Nat  BY WorkTypes DEF Inv, LockInv
<1>2. /\ work'[w] = [work[w] EXCEPT !.left = work[w].left - 1, !.at = at]
      /\ \A u \in Worker : u # w => work'[u] = work[u]
  BY DEF Inv, LockInv, SidecarOK
<1>3. work'[w].at = at /\ work'[w].left = work[w].left - 1  BY <1>1, <1>2 DEF WorkRecord
<1>4. work[w] # Idle /\ work'[w] # Idle
  <2>1. Idle.at = "idle"  BY DEF Idle
  <2> QED  BY <1>3, <2>1
<1>5. UNCHANGED <<jobs, go, poller, conn>> /\ "line" \in Line  BY DEF api, Line
<1>6. /\ wire' \in [Job -> Seq(Line)]
      /\ \A j \in Job : j # w \/ conn[j] # "open" => wire'[j] = wire[j]
      /\ w \in Job /\ conn[w] = "open" =>
           /\ \A i \in 1..(Len(wire'[w]) - 1) : wire'[w][i] = "line"
           /\ ~Ended(wire'[w])
           /\ Sent(wire'[w]) = Sent(wire[w]) + 1
  BY <1>4, <1>5, SendType
<1>7. APIOK'  BY <1>5, <1>6 DEF Inv, APIOK
<1>8. ASSUME NEW j \in Job PROVE JobInv(j)'
  <2>1. JobInv(j) /\ j \in Worker  BY DEF Inv, StreamInv, Worker
  <2>2. CASE j = w
    <3>1. go[w] # "call"  BY <2>1, <2>2 DEF JobInv
    <3>2. CASE conn[w] # "open"
      BY <1>3, <1>4, <1>5, <1>6, <2>1, <2>2, <3>1, <3>2 DEF JobInv, Ended, Sent
    <3>3. CASE conn[w] = "open"
      <4>1. go[w] = "read" /\ wire[w] \in Seq(Line) /\ jobs[w] \in JobRecord
        BY <2>2, <3>3 DEF Inv, APIOK
      <4>2. Sent(wire[w]) \in Int /\ jobs[w].done \in Nat /\ jobs[w].total \in Nat
        BY <4>1 DEF Sent, JobRecord
      <4>3. jobs[w].done + Sent(wire[w]) + work[w].left >= jobs[w].total
        BY <1>4, <2>1, <2>2, <3>3, <4>1 DEF JobInv
      <4>4. jobs'[w].done + Sent(wire'[w]) + work'[w].left >= jobs'[w].total
        BY <1>1, <1>3, <1>5, <1>6, <2>2, <3>3, <4>2, <4>3
      <4> QED  BY <1>3, <1>4, <1>5, <1>6, <2>1, <2>2, <3>3, <4>1, <4>4 DEF JobInv
    <3> QED  BY <3>2, <3>3
  <2>3. CASE j # w  BY <1>2, <1>5, <1>6, <2>1, <2>3, Untouched
  <2> QED  BY <2>2, <2>3
<1> QED  BY <1>7, <1>8 DEF StreamInv

\* The last line of a thread: "done" only when nothing is left to do.
LEMMA EndJobs ==
  ASSUME Inv, NEW w \in Worker, work[w].at \notin {"call", "idle"},
         NEW l \in {"done", "error"}, l = "done" => work[w].left = 0, Send(w, l),
         UNCHANGED <<api, conn>>, work' = [work EXCEPT ![w] = Idle]
  PROVE  APIOK' /\ StreamInv'
<1>1. work[w].left \in Nat /\ work[w] # Idle  BY WorkTypes DEF Inv, LockInv, Idle
<1>2. work'[w] = Idle /\ Idle.at = "idle" /\ \A u \in Worker : u # w => work'[u] = work[u]
  BY DEF Inv, LockInv, SidecarOK, Idle
<1>3. UNCHANGED <<jobs, go, poller, conn>> /\ l \in Line  BY DEF api, Line
<1>4. /\ wire' \in [Job -> Seq(Line)]
      /\ \A j \in Job : j # w \/ conn[j] # "open" => wire'[j] = wire[j]
      /\ w \in Job /\ conn[w] = "open" =>
           /\ \A i \in 1..(Len(wire'[w]) - 1) : wire'[w][i] = "line"
           /\ Ended(wire'[w]) /\ wire'[w][Len(wire'[w])] = l
           /\ Sent(wire'[w]) = Sent(wire[w])
  BY <1>1, <1>3, SendType
<1>5. APIOK'  BY <1>3, <1>4 DEF Inv, APIOK
<1>6. ASSUME NEW j \in Job PROVE JobInv(j)'
  <2>1. JobInv(j) /\ j \in Worker  BY DEF Inv, StreamInv, Worker
  <2>2. CASE j = w
    <3>1. go[w] # "call"  BY <2>1, <2>2 DEF JobInv
    <3>2. CASE conn[w] # "open"
      BY <1>2, <1>3, <1>4, <2>1, <2>2, <3>1, <3>2 DEF JobInv, Ended, Sent
    <3>3. CASE conn[w] = "open"
      <4>1. go[w] = "read" /\ wire[w] \in Seq(Line) /\ jobs[w] \in JobRecord
        BY <2>2, <3>3 DEF Inv, APIOK
      <4>2. Sent(wire[w]) \in Int /\ jobs[w].done \in Nat /\ jobs[w].total \in Nat
        BY <4>1 DEF Sent, JobRecord
      <4>3. jobs[w].done + Sent(wire[w]) + work[w].left >= jobs[w].total
        BY <1>1, <2>1, <2>2, <3>3, <4>1 DEF JobInv
      <4>4. l = "done" => jobs'[w].done + Sent(wire'[w]) >= jobs'[w].total
        BY <1>3, <1>4, <2>2, <3>3, <4>2, <4>3
      <4> QED  BY <1>2, <1>3, <1>4, <2>1, <2>2, <3>3, <4>1, <4>4 DEF JobInv
    <3> QED  BY <3>2, <3>3
  <2>3. CASE j # w  BY <1>2, <1>3, <1>4, <2>1, <2>3, Untouched
  <2> QED  BY <2>2, <2>3
<1> QED  BY <1>5, <1>6 DEF StreamInv

LEMMA RestartJobs ==
  ASSUME Inv, RestartAPI \/ RestartSidecar
  PROVE  APIOK' /\ StreamInv'
<1>1. <<>> \in Seq(Line) /\ Len(<<>>) = 0  BY EmptySeq
<1>2. Unknown \in JobRecord /\ Unknown.result = "none" /\ Idle.at = "idle"
  BY DEF Unknown, JobRecord, Result, Idle
<1>3. CASE RestartAPI
  <2>1. APIOK'  BY <1>1, <1>2, <1>3 DEF RestartAPI, Inv, APIOK
  <2>2. ASSUME NEW j \in Job PROVE JobInv(j)'
    <3>1. /\ jobs'[j] = Unknown /\ go'[j] = "idle" /\ wire'[j] = <<>> /\ conn'[j] = "none"
          /\ work'[j].at # "call"
      BY <1>2, <1>3 DEF RestartAPI, Worker
    <3> QED  BY <1>1, <1>2, <3>1 DEF JobInv
  <2> QED  BY <2>1, <2>2 DEF StreamInv
<1>4. CASE RestartSidecar
  <2>1. APIOK'
    BY <1>4 DEF RestartSidecar, api, Inv, APIOK
  <2>2. ASSUME NEW j \in Job PROVE JobInv(j)'
    <3>1. JobInv(j) /\ conn'[j] # "open"
      BY <1>4 DEF RestartSidecar, Inv, StreamInv
    <3>2. work'[j].at = "call" => work[j].at = "call"
      BY <1>2, <1>4 DEF RestartSidecar, Worker
    <3>3. work[j].at = "call" => work'[j] = work[j]
      BY <1>4 DEF RestartSidecar, Worker
    <3>4. jobs'[j] = jobs[j] /\ go'[j] = go[j] /\ wire'[j] = wire[j]
      BY <1>4 DEF RestartSidecar, api
    <3> QED  BY <3>1, <3>2, <3>3, <3>4 DEF JobInv, Ended, Sent
  <2> QED  BY <2>1, <2>2 DEF StreamInv
<1> QED  BY <1>3, <1>4

-----------------------------------------------------------------------------
(***************************************************************************)
(* The steps together.                                                      *)
(***************************************************************************)
LEMMA JobSteps ==
  ASSUME Inv, NEW j \in Job,
         JobStep(j) \/ CallRefused(j) \/ GiveUp(j) \/ Poll(j) \/ PollFails(j)
  PROVE  Inv'
<1>1. j \in Worker /\ JobInv(j)  BY DEF Worker, Inv, StreamInv
<1>2. CASE UNCHANGED <<work, model>>
  <2>1. LockInv'
    BY <1>2 DEF Inv, LockInv, SidecarOK, Exclusive, WorkOK, OwnResults, model
  <2>2. CASE ReadLine(j)  BY <2>1, <2>2, ReadLineJob DEF Inv
  <2>3. CASE ReadDone(j)  BY <2>1, <2>3, ReadDoneJob DEF Inv
  <2>4. CASE Complete(j)  BY <2>1, <2>4, CompleteJob DEF Inv
  <2>5. CASE ReadError(j) \/ Eof(j) \/ GiveUp(j)
    <3>1. /\ go[j] \in {"read", "finish"} /\ Fail(j) /\ UNCHANGED <<poller, work>>
      BY <2>5 DEF ReadError, Eof, GiveUp
    <3>2. work'[j].at # "call"  BY <1>1, <3>1 DEF JobInv
    <3> QED  BY <2>1, <3>1, <3>2, FailJob DEF Inv
  <2>6. CASE Poll(j) \/ PollFails(j)
    <3>1. UNCHANGED <<jobs, go, wire, conn, work>>
          /\ poller' \in [Job -> {"none", "polling", "resolved", "rejected"}]
      BY <2>6 DEF Poll, PollFails, Inv, APIOK
    <3>2. APIOK'  BY <3>1 DEF Inv, APIOK
    <3>3. StreamInv'  BY <3>1, Untouched DEF Inv, StreamInv
    <3> QED  BY <2>1, <3>2, <3>3 DEF Inv
  <2>7. CASE Call(j) \/ CallRefused(j)
    <3>1. work[j].at = "call" /\ work'[j].at # "call"
      <4>1. go[j] = "call" /\ go'[j] # "call"
        BY <2>7 DEF Call, CallRefused, Fail, Inv, APIOK
      <4>2. CASE Call(j)
        <5>1. StreamInv'  BY <4>2, CallJob
        <5> QED  BY <1>1, <4>1, <5>1 DEF StreamInv, JobInv
      <4>3. CASE CallRefused(j)
        BY <1>1, <4>1, <4>3 DEF JobInv, CallRefused, Idle, Inv, LockInv, SidecarOK
      <4> QED  BY <2>7, <4>2, <4>3
    <3> QED  BY <1>2, <3>1
  <2> QED  BY <2>2, <2>3, <2>4, <2>5, <2>6, <2>7 DEF JobStep
<1>3. CASE Call(j)
  <2>1. work[j].at = "call"  BY <1>1, <1>3 DEF Call, JobInv
  <2> QED  BY <1>3, <2>1, CallLock, CallJob DEF Inv
<1>4. CASE CallRefused(j)
  <2>1. go[j] = "call" /\ work[j].at = "call"  BY <1>1, <1>4 DEF CallRefused, JobInv
  <2>2. Fail(j) /\ work' = [work EXCEPT ![j] = Idle] /\ UNCHANGED <<poller, owner, names, prompts>>
    BY <1>4 DEF CallRefused, model
  <2>3. LockInv'  BY <1>1, <2>1, <2>2, StopLock DEF Inv, Inside
  <2>4. work'[j].at # "call"  BY <1>1, <2>2 DEF Inv, LockInv, SidecarOK, Idle
  <2> QED  BY <2>1, <2>2, <2>3, <2>4, FailJob DEF Inv
<1>5. ReadLine(j) \/ ReadError(j) \/ ReadDone(j) \/ Eof(j) \/ Complete(j) \/ GiveUp(j)
        \/ Poll(j) \/ PollFails(j) => UNCHANGED <<work, model>>
  BY DEF ReadLine, ReadError, ReadDone, Eof, Complete, GiveUp, Poll, PollFails
<1> QED  BY <1>2, <1>3, <1>4, <1>5 DEF JobStep

LEMMA WorkerSteps ==
  ASSUME Inv, NEW w \in Worker, Enter(w) \/ WorkerStep(w) \/ Raise(w)
  PROVE  Inv'
<1>1. work[w].left \in Nat \/ work[w].at = "idle"  BY WorkTypes DEF Inv, LockInv
<1>2. CASE Enter(w)
  <2> DEFINE at == IF work[w].op \in Predicting THEN "arm"
                   ELSE IF work[w].left > 0 THEN "set" ELSE "leave"
  <2>1. at \notin {"call", "idle"}  OBVIOUS
  <2>2. Step(w, at) /\ work[w].at \notin {"call", "idle"} /\ UNCHANGED <<api, wire, conn>>
    BY <1>2 DEF Enter
  <2> HIDE DEF at
  <2> QED  BY <1>2, <2>1, <2>2, EnterLock, QuietJobs DEF Inv
<1>3. CASE Arm(w)
  <2> DEFINE at == IF work[w].left > 0 THEN "predict" ELSE "leave"
  <2>1. at \notin {"call", "idle"}  OBVIOUS
  <2>2. Step(w, at) /\ work[w].at \notin {"call", "idle"} /\ UNCHANGED <<api, wire, conn>>
    BY <1>3 DEF Arm
  <2> HIDE DEF at
  <2> QED  BY <1>3, <2>1, <2>2, PassLock, QuietJobs DEF Inv
<1>4. CASE SetPrompts(w)
  <2>1. Step(w, "get") /\ work[w].at \notin {"call", "idle"} /\ UNCHANGED <<api, wire, conn>>
    BY <1>4 DEF SetPrompts
  <2> QED  BY <1>4, <2>1, PassLock, QuietJobs DEF Inv
<1>5. CASE Leave(w)
  <2> DEFINE at == IF work[w].left > 0 THEN "wait" ELSE "end"
  <2>1. at \notin {"call", "idle"}  OBVIOUS
  <2>2. Step(w, at) /\ work[w].at \notin {"call", "idle"} /\ UNCHANGED <<api, wire, conn>>
    BY <1>5 DEF Leave
  <2> HIDE DEF at
  <2> QED  BY <1>5, <2>1, <2>2, LeaveLock, QuietJobs DEF Inv
<1>6. CASE Predict(w)
  <2> DEFINE at == IF work[w].left = 1 THEN "leave" ELSE "predict"
  <2>1. at \notin {"call", "idle"}  OBVIOUS
  <2>2. /\ Send(w, "line") /\ work[w].at \notin {"call", "idle"} /\ UNCHANGED <<api, conn>>
        /\ work' = [work EXCEPT ![w].left = work[w].left - 1, ![w].at = at]
        /\ work[w].left > 0
    BY <1>6 DEF Predict, Inv, LockInv, WorkOK
  <2> HIDE DEF at
  <2> QED  BY <1>6, <2>1, <2>2, PassLock, LineJobs DEF Inv
<1>7. CASE GetVpe(w)
  <2> DEFINE at == IF work[w].op = "reembed" /\ work[w].left > 1 THEN "set" ELSE "leave"
  <2>1. at \notin {"call", "idle"}  OBVIOUS
  <2>2. /\ Send(w, "line") /\ work[w].at \notin {"call", "idle"} /\ UNCHANGED <<api, conn>>
        /\ work' = [work EXCEPT ![w].left = work[w].left - 1, ![w].at = at]
        /\ work[w].left > 0
    BY <1>7 DEF GetVpe, Inv, LockInv, WorkOK
  <2> HIDE DEF at
  <2> QED  BY <1>7, <2>1, <2>2, PassLock, LineJobs DEF Inv
<1>8. CASE Terminate(w)
  <2>1. /\ work[w].at = "end" /\ work[w].left = 0 /\ work' = [work EXCEPT ![w] = Idle]
        /\ UNCHANGED <<api, conn, owner, names, prompts>>
    BY <1>8 DEF Terminate, Inv, LockInv, WorkOK, model
  <2>2. LockInv'  BY <2>1, StopLock DEF Inv, Inside
  <2>3. PICK l \in {"done", "error"} : Send(w, l)  BY <1>8 DEF Terminate
  <2> QED  BY <2>1, <2>2, <2>3, EndJobs DEF Inv
<1>9. CASE Raise(w)
  <2>1. /\ work[w].at \in Inside \ {"leave"} /\ work' = [work EXCEPT ![w] = Idle]
        /\ UNCHANGED <<api, conn, names, prompts>> /\ Send(w, "error")
        /\ owner' = [owner EXCEPT ![work[w].on] = Nobody]
    BY <1>9 DEF Raise, Inside
  <2>2. LockInv'  BY <2>1, StopLock DEF Inv
  <2>3. work[w].at \notin {"call", "idle"}  BY <2>1 DEF Inside
  <2> QED  BY <2>1, <2>2, <2>3, EndJobs DEF Inv
<1> QED  BY <1>2, <1>3, <1>4, <1>5, <1>6, <1>7, <1>8, <1>9 DEF WorkerStep

LEMMA StartSteps ==
  ASSUME Inv,
         \/ \E j \in Job, op \in Kind, c \in Checkpoint, n \in 0..MaxLines : Begin(j, op, c, n)
         \/ \E j \in Job, n \in 0..MaxLines : BeginNothing(j, n)
         \/ \E s \in Solo, op \in {"predict", "teach"}, c \in Checkpoint, n \in Nat :
              SoloCall(s, op, c, n)
  PROVE  Inv'
<1>1. ASSUME NEW j \in Job, NEW op \in Kind, NEW c \in Checkpoint, NEW n \in 0..MaxLines,
             Begin(j, op, c, n)
      PROVE  Inv'
  <2>1. j \in Worker /\ op \in Op /\ n \in Nat  BY DEF Worker, Op
  <2>2. LockInv'  BY <1>1, <2>1, StartLock DEF Begin, Free, Inv
  <2> QED  BY <1>1, <2>2, BeginJob DEF Inv
<1>2. ASSUME NEW j \in Job, NEW n \in 0..MaxLines, BeginNothing(j, n) PROVE Inv'
  <2>1. LockInv'
    BY <1>2 DEF BeginNothing, Inv, LockInv, SidecarOK, Exclusive, WorkOK, OwnResults, model
  <2> QED  BY <1>2, <2>1, BeginNothingJob DEF Inv
<1>3. ASSUME NEW s \in Solo, NEW op \in {"predict", "teach"}, NEW c \in Checkpoint, NEW n \in Nat,
             SoloCall(s, op, c, n)
      PROVE  Inv'
  <2>1. s \in Worker /\ op \in Op  BY DEF Worker, Op
  <2>2. LockInv'  BY <1>3, <2>1, StartLock DEF SoloCall, Inv
  <2>3. UNCHANGED <<jobs, go, poller, wire, conn>>  BY <1>3 DEF SoloCall, api
  <2>4. APIOK'  BY <2>3 DEF Inv, APIOK
  <2>5. ASSUME NEW j \in Job PROVE JobInv(j)'
    <3>1. j # s /\ j \in Worker  BY PassesAssumption DEF Worker
    <3>2. work'[j] = work[j]  BY <1>3, <3>1 DEF SoloCall, Inv, LockInv, SidecarOK
    <3> QED  BY <2>3, <3>2, Untouched DEF Inv, StreamInv
  <2> QED  BY <2>2, <2>4, <2>5 DEF Inv, StreamInv
<1> QED  BY <1>1, <1>2, <1>3

LEMMA StepInv == Inv /\ [Next]_vars => Inv'
<1> SUFFICES ASSUME Inv, [Next]_vars PROVE Inv'  OBVIOUS
<1>1. CASE UNCHANGED vars
  <2>1. UNCHANGED <<jobs, go, poller, wire, conn, work, owner, names, prompts>>
    BY <1>1 DEF vars, api, model
  <2>2. StreamInv'  BY <2>1, Untouched DEF Inv, StreamInv
  <2> QED  BY <2>1, <2>2
           DEF Inv, APIOK, LockInv, SidecarOK, Exclusive, WorkOK, OwnResults
<1>2. CASE RestartAPI \/ RestartSidecar  BY <1>2, RestartLock, RestartJobs DEF Inv
<1>3. ASSUME NEW j \in Job,
             JobStep(j) \/ CallRefused(j) \/ GiveUp(j) \/ Poll(j) \/ PollFails(j)
      PROVE  Inv'
  BY <1>3, JobSteps
<1>4. ASSUME NEW w \in Worker, Enter(w) \/ WorkerStep(w) \/ Raise(w) PROVE Inv'
  BY <1>4, WorkerSteps
<1>5. ASSUME NEW s \in Solo, NEW c \in Checkpoint,
             \/ SoloCall(s, "predict", c, 1)
             \/ \E n \in 1..MaxLines : SoloCall(s, "teach", c, n)
      PROVE  Inv'
  BY <1>5, StartSteps
<1>6. ASSUME NEW j \in Job,
             \/ \E op \in Kind, c \in Checkpoint, n \in 0..MaxLines : Begin(j, op, c, n)
             \/ \E n \in 0..MaxLines : BeginNothing(j, n)
      PROVE  Inv'
  BY <1>6, StartSteps
<1> QED  BY <1>1, <1>2, <1>3, <1>4, <1>5, <1>6 DEF Next

LEMMA SpecInv == Spec => []Inv
<1>1. Init => Inv  BY LockInit, StreamInit DEF Inv
<1> QED  BY <1>1, StepInv, PTL DEF Spec

\* Every variable of Passes keeps its type.
THEOREM TypeCorrect == Spec => []TypeOK
<1>1. Inv => TypeOK  BY DEF Inv, LockInv, SidecarOK, APIOK, TypeOK
<1> QED  BY <1>1, SpecInv, PTL

\* Predictions are decoded with the class list of their own pass, vectors
\* averaged over their own boxes, for any number of passes and checkpoints.
THEOREM ResultsAreOwn == Spec => []OwnResults
<1>1. Inv => OwnResults  BY DEF Inv, LockInv
<1> QED  BY <1>1, SpecInv, PTL

\* No job reports what a pass found that did not cover all it was asked to, and
\* one that reports that there was nothing to do has counted nothing, whatever
\* the number of images it was asked for.
THEOREM ResultsAreWhole == Spec => []NoPartialResult
<1>1. Inv => NoPartialResult  BY DEF Inv, StreamInv, JobInv, NoPartialResult
<1> QED  BY <1>1, SpecInv, PTL

\* A job a poller may have seen finished never changes: no late line, no second
\* verdict (jobs.go: the goroutine returns after Fail).  A restart forgets the
\* job, and a new job is a new id.
FinishedForGood ==
  [][\A j \in Job : jobs[j].finished =>
       \/ jobs'[j] = jobs[j]
       \/ ~jobs'[j].known
       \/ poller[j] # "polling" /\ poller'[j] = "polling"]_vars

\* A finished job does not change.
THEOREM VerdictStands == Spec => FinishedForGood
<1> DEFINE Stands(j) == jobs[j].finished =>
                          \/ jobs'[j] = jobs[j]
                          \/ ~jobs'[j].known
                          \/ poller[j] # "polling" /\ poller'[j] = "polling"
<1>1. ASSUME Inv, [Next]_vars, NEW j \in Job PROVE Stands(j)
  <2>1. jobs[j].finished => go[j] = "idle"  BY <1>1 DEF Inv, StreamInv, JobInv
  <2>2. jobs \in [Job -> JobRecord] /\ poller \in [Job -> {"none", "polling", "resolved", "rejected"}]
    BY <1>1 DEF Inv, APIOK
  <2>3. CASE UNCHANGED jobs  BY <2>3
  <2>4. CASE RestartAPI  BY <2>4 DEF RestartAPI, Unknown
  <2>5. ASSUME NEW i \in Job, JobStep(i) \/ CallRefused(i) \/ GiveUp(i), jobs' # jobs
        PROVE  Stands(j)
    <3>1. go[i] # "idle"
      BY <2>5 DEF JobStep, Call, ReadLine, ReadError, ReadDone, Eof, Complete, CallRefused, GiveUp
    <3>2. i # j => jobs'[j] = jobs[j]
      BY <2>2, <2>5 DEF JobStep, Call, ReadLine, ReadError, ReadDone, Eof, Complete,
                        CallRefused, GiveUp, Tick, Finish, Fail
    <3> QED  BY <2>1, <3>1, <3>2
  <2>6. ASSUME NEW i \in Job,
               \/ \E op \in Kind, c \in Checkpoint, n \in 0..MaxLines : Begin(i, op, c, n)
               \/ \E n \in 0..MaxLines : BeginNothing(i, n)
        PROVE  Stands(j)
    <3>1. poller[i] # "polling" /\ poller'[i] = "polling" /\ (i # j => jobs'[j] = jobs[j])
      BY <2>2, <2>6 DEF Begin, BeginNothing, Free
    <3> QED  BY <3>1
  <2>7. ASSUME NEW i \in Job, Poll(i) \/ PollFails(i) PROVE UNCHANGED jobs
    BY <2>7 DEF Poll, PollFails
  <2>8. ASSUME NEW w \in Worker, Enter(w) \/ WorkerStep(w) \/ Raise(w) PROVE UNCHANGED jobs
    BY <2>8 DEF Enter, WorkerStep, Arm, Predict, SetPrompts, GetVpe, Leave, Terminate, Raise, api
  <2>9. ASSUME NEW s \in Solo, NEW op, NEW c, NEW n, SoloCall(s, op, c, n) PROVE UNCHANGED jobs
    BY <2>9 DEF SoloCall, api
  <2>10. RestartSidecar => UNCHANGED jobs  BY DEF RestartSidecar, api
  <2>11. UNCHANGED vars => UNCHANGED jobs  BY DEF vars, api
  <2> HIDE DEF Stands
  <2> QED  BY <1>1, <2>3, <2>4, <2>5, <2>6, <2>7, <2>8, <2>9, <2>10, <2>11 DEF Next
<1>2. Inv /\ [Next]_vars => [\A j \in Job : Stands(j)]_vars  BY <1>1
<1> QED  BY <1>2, SpecInv, PTL DEF Spec, FinishedForGood

-----------------------------------------------------------------------------
(***************************************************************************)
(* The tracker, its goroutines and its pollers keep the promise of JobLife. *)
(***************************************************************************)

\* A job is finished with a verdict and runs as long as its goroutine does; one
\* the tracker does not know has nothing.
VerdictInv(j) ==
  /\ jobs[j].finished <=> jobs[j].error \/ jobs[j].result # "none"
  /\ jobs[j].known /\ ~jobs[j].finished => go[j] # "idle"
  /\ ~jobs[j].known => jobs[j] = Unknown

Verdicts == \A j \in Job : VerdictInv(j)

\* What a step of job i leaves alone.
Only(i) == \A j \in Job \ {i} : jobs'[j] = jobs[j] /\ go'[j] = go[j] /\ poller'[j] = poller[j]

\* What a step of the tracker and of the browser does to job i.
Moves(i) ==
  \/ jobs'[i] = jobs[i] /\ poller'[i] = poller[i]
  \/ /\ RunOf(i).state # "running" /\ poller[i] # "polling" /\ poller'[i] = "polling"
     /\ \E n \in Nat : \/ RunOf(i)' = [state |-> "running", done |-> 0, total |-> n]
                        \/ RunOf(i)' = [state |-> "nothing", done |-> 0, total |-> n]
  \/ /\ poller'[i] = poller[i] /\ RunOf(i).state = "running"
     /\ \/ RunOf(i)' = [RunOf(i) EXCEPT !.done = @ + 1]
        \/ RunOf(i)' = [RunOf(i) EXCEPT !.state = "failed"]
        \/ RunOf(i).done >= RunOf(i).total /\ RunOf(i)' = [RunOf(i) EXCEPT !.state = "succeeded"]
  \/ /\ jobs'[i] = jobs[i] /\ poller[i] = "polling"
     /\ \/ poller'[i] = "rejected"
        \/ poller'[i] = "resolved" /\ RunOf(i).state \in {"succeeded", "nothing"}

LEMMA JobTypes ==
  ASSUME Inv, NEW i \in Job
  PROVE  /\ jobs[i] \in JobRecord
         /\ jobs[i] = [known |-> jobs[i].known, total |-> jobs[i].total, done |-> jobs[i].done,
                       finished |-> jobs[i].finished, error |-> jobs[i].error,
                       result |-> jobs[i].result]
         /\ jobs[i].known \in BOOLEAN /\ jobs[i].finished \in BOOLEAN
         /\ jobs[i].error \in BOOLEAN /\ jobs[i].result \in Result
         /\ jobs[i].total \in Nat /\ jobs[i].done \in Nat
BY DEF Inv, APIOK, JobRecord

\* A job the tracker shows as running is one whose goroutine is at work.
LEMMA RunningOf ==
  ASSUME Inv, NEW i \in Job, go[i] # "idle"
  PROVE  /\ jobs[i].known /\ ~jobs[i].finished /\ ~jobs[i].error /\ jobs[i].result = "none"
         /\ RunOf(i) = [state |-> "running", done |-> jobs[i].done, total |-> jobs[i].total]
<1>1. jobs[i].known /\ ~jobs[i].finished /\ ~jobs[i].error /\ jobs[i].result = "none"
  BY DEF Inv, StreamInv, JobInv
<1> QED  BY <1>1 DEF RunOf

LEMMA FailMoves ==
  ASSUME Inv, NEW i \in Job, go[i] # "idle", Fail(i), UNCHANGED poller
  PROVE  Only(i) /\ VerdictInv(i)' /\ Moves(i)
<1>1. /\ jobs'[i] = [jobs[i] EXCEPT !.finished = TRUE, !.error = TRUE]
      /\ go'[i] = "idle" /\ Only(i)
  BY DEF Fail, Only, Inv, APIOK
<1>2. /\ jobs'[i].known /\ jobs'[i].finished /\ jobs'[i].error /\ jobs'[i].result = "none"
      /\ jobs'[i].done = jobs[i].done /\ jobs'[i].total = jobs[i].total
  BY <1>1, JobTypes, RunningOf
<1>3. RunOf(i)' = [state |-> "failed", done |-> jobs[i].done, total |-> jobs[i].total]
  BY <1>2 DEF RunOf
<1>4. RunOf(i)' = [RunOf(i) EXCEPT !.state = "failed"]  BY <1>3, RunningOf
<1> QED  BY <1>1, <1>2, <1>4, RunningOf DEF VerdictInv, Moves

LEMMA StartMoves ==
  ASSUME Inv, Verdicts, NEW i \in Job,
         \/ \E op \in Kind, c \in Checkpoint, n \in 0..MaxLines : Begin(i, op, c, n)
         \/ \E n \in 0..MaxLines : BeginNothing(i, n)
  PROVE  Only(i) /\ VerdictInv(i)' /\ Moves(i)
<1>1. go[i] = "idle" /\ poller[i] # "polling" /\ poller'[i] = "polling" /\ Only(i)
  BY DEF Begin, BeginNothing, Free, Only, Inv, APIOK
<1>2. RunOf(i).state # "running"
  <2>1. ~(jobs[i].known /\ ~jobs[i].error /\ jobs[i].result = "none")
    BY <1>1 DEF Verdicts, VerdictInv
  <2> QED  BY <2>1 DEF RunOf
<1>3. ASSUME NEW n \in 0..MaxLines, BeginNothing(i, n) PROVE VerdictInv(i)' /\ Moves(i)
  <2>1. jobs'[i] = [known |-> TRUE, total |-> n, done |-> 0,
                    finished |-> TRUE, error |-> FALSE, result |-> "nothing"]
    BY <1>3 DEF BeginNothing, Created, Unknown, Inv, APIOK
  <2>2. RunOf(i)' = [state |-> "nothing", done |-> 0, total |-> n] /\ n \in Nat
    BY <2>1 DEF RunOf
  <2> QED  BY <1>1, <1>2, <2>1, <2>2 DEF VerdictInv, Moves
<1>4. ASSUME NEW op \in Kind, NEW c \in Checkpoint, NEW n \in 0..MaxLines, Begin(i, op, c, n)
      PROVE  VerdictInv(i)' /\ Moves(i)
  <2>1. jobs'[i] = [known |-> TRUE, total |-> n, done |-> 0,
                    finished |-> FALSE, error |-> FALSE, result |-> "none"]
        /\ go'[i] = "call"
    BY <1>4 DEF Begin, Created, Unknown, Inv, APIOK
  <2>2. RunOf(i)' = [state |-> "running", done |-> 0, total |-> n] /\ n \in Nat
    BY <2>1 DEF RunOf
  <2> QED  BY <1>1, <1>2, <2>1, <2>2 DEF VerdictInv, Moves
<1> QED  BY <1>1, <1>3, <1>4

LEMMA JobMoves ==
  ASSUME Inv, Verdicts, NEW i \in Job,
         JobStep(i) \/ CallRefused(i) \/ GiveUp(i) \/ Poll(i) \/ PollFails(i)
  PROVE  Only(i) /\ VerdictInv(i)' /\ Moves(i)
<1>1. CASE CallRefused(i) \/ GiveUp(i) \/ ReadError(i) \/ Eof(i)
  BY <1>1, FailMoves DEF CallRefused, GiveUp, ReadError, Eof
<1>2. CASE Call(i) \/ ReadDone(i)
  <2>1. jobs' = jobs /\ poller' = poller /\ go'[i] # "idle" /\ Only(i)
    BY <1>2 DEF Call, ReadDone, Only, Inv, APIOK
  <2> QED  BY <2>1 DEF Verdicts, VerdictInv, Moves
<1>3. CASE ReadLine(i)
  <2>1. /\ go[i] = "read" /\ jobs'[i] = [jobs[i] EXCEPT !.done = @ + 1]
        /\ go' = go /\ poller' = poller /\ Only(i)
    BY <1>3 DEF ReadLine, Tick, Only, Inv, APIOK
  <2>2. /\ jobs'[i].known /\ ~jobs'[i].finished /\ ~jobs'[i].error /\ jobs'[i].result = "none"
        /\ jobs'[i].done = jobs[i].done + 1 /\ jobs'[i].total = jobs[i].total
    BY <2>1, JobTypes, RunningOf
  <2>3. RunOf(i)' = [state |-> "running", done |-> jobs[i].done + 1, total |-> jobs[i].total]
    BY <2>2 DEF RunOf
  <2>4. RunOf(i)' = [RunOf(i) EXCEPT !.done = @ + 1]  BY <2>1, <2>3, RunningOf
  <2> QED  BY <2>1, <2>2, <2>4, RunningOf DEF VerdictInv, Moves
<1>4. CASE Complete(i)
  <2>1. /\ go[i] = "finish"
        /\ jobs'[i] = [jobs[i] EXCEPT !.finished = TRUE, !.result = "pass"]
        /\ poller' = poller /\ Only(i)
    BY <1>4 DEF Complete, Finish, Only, Inv, APIOK
  <2>2. /\ jobs'[i].known /\ jobs'[i].finished /\ ~jobs'[i].error /\ jobs'[i].result = "pass"
        /\ jobs'[i].done = jobs[i].done /\ jobs'[i].total = jobs[i].total
    BY <2>1, JobTypes, RunningOf
  <2>3. RunOf(i)' = [state |-> "succeeded", done |-> jobs[i].done, total |-> jobs[i].total]
    BY <2>2 DEF RunOf
  <2>4. RunOf(i)' = [RunOf(i) EXCEPT !.state = "succeeded"]  BY <2>1, <2>3, RunningOf
  <2>5. jobs[i].done >= jobs[i].total  BY <2>1 DEF Inv, StreamInv, JobInv
  <2>6. RunOf(i).done >= RunOf(i).total  BY <2>5 DEF RunOf
  <2> QED  BY <2>1, <2>2, <2>4, <2>6, RunningOf DEF VerdictInv, Moves
<1>5. CASE Poll(i) \/ PollFails(i)
  <2>1. jobs' = jobs /\ go' = go /\ poller[i] = "polling" /\ Only(i)
    BY <1>5 DEF Poll, PollFails, Only, Inv, APIOK
  <2>2. \/ poller'[i] = "rejected"
        \/ poller'[i] = "resolved" /\ jobs[i].finished /\ ~jobs[i].error
    BY <1>5 DEF Poll, PollFails, Inv, APIOK
  <2>3. jobs[i].finished /\ ~jobs[i].error => RunOf(i).state \in {"succeeded", "nothing"}
    BY JobTypes DEF Verdicts, VerdictInv, RunOf, Result
  <2> QED  BY <2>1, <2>2, <2>3 DEF Verdicts, VerdictInv, Moves
<1> QED  BY <1>1, <1>2, <1>3, <1>4, <1>5 DEF JobStep

\* The steps of the sidecar, and of nobody.
LEMMA SidecarQuiet ==
  ASSUME [Next]_vars
  PROVE  \/ UNCHANGED <<jobs, go, poller>>
         \/ RestartAPI
         \/ \E i \in Job :
              \/ \E op \in Kind, c \in Checkpoint, n \in 0..MaxLines : Begin(i, op, c, n)
              \/ \E n \in 0..MaxLines : BeginNothing(i, n)
              \/ JobStep(i) \/ CallRefused(i) \/ GiveUp(i) \/ Poll(i) \/ PollFails(i)
<1>1. ASSUME NEW w \in Worker, Enter(w) \/ WorkerStep(w) \/ Raise(w)
      PROVE  UNCHANGED <<jobs, go, poller>>
  BY <1>1 DEF Enter, WorkerStep, Arm, Predict, SetPrompts, GetVpe, Leave, Terminate, Raise, api
<1>2. ASSUME NEW s \in Solo, NEW op, NEW c, NEW n, SoloCall(s, op, c, n)
      PROVE  UNCHANGED <<jobs, go, poller>>
  BY <1>2 DEF SoloCall, api
<1>3. RestartSidecar => UNCHANGED <<jobs, go, poller>>  BY DEF RestartSidecar, api
<1>4. UNCHANGED vars => UNCHANGED <<jobs, go, poller>>  BY DEF vars, api
<1> QED  BY <1>1, <1>2, <1>3, <1>4 DEF Next

\* One job's move is a step of JobLife.
LEMMA MovePromised ==
  ASSUME Inv, NEW i \in Job, Only(i), Moves(i), Inv'
  PROVE  [Promise!Next]_(Promise!life)
<1> DEFINE run == [j \in Job |-> RunOf(j)]
<1>1. poller \in [Job -> {"none", "polling", "resolved", "rejected"}]
      /\ poller' \in [Job -> {"none", "polling", "resolved", "rejected"}]
  BY DEF Inv, APIOK
<1>2. \A j \in Job \ {i} : RunOf(j)' = RunOf(j) /\ poller'[j] = poller[j]
  BY DEF Only, RunOf
<1>3. poller' = [poller EXCEPT ![i] = poller'[i]]  BY <1>1, <1>2
<1>4. run' = [run EXCEPT ![i] = RunOf(i)']  BY <1>2
<1>5. run[i] = RunOf(i) /\ run'[i] = RunOf(i)'  OBVIOUS
<1>6. CASE jobs'[i] = jobs[i] /\ poller'[i] = poller[i]
  <2>1. RunOf(i)' = RunOf(i)  BY <1>6 DEF RunOf
  <2>2. run' = run  BY <1>2, <2>1
  <2>3. poller' = poller  BY <1>1, <1>2, <1>6
  <2> QED  BY <2>2, <2>3 DEF Promise!life
<1>7. CASE /\ RunOf(i).state # "running" /\ poller[i] # "polling" /\ poller'[i] = "polling"
           /\ \E n \in Nat : \/ RunOf(i)' = [state |-> "running", done |-> 0, total |-> n]
                              \/ RunOf(i)' = [state |-> "nothing", done |-> 0, total |-> n]
  <2>1. PICK n \in Nat, state \in {"running", "nothing"} :
          RunOf(i)' = [state |-> state, done |-> 0, total |-> n]
    BY <1>7
  <2>2. run'[i].total = n  BY <1>5, <2>1
  <2>3. Promise!Start(i)
    BY <1>3, <1>4, <1>5, <1>7, <2>1, <2>2 DEF Promise!Start, Promise!Tell
  <2> QED  BY <2>3 DEF Promise!Next
<1>8. CASE poller'[i] = poller[i] /\ RunOf(i).state = "running"
           /\ RunOf(i)' = [RunOf(i) EXCEPT !.done = @ + 1]
  <2>1. poller' = poller  BY <1>1, <1>2, <1>8
  <2>2. Promise!Count(i)  BY <1>4, <1>5, <1>8, <2>1 DEF Promise!Count
  <2> QED  BY <2>2 DEF Promise!Next
<1>9. CASE poller'[i] = poller[i] /\ RunOf(i).state = "running"
           /\ RunOf(i)' = [RunOf(i) EXCEPT !.state = "failed"]
  <2>1. poller' = poller  BY <1>1, <1>2, <1>9
  <2>2. Promise!Fail(i)  BY <1>4, <1>5, <1>9, <2>1 DEF Promise!Fail, Promise!Verdict
  <2> QED  BY <2>2 DEF Promise!Next
<1>10. CASE /\ poller'[i] = poller[i] /\ RunOf(i).state = "running"
            /\ RunOf(i).done >= RunOf(i).total
            /\ RunOf(i)' = [RunOf(i) EXCEPT !.state = "succeeded"]
  <2>1. poller' = poller  BY <1>1, <1>2, <1>10
  <2>2. Promise!Succeed(i)  BY <1>4, <1>5, <1>10, <2>1 DEF Promise!Succeed, Promise!Verdict
  <2> QED  BY <2>2 DEF Promise!Next
<1>11. CASE /\ jobs'[i] = jobs[i] /\ poller[i] = "polling"
            /\ \/ poller'[i] = "rejected"
               \/ poller'[i] = "resolved" /\ RunOf(i).state \in {"succeeded", "nothing"}
  <2>1. RunOf(i)' = RunOf(i)  BY <1>11 DEF RunOf
  <2>2. run' = run  BY <1>2, <2>1
  <2>3. Promise!Despair(i) \/ Promise!Hear(i)
    BY <1>3, <1>5, <1>11, <2>2 DEF Promise!Despair, Promise!Hear, Promise!Tell
  <2> QED  BY <2>3 DEF Promise!Next
<1> QED  BY <1>6, <1>7, <1>8, <1>9, <1>10, <1>11 DEF Moves

\* For any number of jobs, pumps and images, with failures, abandoned streams
\* and restarts of either process: the tracker implements JobLife (jobs.go,
\* vpe.go, api.ts: runJob).
THEOREM PromiseKept == Spec => RunsAsPromised
<1>1. Init => Verdicts
  BY DEF Init, Verdicts, VerdictInv, Unknown
<1>2. Init => Promise!Init
  <2> SUFFICES ASSUME Init PROVE Promise!Init  OBVIOUS
  <2>1. \A j \in Job : RunOf(j) = [state |-> "unknown", done |-> 0, total |-> 0]
    BY DEF Init, RunOf, Unknown
  <2> QED  BY <2>1 DEF Promise!Init, Init
<1>3. ASSUME Inv, Inv', Verdicts, [Next]_vars
      PROVE  Verdicts' /\ [Promise!Next]_(Promise!life)
  <2>1. CASE UNCHANGED <<jobs, go, poller>>
    <3>1. Verdicts'  BY <1>3, <2>1 DEF Verdicts, VerdictInv
    <3>2. \A j \in Job : RunOf(j)' = RunOf(j)  BY <2>1 DEF RunOf
    <3> QED  BY <2>1, <3>1, <3>2 DEF Promise!life
  <2>2. CASE RestartAPI
    <3>1. jobs' = [j \in Job |-> Unknown] /\ poller' = poller  BY <2>2 DEF RestartAPI
    <3>2. \A j \in Job : RunOf(j)' = [state |-> "unknown", done |-> 0, total |-> 0]
      BY <3>1 DEF RunOf, Unknown
    <3>3. Verdicts'  BY <3>1 DEF Verdicts, VerdictInv, Unknown
    <3>4. Promise!Forget  BY <3>1, <3>2 DEF Promise!Forget
    <3> QED  BY <3>3, <3>4 DEF Promise!Next
  <2>3. ASSUME NEW i \in Job,
               \/ \E op \in Kind, c \in Checkpoint, n \in 0..MaxLines : Begin(i, op, c, n)
               \/ \E n \in 0..MaxLines : BeginNothing(i, n)
               \/ JobStep(i) \/ CallRefused(i) \/ GiveUp(i) \/ Poll(i) \/ PollFails(i)
        PROVE  Verdicts' /\ [Promise!Next]_(Promise!life)
    <3>1. Only(i) /\ VerdictInv(i)' /\ Moves(i)  BY <1>3, <2>3, StartMoves, JobMoves
    <3>2. Verdicts'  BY <1>3, <3>1 DEF Verdicts, VerdictInv, Only
    <3> QED  BY <1>3, <3>1, <3>2, MovePromised
  <2> QED  BY <1>3, <2>1, <2>2, <2>3, SidecarQuiet
<1> QED  BY <1>1, <1>2, <1>3, SpecInv, PTL DEF Spec, RunsAsPromised, Promise!Spec
=============================================================================
