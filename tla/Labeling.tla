------------------------------ MODULE Labeling ------------------------------
(***************************************************************************)
(* One project of CT-Flow: the API's label, relabel and test-set handlers, *)
(* its autolabel jobs, the database rows they write and the prompt bank    *)
(* the inference sidecar writes for them.                                  *)
(*                                                                         *)
(* A handler is a sequence of steps, one per call it makes that other      *)
(* requests can see.  A database transaction is one step: every write      *)
(* begins with requireProject, which locks the project's row until commit. *)
(* The bank is written by the sidecar, one class at a time under the       *)
(* bank's file lock.  The two stores share no transaction.                 *)
(***************************************************************************)
EXTENDS ClassLists

CONSTANTS
  Image,        \* the images of the project's folder
  Request,      \* slots for HTTP requests in flight
  Job,          \* slots for autolabel jobs in flight
  Ops,          \* which handlers clients call
  MaxBoxes,     \* bound: the most classes one drawing names
  Faults,       \* calls may fail, clients disconnect, the API restart
  Reopens,      \* the project may be deleted and opened again
  NoCall,       \* the call of an idle slot
  NoRequest     \* the holder of a free ProjectLock

ASSUME LabelingAssumption ==
  /\ Ops \subseteq {"label", "relabel", "testset"}
  /\ MaxBoxes \in Nat
  /\ Faults \in BOOLEAN
  /\ Reopens \in BOOLEAN
  /\ NoRequest \notin Request

Kind == {"pool", "testset"}
Drawn == Drawings(MaxBoxes)
Box == [cls : Class, by : {"user", "model"}]
Call == [op : Ops, image : Image, drawn : Drawn, update : BOOLEAN]

ASSUME NoCallAssumption == NoCall \notin Call

VARIABLES
  (* The database: what the project's row owns. *)
  project,      \* the project's row exists
  classes,      \* per kind, table classes
  boxes,        \* per kind and image, table annotations
  status,       \* images.status of the pool rows; no row counts as unlabeled
  testset,      \* the images that have a row of kind testset
  (* The bank's files. *)
  bank,         \* the classes of embeddings.pt, in insertion order
  taught,       \* metadata.json: which image taught which class
  (* The API process. *)
  holder,       \* who holds the project's lock in ProjectLock
  pc,           \* where each request is
  call,         \* what each request asked for
  job,          \* the autolabel jobs
  (* The sidecar process. *)
  teaching      \* what each running /vpe/teach has yet to add

db == <<project, classes, boxes, status, testset>>
bankFiles == <<bank, taught>>
vars == <<db, bankFiles, holder, pc, call, job, teaching>>

NoJob == [at |-> "idle", targets |-> {}, names |-> {}, wrote |-> {}]
JobRecord == [at : {"idle", "arm", "stream"}, targets : SUBSET Image,
              names : SUBSET Class, wrote : SUBSET Image]

(* The steps of SaveLabel that run with the project's lock held. *)
Critical == {"teach", "write", "mark", "reply"}
Steps == {"idle", "lock", "check"} \cup Critical

NoBoxes == [k \in Kind |-> [i \in Image |-> {}]]
NoClasses == [k \in Kind |-> EmptyList]
AllUnlabeled == [i \in Image |-> "unlabeled"]

Init ==
  /\ project = TRUE
  /\ classes = NoClasses
  /\ boxes = NoBoxes
  /\ status = AllUnlabeled
  /\ testset = {}
  /\ bank = EmptyList
  /\ taught = {}
  /\ holder = NoRequest
  /\ pc = [r \in Request |-> "idle"]
  /\ call = [r \in Request |-> NoCall]
  /\ job = [j \in Job |-> NoJob]
  /\ teaching = [r \in Request |-> <<>>]

-----------------------------------------------------------------------------
(***************************************************************************)
(* Transactions of store.go.  A definition whose comment says "deliberate   *)
(* bug" is no part of the specification: it stands before the definition    *)
(* it is a wrong version of, and shows that a property notices the          *)
(* difference.                                                              *)
(***************************************************************************)

IsTest(i) == i \in testset

\* Deliberate bug: a write creates the row it misses, as before Phase 2.
AnyFolder == TRUE

\* Every write transaction begins here and fails when the row is gone.
RequireProject == project

\* Replace or extend an image's boxes and register their classes.  A test-set
\* image without a row gets one; the status is left to the caller.
WriteBoxes(kind, i, drawn, by, merge) ==
  /\ classes' = [classes EXCEPT ![kind] = Register(@, drawn)]
  /\ boxes' = [boxes EXCEPT ![kind][i] =
                 (IF merge THEN @ ELSE {}) \cup [cls : Names(drawn), by : {by}]]
  /\ testset' = IF kind = "testset" THEN testset \cup {i} ELSE testset
  /\ UNCHANGED <<project, status>>

MarkLabeled(i) ==
  /\ status' = [status EXCEPT ![i] = "labeled"]
  /\ UNCHANGED <<project, classes, boxes, testset>>

\* Deliberate bug: the bare assignment MarkAuto's comment warns of.
MarkAutoBare(S) == status' = [i \in Image |-> IF i \in S THEN "auto" ELSE status[i]]

MarkAuto(S) ==
  status' = [i \in Image |-> IF i \in S /\ status[i] = "unlabeled" THEN "auto" ELSE status[i]]

-----------------------------------------------------------------------------
(***************************************************************************)
(* Requests.  An arriving request that the handler refuses (bad drawing,    *)
(* image in the wrong set) changes nothing and is not a step.               *)
(***************************************************************************)

Begin(r, c, step) ==
  /\ pc[r] = "idle"
  /\ teaching[r] = <<>>
  /\ pc' = [pc EXCEPT ![r] = step]
  /\ call' = [call EXCEPT ![r] = c]
  /\ UNCHANGED <<db, bankFiles, holder, job, teaching>>

Goto(r, step) == /\ pc[r] # "idle"
                 /\ pc' = [pc EXCEPT ![r] = step]
                 /\ UNCHANGED call

\* Deliberate bug: a return that skips the deferred unlock.
EndLocked(r) ==
  /\ pc' = [pc EXCEPT ![r] = "idle"]
  /\ call' = [call EXCEPT ![r] = NoCall]
  /\ UNCHANGED holder

\* The handler returns, with success or an error; defer unlock() runs.
End(r) ==
  /\ pc' = [pc EXCEPT ![r] = "idle"]
  /\ call' = [call EXCEPT ![r] = NoCall]
  /\ holder' = IF holder = r THEN NoRequest ELSE holder

\* POST /api/label: a drawing of a pool image that is not held out.
SaveLabel(r, c) ==
  /\ c.op = "label" /\ c.drawn # <<>> /\ ~IsTest(c.image)
  /\ Begin(r, c, "lock")

\* POST /api/relabel: the same check, and no lock afterwards.
Relabel(r, c) ==
  /\ c.op = "relabel" /\ ~IsTest(c.image)
  /\ Begin(r, c, "check")

\* POST /api/testset/label: ground truth for a held-out image.
TestsetLabel(r, c) ==
  /\ c.op = "testset" /\ c.drawn # <<>> /\ IsTest(c.image)
  /\ Begin(r, c, "write")

Arrive(r) == \E c \in Call : SaveLabel(r, c) \/ Relabel(r, c) \/ TestsetLabel(r, c)

\* The handler holds the lock (or takes it) and posts its boxes to /vpe/teach.
Teaching(r) ==
  /\ pc[r] = "lock"
  /\ holder' = r
  /\ teaching' = [teaching EXCEPT ![r] =
                    [k \in DOMAIN call[r].drawn |-> <<call[r].image, call[r].drawn[k]>>]]
  /\ Goto(r, "teach")
  /\ UNCHANGED <<db, bankFiles, job>>

\* ProjectLock.Lock(inputDir) returns once no other save holds the lock.
Lock(r) == holder = NoRequest /\ Teaching(r)

(***************************************************************************)
(* The sidecar's teach: one bank.add per class.  It runs in its own process *)
(* and to its end, also when the handler that asked has given up.           *)
(***************************************************************************)
TeachNext(r) ==
  /\ teaching[r] # <<>>
  /\ bank' = Register(bank, <<Head(teaching[r])[2]>>)
  /\ taught' = taught \cup {Head(teaching[r])}
  /\ teaching' = [teaching EXCEPT ![r] = Tail(@)]
  /\ UNCHANGED <<db, holder, pc, call, job>>

TeachDone(r) ==
  /\ pc[r] = "teach" /\ teaching[r] = <<>>
  /\ Goto(r, "write")
  /\ UNCHANGED <<db, bankFiles, holder, job, teaching>>

\* Lock conflict, failed extraction or a sidecar crash: what was added stays.
TeachFails(r) ==
  /\ Faults
  /\ teaching[r] # <<>>
  /\ teaching' = [teaching EXCEPT ![r] = <<>>]
  /\ IF pc[r] = "teach" THEN End(r) ELSE UNCHANGED <<pc, call, holder>>
  /\ UNCHANGED <<db, bankFiles, job>>

\* Deliberate bug: relabel without the unknown-class check.
CheckNothing(r) ==
  /\ pc[r] = "check"
  /\ Goto(r, "write")
  /\ UNCHANGED <<db, bankFiles, holder, job, teaching>>

\* Relabel reads the bank: a class it does not know is refused.
Check(r) ==
  /\ pc[r] = "check"
  /\ IF Names(call[r].drawn) \subseteq Known(bank)
     THEN Goto(r, "write") /\ UNCHANGED holder
     ELSE End(r)
  /\ UNCHANGED <<db, bankFiles, job, teaching>>

Write(r) ==
  /\ pc[r] = "write" /\ RequireProject
  /\ LET c == call[r]
         kind == IF c.op = "testset" THEN "testset" ELSE "pool"
     IN  /\ WriteBoxes(kind, c.image, c.drawn, "user", c.update)
         /\ Goto(r, IF kind = "pool" THEN "mark" ELSE "reply")
  /\ UNCHANGED <<bankFiles, holder, job, teaching>>

Mark(r) ==
  /\ pc[r] = "mark" /\ RequireProject
  /\ MarkLabeled(call[r].image)
  /\ Goto(r, "reply")
  /\ UNCHANGED <<bankFiles, holder, job, teaching>>

Reply(r) ==
  /\ pc[r] = "reply"
  /\ End(r)
  /\ UNCHANGED <<db, bankFiles, job, teaching>>

\* The client disconnects or a call fails: the handler returns and rolls back
\* the transaction it is in, not the earlier ones, and not the sidecar's work.
\* A write that finds no project fails in any case.
Fail(r) ==
  /\ \/ Faults /\ pc[r] \in Critical \cup {"check"}
     \/ ~RequireProject /\ pc[r] \in {"write", "mark"}
  /\ End(r)
  /\ UNCHANGED <<db, bankFiles, job, teaching>>

-----------------------------------------------------------------------------
(***************************************************************************)
(* Autolabel.  The handler needs a taught bank and drops the held-out       *)
(* images of the batch; the rest runs in a goroutine of its own.            *)
(***************************************************************************)

\* requireBank and dropTestImages, the two reads before the job exists.
Autolabel(j, batch) ==
  /\ job[j].at = "idle" /\ Known(bank) # {}
  /\ job' = [job EXCEPT ![j] = [NoJob EXCEPT !.at = "arm", !.targets = batch \ testset]]
  /\ UNCHANGED <<db, bankFiles, holder, pc, call, teaching>>

\* /vpe/predict_stream reads the bank once, for the whole batch.
Arm(j) ==
  /\ job[j].at = "arm"
  /\ job' = [job EXCEPT ![j].at = "stream", ![j].names = Known(bank)]
  /\ UNCHANGED <<db, bankFiles, holder, pc, call, teaching>>

\* One line of the stream: what the armed model finds on the next image.
Line(j, i, found) ==
  /\ job[j].at = "stream" /\ i \in job[j].targets
  /\ Names(found) \subseteq job[j].names
  /\ IF found = <<>>
     THEN /\ job' = [job EXCEPT ![j].targets = @ \ {i}]
          /\ UNCHANGED db
     ELSE /\ RequireProject
          /\ job' = [job EXCEPT ![j].targets = @ \ {i}, ![j].wrote = @ \cup {i}]
          /\ WriteBoxes("pool", i, found, "model", FALSE)
  /\ UNCHANGED <<bankFiles, holder, pc, call, teaching>>

\* After the last line: MarkAuto for every image the job wrote.
Finish(j) ==
  /\ job[j].at = "stream" /\ job[j].targets = {}
  /\ job[j].wrote = {} \/ RequireProject
  /\ MarkAuto(job[j].wrote)
  /\ job' = [job EXCEPT ![j] = NoJob]
  /\ UNCHANGED <<project, classes, boxes, testset, bankFiles, holder, pc, call, teaching>>

JobFails(j) ==
  /\ job[j].at # "idle"
  /\ Faults \/ ~RequireProject
  /\ job' = [job EXCEPT ![j] = NoJob]
  /\ UNCHANGED <<db, bankFiles, holder, pc, call, teaching>>

-----------------------------------------------------------------------------
(***************************************************************************)
(* One-transaction handlers, and the API process itself.                    *)
(***************************************************************************)

TestsetImport(S) ==
  /\ RequireProject
  /\ testset' = testset \cup S
  /\ UNCHANGED <<project, classes, boxes, status, bankFiles, holder, pc, call, job, teaching>>

\* Deliberate bug: the row goes and its ground truth stays.
RemoveRows(S) ==
  /\ RequireProject
  /\ testset' = testset \ S
  /\ UNCHANGED <<project, classes, boxes, status, bankFiles, holder, pc, call, job, teaching>>

TestsetRemove(S) ==
  /\ RequireProject
  /\ testset' = testset \ S
  /\ boxes' = [boxes EXCEPT !["testset"] = [i \in Image |-> IF i \in S THEN {} ELSE @[i]]]
  /\ UNCHANGED <<project, classes, status, bankFiles, holder, pc, call, job, teaching>>

\* EnsureProject: a new row, unless there is one.  The bank is not looked at.
OpenSession ==
  /\ Reopens /\ ~project
  /\ project' = TRUE
  /\ UNCHANGED <<classes, boxes, status, testset, bankFiles, holder, pc, call, job, teaching>>

\* DELETE cascades to classes, images and annotations; the bank stays.
DeleteProject ==
  /\ Reopens /\ project
  /\ project' = FALSE
  /\ classes' = NoClasses
  /\ boxes' = NoBoxes
  /\ status' = AllUnlabeled
  /\ testset' = {}
  /\ UNCHANGED <<bankFiles, holder, pc, call, job, teaching>>

\* Requests, jobs and the lock live in memory; the sidecar carries on.
Restart ==
  /\ Faults
  /\ holder' = NoRequest
  /\ pc' = [r \in Request |-> "idle"]
  /\ call' = [r \in Request |-> NoCall]
  /\ job' = [j \in Job |-> NoJob]
  /\ UNCHANGED <<db, bankFiles, teaching>>

-----------------------------------------------------------------------------
RequestStep(r) == \/ Lock(r) \/ TeachNext(r) \/ TeachDone(r) \/ Check(r)
                  \/ Write(r) \/ Mark(r) \/ Reply(r)

JobStep(j) == \/ Arm(j)
              \/ \E i \in Image, found \in Drawn : Line(j, i, found)
              \/ Finish(j)

Next ==
  \/ \E r \in Request : Arrive(r) \/ RequestStep(r) \/ TeachFails(r) \/ Fail(r)
  \/ \E j \in Job : \/ \E batch \in SUBSET Image : Autolabel(j, batch)
                    \/ JobStep(j)
                    \/ JobFails(j)
  \/ \E S \in SUBSET Image : TestsetImport(S) \/ TestsetRemove(S)
  \/ OpenSession
  \/ DeleteProject
  \/ Restart

Spec == Init /\ [][Next]_vars

\* A handler runs until it returns and the sidecar until a teach is done.  A
\* sync.Mutex hands over to a waiter that has waited too long (starvation
\* mode), so a waiter that keeps finding the lock free in between gets it.
Fairness ==
  \A r \in Request :
    /\ SF_vars(Lock(r))
    /\ WF_vars(TeachNext(r) \/ TeachDone(r) \/ Check(r) \/ Write(r) \/ Mark(r) \/ Reply(r))
    /\ WF_vars(Fail(r) /\ ~RequireProject)

FairSpec == Spec /\ Fairness

-----------------------------------------------------------------------------
(***************************************************************************)
(* Properties.                                                              *)
(***************************************************************************)

\* Every variable has its type, a slot has a call while it is busy, and a
\* running job or request is in a state its handler has.
TypeOK ==
  /\ project \in BOOLEAN
  /\ classes \in [Kind -> ClassList]
  /\ boxes \in [Kind -> [Image -> SUBSET Box]]
  /\ status \in [Image -> {"unlabeled", "auto", "labeled"}]
  /\ testset \subseteq Image
  /\ bank \in ClassList
  /\ taught \subseteq Image \X Class
  /\ holder \in Request \cup {NoRequest}
  /\ pc \in [Request -> Steps]
  /\ call \in [Request -> Call \cup {NoCall}]
  /\ \A r \in Request : call[r] = NoCall <=> pc[r] = "idle"
  /\ job \in [Job -> JobRecord]
  /\ teaching \in [Request -> Seq(Image \X Class)]

\* A label never names a class the model has no prompt for: whatever the order
\* of saves, reviews, jobs, failures, restarts and project deletions, a class
\* of the pool's list is one the bank was taught (label.go: the bank is taught
\* before the database is written, relabel checks the bank, autolabel writes
\* what the bank's own classes found).
PoolClassesTaught == Known(classes["pool"]) \subseteq Known(bank)

\* An image a person decided stays labeled until the project is deleted, also
\* when a job that had it in its batch finishes later (store.go, MarkAuto).
HumanDecisionKept ==
  [][\A i \in Image : status[i] = "labeled" => status'[i] = "labeled" \/ ~project']_vars

\* A request or a job that outlives its project writes nothing: deleting the
\* project empties its tables for good, until it is opened again on purpose
\* (store.go, ErrNoProject).
NoRowsWithoutProject ==
  ~project => /\ classes = NoClasses /\ boxes = NoBoxes
              /\ status = AllUnlabeled /\ testset = {}

\* The project's lock belongs to the one save between its Lock and its return,
\* and every way out of the handler gives it back (label.go, defer unlock).
LockDiscipline ==
  \A r \in Request :
    holder = r <=> pc[r] \in Critical /\ call[r].op = "label"

\* Ground truth exists only for images of the benchmark set, however labelling
\* an image of it races its removal (store.go, UnmarkTest: the row and its boxes
\* go together; WriteBoxes: boxes come with their row).
GroundTruthHeldOut == \A i \in Image : boxes["testset"][i] # {} => i \in testset

\* The database lists the pool's classes in the order the bank learnt them
\* (projectlock.go: the two can never observe a new class in a different order).
ClassOrderAgrees ==
  \A c, d \in Known(classes["pool"]) :
    classes["pool"][c] < classes["pool"][d] => bank[c] < bank[d]

\* An image teaches the model nothing while it is in the benchmark set
\* (label.go, testSetRefusal: it can never be taught to the model).
HeldOutNeverTaught ==
  [][\A i \in testset, c \in Class : <<i, c>> \in taught' => <<i, c>> \in taught]_vars

\* Every request is answered, also those that queue for the project's lock.
EveryRequestAnswered == \A r \in Request : pc[r] # "idle" ~> pc[r] = "idle"
=============================================================================
