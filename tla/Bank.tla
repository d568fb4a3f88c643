-------------------------------- MODULE Bank --------------------------------
(***************************************************************************)
(* The prompt bank of one project (backend/inference/bank.py) and the       *)
(* sidecar calls that use it (backend/inference/service.py).                *)
(*                                                                         *)
(* A bank is two files: embeddings.pt with the vectors of each class and    *)
(* metadata.json with their provenance and the model the bank is locked to. *)
(* Every write rewrites both, one after the other, under the bank's file    *)
(* lock.  The constructor, which every call runs first, reads both, one     *)
(* after the other, without it.  The API keeps two saves of a project       *)
(* apart, but a teach outlives a request that was cancelled, and a reembed  *)
(* takes no part in that lock, so the calls here interleave freely.         *)
(*                                                                         *)
(* A vector stands for the model that extracted it; the order of the        *)
(* classes is in module ClassLists.                                         *)
(***************************************************************************)
EXTENDS Integers, Sequences, FiniteSets

CONSTANTS
  Class,        \* the class names drawn
  Model,        \* the checkpoints of the catalog
  Default,      \* DEFAULT_MODEL_ID
  Thread,       \* the sidecar's worker threads
  Ops,          \* which endpoints are called
  MaxVectors,   \* bound: no teach begins with this many vectors in the bank
  Faults,       \* the lock, a read or an extraction may fail
  WriteFaults,  \* a write may fail
  Crashes,      \* the sidecar process may die
  NoModel,      \* the model of a bank that has none
  NoThread      \* the holder of a free file lock

ASSUME BankAssumption ==
  /\ IsFiniteSet(Class)
  /\ Default \in Model
  /\ Ops \subseteq {"teach", "reembed", "read"}
  /\ MaxVectors \in Nat
  /\ Faults \in BOOLEAN
  /\ WriteFaults \in BOOLEAN
  /\ Crashes \in BOOLEAN
  /\ NoModel \notin Model
  /\ NoThread \notin Thread

VARIABLES
  emb,          \* embeddings.pt: the vectors in it or being written to it, and
                \* whether it is whole
  meta,         \* metadata.json: instances per class, model, and the same
  lock,         \* who holds _bank/.lock
  pc,           \* where each thread is
  req,          \* what each thread was asked
  mem,          \* the attributes of each thread's Bank object
  work,         \* the model and the counts of a thread's new vectors
  skipped       \* history: a call went on with vectors and no model in the bank

files == <<emb, meta>>
vars == <<files, lock, pc, req, mem, work, skipped>>

Vectors == [Class -> Seq(Model)]
Counts == [Class -> Nat]
NoVectors == [c \in Class |-> <<>>]
NoCounts == [c \in Class |-> 0]
AnyModel == Model \cup {NoModel}

Request == [op : Ops, model : Model, todo : SUBSET Class]
NoRequest == [op |-> "none", model |-> NoModel, todo |-> {}]
Blank == [vec |-> NoVectors, inst |-> NoCounts, model |-> NoModel]
NoWork == [model |-> NoModel, counts |-> NoCounts]

Saving == {"emb", "emb2", "meta", "meta2"}
Steps == {"idle", "load", "load2", "migrate", "lock_model", "add", "plan", "commit",
          "use"} \cup Saving

\* Bank.classes: the keys of the embeddings.
Classes(vec) == {c \in Class : vec[c] # <<>>}
CountsOf(vec) == [c \in Class |-> Len(vec[c])]
AllFrom(vec, m) == \A c \in Class : \A k \in DOMAIN vec[c] : vec[c][k] = m
Size(vec) == Cardinality({p \in Class \X (1..MaxVectors) : p[2] \in DOMAIN vec[p[1]]})

\* A fresh bank, or one written before models could be chosen.
LegacyBank == [c \in Class |-> IF c = CHOOSE d \in Class : TRUE THEN <<Default>> ELSE <<>>]

Init ==
  /\ \E vec \in {NoVectors, LegacyBank} :
       /\ emb = [whole |-> TRUE, vec |-> vec]
       /\ meta = [whole |-> TRUE, inst |-> CountsOf(vec), model |-> NoModel]
  /\ lock = NoThread
  /\ pc = [t \in Thread |-> "idle"]
  /\ req = [t \in Thread |-> NoRequest]
  /\ mem = [t \in Thread |-> Blank]
  /\ work = [t \in Thread |-> NoWork]
  /\ skipped = FALSE

-----------------------------------------------------------------------------
Goto(t, step) == pc' = [pc EXCEPT ![t] = step]

\* The call returns, with a result or an exception.
Leave(t) ==
  /\ Goto(t, "idle")
  /\ req' = [req EXCEPT ![t] = NoRequest]
  /\ mem' = [mem EXCEPT ![t] = Blank]
  /\ work' = [work EXCEPT ![t] = NoWork]

\* It does so without having written.  What it raises under the lock before it
\* writes (a file that is not whole, a refusal) leaves the lock free again, so
\* the step that does does not take it.
End(t) == Leave(t) /\ UNCHANGED <<files, lock, skipped>>

\* A file cut short or caught half-written cannot be parsed.
Whole == emb.whole /\ meta.whole
Load == [vec |-> emb.vec, inst |-> meta.inst, model |-> meta.model]

\* What is left on disk when the writing of a file stops halfway: nothing of it.
CutShort ==
  /\ emb' = IF emb.whole THEN emb ELSE [whole |-> FALSE, vec |-> NoVectors]
  /\ meta' = IF meta.whole THEN meta
             ELSE [whole |-> FALSE, inst |-> NoCounts, model |-> NoModel]

\* Where a call goes once its Bank object is there.
Ready(t) == CASE req[t].op = "teach" -> "lock_model"
              [] req[t].op = "reembed" -> "plan"
              [] OTHER -> "use"

\* Take the lock, change what is on disk in memory, begin to write it back.
Save(t, bank) ==
  /\ lock = NoThread
  /\ lock' = t
  /\ mem' = [mem EXCEPT ![t] = bank]
  /\ Goto(t, "emb")
  /\ UNCHANGED <<files, skipped>>

Arrive(t) ==
  /\ pc[t] = "idle"
  /\ \E r \in Request :
       /\ r.op = "teach" <=> r.todo # {}
       /\ r.op = "teach" => Size(emb.vec) < MaxVectors
       /\ r.op = "read" => r.model = Default
       /\ req' = [req EXCEPT ![t] = r]
  /\ Goto(t, "load")
  /\ UNCHANGED <<files, lock, mem, work, skipped>>

(***************************************************************************)
(* The constructor: _load without the lock, then _migrate_missing_model.    *)
(***************************************************************************)
ReadEmb(t) ==
  /\ pc[t] = "load"
  /\ IF emb.whole
     THEN /\ mem' = [mem EXCEPT ![t].vec = emb.vec]
          /\ Goto(t, "load2")
          /\ UNCHANGED <<files, lock, req, work, skipped>>
     ELSE End(t)

ReadMeta(t) ==
  /\ pc[t] = "load2"
  /\ IF meta.whole
     THEN /\ mem' = [mem EXCEPT ![t].inst = meta.inst, ![t].model = meta.model]
          /\ Goto(t, IF meta.model = NoModel /\ Classes(mem[t].vec) # {}
                     THEN "migrate" ELSE Ready(t))
          /\ UNCHANGED <<files, lock, req, work, skipped>>
     ELSE End(t)

Migrate(t) ==
  /\ pc[t] = "migrate" /\ lock = NoThread
  /\ IF ~Whole THEN End(t)
     ELSE /\ IF meta.model = NoModel /\ Classes(emb.vec) # {}
             THEN Save(t, [Load EXCEPT !.model = Default])
             ELSE /\ mem' = [mem EXCEPT ![t] = Load]
                  /\ Goto(t, Ready(t))
                  /\ UNCHANGED <<files, lock, skipped>>
          /\ UNCHANGED <<req, work>>

\* An OSError before anything is written is swallowed, and the call goes on with
\* what its constructor read.
MigrateFails(t) ==
  /\ Faults
  /\ pc[t] = "migrate"
  /\ skipped' = (skipped \/ meta.model = NoModel)
  /\ Goto(t, Ready(t))
  /\ UNCHANGED <<files, lock, req, mem, work>>

(***************************************************************************)
(* teach: lock_model, then extract and add, class by class.                 *)
(***************************************************************************)

\* Deliberate bug: lock_model trusts what the constructor read.
LockModelStale(t) ==
  /\ pc[t] = "lock_model" /\ lock = NoThread
  /\ IF mem[t].model \notin {NoModel, req[t].model} THEN End(t)
     ELSE /\ IF mem[t].model = NoModel
             THEN Save(t, [Load EXCEPT !.model = req[t].model])
             ELSE Goto(t, "add") /\ UNCHANGED <<files, lock, mem, skipped>>
          /\ work' = [work EXCEPT ![t].model = req[t].model]
          /\ UNCHANGED req

LockModel(t) ==
  /\ pc[t] = "lock_model" /\ lock = NoThread
  /\ IF ~Whole \/ meta.model \notin {NoModel, req[t].model} THEN End(t)
     ELSE /\ IF meta.model = NoModel
             THEN Save(t, [Load EXCEPT !.model = req[t].model])
             ELSE /\ mem' = [mem EXCEPT ![t] = Load]
                  /\ Goto(t, "add")
                  /\ UNCHANGED <<files, lock, skipped>>
          /\ work' = [work EXCEPT ![t].model = req[t].model]
          /\ UNCHANGED req

\* The vector was extracted with the model lock_model returned; the bank it is
\* added to is read again.
Add(t) ==
  /\ pc[t] = "add" /\ lock = NoThread
  /\ IF ~Whole THEN End(t)
     ELSE \E c \in req[t].todo :
            /\ Save(t, [Load EXCEPT !.vec[c] = Append(@, work[t].model), !.inst[c] = @ + 1])
            /\ req' = [req EXCEPT ![t].todo = @ \ {c}]
            /\ UNCHANGED work

(***************************************************************************)
(* reembed_stream: re-extract every instance the constructor saw, commit.   *)
(***************************************************************************)
Plan(t) ==
  /\ pc[t] = "plan"
  /\ IF mem[t].model \in {NoModel, req[t].model} THEN End(t)
     ELSE /\ work' = [work EXCEPT ![t] =
                        [model |-> req[t].model,
                         counts |-> [c \in Class |-> IF c \in Classes(mem[t].vec)
                                                     THEN mem[t].inst[c] ELSE 0]]]
          /\ Goto(t, "commit")
          /\ UNCHANGED <<files, lock, req, mem, skipped>>

Swapped(t) == [c \in Class |-> [k \in 1..work[t].counts[c] |-> work[t].model]]

\* Deliberate bug: reembed commits whatever it extracted.
CommitAnything(t) ==
  /\ pc[t] = "commit" /\ lock = NoThread
  /\ IF ~Whole THEN End(t)
     ELSE /\ Save(t, [Load EXCEPT !.vec = Swapped(t), !.model = work[t].model])
          /\ UNCHANGED <<req, work>>

\* Exactly the bank's classes, each with the count on disk now, or nothing.
Commit(t) ==
  /\ pc[t] = "commit" /\ lock = NoThread
  /\ IF ~Whole \/ work[t].counts # CountsOf(emb.vec) THEN End(t)
     ELSE /\ Save(t, [Load EXCEPT !.vec = Swapped(t), !.model = work[t].model])
          /\ UNCHANGED <<req, work>>

(***************************************************************************)
(* _save: torch.save, then write_text.  Each opens (and empties) its file   *)
(* and fills it; the lock is released after the second.                     *)
(***************************************************************************)
OpenEmb(t) ==
  /\ pc[t] = "emb"
  /\ emb' = [whole |-> FALSE, vec |-> mem[t].vec]
  /\ Goto(t, "emb2")
  /\ UNCHANGED <<meta, lock, req, mem, work, skipped>>

\* Deliberate bug: the lock covers one file.
CloseEmbEarly(t) ==
  /\ pc[t] = "emb2"
  /\ emb' = [emb EXCEPT !.whole = TRUE]
  /\ lock' = NoThread
  /\ Goto(t, "meta")
  /\ UNCHANGED <<meta, req, mem, work, skipped>>

CloseEmb(t) ==
  /\ pc[t] = "emb2"
  /\ emb' = [emb EXCEPT !.whole = TRUE]
  /\ Goto(t, "meta")
  /\ UNCHANGED <<meta, lock, req, mem, work, skipped>>

OpenMeta(t) ==
  /\ pc[t] = "meta"
  /\ meta' = [whole |-> FALSE, inst |-> mem[t].inst, model |-> mem[t].model]
  /\ Goto(t, "meta2")
  /\ UNCHANGED <<emb, lock, req, mem, work, skipped>>

\* What follows the save: the rest of the constructor's caller, or of teach.
Resume(t) == IF work[t].model = NoModel THEN Ready(t)
             ELSE IF req[t].op = "teach" /\ req[t].todo # {} THEN "add"
             ELSE "use"

CloseMeta(t) ==
  /\ pc[t] = "meta2"
  /\ meta' = [meta EXCEPT !.whole = TRUE]
  /\ lock' = NoThread
  /\ Goto(t, Resume(t))
  /\ UNCHANGED <<emb, req, mem, work, skipped>>

\* torch.save or write_text raises, when it opens its file or in the middle of
\* it.  The lock comes free; a migration swallows the exception and its call
\* goes on if it is an OSError, any other ends the call.
Raise(t) ==
  \/ Leave(t) /\ UNCHANGED skipped
  \/ /\ work[t].model = NoModel
     /\ skipped' = TRUE
     /\ Goto(t, Ready(t))
     /\ UNCHANGED <<req, mem, work>>

\* Deliberate bug: the lock is no context manager and stays taken.
WriteFailsKeep(t) ==
  /\ WriteFaults
  /\ pc[t] \in Saving
  /\ CutShort
  /\ Raise(t)
  /\ UNCHANGED lock

WriteFails(t) ==
  /\ WriteFaults
  /\ pc[t] \in Saving
  /\ CutShort
  /\ Raise(t)
  /\ lock' = NoThread

-----------------------------------------------------------------------------
\* The call computes its answer (classes_summary, mean_vpe) from its own copy.
Answer(t) == pc[t] = "use" /\ End(t)

\* A file or an image cannot be read, the lock cannot be taken, an extraction
\* fails: the call ends with the exception.
CallFails(t) ==
  /\ Faults
  /\ pc[t] \in {"load", "load2", "lock_model", "add", "commit"}
  /\ End(t)

\* The process dies: the kernel drops its file lock, a file that was being
\* written is lost.
Crash ==
  /\ Crashes
  /\ CutShort
  /\ lock' = NoThread
  /\ pc' = [t \in Thread |-> "idle"]
  /\ req' = [t \in Thread |-> NoRequest]
  /\ mem' = [t \in Thread |-> Blank]
  /\ work' = [t \in Thread |-> NoWork]
  /\ UNCHANGED skipped

WriteOut(t) == OpenEmb(t) \/ CloseEmb(t) \/ OpenMeta(t) \/ CloseMeta(t)

Next ==
  \/ \E t \in Thread :
       \/ Arrive(t) \/ ReadEmb(t) \/ ReadMeta(t) \/ Migrate(t) \/ MigrateFails(t)
       \/ LockModel(t) \/ Add(t) \/ Plan(t) \/ Commit(t)
       \/ WriteOut(t) \/ WriteFails(t) \/ Answer(t) \/ CallFails(t)
  \/ Crash

Spec == Init /\ [][Next]_vars

\* A thread that can go on goes on, and one that polls for the lock finds it free
\* some time if it keeps coming free.
Unlocked(t) == ReadEmb(t) \/ ReadMeta(t) \/ Plan(t) \/ WriteOut(t) \/ Answer(t)
Locking(t) == Migrate(t) \/ LockModel(t) \/ Add(t) \/ Commit(t)

Fairness == \A t \in Thread : WF_vars(Unlocked(t)) /\ SF_vars(Locking(t))

FairSpec == Spec /\ Fairness

-----------------------------------------------------------------------------
(***************************************************************************)
(* Properties.                                                              *)
(***************************************************************************)

\* Every variable has its type, and a thread without a request has no state.
TypeOK ==
  /\ emb \in [whole : BOOLEAN, vec : Vectors]
  /\ meta \in [whole : BOOLEAN, inst : Counts, model : AnyModel]
  /\ lock \in Thread \cup {NoThread}
  /\ pc \in [Thread -> Steps]
  /\ req \in [Thread -> Request \cup {NoRequest}]
  /\ mem \in [Thread -> [vec : Vectors, inst : Counts, model : AnyModel]]
  /\ work \in [Thread -> [model : AnyModel, counts : Counts]]
  /\ skipped \in BOOLEAN
  /\ \A t \in Thread : pc[t] = "idle" <=> req[t] = NoRequest

\* The two files tell the same story whenever nobody is writing them: as many
\* vectors of a class as instances (bank.py: both are written under the lock,
\* after a fresh read, so no writer undoes half of another's work).
FilesAgree ==
  lock = NoThread => Whole /\ meta.inst = CountsOf(emb.vec)

\* No call loses a vector another one added: not a teach that read the bank
\* before, not a reembed that extracted an older bank (bank.py: add re-reads,
\* reembed refuses a count that is not the one on disk).  Vectors go only with
\* the whole file, when a crash or a failing write cuts it short.
NothingForgotten ==
  [][\/ \A c \in Class : Len(emb'.vec[c]) >= Len(emb.vec[c])
     \/ lock' = NoThread /\ ~emb'.whole]_vars

\* The model a call has decided on counts from its first write on.
ModelNow == IF lock # NoThread /\ pc[lock] \in {"emb2", "meta"}
            THEN mem[lock].model ELSE meta.model

Atomic == INSTANCE AtomicBank WITH vec <- emb.vec, model <- ModelNow

\* However the calls interleave, the bank changes as if each write were one
\* step of one bank: a model is chosen once, for an empty bank or the default
\* one, no vector is lost, and a reembed replaces exactly the vectors there are
\* together with the model (bank.py: lock_model, add and reembed read again
\* under the lock).  Only after a migration that failed and was passed over may
\* a bank with vectors be locked to any model.
OneAtATime == Atomic!Spec

\* Every vector comes from the model the bank is locked to, whichever of two
\* first saves with different models wins, through failing writes and crashes,
\* and also for a bank that predates the lock, as long as no call went on
\* without its migration (bank.py, lock_model and _migrate_missing_model).
OneSpace ==
  ~skipped /\ lock = NoThread /\ meta.model # NoModel => AllFrom(emb.vec, meta.model)

\* Every call comes to an end, whatever fails under the bank's file lock and
\* whoever dies holding it (bank.py, "with self.lock" in five methods).
EveryCallEnds == \A t \in Thread : pc[t] # "idle" ~> pc[t] = "idle"
=============================================================================
