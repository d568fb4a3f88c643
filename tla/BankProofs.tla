----------------------------- MODULE BankProofs -----------------------------
(***************************************************************************)
(* What the bank's file lock guarantees, for every number of threads,       *)
(* classes and models.                                                      *)
(***************************************************************************)
EXTENDS Bank, TLAPS

BankObject == [vec : Vectors, inst : Counts, model : AnyModel]

\* The thread that holds the lock is the one that is writing; before it writes
\* the vectors they have only grown, before it writes the model the vectors of
\* another model are gone.
Writing ==
  \A t \in Thread :
    /\ lock = t <=> pc[t] \in Saving
    /\ pc[t] = "emb" => \A c \in Class : Len(emb.vec[c]) <= Len(mem[t].vec[c])
    /\ pc[t] \in {"emb2", "meta"} => emb.vec = mem[t].vec
    /\ pc[t] \in {"emb", "emb2", "meta"} =>
         mem[t].model = meta.model \/ meta.model = NoModel \/ AllFrom(mem[t].vec, mem[t].model)

\* A thread adds or commits what some model extracted.
Extracted == \A t \in Thread : pc[t] \in {"add", "commit"} => work[t].model \in Model

-----------------------------------------------------------------------------
LEMMA BlankTypes ==
  /\ Blank \in BankObject
  /\ NoWork \in [model : AnyModel, counts : Counts]
BY DEF Blank, BankObject, NoVectors, Vectors, NoCounts, Counts, NoWork, AnyModel

LEMMA RequestTypes ==
  ASSUME TypeOK, NEW t \in Thread, pc[t] # "idle"
  PROVE  /\ req[t] \in Request /\ req[t].model \in Model
         /\ req[t].op \in {"teach", "reembed", "read"} /\ req[t].todo \subseteq Class
<1>1. req[t] \in Request  BY DEF TypeOK
<1> QED  BY <1>1, BankAssumption DEF Request

LEMMA ReadyStep ==
  ASSUME TypeOK, NEW t \in Thread, pc[t] # "idle"
  PROVE  Ready(t) \in {"lock_model", "plan", "use"}
BY RequestTypes DEF Ready

LEMMA LoadType == TypeOK => Load \in BankObject
BY DEF TypeOK, Load, BankObject

LEMMA EndType ==
  ASSUME TypeOK, NEW t \in Thread, End(t)
  PROVE  TypeOK'
<1>1. mem' \in [Thread -> BankObject]  BY BlankTypes DEF TypeOK, End, Leave, BankObject
<1>2. work' \in [Thread -> [model : AnyModel, counts : Counts]]
  BY BlankTypes DEF TypeOK, End, Leave
<1>3. pc' \in [Thread -> Steps]  BY DEF TypeOK, End, Leave, Goto, Steps
<1>4. req' \in [Thread -> Request \cup {NoRequest}]  BY DEF TypeOK, End, Leave
<1>5. \A u \in Thread : pc'[u] = "idle" <=> req'[u] = NoRequest  BY DEF TypeOK, End, Leave, Goto
<1>6. UNCHANGED <<emb, meta, lock, skipped>>  BY DEF End, Leave, files
<1> QED  BY <1>1, <1>2, <1>3, <1>4, <1>5, <1>6 DEF TypeOK, BankObject

\* A step of a call that keeps its request, or drops a class it has done.
LEMMA StepType ==
  ASSUME TypeOK, NEW t \in Thread, pc[t] # "idle",
         NEW step \in Steps \ {"idle"}, Goto(t, step),
         req' \in {req} \cup {[req EXCEPT ![t].todo = @ \ {c}] : c \in Class}
  PROVE  /\ pc' \in [Thread -> Steps]
         /\ req' \in [Thread -> Request \cup {NoRequest}]
         /\ \A u \in Thread : pc'[u] = "idle" <=> req'[u] = NoRequest
<1>1. req[t] \in Request  BY RequestTypes
<1>2. \A r \in Request : r # NoRequest  BY BankAssumption DEF Request, NoRequest
<1>3. CASE req' = req  BY <1>3 DEF TypeOK, Goto
<1>4. ASSUME NEW c \in Class, req' = [req EXCEPT ![t].todo = req[t].todo \ {c}]
      PROVE  /\ req' \in [Thread -> Request \cup {NoRequest}]
             /\ \A u \in Thread : pc'[u] = "idle" <=> req'[u] = NoRequest
  <2> DEFINE rest == [req[t] EXCEPT !.todo = req[t].todo \ {c}]
  <2>1. rest \in Request  BY <1>1 DEF Request
  <2>2. req' = [req EXCEPT ![t] = rest]  BY <1>4
  <2>3. rest # NoRequest  BY <1>2, <2>1
  <2> HIDE DEF rest
  <2> QED  BY <2>1, <2>2, <2>3 DEF TypeOK, Goto
<1>5. pc' \in [Thread -> Steps]  BY DEF TypeOK, Goto
<1> QED  BY <1>3, <1>4, <1>5

LEMMA SaveType ==
  ASSUME TypeOK, NEW t \in Thread, pc[t] # "idle", NEW bank \in BankObject, Save(t, bank),
         req' \in {req} \cup {[req EXCEPT ![t].todo = @ \ {c}] : c \in Class},
         work' \in [Thread -> [model : AnyModel, counts : Counts]]
  PROVE  TypeOK'
<1>1. "emb" \in Steps \ {"idle"}  BY DEF Steps, Saving
<1>2. /\ pc' \in [Thread -> Steps]
      /\ req' \in [Thread -> Request \cup {NoRequest}]
      /\ \A u \in Thread : pc'[u] = "idle" <=> req'[u] = NoRequest
  BY <1>1, StepType DEF Save
<1>3. mem' \in [Thread -> BankObject]  BY DEF TypeOK, Save, BankObject
<1> QED  BY <1>2, <1>3 DEF TypeOK, Save, BankObject, files

LEMMA InitType == Init => TypeOK
<1> SUFFICES ASSUME Init PROVE TypeOK  OBVIOUS
<1>1. NoVectors \in Vectors  BY DEF NoVectors, Vectors
<1>2. LegacyBank \in Vectors  BY BankAssumption DEF LegacyBank, Vectors
<1>3. \A vec \in Vectors : CountsOf(vec) \in Counts  BY DEF CountsOf, Vectors, Counts
<1>4. emb \in [whole : BOOLEAN, vec : Vectors]
  BY <1>1, <1>2 DEF Init
<1>5. meta \in [whole : BOOLEAN, inst : Counts, model : AnyModel]
  BY <1>1, <1>2, <1>3 DEF Init, AnyModel
<1>6. "idle" \in Steps  BY DEF Steps
<1> QED  BY <1>4, <1>5, <1>6, BlankTypes DEF Init, TypeOK, BankObject

-----------------------------------------------------------------------------
\* Steps that leave the lock, or take it, with the types intact.

LEMMA ConstructorType ==
  ASSUME TypeOK, NEW t \in Thread, ReadEmb(t) \/ ReadMeta(t) \/ Migrate(t)
  PROVE  TypeOK'
<1> USE DEF BankObject
<1>1. pc[t] # "idle"  BY DEF ReadEmb, ReadMeta, Migrate
<1>2. {"load2", "migrate", "lock_model", "plan", "use"} \subseteq Steps \ {"idle"}  BY DEF Steps
<1>3. Ready(t) \in {"lock_model", "plan", "use"}  BY <1>1, ReadyStep
<1>4. ASSUME NEW step \in Steps \ {"idle"}, Goto(t, step), UNCHANGED <<files, lock, req, work, skipped>>,
             mem' \in [Thread -> BankObject]
      PROVE  TypeOK'
  <2>1. /\ pc' \in [Thread -> Steps]
        /\ \A u \in Thread : pc'[u] = "idle" <=> req'[u] = NoRequest
    BY <1>1, <1>4, StepType
  <2> QED  BY <1>4, <2>1 DEF TypeOK, files
<1>5. CASE ReadEmb(t)
  <2>1. CASE emb.whole
    <3>1. mem' \in [Thread -> BankObject]  BY <1>5, <2>1 DEF ReadEmb, TypeOK
    <3> QED  BY <1>2, <1>4, <1>5, <2>1, <3>1 DEF ReadEmb
  <2> QED  BY <1>5, <2>1, EndType DEF ReadEmb
<1>6. CASE ReadMeta(t)
  <2>1. CASE meta.whole
    <3>1. mem' \in [Thread -> BankObject]  BY <1>6, <2>1 DEF ReadMeta, TypeOK
    <3> DEFINE step == IF meta.model = NoModel /\ Classes(mem[t].vec) # {}
                       THEN "migrate" ELSE Ready(t)
    <3>2. step \in Steps \ {"idle"}  BY <1>2, <1>3
    <3>3. Goto(t, step) /\ UNCHANGED <<files, lock, req, work, skipped>>  BY <1>6, <2>1 DEF ReadMeta
    <3> HIDE DEF step
    <3> QED  BY <1>4, <3>1, <3>2, <3>3
  <2> QED  BY <1>6, <2>1, EndType DEF ReadMeta
<1>7. CASE Migrate(t)
  <2>1. CASE ~Whole  BY <1>7, <2>1, EndType DEF Migrate
  <2>2. CASE Whole /\ Save(t, [Load EXCEPT !.model = Default]) /\ UNCHANGED <<req, work>>
    <3>1. [Load EXCEPT !.model = Default] \in BankObject
      BY LoadType, BankAssumption DEF AnyModel
    <3>2. work' \in [Thread -> [model : AnyModel, counts : Counts]]  BY <2>2 DEF TypeOK
    <3> QED  BY <1>1, <2>2, <3>1, <3>2, SaveType
  <2>3. CASE /\ mem' = [mem EXCEPT ![t] = Load]
             /\ Goto(t, Ready(t))
             /\ UNCHANGED <<files, lock, req, work, skipped>>
    <3>1. mem' \in [Thread -> BankObject]  BY <2>3, LoadType DEF TypeOK
    <3> QED  BY <1>2, <1>3, <1>4, <2>3, <3>1
  <2> QED  BY <1>7, <2>1, <2>2, <2>3 DEF Migrate, files
<1> QED  BY <1>5, <1>6, <1>7

LEMMA TeachType ==
  ASSUME TypeOK, Extracted, NEW t \in Thread, LockModel(t) \/ Add(t)
  PROVE  TypeOK'
<1> USE DEF BankObject
<1>1. pc[t] # "idle"  BY DEF LockModel, Add
<1>2. req[t] \in Request /\ req[t].model \in Model /\ req[t].todo \subseteq Class
  BY <1>1, RequestTypes
<1>3. CASE LockModel(t)
  <2>1. CASE ~Whole \/ meta.model \notin {NoModel, req[t].model}
    BY <1>3, <2>1, EndType DEF LockModel
  <2>2. CASE ~(~Whole \/ meta.model \notin {NoModel, req[t].model})
    <3>1. work' = [work EXCEPT ![t].model = req[t].model] /\ req' = req
      BY <1>3, <2>2 DEF LockModel
    <3>2. work' \in [Thread -> [model : AnyModel, counts : Counts]]
      BY <1>2, <3>1 DEF TypeOK, AnyModel
    <3>3. CASE meta.model = NoModel
      <4>1. [Load EXCEPT !.model = req[t].model] \in BankObject
        BY LoadType, <1>2 DEF AnyModel
      <4>2. Save(t, [Load EXCEPT !.model = req[t].model])  BY <1>3, <2>2, <3>3 DEF LockModel
      <4> QED  BY <1>1, <3>1, <3>2, <4>1, <4>2, SaveType
    <3>4. CASE meta.model # NoModel
      <4>1. /\ mem' = [mem EXCEPT ![t] = Load]
            /\ Goto(t, "add")
            /\ UNCHANGED <<files, lock, skipped>>
        BY <1>3, <2>2, <3>4 DEF LockModel
      <4>2. mem' \in [Thread -> BankObject]  BY <4>1, LoadType DEF TypeOK
      <4>3. "add" \in Steps \ {"idle"}  BY DEF Steps
      <4>4. /\ pc' \in [Thread -> Steps]
            /\ \A u \in Thread : pc'[u] = "idle" <=> req'[u] = NoRequest
        BY <1>1, <3>1, <4>1, <4>3, StepType
      <4> QED  BY <3>1, <3>2, <4>1, <4>2, <4>4 DEF TypeOK, files
    <3> QED  BY <3>3, <3>4
  <2> QED  BY <2>1, <2>2
<1>4. CASE Add(t)
  <2>1. CASE ~Whole  BY <1>4, <2>1, EndType DEF Add
  <2>2. CASE Whole
    <3> DEFINE grown(c) == [Load EXCEPT !.vec[c] = Append(@, work[t].model), !.inst[c] = @ + 1]
    <3>1. PICK c \in req[t].todo :
            /\ Save(t, grown(c))
            /\ req' = [req EXCEPT ![t].todo = @ \ {c}]
            /\ UNCHANGED work
      BY <1>4, <2>2 DEF Add
    <3>2. c \in Class  BY <1>2
    <3>3. work[t].model \in Model  BY <1>4 DEF Add, Extracted
    <3>4. grown(c) \in BankObject
      <4>1. Load \in BankObject  BY LoadType
      <4>2. Append(Load.vec[c], work[t].model) \in Seq(Model)
        BY <3>2, <3>3, <4>1 DEF Vectors
      <4>3. [Load.vec EXCEPT ![c] = Append(@, work[t].model)] \in Vectors
        BY <4>1, <4>2 DEF Vectors
      <4>4. [Load.inst EXCEPT ![c] = @ + 1] \in Counts
        BY <3>2, <4>1 DEF Counts
      <4> QED  BY <4>1, <4>3, <4>4
    <3>5. req' \in {req} \cup {[req EXCEPT ![t].todo = @ \ {d}] : d \in Class}
      BY <3>1, <3>2
    <3>6. work' \in [Thread -> [model : AnyModel, counts : Counts]]  BY <3>1 DEF TypeOK
    <3> HIDE DEF grown
    <3> QED  BY <1>1, <3>1, <3>4, <3>5, <3>6, SaveType
  <2> QED  BY <2>1, <2>2
<1> QED  BY <1>3, <1>4

\* What a reembed puts in the bank: as many vectors as it counted, of one model.
LEMMA SwappedType ==
  ASSUME TypeOK, NEW t \in Thread, work[t].model \in Model
  PROVE  /\ Swapped(t) \in Vectors
         /\ CountsOf(Swapped(t)) = work[t].counts
         /\ AllFrom(Swapped(t), work[t].model)
<1>1. work[t].counts \in [Class -> Nat]  BY DEF TypeOK, Counts
<1>2. ASSUME NEW n \in Nat, NEW m \in Model
      PROVE  /\ [k \in 1..n |-> m] \in Seq(Model)
             /\ Len([k \in 1..n |-> m]) = n
  OBVIOUS
<1>3. ASSUME NEW c \in Class
      PROVE  /\ Swapped(t)[c] = [k \in 1..work[t].counts[c] |-> work[t].model]
             /\ Swapped(t)[c] \in Seq(Model)
             /\ Len(Swapped(t)[c]) = work[t].counts[c]
             /\ \A k \in DOMAIN Swapped(t)[c] : Swapped(t)[c][k] = work[t].model
  <2>1. work[t].counts[c] \in Nat  BY <1>1
  <2>2. Swapped(t)[c] = [k \in 1..work[t].counts[c] |-> work[t].model]  BY DEF Swapped
  <2> QED  BY <1>2, <2>1, <2>2
<1>4. Swapped(t) = [c \in Class |-> Swapped(t)[c]]  BY DEF Swapped
<1>5. Swapped(t) \in Vectors  BY <1>3, <1>4 DEF Vectors
<1>6. CountsOf(Swapped(t)) = work[t].counts  BY <1>1, <1>3 DEF CountsOf
<1> QED  BY <1>3, <1>5, <1>6 DEF AllFrom

LEMMA ReembedType ==
  ASSUME TypeOK, Extracted, NEW t \in Thread, Plan(t) \/ Commit(t)
  PROVE  TypeOK'
<1> USE DEF BankObject
<1>1. pc[t] # "idle"  BY DEF Plan, Commit
<1>2. req[t].model \in Model  BY <1>1, RequestTypes
<1>3. CASE Plan(t)
  <2>1. CASE mem[t].model \in {NoModel, req[t].model}  BY <1>3, <2>1, EndType DEF Plan
  <2>2. CASE mem[t].model \notin {NoModel, req[t].model}
    <3> DEFINE counts == [c \in Class |-> IF c \in Classes(mem[t].vec) THEN mem[t].inst[c] ELSE 0]
    <3>1. /\ work' = [work EXCEPT ![t] = [model |-> req[t].model, counts |-> counts]]
          /\ Goto(t, "commit")
          /\ UNCHANGED <<files, lock, req, mem, skipped>>
      BY <1>3, <2>2 DEF Plan
    <3>2. counts \in Counts  BY DEF TypeOK, Counts
    <3>3. [model |-> req[t].model, counts |-> counts] \in [model : AnyModel, counts : Counts]
      BY <1>2, <3>2 DEF AnyModel
    <3>4. work' \in [Thread -> [model : AnyModel, counts : Counts]]  BY <3>1, <3>3 DEF TypeOK
    <3>5. "commit" \in Steps \ {"idle"}  BY DEF Steps
    <3>6. /\ pc' \in [Thread -> Steps]
          /\ \A u \in Thread : pc'[u] = "idle" <=> req'[u] = NoRequest
      BY <1>1, <3>1, <3>5, StepType
    <3> QED  BY <3>1, <3>4, <3>6 DEF TypeOK, files
  <2> QED  BY <2>1, <2>2
<1>4. CASE Commit(t)
  <2>1. CASE ~Whole \/ work[t].counts # CountsOf(emb.vec)  BY <1>4, <2>1, EndType DEF Commit
  <2>2. CASE ~(~Whole \/ work[t].counts # CountsOf(emb.vec))
    <3> DEFINE swapped == [Load EXCEPT !.vec = Swapped(t), !.model = work[t].model]
    <3>1. Save(t, swapped) /\ UNCHANGED <<req, work>>  BY <1>4, <2>2 DEF Commit
    <3>2. work[t].model \in Model  BY <1>4 DEF Commit, Extracted
    <3>3. Swapped(t) \in Vectors  BY <3>2, SwappedType
    <3>4. swapped \in BankObject  BY LoadType, <3>2, <3>3 DEF AnyModel
    <3>5. work' \in [Thread -> [model : AnyModel, counts : Counts]]  BY <3>1 DEF TypeOK
    <3> HIDE DEF swapped
    <3> QED  BY <1>1, <3>1, <3>4, <3>5, SaveType
  <2> QED  BY <2>1, <2>2
<1> QED  BY <1>3, <1>4

LEMMA WriteOutType ==
  ASSUME TypeOK, NEW t \in Thread, WriteOut(t)
  PROVE  TypeOK'
<1>1. pc[t] # "idle"  BY DEF WriteOut, OpenEmb, CloseEmb, OpenMeta, CloseMeta
<1>2. Saving \cup {"lock_model", "plan", "use", "add"} \subseteq Steps \ {"idle"}
  BY DEF Steps, Saving
<1>3. Ready(t) \in {"lock_model", "plan", "use"}  BY <1>1, ReadyStep
<1>4. Resume(t) \in {"lock_model", "plan", "use", "add"}  BY <1>3 DEF Resume
<1>5. ASSUME NEW step \in Steps \ {"idle"}, Goto(t, step), UNCHANGED <<req, mem, work, skipped>>,
             emb' \in [whole : BOOLEAN, vec : Vectors],
             meta' \in [whole : BOOLEAN, inst : Counts, model : AnyModel],
             lock' \in Thread \cup {NoThread}
      PROVE  TypeOK'
  <2>1. /\ pc' \in [Thread -> Steps]
        /\ \A u \in Thread : pc'[u] = "idle" <=> req'[u] = NoRequest
    BY <1>1, <1>5, StepType
  <2> QED  BY <1>5, <2>1 DEF TypeOK
<1>6. CASE OpenEmb(t)
  <2>1. "emb2" \in Steps \ {"idle"}  BY <1>2 DEF Saving
  <2>2. emb' \in [whole : BOOLEAN, vec : Vectors]  BY <1>6 DEF OpenEmb, TypeOK
  <2> QED  BY <1>5, <1>6, <2>1, <2>2 DEF OpenEmb, TypeOK
<1>7. CASE CloseEmb(t)
  <2>1. "meta" \in Steps \ {"idle"}  BY <1>2 DEF Saving
  <2>2. emb' \in [whole : BOOLEAN, vec : Vectors]  BY <1>7 DEF CloseEmb, TypeOK
  <2> QED  BY <1>5, <1>7, <2>1, <2>2 DEF CloseEmb, TypeOK
<1>8. CASE OpenMeta(t)
  <2>1. "meta2" \in Steps \ {"idle"}  BY <1>2 DEF Saving
  <2>2. meta' \in [whole : BOOLEAN, inst : Counts, model : AnyModel]
    BY <1>8 DEF OpenMeta, TypeOK
  <2> QED  BY <1>5, <1>8, <2>1, <2>2 DEF OpenMeta, TypeOK
<1>9. CASE CloseMeta(t)
  <2>1. Resume(t) \in Steps \ {"idle"}  BY <1>2, <1>4
  <2>2. meta' \in [whole : BOOLEAN, inst : Counts, model : AnyModel]
    BY <1>9 DEF CloseMeta, TypeOK
  <2> QED  BY <1>5, <1>9, <2>1, <2>2 DEF CloseMeta, TypeOK
<1> QED  BY <1>6, <1>7, <1>8, <1>9 DEF WriteOut

LEMMA RestType ==
  ASSUME TypeOK, NEW t \in Thread,
         Arrive(t) \/ Answer(t) \/ CallFails(t)
  PROVE  TypeOK'
<1>1. CASE Arrive(t)
  <2>1. PICK r \in Request : req' = [req EXCEPT ![t] = r]  BY <1>1 DEF Arrive
  <2>2. r # NoRequest  BY BankAssumption DEF Request, NoRequest
  <2>3. pc' \in [Thread -> Steps]  BY <1>1 DEF Arrive, Goto, TypeOK, Steps
  <2>4. \A u \in Thread : pc'[u] = "idle" <=> req'[u] = NoRequest
    BY <1>1, <2>1, <2>2 DEF Arrive, Goto, TypeOK
  <2> QED  BY <1>1, <2>1, <2>3, <2>4 DEF Arrive, TypeOK, files
<1>2. CASE Answer(t)  BY <1>2, EndType DEF Answer
<1>3. CASE CallFails(t)  BY <1>3, EndType DEF CallFails
<1> QED  BY <1>1, <1>2, <1>3

LEMMA CutShortType ==
  ASSUME TypeOK, CutShort
  PROVE  /\ emb' \in [whole : BOOLEAN, vec : Vectors]
         /\ meta' \in [whole : BOOLEAN, inst : Counts, model : AnyModel]
<1>1. NoVectors \in Vectors /\ NoCounts \in Counts
  BY DEF NoVectors, Vectors, NoCounts, Counts
<1> QED  BY <1>1 DEF CutShort, TypeOK, AnyModel

LEMMA FaultType ==
  ASSUME TypeOK, NEW t \in Thread, MigrateFails(t) \/ WriteFails(t)
  PROVE  TypeOK'
<1>1. pc[t] # "idle"  BY DEF MigrateFails, WriteFails, Saving
<1>2. Ready(t) \in Steps \ {"idle"}  BY <1>1, ReadyStep DEF Steps
<1>3. ASSUME Goto(t, Ready(t)), UNCHANGED <<req, mem, work>>
      PROVE  /\ pc' \in [Thread -> Steps]
             /\ req' \in [Thread -> Request \cup {NoRequest}]
             /\ \A u \in Thread : pc'[u] = "idle" <=> req'[u] = NoRequest
  BY <1>1, <1>2, <1>3, StepType
<1>4. CASE MigrateFails(t)
  <2>1. skipped' \in BOOLEAN  BY <1>4 DEF MigrateFails
  <2> QED  BY <1>3, <1>4, <2>1 DEF MigrateFails, TypeOK, files
<1>5. CASE WriteFails(t)
  <2>1. /\ emb' \in [whole : BOOLEAN, vec : Vectors]
        /\ meta' \in [whole : BOOLEAN, inst : Counts, model : AnyModel]
    BY <1>5, CutShortType DEF WriteFails
  <2>2. lock' \in Thread \cup {NoThread}  BY <1>5 DEF WriteFails
  <2>3. CASE Leave(t) /\ UNCHANGED skipped
    <3>1. mem' \in [Thread -> BankObject]  BY <2>3, BlankTypes DEF TypeOK, Leave, BankObject
    <3>2. work' \in [Thread -> [model : AnyModel, counts : Counts]]
      BY <2>3, BlankTypes DEF TypeOK, Leave
    <3>3. pc' \in [Thread -> Steps]  BY <2>3 DEF TypeOK, Leave, Goto, Steps
    <3>4. req' \in [Thread -> Request \cup {NoRequest}]  BY <2>3 DEF TypeOK, Leave
    <3>5. \A u \in Thread : pc'[u] = "idle" <=> req'[u] = NoRequest
      BY <2>3 DEF TypeOK, Leave, Goto
    <3> QED  BY <2>1, <2>2, <2>3, <3>1, <3>2, <3>3, <3>4, <3>5 DEF TypeOK, BankObject
  <2>4. CASE skipped' = TRUE /\ Goto(t, Ready(t)) /\ UNCHANGED <<req, mem, work>>
    BY <1>3, <2>1, <2>2, <2>4 DEF TypeOK
  <2> QED  BY <1>5, <2>3, <2>4 DEF WriteFails, Raise
<1> QED  BY <1>4, <1>5

LEMMA CrashType ==
  ASSUME TypeOK, Crash \/ UNCHANGED vars
  PROVE  TypeOK'
<1>1. "idle" \in Steps  BY DEF Steps
<1>2. CASE Crash
  <2>1. /\ emb' \in [whole : BOOLEAN, vec : Vectors]
        /\ meta' \in [whole : BOOLEAN, inst : Counts, model : AnyModel]
    BY <1>2, CutShortType DEF Crash
  <2> QED  BY <1>1, <1>2, <2>1, BlankTypes DEF Crash, TypeOK, BankObject
<1>3. CASE UNCHANGED vars  BY <1>3 DEF vars, files, TypeOK
<1> QED  BY <1>2, <1>3

LEMMA TypeStep ==
  ASSUME TypeOK, Extracted, [Next]_vars
  PROVE  TypeOK'
<1>1. CASE Crash \/ UNCHANGED vars  BY <1>1, CrashType
<1>2. ASSUME NEW t \in Thread,
             \/ Arrive(t) \/ ReadEmb(t) \/ ReadMeta(t) \/ Migrate(t) \/ MigrateFails(t)
             \/ LockModel(t) \/ Add(t) \/ Plan(t) \/ Commit(t)
             \/ WriteOut(t) \/ WriteFails(t) \/ Answer(t) \/ CallFails(t)
      PROVE  TypeOK'
  <2>1. CASE ReadEmb(t) \/ ReadMeta(t) \/ Migrate(t)  BY <2>1, ConstructorType
  <2>2. CASE LockModel(t) \/ Add(t)  BY <2>2, TeachType
  <2>3. CASE Plan(t) \/ Commit(t)  BY <2>3, ReembedType
  <2>4. CASE WriteOut(t)  BY <2>4, WriteOutType
  <2>5. CASE Arrive(t) \/ Answer(t) \/ CallFails(t)  BY <2>5, RestType
  <2>6. CASE MigrateFails(t) \/ WriteFails(t)  BY <2>6, FaultType
  <2> QED  BY <1>2, <2>1, <2>2, <2>3, <2>4, <2>5, <2>6
<1> QED  BY <1>1, <1>2 DEF Next

-----------------------------------------------------------------------------
(***************************************************************************)
(* What each kind of step does to the lock, to the thread that takes it and *)
(* to the threads that do not.                                              *)
(***************************************************************************)
Others(t) ==
  \A u \in Thread \ {t} : pc'[u] = pc[u] /\ mem'[u] = mem[u] /\ work'[u] = work[u]

\* A step that has nothing to do with writing.
Quiet(t) ==
  /\ UNCHANGED <<files, lock>>
  /\ pc[t] \notin Saving /\ pc'[t] \notin Saving
  /\ Others(t)

\* What a thread may begin to write when it takes the lock.
Forward(bank) ==
  /\ \A c \in Class : Len(emb.vec[c]) <= Len(bank.vec[c])
  /\ bank.model = meta.model \/ meta.model = NoModel \/ AllFrom(bank.vec, bank.model)
  /\ meta.inst = CountsOf(emb.vec) => bank.inst = CountsOf(bank.vec)

Begins(t) == \E bank \in BankObject : Save(t, bank) /\ Forward(bank) /\ Whole

LEMMA EndQuiet ==
  ASSUME TypeOK, NEW t \in Thread, pc[t] \notin Saving, End(t)
  PROVE  Quiet(t) /\ pc'[t] = "idle"
BY DEF TypeOK, End, Leave, Goto, Quiet, Others, Saving, files

LEMMA ConstructorStep ==
  ASSUME TypeOK, NEW t \in Thread, ReadEmb(t) \/ ReadMeta(t) \/ Migrate(t)
  PROVE  /\ Quiet(t) \/ (Begins(t) /\ Others(t))
         /\ pc'[t] \notin {"add", "commit"}
<1>1. pc[t] # "idle" /\ pc[t] \notin Saving  BY DEF ReadEmb, ReadMeta, Migrate, Saving
<1>2. Ready(t) \in {"lock_model", "plan", "use"}  BY <1>1, ReadyStep
<1>3. CASE ReadEmb(t)
  <2>1. CASE emb.whole
    BY <1>1, <1>3, <2>1 DEF ReadEmb, TypeOK, Goto, Quiet, Others, Saving, files
  <2> QED  BY <1>1, <1>3, <2>1, EndQuiet DEF ReadEmb
<1>4. CASE ReadMeta(t)
  <2>1. CASE meta.whole
    BY <1>1, <1>2, <1>4, <2>1 DEF ReadMeta, TypeOK, Goto, Quiet, Others, Saving, files
  <2> QED  BY <1>1, <1>4, <2>1, EndQuiet DEF ReadMeta
<1>5. CASE Migrate(t)
  <2>1. CASE ~Whole  BY <1>1, <1>5, <2>1, EndQuiet DEF Migrate
  <2>2. CASE Whole /\ meta.model = NoModel /\ Classes(emb.vec) # {}
    <3> DEFINE bank == [Load EXCEPT !.model = Default]
    <3>1. Save(t, bank) /\ UNCHANGED <<req, work>>  BY <1>5, <2>2 DEF Migrate
    <3>2. bank \in BankObject  BY LoadType, BankAssumption DEF AnyModel, BankObject
    <3>3. Forward(bank)  BY <2>2, <3>2 DEF Forward, Load, TypeOK, Vectors
    <3>4. Others(t) /\ pc'[t] = "emb"  BY <3>1 DEF Save, Others, Goto, TypeOK
    <3> HIDE DEF bank
    <3> QED  BY <2>2, <3>1, <3>2, <3>3, <3>4 DEF Begins
  <2>3. CASE Whole /\ ~(meta.model = NoModel /\ Classes(emb.vec) # {})
    <3>1. /\ mem' = [mem EXCEPT ![t] = Load]
          /\ Goto(t, Ready(t))
          /\ UNCHANGED <<files, lock, work>>
      BY <1>5, <2>3 DEF Migrate
    <3> QED  BY <1>1, <1>2, <3>1 DEF TypeOK, Goto, Quiet, Others, Saving, files
  <2> QED  BY <2>1, <2>2, <2>3
<1> QED  BY <1>3, <1>4, <1>5

\* One vector more, one instance more.
LEMMA GrownForward ==
  ASSUME TypeOK, NEW c \in Class, NEW m \in Model
  PROVE  LET grown == [Load EXCEPT !.vec[c] = Append(@, m), !.inst[c] = @ + 1]
         IN  grown \in BankObject /\ Forward(grown)
<1> DEFINE vec == [emb.vec EXCEPT ![c] = Append(@, m)]
           inst == [meta.inst EXCEPT ![c] = @ + 1]
           grown == [Load EXCEPT !.vec[c] = Append(@, m), !.inst[c] = @ + 1]
<1>1. /\ emb.vec \in [Class -> Seq(Model)] /\ meta.inst \in [Class -> Nat]
      /\ meta.model \in AnyModel
  BY DEF TypeOK, Vectors, Counts
<1>2. grown.vec = vec /\ grown.inst = inst /\ grown.model = meta.model  BY DEF Load
<1>3. Append(emb.vec[c], m) \in Seq(Model)  BY <1>1
<1>4. vec \in Vectors /\ inst \in Counts  BY <1>1, <1>3 DEF Vectors, Counts
<1>5. \A d \in Class : Len(vec[d]) = IF d = c THEN Len(emb.vec[d]) + 1 ELSE Len(emb.vec[d])
  BY <1>1
<1>6. \A d \in Class : Len(emb.vec[d]) <= Len(vec[d])  BY <1>1, <1>5
<1>7. ASSUME meta.inst = CountsOf(emb.vec)
      PROVE  inst = CountsOf(vec)
  <2>1. \A d \in Class : inst[d] = Len(vec[d])
    <3> TAKE d \in Class
    <3>1. meta.inst[d] = Len(emb.vec[d])  BY <1>7 DEF CountsOf
    <3> QED  BY <1>1, <1>5, <3>1
  <2>2. inst = [d \in Class |-> inst[d]]  BY <1>1
  <2> QED  BY <2>1, <2>2 DEF CountsOf
<1>8. grown \in BankObject  BY LoadType, <1>4 DEF BankObject, Load
<1> HIDE DEF vec, inst, grown
<1>9. Forward(grown)  BY <1>2, <1>6, <1>7 DEF Forward
<1> QED  BY <1>8, <1>9 DEF grown

LEMMA TeachStep ==
  ASSUME TypeOK, Extracted, NEW t \in Thread, LockModel(t) \/ Add(t)
  PROVE  /\ Quiet(t) \/ (Begins(t) /\ Others(t))
         /\ pc'[t] \in {"add", "commit"} => work'[t].model \in Model
<1>1. pc[t] # "idle" /\ pc[t] \notin Saving  BY DEF LockModel, Add, Saving
<1>2. req[t] \in Request /\ req[t].model \in Model /\ req[t].todo \subseteq Class
  BY <1>1, RequestTypes
<1>3. CASE LockModel(t)
  <2>1. CASE ~Whole \/ meta.model \notin {NoModel, req[t].model}
    BY <1>1, <1>3, <2>1, EndQuiet DEF LockModel
  <2>2. CASE Whole /\ meta.model = NoModel
    <3> DEFINE bank == [Load EXCEPT !.model = req[t].model]
    <3>1. Save(t, bank) /\ work' = [work EXCEPT ![t].model = req[t].model]
      BY <1>3, <2>2 DEF LockModel
    <3>2. bank \in BankObject  BY LoadType, <1>2 DEF AnyModel, BankObject
    <3>3. Forward(bank)  BY <2>2, <3>2 DEF Forward, Load, TypeOK, Vectors
    <3>4. Others(t) /\ pc'[t] = "emb"  BY <3>1 DEF Save, Others, Goto, TypeOK
    <3> HIDE DEF bank
    <3> QED  BY <2>2, <3>1, <3>2, <3>3, <3>4 DEF Begins
  <2>3. CASE Whole /\ meta.model = req[t].model /\ meta.model # NoModel
    <3>1. /\ mem' = [mem EXCEPT ![t] = Load]
          /\ Goto(t, "add")
          /\ UNCHANGED <<files, lock>>
          /\ work' = [work EXCEPT ![t].model = req[t].model]
      BY <1>3, <2>3 DEF LockModel
    <3>2. work'[t].model = req[t].model  BY <3>1 DEF TypeOK
    <3> QED  BY <1>1, <1>2, <3>1, <3>2 DEF TypeOK, Goto, Quiet, Others, Saving, files
  <2> QED  BY <2>1, <2>2, <2>3
<1>4. CASE Add(t)
  <2>1. CASE ~Whole  BY <1>1, <1>4, <2>1, EndQuiet DEF Add
  <2>2. CASE Whole
    <3> DEFINE grown(c) == [Load EXCEPT !.vec[c] = Append(@, work[t].model), !.inst[c] = @ + 1]
    <3>1. PICK c \in req[t].todo : Save(t, grown(c)) /\ UNCHANGED work
      BY <1>4, <2>2 DEF Add
    <3>2. c \in Class /\ work[t].model \in Model  BY <1>2, <1>4 DEF Add, Extracted
    <3>3. grown(c) \in BankObject /\ Forward(grown(c))  BY <3>2, GrownForward
    <3>4. Others(t) /\ pc'[t] = "emb"  BY <3>1 DEF Save, Others, Goto, TypeOK
    <3> HIDE DEF grown
    <3> QED  BY <2>2, <3>1, <3>3, <3>4 DEF Begins
  <2> QED  BY <2>1, <2>2
<1> QED  BY <1>3, <1>4

LEMMA ReembedStep ==
  ASSUME TypeOK, Extracted, NEW t \in Thread, Plan(t) \/ Commit(t)
  PROVE  /\ Quiet(t) \/ (Begins(t) /\ Others(t))
         /\ pc'[t] \in {"add", "commit"} => work'[t].model \in Model
<1>1. pc[t] # "idle" /\ pc[t] \notin Saving  BY DEF Plan, Commit, Saving
<1>2. req[t].model \in Model  BY <1>1, RequestTypes
<1>3. CASE Plan(t)
  <2>1. CASE mem[t].model \in {NoModel, req[t].model}
    BY <1>1, <1>3, <2>1, EndQuiet DEF Plan
  <2>2. CASE mem[t].model \notin {NoModel, req[t].model}
    <3>1. /\ \E counts : work' = [work EXCEPT ![t] = [model |-> req[t].model, counts |-> counts]]
          /\ Goto(t, "commit")
          /\ UNCHANGED <<files, lock, mem>>
      BY <1>3, <2>2 DEF Plan
    <3>2. work'[t].model = req[t].model  BY <3>1 DEF TypeOK
    <3> QED  BY <1>1, <1>2, <3>1, <3>2 DEF TypeOK, Goto, Quiet, Others, Saving, files
  <2> QED  BY <2>1, <2>2
<1>4. CASE Commit(t)
  <2>1. CASE ~Whole \/ work[t].counts # CountsOf(emb.vec)
    BY <1>1, <1>4, <2>1, EndQuiet DEF Commit
  <2>2. CASE Whole /\ work[t].counts = CountsOf(emb.vec)
    <3> DEFINE swapped == [Load EXCEPT !.vec = Swapped(t), !.model = work[t].model]
    <3>1. Save(t, swapped) /\ UNCHANGED <<req, work>>  BY <1>4, <2>2 DEF Commit
    <3>2. work[t].model \in Model  BY <1>4 DEF Commit, Extracted
    <3>3. /\ Swapped(t) \in Vectors
          /\ CountsOf(Swapped(t)) = CountsOf(emb.vec)
          /\ AllFrom(Swapped(t), work[t].model)
      BY <2>2, <3>2, SwappedType
    <3>4. /\ swapped.vec = Swapped(t) /\ swapped.inst = meta.inst
          /\ swapped.model = work[t].model
      BY DEF Load
    <3>5. swapped \in BankObject  BY LoadType, <3>2, <3>3 DEF BankObject, AnyModel
    <3>6. \A c \in Class : Len(emb.vec[c]) <= Len(Swapped(t)[c])
      <4> TAKE c \in Class
      <4>1. Len(emb.vec[c]) = CountsOf(emb.vec)[c] /\ Len(Swapped(t)[c]) = CountsOf(Swapped(t))[c]
        BY DEF CountsOf
      <4>2. Len(emb.vec[c]) \in Nat  BY DEF TypeOK, Vectors
      <4> QED  BY <3>3, <4>1, <4>2
    <3>7. Forward(swapped)  BY <3>3, <3>4, <3>6 DEF Forward
    <3>8. Others(t) /\ pc'[t] = "emb"  BY <3>1 DEF Save, Others, Goto, TypeOK
    <3> HIDE DEF swapped
    <3> QED  BY <2>2, <3>1, <3>5, <3>7, <3>8 DEF Begins
  <2> QED  BY <2>1, <2>2
<1> QED  BY <1>3, <1>4

LEMMA RestStep ==
  ASSUME TypeOK, NEW t \in Thread, Arrive(t) \/ Answer(t) \/ CallFails(t)
  PROVE  Quiet(t) /\ pc'[t] \notin {"add", "commit"}
<1>1. CASE Arrive(t)
  BY <1>1 DEF Arrive, TypeOK, Goto, Quiet, Others, Saving, files
<1>2. CASE Answer(t) \/ CallFails(t)
  <2>1. pc[t] \notin Saving /\ End(t)  BY <1>2 DEF Answer, CallFails, Saving
  <2> QED  BY <2>1, EndQuiet
<1> QED  BY <1>1, <1>2

LEMMA WriteOutStep ==
  ASSUME TypeOK, NEW t \in Thread, WriteOut(t)
  PROVE  /\ Others(t) /\ mem'[t] = mem[t] /\ work'[t] = work[t]
         /\ pc[t] \in Saving
         /\ pc'[t] = "add" => work[t].model \in Model
         /\ pc'[t] # "commit"
<1>1. pc[t] # "idle"  BY DEF WriteOut, OpenEmb, CloseEmb, OpenMeta, CloseMeta
<1>2. Ready(t) \in {"lock_model", "plan", "use"}  BY <1>1, ReadyStep
<1>3. /\ Resume(t) \in {"lock_model", "plan", "use", "add"}
      /\ Resume(t) = "add" => work[t].model # NoModel
  BY <1>2 DEF Resume
<1>4. work[t].model \in AnyModel  BY DEF TypeOK
<1>5. CASE OpenEmb(t)
  BY <1>5 DEF OpenEmb, TypeOK, Goto, Others, Saving
<1>6. CASE CloseEmb(t)
  BY <1>6 DEF CloseEmb, TypeOK, Goto, Others, Saving
<1>7. CASE OpenMeta(t)
  BY <1>7 DEF OpenMeta, TypeOK, Goto, Others, Saving
<1>8. CASE CloseMeta(t)
  BY <1>3, <1>4, <1>8 DEF CloseMeta, TypeOK, Goto, Others, Saving, AnyModel
<1> QED  BY <1>5, <1>6, <1>7, <1>8 DEF WriteOut

LEMMA SkipStep ==
  ASSUME TypeOK, NEW t \in Thread, MigrateFails(t)
  PROVE  Quiet(t) /\ pc'[t] \in {"lock_model", "plan", "use"}
<1>1. pc[t] # "idle"  BY DEF MigrateFails
<1>2. Ready(t) \in {"lock_model", "plan", "use"}  BY <1>1, ReadyStep
<1> QED  BY <1>2 DEF MigrateFails, TypeOK, Goto, Quiet, Others, Saving, files

LEMMA WriteFailsStep ==
  ASSUME TypeOK, NEW t \in Thread, WriteFails(t)
  PROVE  /\ Others(t) /\ pc[t] \in Saving
         /\ pc'[t] \in {"idle", "lock_model", "plan", "use"}
         /\ lock' = NoThread /\ CutShort
<1>1. pc[t] # "idle"  BY DEF WriteFails, Saving
<1>2. Ready(t) \in {"lock_model", "plan", "use"}  BY <1>1, ReadyStep
<1>3. CASE Leave(t)
  BY <1>3 DEF WriteFails, Leave, Goto, TypeOK, Others
<1>4. CASE Goto(t, Ready(t)) /\ UNCHANGED <<req, mem, work>>
  BY <1>2, <1>4 DEF WriteFails, Goto, TypeOK, Others
<1> QED  BY <1>3, <1>4 DEF WriteFails, Raise

\* Every step is one of these.
LEMMA StepKinds ==
  ASSUME TypeOK, Extracted, Next
  PROVE  \/ Crash
         \/ \E t \in Thread :
              /\ Quiet(t) \/ (Begins(t) /\ Others(t)) \/ WriteOut(t) \/ WriteFails(t)
              /\ Others(t)
              /\ pc'[t] \in {"add", "commit"} => work'[t].model \in Model
<1> SUFFICES ASSUME ~Crash
             PROVE  \E t \in Thread :
                      /\ Quiet(t) \/ (Begins(t) /\ Others(t)) \/ WriteOut(t) \/ WriteFails(t)
                      /\ Others(t)
                      /\ pc'[t] \in {"add", "commit"} => work'[t].model \in Model
  OBVIOUS
<1>1. PICK t \in Thread :
        \/ Arrive(t) \/ ReadEmb(t) \/ ReadMeta(t) \/ Migrate(t) \/ MigrateFails(t)
        \/ LockModel(t) \/ Add(t) \/ Plan(t) \/ Commit(t)
        \/ WriteOut(t) \/ WriteFails(t) \/ Answer(t) \/ CallFails(t)
  BY DEF Next
<1>2. CASE WriteOut(t)  BY <1>2, WriteOutStep
<1>3. CASE ReadEmb(t) \/ ReadMeta(t) \/ Migrate(t)
  BY <1>3, ConstructorStep DEF Quiet
<1>4. CASE LockModel(t) \/ Add(t)  BY <1>4, TeachStep DEF Quiet
<1>5. CASE Plan(t) \/ Commit(t)  BY <1>5, ReembedStep DEF Quiet
<1>6. CASE Arrive(t) \/ Answer(t) \/ CallFails(t)  BY <1>6, RestStep DEF Quiet
<1>7. CASE MigrateFails(t)  BY <1>7, SkipStep DEF Quiet
<1>8. CASE WriteFails(t)  BY <1>8, WriteFailsStep
<1> QED  BY <1>1, <1>2, <1>3, <1>4, <1>5, <1>6, <1>7, <1>8

-----------------------------------------------------------------------------
(***************************************************************************)
(* The invariant the bank's theorems rest on.                               *)
(***************************************************************************)
BankInv == TypeOK /\ Extracted /\ Writing

LEMMA ExtractedStep ==
  ASSUME BankInv, [Next]_vars
  PROVE  Extracted'
<1>1. CASE UNCHANGED vars  BY <1>1 DEF vars, BankInv, Extracted
<1>2. CASE Crash  BY <1>2 DEF Crash, Extracted
<1>3. CASE Next /\ ~Crash
  <2>1. PICK t \in Thread :
          /\ Others(t)
          /\ pc'[t] \in {"add", "commit"} => work'[t].model \in Model
    BY <1>3, StepKinds DEF BankInv
  <2> QED  BY <2>1 DEF Others, BankInv, Extracted
<1> QED  BY <1>1, <1>2, <1>3

LEMMA WritingStep ==
  ASSUME BankInv, [Next]_vars
  PROVE  Writing'
<1> USE DEF BankInv
<1>1. CASE UNCHANGED vars  BY <1>1 DEF vars, files, Writing, AllFrom
<1>2. CASE Crash
  <2>1. \A t \in Thread : pc'[t] = "idle" /\ lock' # t  BY <1>2, BankAssumption DEF Crash
  <2> QED  BY <2>1 DEF Writing, Saving
<1>3. ASSUME NEW t \in Thread,
             Quiet(t) \/ Begins(t) \/ WriteOut(t), Others(t)
      PROVE  Writing'
  <2>1. lock = t <=> pc[t] \in Saving  BY DEF Writing
  <2>2. NoThread # t  BY BankAssumption
  <2>3. ASSUME NEW u \in Thread \ {t},
               pc'[u] \in Saving => UNCHANGED <<files, lock>>,
               lock' = u <=> pc'[u] \in Saving
        PROVE  /\ lock' = u <=> pc'[u] \in Saving
               /\ pc'[u] = "emb" => \A c \in Class : Len(emb'.vec[c]) <= Len(mem'[u].vec[c])
               /\ pc'[u] \in {"emb2", "meta"} => emb'.vec = mem'[u].vec
               /\ pc'[u] \in {"emb", "emb2", "meta"} =>
                    \/ mem'[u].model = meta'.model \/ meta'.model = NoModel
                    \/ AllFrom(mem'[u].vec, mem'[u].model)
    <3>1. pc'[u] = pc[u] /\ mem'[u] = mem[u]  BY <1>3 DEF Others
    <3>2. CASE pc'[u] \notin Saving  BY <2>3, <3>2 DEF Saving
    <3>3. CASE pc'[u] \in Saving
      <4>1. emb' = emb /\ meta' = meta  BY <2>3, <3>3 DEF files
      <4> QED  BY <2>3, <3>1, <4>1 DEF Writing, AllFrom
    <3> QED  BY <3>2, <3>3
  <2>4. CASE Quiet(t)
    <3>1. emb' = emb /\ meta' = meta /\ lock' = lock  BY <2>4 DEF Quiet, files
    <3>2. ASSUME NEW u \in Thread \ {t}
          PROVE  /\ lock' = u <=> pc'[u] \in Saving
                 /\ pc'[u] \in Saving => UNCHANGED <<files, lock>>
      BY <1>3, <3>1 DEF Writing, Others, files
    <3>3. pc[t] \notin Saving /\ pc'[t] \notin Saving  BY <2>4 DEF Quiet
    <3> QED  BY <2>1, <2>3, <3>1, <3>2, <3>3 DEF Writing, Saving
  <2>5. CASE Begins(t)
    <3>1. PICK bank \in BankObject : Save(t, bank) /\ Forward(bank)  BY <2>5 DEF Begins
    <3>2. /\ lock = NoThread /\ lock' = t /\ mem'[t] = bank /\ pc'[t] = "emb"
          /\ emb' = emb /\ meta' = meta
      BY <3>1 DEF Save, Goto, TypeOK, files
    <3>3. ASSUME NEW u \in Thread \ {t}
          PROVE  /\ lock' = u <=> pc'[u] \in Saving
                 /\ pc'[u] \in Saving => UNCHANGED <<files, lock>>
      <4>1. lock # u /\ lock' # u  BY <3>2, BankAssumption
      <4>2. pc[u] \notin Saving /\ pc'[u] = pc[u]  BY <1>3, <4>1 DEF Writing, Others
      <4> QED  BY <4>1, <4>2
    <3>4. /\ \A c \in Class : Len(emb'.vec[c]) <= Len(mem'[t].vec[c])
          /\ \/ mem'[t].model = meta'.model \/ meta'.model = NoModel
             \/ AllFrom(mem'[t].vec, mem'[t].model)
      BY <3>1, <3>2 DEF Forward, AllFrom
    <3>5. pc'[t] \in Saving /\ pc'[t] \notin {"emb2", "meta"}  BY <3>2 DEF Saving
    <3> QED  BY <2>3, <3>2, <3>3, <3>4, <3>5 DEF Writing
  <2>6. CASE WriteOut(t)
    <3>1. mem'[t] = mem[t] /\ pc[t] \in Saving /\ lock = t  BY <2>1, <2>6, WriteOutStep
    <3>2. lock' \in {t, NoThread}
      BY <2>6, <3>1 DEF WriteOut, OpenEmb, CloseEmb, OpenMeta, CloseMeta
    <3>3. ASSUME NEW u \in Thread \ {t}
          PROVE  /\ lock' = u <=> pc'[u] \in Saving
                 /\ pc'[u] \in Saving => UNCHANGED <<files, lock>>
      <4>1. lock # u /\ lock' # u  BY <3>1, <3>2, BankAssumption
      <4>2. pc[u] \notin Saving /\ pc'[u] = pc[u]  BY <1>3, <4>1 DEF Writing, Others
      <4> QED  BY <4>1, <4>2
    <3>4. /\ lock' = t <=> pc'[t] \in Saving
          /\ pc'[t] # "emb"
          /\ pc'[t] \in {"emb2", "meta"} => emb'.vec = mem'[t].vec
          /\ pc'[t] \in {"emb2", "meta"} =>
               \/ mem'[t].model = meta'.model \/ meta'.model = NoModel
               \/ AllFrom(mem'[t].vec, mem'[t].model)
      <4>1. CASE OpenEmb(t)
        <5>1. /\ pc[t] = "emb" /\ pc'[t] = "emb2" /\ emb'.vec = mem[t].vec
              /\ meta' = meta /\ lock' = lock
          BY <4>1 DEF OpenEmb, Goto, TypeOK
        <5> QED  BY <3>1, <5>1 DEF Writing, Saving, AllFrom
      <4>2. CASE CloseEmb(t)
        <5>1. /\ pc[t] = "emb2" /\ pc'[t] = "meta" /\ emb'.vec = emb.vec
              /\ meta' = meta /\ lock' = lock
          BY <4>2 DEF CloseEmb, Goto, TypeOK
        <5> QED  BY <3>1, <5>1 DEF Writing, Saving, AllFrom
      <4>3. CASE OpenMeta(t)
        <5>1. pc'[t] = "meta2" /\ lock' = lock  BY <4>3 DEF OpenMeta, Goto, TypeOK
        <5> QED  BY <3>1, <5>1 DEF Saving
      <4>4. CASE CloseMeta(t)
        <5>1. pc'[t] = Resume(t) /\ lock' = NoThread  BY <4>4 DEF CloseMeta, Goto, TypeOK
        <5>2. pc[t] # "idle"  BY <3>1 DEF Saving
        <5>3. Resume(t) \in {"lock_model", "plan", "use", "add"}
          BY <5>2, ReadyStep DEF Resume
        <5> QED  BY <2>2, <5>1, <5>3 DEF Saving
      <4> QED  BY <2>6, <4>1, <4>2, <4>3, <4>4 DEF WriteOut
    <3> QED  BY <2>3, <3>3, <3>4 DEF Writing
  <2> QED  BY <1>3, <2>4, <2>5, <2>6
<1>4. ASSUME NEW t \in Thread, WriteFails(t)
      PROVE  Writing'
  <2>1. Others(t) /\ lock' = NoThread /\ pc[t] \in Saving /\ pc'[t] \notin Saving
    BY <1>4, WriteFailsStep DEF Saving
  <2>2. \A u \in Thread : lock' # u /\ pc'[u] \notin Saving
    BY <2>1, BankAssumption DEF Writing, Others
  <2> QED  BY <2>2 DEF Writing, Saving
<1>5. CASE Next /\ ~Crash
  <2>1. PICK t \in Thread :
          (Quiet(t) \/ Begins(t) \/ WriteOut(t) \/ WriteFails(t)) /\ Others(t)
    BY <1>5, StepKinds
  <2> QED  BY <1>3, <1>4, <2>1
<1> QED  BY <1>1, <1>2, <1>5

\* The thread that holds the bank's file lock is the one that writes, and what it
\* writes has only grown since it read the files under the lock (bank.py, add,
\* lock_model, reembed and _save).
THEOREM BankSafe == Spec => []BankInv
<1>1. Init => BankInv
  <2>1. ASSUME Init PROVE Extracted /\ Writing
    <3>1. \A t \in Thread : pc[t] = "idle" /\ lock # t  BY <2>1, BankAssumption DEF Init
    <3> QED  BY <3>1 DEF Extracted, Writing, Saving
  <2> QED  BY <2>1, InitType DEF BankInv
<1>2. BankInv /\ [Next]_vars => BankInv'
  BY TypeStep, ExtractedStep, WritingStep DEF BankInv
<1> QED  BY <1>1, <1>2, PTL DEF Spec

-----------------------------------------------------------------------------
\* What the files hold changes only when the holder of the lock writes them, or
\* stops in the middle.
LEMMA FileStep ==
  ASSUME BankInv, [Next]_vars
  PROVE  \/ UNCHANGED files
         \/ \E t \in Thread : WriteOut(t)
         \/ CutShort /\ lock' = NoThread
<1>1. CASE UNCHANGED vars  BY <1>1 DEF vars
<1>2. CASE Crash  BY <1>2 DEF Crash
<1>3. CASE Next /\ ~Crash
  <2>1. PICK t \in Thread : Quiet(t) \/ Begins(t) \/ WriteOut(t) \/ WriteFails(t)
    BY <1>3, StepKinds DEF BankInv
  <2> QED  BY <2>1 DEF Quiet, Begins, Save, WriteFails, files
<1> QED  BY <1>1, <1>2, <1>3

\* TypeOK holds with any number of threads, faults and crashes: no exception
\* leaves a call half alive (service.py, the endpoints).
THEOREM TypeCorrect == Spec => []TypeOK
<1>1. BankInv => TypeOK  BY DEF BankInv
<1> QED  BY <1>1, BankSafe, PTL

\* No interleaving of teaches and reembeds takes a vector out of embeddings.pt
\* (bank.py, add and reembed read it again under the lock); a crash or a failing
\* write takes all of them or none, by cutting the file short.
THEOREM BankOnlyGrows == Spec => NothingForgotten
<1>1. ASSUME BankInv, [Next]_vars
      PROVE  [\/ \A c \in Class : Len(emb'.vec[c]) >= Len(emb.vec[c])
              \/ lock' = NoThread /\ ~emb'.whole]_vars
  <2>1. \A c \in Class : Len(emb.vec[c]) \in Nat  BY <1>1 DEF BankInv, TypeOK, Vectors
  <2>2. CASE UNCHANGED files
    <3>1. emb' = emb  BY <2>2 DEF files
    <3> QED  BY <2>1, <3>1
  <2>3. ASSUME NEW t \in Thread, WriteOut(t), NEW c \in Class
        PROVE  Len(emb'.vec[c]) >= Len(emb.vec[c])
    <3>1. CASE OpenEmb(t)
      <4>1. Len(mem[t].vec[c]) \in Nat  BY <1>1 DEF BankInv, TypeOK, Vectors
      <4>2. pc[t] = "emb" /\ emb'.vec = mem[t].vec  BY <3>1 DEF OpenEmb
      <4>3. Len(emb.vec[c]) <= Len(mem[t].vec[c])  BY <1>1, <4>2 DEF BankInv, Writing
      <4> QED  BY <2>1, <4>1, <4>2, <4>3
    <3>2. CASE CloseEmb(t) \/ OpenMeta(t) \/ CloseMeta(t)
      <4>1. emb'.vec = emb.vec
        BY <1>1, <3>2 DEF CloseEmb, OpenMeta, CloseMeta, BankInv, TypeOK
      <4> QED  BY <2>1, <4>1
    <3> QED  BY <2>3, <3>1, <3>2 DEF WriteOut
  <2>4. CASE CutShort /\ lock' = NoThread
    <3>1. CASE emb.whole
      <4>1. emb' = emb  BY <2>4, <3>1 DEF CutShort
      <4> QED  BY <2>1, <4>1
    <3>2. CASE ~emb.whole  BY <2>4, <3>2 DEF CutShort
    <3> QED  BY <3>1, <3>2
  <2> QED  BY <1>1, <2>2, <2>3, <2>4, FileStep
<1> QED  BY <1>1, BankSafe, PTL DEF Spec, NothingForgotten

\* The bank's model is decided once, and changes only when every vector has
\* been replaced by one of the new model, or is lost with a file cut short
\* (bank.py, lock_model and reembed).
ModelFollowsVectors ==
  [][meta'.model # meta.model =>
       \/ meta.model = NoModel \/ AllFrom(emb.vec, meta'.model)
       \/ lock' = NoThread /\ ~meta'.whole]_vars

\* The model the bank is locked to is chosen once, and after that only a reembed
\* that has already replaced every vector changes it (bank.py, lock_model); a
\* crash or a failing write loses it with the whole file or leaves it alone.
THEOREM ModelLocked == Spec => ModelFollowsVectors
<1>1. ASSUME BankInv, [Next]_vars
      PROVE  [meta'.model # meta.model =>
                \/ meta.model = NoModel \/ AllFrom(emb.vec, meta'.model)
                \/ lock' = NoThread /\ ~meta'.whole]_vars
  <2> SUFFICES ASSUME meta'.model # meta.model, ~(lock' = NoThread /\ ~meta'.whole)
               PROVE  meta.model = NoModel \/ AllFrom(emb.vec, meta'.model)
    OBVIOUS
  <2>1. ~(CutShort /\ lock' = NoThread)
    <3>1. CutShort /\ meta.whole => meta' = meta  BY DEF CutShort
    <3>2. CutShort /\ ~meta.whole => ~meta'.whole  BY DEF CutShort
    <3> QED  BY <3>1, <3>2
  <2>2. PICK t \in Thread : WriteOut(t)  BY <1>1, <2>1, FileStep DEF files
  <2>3. CASE OpenMeta(t)
    <3>1. pc[t] = "meta" /\ meta'.model = mem[t].model  BY <2>3 DEF OpenMeta
    <3> QED  BY <1>1, <3>1 DEF BankInv, Writing
  <2>4. CASE OpenEmb(t) \/ CloseEmb(t) \/ CloseMeta(t)
    BY <1>1, <2>4 DEF OpenEmb, CloseEmb, CloseMeta, BankInv, TypeOK
  <2> QED  BY <2>2, <2>3, <2>4 DEF WriteOut
<1> QED  BY <1>1, BankSafe, PTL DEF Spec, ModelFollowsVectors

-----------------------------------------------------------------------------
(***************************************************************************)
(* As long as the process lives, the two files agree between writes.        *)
(***************************************************************************)
Agreement ==
  /\ FilesAgree
  /\ \A t \in Thread :
       /\ pc[t] \in Saving => mem[t].inst = CountsOf(mem[t].vec)
       /\ pc[t] \in {"meta", "meta2"} => emb.whole /\ emb.vec = mem[t].vec
       /\ pc[t] = "meta2" => meta.inst = mem[t].inst

LEMMA AgreementStep ==
  ASSUME BankInv, Agreement, ~Crashes, ~WriteFaults, [Next]_vars
  PROVE  Agreement'
<1> USE DEF BankInv
<1>1. CASE UNCHANGED vars
  BY <1>1 DEF vars, files, Agreement, FilesAgree, CountsOf, Whole
<1>2. ASSUME NEW t \in Thread,
             Quiet(t) \/ Begins(t) \/ WriteOut(t), Others(t)
      PROVE  Agreement'
  <2>1. NoThread # t /\ (lock = t <=> pc[t] \in Saving)  BY BankAssumption DEF Writing
  <2>2. ASSUME NEW u \in Thread \ {t}, (lock \notin {t, NoThread}) => UNCHANGED files
        PROVE  /\ pc'[u] \in Saving => mem'[u].inst = CountsOf(mem'[u].vec)
               /\ pc'[u] \in {"meta", "meta2"} => emb'.whole /\ emb'.vec = mem'[u].vec
               /\ pc'[u] = "meta2" => meta'.inst = mem'[u].inst
    <3>1. pc'[u] = pc[u] /\ mem'[u] = mem[u]  BY <1>2 DEF Others
    <3>2. CASE pc[u] \notin Saving  BY <3>1, <3>2 DEF Saving
    <3>3. CASE pc[u] \in Saving
      <4>1. lock = u  BY <3>3 DEF Writing
      <4>2. emb' = emb /\ meta' = meta  BY <2>2, <4>1, BankAssumption DEF files
      <4> QED  BY <3>1, <4>2 DEF Agreement
    <3> QED  BY <3>2, <3>3
  <2>3. CASE Quiet(t)
    <3>1. emb' = emb /\ meta' = meta /\ lock' = lock  BY <2>3 DEF Quiet, files
    <3>2. FilesAgree'  BY <3>1 DEF Agreement, FilesAgree, Whole, CountsOf
    <3>3. pc'[t] \notin Saving  BY <2>3 DEF Quiet
    <3> QED  BY <2>2, <3>1, <3>2, <3>3 DEF Agreement, Saving, files
  <2>4. CASE Begins(t)
    <3>1. PICK bank \in BankObject : Save(t, bank) /\ Forward(bank)  BY <2>4 DEF Begins
    <3>2. /\ lock = NoThread /\ lock' = t /\ mem'[t] = bank /\ pc'[t] = "emb"
          /\ UNCHANGED files
      BY <3>1 DEF Save, Goto, TypeOK
    <3>3. bank.inst = CountsOf(bank.vec)  BY <3>1, <3>2 DEF Forward, Agreement, FilesAgree
    <3>4. FilesAgree'  BY <2>1, <3>2 DEF FilesAgree
    <3>5. mem'[t].inst = CountsOf(mem'[t].vec)  BY <3>2, <3>3
    <3> QED  BY <2>2, <3>2, <3>4, <3>5 DEF Agreement
  <2>5. CASE WriteOut(t)
    <3>1. mem'[t] = mem[t] /\ pc[t] \in Saving /\ lock = t  BY <2>1, <2>5, WriteOutStep
    <3>2. mem[t].inst = CountsOf(mem[t].vec)  BY <3>1 DEF Agreement
    <3>3. mem'[t].inst = CountsOf(mem'[t].vec)  BY <3>1, <3>2
    <3>4. /\ FilesAgree'
          /\ pc'[t] \in {"meta", "meta2"} => emb'.whole /\ emb'.vec = mem'[t].vec
          /\ pc'[t] = "meta2" => meta'.inst = mem'[t].inst
      <4>1. CASE OpenEmb(t)
        <5>1. pc'[t] = "emb2" /\ lock' = t  BY <3>1, <4>1 DEF OpenEmb, Goto, TypeOK
        <5> QED  BY <2>1, <5>1 DEF FilesAgree
      <4>2. CASE CloseEmb(t)
        <5>1. /\ pc[t] = "emb2" /\ pc'[t] = "meta" /\ lock' = t
              /\ emb'.vec = emb.vec /\ emb'.whole
          BY <3>1, <4>2 DEF CloseEmb, Goto, TypeOK
        <5>2. emb.vec = mem[t].vec  BY <5>1 DEF Writing
        <5> QED  BY <2>1, <3>1, <5>1, <5>2 DEF FilesAgree
      <4>3. CASE OpenMeta(t)
        <5>1. /\ pc[t] = "meta" /\ pc'[t] = "meta2" /\ lock' = t
              /\ emb' = emb /\ meta'.inst = mem[t].inst
          BY <3>1, <4>3 DEF OpenMeta, Goto, TypeOK
        <5>2. emb.whole /\ emb.vec = mem[t].vec  BY <5>1 DEF Agreement
        <5> QED  BY <2>1, <3>1, <5>1, <5>2 DEF FilesAgree
      <4>4. CASE CloseMeta(t)
        <5>1. /\ pc[t] = "meta2" /\ pc'[t] = Resume(t)
              /\ emb' = emb /\ meta'.inst = meta.inst /\ meta'.whole
          BY <4>4 DEF CloseMeta, Goto, TypeOK
        <5>2. emb.whole /\ emb.vec = mem[t].vec /\ meta.inst = mem[t].inst
          BY <5>1 DEF Agreement
        <5>3. emb'.whole /\ meta'.whole /\ meta'.inst = CountsOf(emb'.vec)
          BY <3>2, <5>1, <5>2
        <5>4. pc[t] # "idle"  BY <5>1
        <5>5. Resume(t) \in {"lock_model", "plan", "use", "add"}
          BY <5>4, ReadyStep DEF Resume
        <5> QED  BY <5>1, <5>3, <5>5 DEF FilesAgree, Whole, CountsOf
      <4> QED  BY <2>5, <4>1, <4>2, <4>3, <4>4 DEF WriteOut
    <3> QED  BY <2>2, <3>1, <3>3, <3>4 DEF Agreement
  <2> QED  BY <1>2, <2>3, <2>4, <2>5
<1>3. CASE Next
  <2>1. ~Crash /\ \A t \in Thread : ~WriteFails(t)  BY DEF Crash, WriteFails
  <2>2. PICK t \in Thread : (Quiet(t) \/ Begins(t) \/ WriteOut(t)) /\ Others(t)
    BY <1>3, <2>1, StepKinds
  <2> QED  BY <1>2, <2>2
<1> QED  BY <1>1, <1>3

\* Between two writes the vectors and their provenance match, if the process
\* never dies inside one and no write fails (bank.py, every _save is under the
\* lock).  Otherwise they need not: _save is two writes.
THEOREM FilesMatch ==
  ASSUME ~Crashes, ~WriteFaults
  PROVE  Spec => []FilesAgree
<1>1. Init => Agreement
  <2>1. ASSUME Init PROVE FilesAgree /\ \A t \in Thread : pc[t] = "idle"
    BY <2>1 DEF Init, FilesAgree, Whole
  <2> QED  BY <2>1 DEF Agreement, Saving
<1>2. BankInv /\ Agreement /\ [Next]_vars => Agreement'  BY AgreementStep
<1>3. Agreement => FilesAgree  BY DEF Agreement
<1> QED  BY <1>1, <1>2, <1>3, BankSafe, PTL DEF Spec
-----------------------------------------------------------------------------
(***************************************************************************)
(* Without reembeds every vector comes from the bank's model, at any time   *)
(* and through any crash, until a call has gone on without the migration.   *)
(***************************************************************************)

\* What a thread knows of the space: a bank without a model does not change
\* between a constructor's two reads, lock_model comes to one only when it is
\* empty, a teach goes on only with the bank's model, and so does what is saved.
ThreadSpace(t) ==
  /\ pc[t] \notin {"plan", "commit"}
  /\ pc[t] \in {"idle", "load", "load2", "migrate", "lock_model"} => work[t].model = NoModel
  /\ pc[t] = "load2" /\ meta.model = NoModel => mem[t].vec = emb.vec
  /\ pc[t] = "lock_model" /\ meta.model = NoModel => Classes(emb.vec) = {}
  /\ pc[t] = "add" => work[t].model = meta.model
  /\ pc[t] \in Saving =>
       /\ mem[t].model # NoModel /\ AllFrom(mem[t].vec, mem[t].model)
       /\ work[t].model \in {NoModel, mem[t].model}
       /\ meta.model \in {NoModel, mem[t].model}
       /\ meta.model = NoModel => mem[t].vec = emb.vec
       /\ pc[t] = "meta2" => meta.model = mem[t].model

\* A bank without a model is empty or from before models could be chosen.
FilesSpace ==
  /\ meta.model = NoModel => AllFrom(emb.vec, Default)
  /\ meta.model # NoModel => AllFrom(emb.vec, meta.model)

Space == FilesSpace /\ \A t \in Thread : ThreadSpace(t)

\* A bank with a file cut short stays as it is: nobody can read it, so nobody
\* writes it again.
Lost == lock = NoThread /\ ~Whole

SpaceInv ==
  \/ skipped
  \/ Lost /\ (meta.model # NoModel => AllFrom(emb.vec, meta.model))
  \/ Space

LEMMA EmptyFrom == ASSUME NEW vec \in Vectors, Classes(vec) = {}, NEW m PROVE AllFrom(vec, m)
<1>1. \A c \in Class : vec[c] = <<>>  BY DEF Classes
<1> QED  BY <1>1 DEF AllFrom

LEMMA NoVectorsFrom == \A m : AllFrom(NoVectors, m)
BY DEF AllFrom, NoVectors

LEMMA LegacyFrom == AllFrom(LegacyBank, Default)
<1>1. \A c \in Class : LegacyBank[c] \in {<<Default>>, <<>>}  BY DEF LegacyBank
<1>2. \A k \in DOMAIN <<Default>> : <<Default>>[k] = Default  OBVIOUS
<1>3. DOMAIN <<>> = {}  OBVIOUS
<1> QED  BY <1>1, <1>2, <1>3 DEF AllFrom

\* A vector of the model joins vectors of the model.
LEMMA GrownFrom ==
  ASSUME NEW vec \in Vectors, NEW m \in Model, AllFrom(vec, m), NEW c \in Class
  PROVE  AllFrom([vec EXCEPT ![c] = Append(@, m)], m)
<1> DEFINE grown == [vec EXCEPT ![c] = Append(@, m)]
<1> SUFFICES ASSUME NEW d \in Class, NEW k \in DOMAIN grown[d] PROVE grown[d][k] = m  BY DEF AllFrom
<1>1. vec[d] \in Seq(Model) /\ vec[c] \in Seq(Model)  BY DEF Vectors
<1>2. CASE d # c
  <2>1. grown[d] = vec[d]  BY <1>2 DEF Vectors
  <2> QED  BY <2>1 DEF AllFrom
<1>3. CASE d = c
  <2>1. grown[d] = Append(vec[c], m)  BY <1>3 DEF Vectors
  <2>2. k \in 1..(Len(vec[c]) + 1)  BY <1>1, <2>1
  <2>3. CASE k = Len(vec[c]) + 1  BY <1>1, <2>1, <2>3
  <2>4. CASE k \in 1..Len(vec[c])
    <3>1. k \in DOMAIN vec[c] /\ grown[d][k] = vec[c][k]  BY <1>1, <2>1, <2>4
    <3> QED  BY <3>1 DEF AllFrom
  <2> QED  BY <1>1, <2>2, <2>3, <2>4
<1> QED  BY <1>2, <1>3

LEMMA SpaceInit == Init => SpaceInv
<1> SUFFICES ASSUME Init PROVE Space  BY DEF SpaceInv
<1>1. AllFrom(emb.vec, Default)  BY NoVectorsFrom, LegacyFrom DEF Init
<1>2. meta.model = NoModel  BY DEF Init
<1>3. \A t \in Thread : pc[t] = "idle" /\ work[t].model = NoModel  BY DEF Init, NoWork
<1> QED  BY <1>1, <1>2, <1>3 DEF Space, FilesSpace, ThreadSpace, Saving

-----------------------------------------------------------------------------
\* What a thread can do to the files without touching what the others know.
Mild == \/ meta'.model = meta.model /\ (emb'.vec = emb.vec \/ meta.model # NoModel)
        \/ meta.model = NoModel /\ meta'.model # NoModel

LEMMA OtherSpace ==
  ASSUME BankInv, NEW t \in Thread, NEW u \in Thread \ {t}, ThreadSpace(u), Others(t), Mild,
         pc[u] \in Saving => UNCHANGED files
  PROVE  ThreadSpace(u)'
<1>1. pc'[u] = pc[u] /\ mem'[u] = mem[u] /\ work'[u] = work[u]  BY DEF Others
<1>2. CASE pc[u] \in Saving
  <2>1. emb' = emb /\ meta' = meta  BY <1>2 DEF files
  <2> QED  BY <1>1, <1>2, <2>1 DEF ThreadSpace, AllFrom, Classes, Saving
<1>3. CASE pc[u] \notin Saving
  <2>1. pc[u] = "add" => work[u].model # NoModel
    BY BankAssumption DEF BankInv, Extracted
  <2>2. meta'.model = NoModel => meta.model = NoModel /\ emb'.vec = emb.vec  BY DEF Mild
  <2>3. pc[u] = "add" => meta'.model = meta.model  BY <2>1 DEF Mild, ThreadSpace
  <2> QED  BY <1>1, <1>3, <2>2, <2>3 DEF ThreadSpace, Classes
<1> QED  BY <1>2, <1>3

\* A step that leaves the files alone is judged by what its thread knows after it.
LEMMA FilesKept ==
  ASSUME BankInv, Space, NEW t \in Thread, Others(t), UNCHANGED files, ThreadSpace(t)'
  PROVE  Space'
<1>1. emb' = emb /\ meta' = meta  BY DEF files
<1>2. Mild  BY <1>1 DEF Mild
<1>3. \A u \in Thread \ {t} : ThreadSpace(u)'  BY <1>2, OtherSpace DEF Space
<1>4. FilesSpace'  BY <1>1 DEF Space, FilesSpace, AllFrom
<1> QED  BY <1>3, <1>4 DEF Space

LEMMA EndSpace ==
  ASSUME BankInv, NEW t \in Thread, End(t)
  PROVE  ThreadSpace(t)' /\ Others(t) /\ UNCHANGED files
<1>1. pc'[t] = "idle" /\ work'[t].model = NoModel  BY DEF End, Leave, Goto, BankInv, TypeOK, NoWork
<1>2. Others(t) /\ UNCHANGED files  BY DEF End, Leave, Goto, Others, BankInv, TypeOK
<1> QED  BY <1>1, <1>2 DEF ThreadSpace, Saving

\* A thread begins to save vectors of the model it saves.
LEMMA SaveSpace ==
  ASSUME BankInv, NEW t \in Thread, NEW bank \in BankObject, Save(t, bank),
         bank.model # NoModel, AllFrom(bank.vec, bank.model),
         work'[t].model \in {NoModel, bank.model},
         meta.model \in {NoModel, bank.model},
         meta.model = NoModel => bank.vec = emb.vec
  PROVE  ThreadSpace(t)'
<1>1. pc'[t] = "emb" /\ mem'[t] = bank /\ emb' = emb /\ meta' = meta
  BY DEF Save, Goto, BankInv, TypeOK, files
<1> QED  BY <1>1 DEF ThreadSpace, AllFrom, Saving

LEMMA ConstructorSpace ==
  ASSUME BankInv, Space, "reembed" \notin Ops, NEW t \in Thread,
         Arrive(t) \/ ReadEmb(t) \/ ReadMeta(t) \/ Migrate(t)
  PROVE  ThreadSpace(t)' /\ Others(t) /\ UNCHANGED files
<1> USE DEF BankInv
<1>1. ThreadSpace(t)  BY DEF Space
<1>2. pc[t] # "idle" => Ready(t) \in {"lock_model", "use"}
  BY RequestTypes DEF Ready, Request
<1>3. CASE Arrive(t)
  <2>1. /\ pc[t] = "idle" /\ pc'[t] = "load" /\ work' = work
        /\ Others(t) /\ UNCHANGED files
    BY <1>3 DEF Arrive, Goto, Others, TypeOK
  <2> QED  BY <1>1, <2>1 DEF ThreadSpace, Saving
<1>4. CASE ReadEmb(t)
  <2>1. CASE emb.whole
    <3>1. /\ pc[t] = "load" /\ pc'[t] = "load2" /\ work' = work /\ mem'[t].vec = emb.vec
          /\ Others(t) /\ UNCHANGED files /\ emb' = emb
      BY <1>4, <2>1 DEF ReadEmb, Goto, Others, TypeOK, files
    <3> QED  BY <1>1, <3>1 DEF ThreadSpace, Saving
  <2> QED  BY <1>4, <2>1, EndSpace DEF ReadEmb
<1>5. CASE ReadMeta(t)
  <2>1. CASE meta.whole
    <3> DEFINE step == IF meta.model = NoModel /\ Classes(mem[t].vec) # {}
                       THEN "migrate" ELSE Ready(t)
    <3>1. /\ pc[t] = "load2" /\ pc'[t] = step /\ work' = work
          /\ Others(t) /\ UNCHANGED files /\ emb' = emb /\ meta' = meta
      BY <1>5, <2>1 DEF ReadMeta, Goto, Others, TypeOK, files
    <3>2. step \in {"migrate", "lock_model", "use"}  BY <1>2, <3>1
    <3>3. step = "lock_model" /\ meta.model = NoModel => Classes(emb.vec) = {}
      BY <1>1, <3>1 DEF ThreadSpace
    <3> HIDE DEF step
    <3> QED  BY <1>1, <3>1, <3>2, <3>3 DEF ThreadSpace, Saving, Classes
  <2> QED  BY <1>5, <2>1, EndSpace DEF ReadMeta
<1>6. CASE Migrate(t)
  <2>1. CASE ~Whole  BY <1>6, <2>1, EndSpace DEF Migrate
  <2>2. CASE Whole /\ meta.model = NoModel /\ Classes(emb.vec) # {}
    <3> DEFINE bank == [Load EXCEPT !.model = Default]
    <3>1. Save(t, bank) /\ work' = work  BY <1>6, <2>2 DEF Migrate
    <3>2. bank \in BankObject  BY LoadType, BankAssumption DEF AnyModel, BankObject
    <3>3. bank.model = Default /\ bank.vec = emb.vec  BY DEF Load
    <3>4. AllFrom(emb.vec, Default)  BY <2>2 DEF Space, FilesSpace
    <3>5. work'[t].model = NoModel  BY <1>1, <1>6, <3>1 DEF ThreadSpace, Migrate
    <3>6. Others(t) /\ UNCHANGED files  BY <3>1 DEF Save, Others, Goto, TypeOK
    <3> HIDE DEF bank
    <3> QED  BY <2>2, <3>1, <3>2, <3>3, <3>4, <3>5, <3>6, SaveSpace, BankAssumption
  <2>3. CASE Whole /\ ~(meta.model = NoModel /\ Classes(emb.vec) # {})
    <3>1. /\ pc[t] = "migrate" /\ pc'[t] = Ready(t) /\ work' = work
          /\ Others(t) /\ UNCHANGED files /\ emb' = emb /\ meta' = meta
      BY <1>6, <2>3 DEF Migrate, Goto, Others, TypeOK, files
    <3> QED  BY <1>1, <1>2, <2>3, <3>1 DEF ThreadSpace, Saving, Classes
  <2> QED  BY <2>1, <2>2, <2>3
<1> QED  BY <1>3, <1>4, <1>5, <1>6

LEMMA TeachSpace ==
  ASSUME BankInv, Space, NEW t \in Thread, LockModel(t) \/ Add(t)
  PROVE  ThreadSpace(t)' /\ Others(t) /\ UNCHANGED files
<1> USE DEF BankInv
<1>1. ThreadSpace(t)  BY DEF Space
<1>2. pc[t] # "idle"  BY DEF LockModel, Add
<1>3. req[t].model \in Model /\ req[t].todo \subseteq Class  BY <1>2, RequestTypes
<1>4. emb.vec \in Vectors /\ meta.model \in AnyModel  BY DEF TypeOK
<1>5. CASE LockModel(t)
  <2>1. CASE ~Whole \/ meta.model \notin {NoModel, req[t].model}
    BY <1>5, <2>1, EndSpace DEF LockModel
  <2>2. CASE Whole /\ meta.model = NoModel
    <3> DEFINE bank == [Load EXCEPT !.model = req[t].model]
    <3>1. Save(t, bank) /\ work' = [work EXCEPT ![t].model = req[t].model]
      BY <1>5, <2>2 DEF LockModel
    <3>2. bank \in BankObject  BY LoadType, <1>3 DEF AnyModel, BankObject
    <3>3. bank.model = req[t].model /\ bank.vec = emb.vec  BY DEF Load
    <3>4. AllFrom(emb.vec, req[t].model)
      BY <1>1, <1>4, <1>5, <2>2, EmptyFrom DEF ThreadSpace, LockModel
    <3>5. work'[t].model = req[t].model  BY <3>1 DEF TypeOK
    <3>6. Others(t) /\ UNCHANGED files  BY <3>1 DEF Save, Others, Goto, TypeOK
    <3>7. req[t].model # NoModel  BY <1>3, BankAssumption
    <3> HIDE DEF bank
    <3> QED  BY <2>2, <3>1, <3>2, <3>3, <3>4, <3>5, <3>6, <3>7, SaveSpace
  <2>3. CASE Whole /\ meta.model = req[t].model /\ meta.model # NoModel
    <3>1. /\ pc'[t] = "add" /\ work'[t].model = req[t].model
          /\ Others(t) /\ UNCHANGED files /\ meta' = meta
      BY <1>5, <2>3 DEF LockModel, Goto, Others, TypeOK, files
    <3> QED  BY <2>3, <3>1 DEF ThreadSpace, Saving
  <2> QED  BY <2>1, <2>2, <2>3
<1>6. CASE Add(t)
  <2>1. CASE ~Whole  BY <1>6, <2>1, EndSpace DEF Add
  <2>2. CASE Whole
    <3> DEFINE grown(c) == [Load EXCEPT !.vec[c] = Append(@, work[t].model), !.inst[c] = @ + 1]
    <3>1. PICK c \in req[t].todo : Save(t, grown(c)) /\ UNCHANGED work
      BY <1>6, <2>2 DEF Add
    <3>2. c \in Class /\ work[t].model \in Model  BY <1>3, <1>6 DEF Add, Extracted
    <3>3. grown(c) \in BankObject  BY <3>2, GrownForward
    <3>4. work[t].model = meta.model  BY <1>1, <1>6 DEF ThreadSpace, Add
    <3>5. /\ grown(c).model = meta.model
          /\ grown(c).vec = [emb.vec EXCEPT ![c] = Append(@, work[t].model)]
      BY DEF Load
    <3>6. meta.model # NoModel  BY <3>2, <3>4, BankAssumption
    <3>7. AllFrom(grown(c).vec, grown(c).model)
      BY <1>4, <3>2, <3>4, <3>5, <3>6, GrownFrom DEF Space, FilesSpace
    <3>8. Others(t) /\ UNCHANGED files  BY <3>1 DEF Save, Others, Goto, TypeOK
    <3> HIDE DEF grown
    <3> QED  BY <3>1, <3>3, <3>4, <3>5, <3>6, <3>7, <3>8, SaveSpace
  <2> QED  BY <2>1, <2>2
<1> QED  BY <1>5, <1>6

LEMMA WriteOutSpace ==
  ASSUME BankInv, Space, "reembed" \notin Ops, NEW t \in Thread, WriteOut(t)
  PROVE  Space'
<1> USE DEF BankInv
<1>1. ThreadSpace(t)  BY DEF Space
<1>2. Others(t) /\ mem'[t] = mem[t] /\ work'[t] = work[t] /\ pc[t] \in Saving
  BY WriteOutStep
<1>3. /\ mem[t].model # NoModel /\ AllFrom(mem[t].vec, mem[t].model)
      /\ work[t].model \in {NoModel, mem[t].model}
      /\ meta.model \in {NoModel, mem[t].model}
      /\ meta.model = NoModel => mem[t].vec = emb.vec
  BY <1>1, <1>2 DEF ThreadSpace
<1>4. SUFFICES Mild /\ FilesSpace' /\ ThreadSpace(t)'
  <2>1. lock = t  BY <1>2 DEF Writing
  <2>2. \A u \in Thread \ {t} : pc[u] \notin Saving  BY <2>1 DEF Writing
  <2>3. ASSUME Mild PROVE \A u \in Thread \ {t} : ThreadSpace(u)'
    BY <1>2, <2>2, <2>3, OtherSpace DEF Space
  <2> QED  BY <2>3 DEF Space
<1>5. CASE OpenEmb(t)
  <2>1. pc'[t] = "emb2" /\ emb'.vec = mem[t].vec /\ meta' = meta
    BY <1>5 DEF OpenEmb, Goto, TypeOK
  <2>2. Mild  BY <1>3, <2>1 DEF Mild
  <2>3. FilesSpace'  BY <1>3, <2>1 DEF FilesSpace, Space, AllFrom
  <2>4. ThreadSpace(t)'  BY <1>2, <1>3, <2>1 DEF ThreadSpace, AllFrom, Saving
  <2> QED  BY <2>2, <2>3, <2>4
<1>6. CASE CloseEmb(t)
  <2>1. pc'[t] = "meta" /\ emb'.vec = emb.vec /\ meta' = meta
    BY <1>6 DEF CloseEmb, Goto, TypeOK
  <2>2. Mild  BY <2>1 DEF Mild
  <2>3. FilesSpace'  BY <2>1 DEF FilesSpace, Space, AllFrom
  <2>4. ThreadSpace(t)'  BY <1>2, <1>3, <2>1 DEF ThreadSpace, AllFrom, Saving
  <2> QED  BY <2>2, <2>3, <2>4
<1>7. CASE OpenMeta(t)
  <2>1. pc[t] = "meta" /\ pc'[t] = "meta2" /\ emb' = emb /\ meta'.model = mem[t].model
    BY <1>7 DEF OpenMeta, Goto, TypeOK
  <2>2. Mild  BY <1>3, <2>1 DEF Mild
  <2>3. emb.vec = mem[t].vec  BY <2>1 DEF Writing
  <2>4. FilesSpace'  BY <1>3, <2>1, <2>3 DEF FilesSpace, AllFrom
  <2>5. ThreadSpace(t)'  BY <1>2, <1>3, <2>1 DEF ThreadSpace, AllFrom, Saving
  <2> QED  BY <2>2, <2>4, <2>5
<1>8. CASE CloseMeta(t)
  <2>1. pc[t] = "meta2" /\ pc'[t] = Resume(t) /\ emb' = emb /\ meta'.model = meta.model
    BY <1>8 DEF CloseMeta, Goto, TypeOK
  <2>2. Mild  BY <2>1 DEF Mild
  <2>3. FilesSpace'  BY <2>1 DEF FilesSpace, Space, AllFrom
  <2>4. meta.model = mem[t].model  BY <1>1, <1>2, <2>1 DEF ThreadSpace
  <2>5. pc[t] # "idle"  BY <2>1
  <2>6. Ready(t) \in {"lock_model", "use"}  BY <2>5, RequestTypes DEF Ready, Request
  <2>7. /\ Resume(t) \in {"lock_model", "use", "add"}
        /\ Resume(t) = "lock_model" => work[t].model = NoModel
        /\ Resume(t) = "add" => work[t].model # NoModel
    BY <2>6 DEF Resume
  <2>8. ThreadSpace(t)'
    BY <1>2, <1>3, <2>1, <2>4, <2>7 DEF ThreadSpace, Saving
  <2> QED  BY <2>2, <2>3, <2>8
<1> QED  BY <1>5, <1>6, <1>7, <1>8 DEF WriteOut

\* What was lost or passed over stays so.
LEMMA SkippedStays ==
  ASSUME [Next]_vars, skipped
  PROVE  skipped'
<1>1. CASE UNCHANGED vars \/ Crash  BY <1>1 DEF vars, Crash
<1>2. ASSUME NEW t \in Thread,
             Arrive(t) \/ ReadEmb(t) \/ ReadMeta(t) \/ Migrate(t) \/ MigrateFails(t)
      PROVE  skipped'
  BY <1>2 DEF Arrive, ReadEmb, ReadMeta, Migrate, MigrateFails, End, Save
<1>3. ASSUME NEW t \in Thread, LockModel(t) \/ Add(t) \/ Plan(t) \/ Commit(t)
      PROVE  skipped'
  BY <1>3 DEF LockModel, Add, Plan, Commit, End, Save
<1>4. ASSUME NEW t \in Thread, WriteOut(t) \/ WriteFails(t) \/ Answer(t) \/ CallFails(t)
      PROVE  skipped'
  BY <1>4 DEF WriteOut, OpenEmb, CloseEmb, OpenMeta, CloseMeta, WriteFails, Raise, Answer,
              CallFails, End
<1> QED  BY <1>1, <1>2, <1>3, <1>4 DEF Next

LEMMA LostStays ==
  ASSUME BankInv, Lost, [Next]_vars, meta.model # NoModel => AllFrom(emb.vec, meta.model)
  PROVE  Lost' /\ (meta'.model # NoModel => AllFrom(emb'.vec, meta'.model))
<1> USE DEF BankInv
<1>1. \A t \in Thread : pc[t] \notin Saving  BY BankAssumption DEF Lost, Writing
<1>2. CASE UNCHANGED vars \/ \E t \in Thread : Quiet(t)
  <2>1. lock' = lock /\ emb' = emb /\ meta' = meta  BY <1>2 DEF vars, files, Quiet
  <2> QED  BY <2>1 DEF Lost, Whole, AllFrom
<1>3. CASE Crash
  <2>1. lock' = NoThread /\ emb'.whole = emb.whole /\ meta'.whole = meta.whole
    BY <1>3 DEF Crash, CutShort, TypeOK
  <2>2. meta'.model # NoModel => meta' = meta  BY <1>3 DEF Crash, CutShort
  <2>3. emb'.vec \in {emb.vec, NoVectors}  BY <1>3 DEF Crash, CutShort
  <2>4. Lost'  BY <2>1 DEF Lost, Whole
  <2>5. meta'.model # NoModel => AllFrom(emb'.vec, meta'.model)
    <3>1. CASE emb'.vec = NoVectors  BY <3>1, NoVectorsFrom
    <3>2. CASE emb'.vec = emb.vec  BY <2>2, <3>2
    <3> QED  BY <2>3, <3>1, <3>2
  <2> QED  BY <2>4, <2>5
<1>4. CASE Next /\ ~Crash
  <2>1. PICK t \in Thread : Quiet(t) \/ Begins(t) \/ WriteOut(t) \/ WriteFails(t)
    BY <1>4, StepKinds
  <2>2. ~Begins(t)  BY DEF Begins, Lost
  <2>3. ~WriteOut(t) /\ ~WriteFails(t)  BY <1>1, WriteOutStep DEF WriteFails
  <2> QED  BY <1>2, <2>1, <2>2, <2>3
<1> QED  BY <1>2, <1>3, <1>4

\* A write that stops halfway leaves a bank that agrees with itself, or none.
LEMMA CutSpace ==
  ASSUME BankInv, Space, CutShort, lock' = NoThread
  PROVE  \/ UNCHANGED files
         \/ Lost' /\ (meta'.model # NoModel => AllFrom(emb'.vec, meta'.model))
<1>1. CASE Whole  BY <1>1 DEF CutShort, Whole, files
<1>2. CASE ~Whole
  <2>1. ~(emb'.whole /\ meta'.whole)  BY <1>2 DEF CutShort, Whole
  <2>2. meta'.model # NoModel => meta' = meta  BY DEF CutShort
  <2>3. emb'.vec \in {emb.vec, NoVectors}  BY DEF CutShort
  <2> QED  BY <2>1, <2>2, <2>3, NoVectorsFrom DEF Lost, Whole, Space, FilesSpace, AllFrom
<1> QED  BY <1>1, <1>2

LEMMA SpaceStep ==
  ASSUME BankInv, SpaceInv, "reembed" \notin Ops, [Next]_vars
  PROVE  SpaceInv'
<1> USE DEF BankInv
<1> SUFFICES ASSUME ~skipped', Space PROVE SpaceInv'
  BY SkippedStays, LostStays DEF SpaceInv
<1>1. CASE UNCHANGED vars
  BY <1>1 DEF vars, files, SpaceInv, Space, FilesSpace, ThreadSpace, AllFrom, Classes
<1>2. CASE Crash
  <2>1. CASE UNCHANGED files
    <3>1. emb' = emb /\ meta' = meta  BY <2>1 DEF files
    <3>2. \A t \in Thread : pc'[t] = "idle" /\ work'[t].model = NoModel
      BY <1>2 DEF Crash, NoWork
    <3> QED  BY <3>1, <3>2 DEF SpaceInv, Space, FilesSpace, ThreadSpace, AllFrom, Saving
  <2> QED  BY <1>2, <2>1, CutSpace DEF Crash, SpaceInv
<1>3. ASSUME NEW t \in Thread, WriteFails(t)
      PROVE  SpaceInv'
  <2>1. Leave(t)  BY <1>3 DEF WriteFails, Raise
  <2>2. CASE UNCHANGED files
    <3>1. pc'[t] = "idle" /\ work'[t].model = NoModel
      BY <2>1 DEF Leave, Goto, TypeOK, NoWork
    <3>2. ThreadSpace(t)'  BY <3>1 DEF ThreadSpace, Saving
    <3>3. Others(t)  BY <1>3, WriteFailsStep
    <3> QED  BY <2>2, <3>2, <3>3, FilesKept DEF SpaceInv
  <2> QED  BY <1>3, <2>2, CutSpace, WriteFailsStep DEF SpaceInv
<1>4. ASSUME NEW t \in Thread, MigrateFails(t)
      PROVE  SpaceInv'
  <2>1. meta.model # NoModel  BY <1>4 DEF MigrateFails
  <2>2. Quiet(t) /\ pc'[t] \in {"lock_model", "use"} /\ work' = work
    <3>1. pc[t] # "idle" /\ pc'[t] = Ready(t) /\ work' = work
      BY <1>4 DEF MigrateFails, Goto, TypeOK
    <3> QED  BY <1>4, <3>1, SkipStep, RequestTypes DEF Ready, Request
  <2>3. emb' = emb /\ meta' = meta /\ work[t].model = NoModel
    BY <1>4, <2>2 DEF MigrateFails, files, Space, ThreadSpace
  <2>4. ThreadSpace(t)'  BY <2>1, <2>2, <2>3 DEF ThreadSpace, Saving
  <2> QED  BY <2>2, <2>3, <2>4, FilesKept DEF Quiet, files, SpaceInv
<1>5. ASSUME NEW t \in Thread,
             \/ Arrive(t) \/ ReadEmb(t) \/ ReadMeta(t) \/ Migrate(t)
             \/ LockModel(t) \/ Add(t) \/ Plan(t) \/ Commit(t)
             \/ WriteOut(t) \/ Answer(t) \/ CallFails(t)
      PROVE  SpaceInv'
  <2>1. CASE Arrive(t) \/ ReadEmb(t) \/ ReadMeta(t) \/ Migrate(t)
    BY <2>1, ConstructorSpace, FilesKept DEF SpaceInv
  <2>2. CASE LockModel(t) \/ Add(t)  BY <2>2, TeachSpace, FilesKept DEF SpaceInv
  <2>3. ~(Plan(t) \/ Commit(t))  BY DEF Space, ThreadSpace, Plan, Commit
  <2>4. CASE WriteOut(t)  BY <2>4, WriteOutSpace DEF SpaceInv
  <2>5. CASE Answer(t) \/ CallFails(t)
    BY <2>5, EndSpace, FilesKept DEF Answer, CallFails, SpaceInv
  <2> QED  BY <1>5, <2>1, <2>2, <2>3, <2>4, <2>5
<1> QED  BY <1>1, <1>2, <1>3, <1>4, <1>5 DEF Next

\* Teaches with any models, failures, failing writes and crashes never mix two
\* models' vectors in one bank, a bank from before models could be chosen among
\* them, as long as nobody reembeds and no call goes on after its migration
\* failed (bank.py, lock_model, _migrate_missing_model).  With a reembed they may:
\* add does not look at the model again.  After a migration passed over they may:
\* lock_model locks a bank that has vectors to the model it is called with.
THEOREM SpaceKept ==
  ASSUME "reembed" \notin Ops
  PROVE  Spec => []OneSpace
<1>1. BankInv /\ SpaceInv /\ [Next]_vars => SpaceInv'  BY SpaceStep
<1>2. SpaceInv => OneSpace  BY DEF SpaceInv, Space, FilesSpace, OneSpace
<1> QED  BY <1>1, <1>2, SpaceInit, BankSafe, PTL DEF Spec

-----------------------------------------------------------------------------
(***************************************************************************)
(* As long as the process lives, the bank is one object: every write of the *)
(* files is one step of AtomicBank.                                         *)
(***************************************************************************)

\* What a thread that is about to write will make of the bank.
Intends(t) ==
  \/ /\ meta.model = NoModel
     /\ Classes(emb.vec) = {} \/ mem[t].model = Default \/ skipped
     /\ mem[t].vec = emb.vec
  \/ /\ meta.model = mem[t].model
     /\ \E c \in Class, m \in Model : mem[t].vec = [emb.vec EXCEPT ![c] = Append(@, m)]
  \/ /\ meta.model # NoModel
     /\ mem[t].vec = [c \in Class |-> [k \in 1..Len(emb.vec[c]) |-> mem[t].model]]

\* A bank without a model does not change between a constructor's two reads,
\* lock_model comes to one only when it is empty or the migration was passed
\* over, and nobody adds or extracts anew in one.
ThreadSerial(t) ==
  /\ pc[t] = "load2" /\ meta.model = NoModel => mem[t].vec = emb.vec
  /\ pc[t] = "migrate" => mem[t].model = NoModel
  /\ pc[t] = "migrate" /\ meta.model = NoModel => Classes(emb.vec) # {}
  /\ pc[t] = "lock_model" /\ meta.model = NoModel => Classes(emb.vec) = {} \/ skipped
  /\ pc[t] \in {"add", "commit"} => meta.model # NoModel
  /\ pc[t] = "plan" /\ meta.model = NoModel => mem[t].model = NoModel
  /\ pc[t] \in Saving => mem[t].model # NoModel
  /\ pc[t] = "emb" => Intends(t)
  /\ pc[t] = "meta2" => meta.model = mem[t].model

Serial == \A t \in Thread : ThreadSerial(t)

\* A model is not given up, and a bank without one does not change.
Settled ==
  /\ meta'.model = NoModel => meta.model = NoModel /\ emb'.vec = emb.vec
  /\ skipped => skipped'

LEMMA OtherSerial ==
  ASSUME BankInv, NEW t \in Thread, NEW u \in Thread \ {t}, ThreadSerial(u), Others(t), Settled,
         pc[u] \in Saving => UNCHANGED files
  PROVE  ThreadSerial(u)'
<1>1. pc'[u] = pc[u] /\ mem'[u] = mem[u]  BY DEF Others
<1>2. CASE pc[u] \in Saving
  <2>1. emb' = emb /\ meta' = meta  BY <1>2 DEF files
  <2>2. Intends(u) => Intends(u)'
    <3>1. emb'.vec = emb.vec /\ meta'.model = meta.model  BY <2>1
    <3>2. mem'[u].vec = mem[u].vec /\ mem'[u].model = mem[u].model  BY <1>1
    <3>3. skipped => skipped'  BY DEF Settled
    <3>4. Classes(emb.vec)' = Classes(emb.vec)  BY <3>1 DEF Classes
    <3> HIDE DEF Settled
    <3> QED  BY <3>1, <3>2, <3>3, <3>4 DEF Intends
  <2> QED  BY <1>1, <1>2, <2>1, <2>2 DEF ThreadSerial, Classes, Saving
<1>3. CASE pc[u] \notin Saving
  BY <1>1, <1>3 DEF ThreadSerial, Classes, Settled, Saving
<1> QED  BY <1>2, <1>3

\* A step that leaves the files alone is judged by what its thread knows after it.
LEMMA SerialKept ==
  ASSUME BankInv, Serial, NEW t \in Thread, Others(t), UNCHANGED files, ThreadSerial(t)',
         skipped => skipped'
  PROVE  Serial'
<1>1. emb' = emb /\ meta' = meta  BY DEF files
<1>2. Settled  BY <1>1 DEF Settled
<1>3. \A u \in Thread \ {t} : ThreadSerial(u)'  BY <1>2, OtherSerial DEF Serial
<1> QED  BY <1>3 DEF Serial

LEMMA EndSerial ==
  ASSUME BankInv, NEW t \in Thread, End(t)
  PROVE  ThreadSerial(t)' /\ Others(t) /\ UNCHANGED files
<1>1. pc'[t] = "idle"  BY DEF End, Leave, Goto, BankInv, TypeOK
<1>2. Others(t) /\ UNCHANGED files  BY DEF End, Leave, Goto, Others, BankInv, TypeOK
<1> QED  BY <1>1, <1>2 DEF ThreadSerial, Saving

\* A thread begins to write something AtomicBank allows.
LEMMA SaveSerial ==
  ASSUME BankInv, NEW t \in Thread, NEW bank \in BankObject, Save(t, bank),
         bank.model # NoModel,
         \/ /\ meta.model = NoModel
            /\ Classes(emb.vec) = {} \/ bank.model = Default \/ skipped
            /\ bank.vec = emb.vec
         \/ /\ meta.model = bank.model
            /\ \E c \in Class, m \in Model : bank.vec = [emb.vec EXCEPT ![c] = Append(@, m)]
         \/ /\ meta.model # NoModel
            /\ bank.vec = [c \in Class |-> [k \in 1..Len(emb.vec[c]) |-> bank.model]]
  PROVE  ThreadSerial(t)'
<1>1. /\ pc'[t] = "emb" /\ mem'[t] = bank /\ emb' = emb /\ meta' = meta
      /\ skipped' = skipped
  BY DEF Save, Goto, BankInv, TypeOK, files
<1>2. Intends(t)'  BY <1>1 DEF Intends, Classes
<1> QED  BY <1>1, <1>2 DEF ThreadSerial, Saving

LEMMA ConstructorSerial ==
  ASSUME BankInv, Serial, NEW t \in Thread,
         Arrive(t) \/ ReadEmb(t) \/ ReadMeta(t) \/ Migrate(t)
  PROVE  ThreadSerial(t)' /\ Others(t) /\ UNCHANGED files
<1> USE DEF BankInv
<1>1. ThreadSerial(t)  BY DEF Serial
<1>2. pc[t] # "idle" => Ready(t) \in {"lock_model", "plan", "use"}  BY ReadyStep
<1>3. CASE Arrive(t)
  <2>1. pc'[t] = "load" /\ Others(t) /\ UNCHANGED files
    BY <1>3 DEF Arrive, Goto, Others, TypeOK
  <2> QED  BY <2>1 DEF ThreadSerial, Saving
<1>4. CASE ReadEmb(t)
  <2>1. CASE emb.whole
    <3>1. /\ pc'[t] = "load2" /\ mem'[t].vec = emb.vec
          /\ Others(t) /\ UNCHANGED files /\ emb' = emb
      BY <1>4, <2>1 DEF ReadEmb, Goto, Others, TypeOK, files
    <3> QED  BY <3>1 DEF ThreadSerial, Saving
  <2> QED  BY <1>4, <2>1, EndSerial DEF ReadEmb
<1>5. CASE ReadMeta(t)
  <2>1. CASE meta.whole
    <3> DEFINE step == IF meta.model = NoModel /\ Classes(mem[t].vec) # {}
                       THEN "migrate" ELSE Ready(t)
    <3>1. /\ pc[t] = "load2" /\ pc'[t] = step /\ mem'[t].model = meta.model
          /\ Others(t) /\ UNCHANGED files /\ emb' = emb /\ meta' = meta
      BY <1>5, <2>1 DEF ReadMeta, Goto, Others, TypeOK, files
    <3>2. step \in {"migrate", "lock_model", "plan", "use"}  BY <1>2, <3>1
    <3>3. /\ step = "lock_model" /\ meta.model = NoModel => Classes(emb.vec) = {}
          /\ step = "migrate" => meta.model = NoModel /\ Classes(emb.vec) # {}
      BY <1>1, <1>2, <3>1 DEF ThreadSerial
    <3> HIDE DEF step
    <3> QED  BY <3>1, <3>2, <3>3 DEF ThreadSerial, Saving, Classes
  <2> QED  BY <1>5, <2>1, EndSerial DEF ReadMeta
<1>6. CASE Migrate(t)
  <2>1. CASE ~Whole  BY <1>6, <2>1, EndSerial DEF Migrate
  <2>2. CASE Whole /\ meta.model = NoModel /\ Classes(emb.vec) # {}
    <3> DEFINE bank == [Load EXCEPT !.model = Default]
    <3>1. Save(t, bank) /\ work' = work  BY <1>6, <2>2 DEF Migrate
    <3>2. bank \in BankObject  BY LoadType, BankAssumption DEF AnyModel, BankObject
    <3>3. bank.model = Default /\ bank.vec = emb.vec  BY DEF Load
    <3>4. Others(t) /\ UNCHANGED files  BY <3>1 DEF Save, Others, Goto, TypeOK
    <3> HIDE DEF bank
    <3> QED  BY <2>2, <3>1, <3>2, <3>3, <3>4, SaveSerial, BankAssumption
  <2>3. CASE Whole /\ ~(meta.model = NoModel /\ Classes(emb.vec) # {})
    <3>1. /\ pc[t] = "migrate" /\ pc'[t] = Ready(t) /\ mem'[t] = Load
          /\ Others(t) /\ UNCHANGED files /\ emb' = emb /\ meta' = meta
      BY <1>6, <2>3 DEF Migrate, Goto, Others, TypeOK, files
    <3>2. mem'[t].model = meta.model  BY <3>1 DEF Load
    <3> QED  BY <1>2, <2>3, <3>1, <3>2 DEF ThreadSerial, Saving, Classes
  <2> QED  BY <2>1, <2>2, <2>3
<1> QED  BY <1>3, <1>4, <1>5, <1>6

LEMMA TeachSerial ==
  ASSUME BankInv, Serial, NEW t \in Thread, LockModel(t) \/ Add(t)
  PROVE  ThreadSerial(t)' /\ Others(t) /\ UNCHANGED files
<1> USE DEF BankInv
<1>1. ThreadSerial(t)  BY DEF Serial
<1>2. pc[t] # "idle"  BY DEF LockModel, Add
<1>3. req[t].model \in Model /\ req[t].todo \subseteq Class  BY <1>2, RequestTypes
<1>4. CASE LockModel(t)
  <2>1. CASE ~Whole \/ meta.model \notin {NoModel, req[t].model}
    BY <1>4, <2>1, EndSerial DEF LockModel
  <2>2. CASE Whole /\ meta.model = NoModel
    <3> DEFINE bank == [Load EXCEPT !.model = req[t].model]
    <3>1. Save(t, bank)  BY <1>4, <2>2 DEF LockModel
    <3>2. bank \in BankObject  BY LoadType, <1>3 DEF AnyModel, BankObject
    <3>3. bank.model = req[t].model /\ bank.vec = emb.vec  BY DEF Load
    <3>4. Classes(emb.vec) = {} \/ skipped  BY <1>1, <1>4, <2>2 DEF ThreadSerial, LockModel
    <3>5. Others(t) /\ UNCHANGED files
      BY <1>4, <2>2, <3>1 DEF LockModel, Save, Others, Goto, TypeOK
    <3>6. req[t].model # NoModel  BY <1>3, BankAssumption
    <3> HIDE DEF bank
    <3> QED  BY <2>2, <3>1, <3>2, <3>3, <3>4, <3>5, <3>6, SaveSerial
  <2>3. CASE Whole /\ meta.model = req[t].model /\ meta.model # NoModel
    <3>1. pc'[t] = "add" /\ Others(t) /\ UNCHANGED files /\ meta' = meta
      BY <1>4, <2>3 DEF LockModel, Goto, Others, TypeOK, files
    <3> QED  BY <2>3, <3>1 DEF ThreadSerial, Saving
  <2> QED  BY <2>1, <2>2, <2>3
<1>5. CASE Add(t)
  <2>1. CASE ~Whole  BY <1>5, <2>1, EndSerial DEF Add
  <2>2. CASE Whole
    <3> DEFINE grown(c) == [Load EXCEPT !.vec[c] = Append(@, work[t].model), !.inst[c] = @ + 1]
    <3>1. PICK c \in req[t].todo : Save(t, grown(c)) /\ UNCHANGED work
      BY <1>5, <2>2 DEF Add
    <3>2. c \in Class /\ work[t].model \in Model  BY <1>3, <1>5 DEF Add, Extracted
    <3>3. grown(c) \in BankObject  BY <3>2, GrownForward
    <3>4. meta.model # NoModel  BY <1>1, <1>5 DEF ThreadSerial, Add
    <3>5. /\ grown(c).model = meta.model
          /\ grown(c).vec = [emb.vec EXCEPT ![c] = Append(@, work[t].model)]
      BY DEF Load
    <3>6. Others(t) /\ UNCHANGED files  BY <3>1 DEF Save, Others, Goto, TypeOK
    <3> HIDE DEF grown
    <3> QED  BY <3>1, <3>2, <3>3, <3>4, <3>5, <3>6, SaveSerial
  <2> QED  BY <2>1, <2>2
<1> QED  BY <1>4, <1>5

LEMMA ReembedSerial ==
  ASSUME BankInv, Serial, NEW t \in Thread, Plan(t) \/ Commit(t)
  PROVE  ThreadSerial(t)' /\ Others(t) /\ UNCHANGED files
<1> USE DEF BankInv
<1>1. ThreadSerial(t)  BY DEF Serial
<1>2. CASE Plan(t)
  <2>1. CASE mem[t].model \in {NoModel, req[t].model}
    BY <1>2, <2>1, EndSerial DEF Plan
  <2>2. CASE mem[t].model \notin {NoModel, req[t].model}
    <3>1. /\ pc[t] = "plan" /\ pc'[t] = "commit"
          /\ Others(t) /\ UNCHANGED files /\ meta' = meta
      BY <1>2, <2>2 DEF Plan, Goto, Others, TypeOK, files
    <3>2. meta.model # NoModel  BY <1>1, <2>2, <3>1 DEF ThreadSerial
    <3> QED  BY <3>1, <3>2 DEF ThreadSerial, Saving
  <2> QED  BY <2>1, <2>2
<1>3. CASE Commit(t)
  <2>1. CASE ~Whole \/ work[t].counts # CountsOf(emb.vec)
    BY <1>3, <2>1, EndSerial DEF Commit
  <2>2. CASE Whole /\ work[t].counts = CountsOf(emb.vec)
    <3> DEFINE swapped == [Load EXCEPT !.vec = Swapped(t), !.model = work[t].model]
    <3>1. Save(t, swapped) /\ UNCHANGED <<req, work>>  BY <1>3, <2>2 DEF Commit
    <3>2. work[t].model \in Model  BY <1>3 DEF Commit, Extracted
    <3>3. Swapped(t) \in Vectors  BY <2>2, <3>2, SwappedType
    <3>4. swapped.vec = Swapped(t) /\ swapped.model = work[t].model  BY DEF Load
    <3>5. swapped \in BankObject  BY LoadType, <3>2, <3>3 DEF BankObject, AnyModel
    <3>6. Swapped(t) = [c \in Class |-> [k \in 1..Len(emb.vec[c]) |-> work[t].model]]
      <4>1. \A c \in Class : work[t].counts[c] = Len(emb.vec[c])  BY <2>2 DEF CountsOf
      <4> QED  BY <4>1 DEF Swapped
    <3>7. meta.model # NoModel  BY <1>1, <1>3 DEF ThreadSerial, Commit
    <3>8. Others(t) /\ UNCHANGED files  BY <3>1 DEF Save, Others, Goto, TypeOK
    <3>9. work[t].model # NoModel  BY <3>2, BankAssumption
    <3> HIDE DEF swapped
    <3> QED  BY <3>1, <3>4, <3>5, <3>6, <3>7, <3>8, <3>9, SaveSerial
  <2> QED  BY <2>1, <2>2
<1> QED  BY <1>2, <1>3

LEMMA WriteOutSerial ==
  ASSUME BankInv, Serial, NEW t \in Thread, WriteOut(t)
  PROVE  Serial'
<1> USE DEF BankInv
<1>1. ThreadSerial(t)  BY DEF Serial
<1>2. /\ Others(t) /\ mem'[t] = mem[t] /\ pc[t] \in Saving
      /\ skipped' = skipped
  BY WriteOutStep DEF WriteOut, OpenEmb, CloseEmb, OpenMeta, CloseMeta
<1>3. mem[t].model # NoModel  BY <1>1, <1>2 DEF ThreadSerial
<1>4. SUFFICES Settled /\ ThreadSerial(t)'
  <2>1. lock = t  BY <1>2 DEF Writing
  <2>2. \A u \in Thread \ {t} : pc[u] \notin Saving  BY <2>1 DEF Writing
  <2>3. ASSUME Settled PROVE \A u \in Thread \ {t} : ThreadSerial(u)'
    BY <1>2, <2>2, <2>3, OtherSerial DEF Serial
  <2> QED  BY <2>3 DEF Serial
<1>5. CASE OpenEmb(t)
  <2>1. pc[t] = "emb" /\ pc'[t] = "emb2" /\ emb'.vec = mem[t].vec /\ meta' = meta
    BY <1>5 DEF OpenEmb, Goto, TypeOK
  <2>2. Intends(t)  BY <1>1, <2>1 DEF ThreadSerial
  <2>3. Settled  BY <1>2, <1>3, <2>1, <2>2 DEF Settled, Intends
  <2> QED  BY <1>2, <1>3, <2>1, <2>3 DEF ThreadSerial, Saving
<1>6. CASE CloseEmb(t)
  <2>1. pc'[t] = "meta" /\ emb'.vec = emb.vec /\ meta' = meta
    BY <1>6 DEF CloseEmb, Goto, TypeOK
  <2> QED  BY <1>2, <1>3, <2>1 DEF ThreadSerial, Saving, Settled
<1>7. CASE OpenMeta(t)
  <2>1. pc'[t] = "meta2" /\ emb' = emb /\ meta'.model = mem[t].model
    BY <1>7 DEF OpenMeta, Goto, TypeOK
  <2> QED  BY <1>2, <1>3, <2>1 DEF ThreadSerial, Saving, Settled
<1>8. CASE CloseMeta(t)
  <2>1. pc[t] = "meta2" /\ pc'[t] = Resume(t) /\ emb' = emb /\ meta'.model = meta.model
    BY <1>8 DEF CloseMeta, Goto, TypeOK
  <2>2. meta.model # NoModel  BY <1>1, <1>3, <2>1 DEF ThreadSerial
  <2>3. pc[t] # "idle"  BY <2>1
  <2>4. Resume(t) \in {"lock_model", "plan", "use", "add"}  BY <2>3, ReadyStep DEF Resume
  <2>5. Settled  BY <1>2, <2>1, <2>2 DEF Settled
  <2>6. meta'.model # NoModel  BY <2>1, <2>2
  <2> QED  BY <2>1, <2>4, <2>5, <2>6 DEF ThreadSerial, Saving
<1> QED  BY <1>5, <1>6, <1>7, <1>8 DEF WriteOut

LEMMA SkipSerial ==
  ASSUME BankInv, Serial, NEW t \in Thread, MigrateFails(t)
  PROVE  /\ ThreadSerial(t)' /\ Others(t) /\ UNCHANGED files
         /\ skipped' = skipped \/ (skipped' = TRUE /\ Classes(emb.vec) # {})
<1> USE DEF BankInv
<1>1. ThreadSerial(t) /\ pc[t] = "migrate"  BY DEF Serial, MigrateFails
<1>2. Quiet(t) /\ pc'[t] \in {"lock_model", "plan", "use"}  BY SkipStep
<1>3. emb' = emb /\ meta' = meta /\ mem' = mem  BY DEF MigrateFails, files
<1>4. skipped' = (skipped \/ meta.model = NoModel) /\ skipped \in BOOLEAN
  BY DEF MigrateFails, TypeOK
<1>5. ThreadSerial(t)'  BY <1>1, <1>2, <1>3, <1>4 DEF ThreadSerial, Saving
<1> QED  BY <1>1, <1>2, <1>3, <1>4, <1>5 DEF ThreadSerial, Quiet, files

LEMMA SerialStep ==
  ASSUME BankInv, Serial, ~Crashes, ~WriteFaults, [Next]_vars
  PROVE  Serial'
<1>1. CASE UNCHANGED vars
  BY <1>1 DEF vars, files, Serial, ThreadSerial, Intends, Classes
<1>2. ASSUME NEW t \in Thread,
             \/ Arrive(t) \/ ReadEmb(t) \/ ReadMeta(t) \/ Migrate(t) \/ MigrateFails(t)
             \/ LockModel(t) \/ Add(t) \/ Plan(t) \/ Commit(t)
             \/ WriteOut(t) \/ Answer(t) \/ CallFails(t)
      PROVE  Serial'
  <2>1. CASE Arrive(t) \/ ReadEmb(t) \/ ReadMeta(t) \/ Migrate(t)
    BY <2>1, ConstructorSerial, SerialKept, SkippedStays
  <2>2. CASE LockModel(t) \/ Add(t)  BY <2>2, TeachSerial, SerialKept, SkippedStays
  <2>3. CASE Plan(t) \/ Commit(t)  BY <2>3, ReembedSerial, SerialKept, SkippedStays
  <2>4. CASE WriteOut(t)  BY <2>4, WriteOutSerial
  <2>5. CASE Answer(t) \/ CallFails(t)
    BY <2>5, EndSerial, SerialKept, SkippedStays DEF Answer, CallFails
  <2>6. CASE MigrateFails(t)  BY <2>6, SkipSerial, SerialKept, SkippedStays
  <2> QED  BY <1>2, <2>1, <2>2, <2>3, <2>4, <2>5, <2>6
<1> QED  BY <1>1, <1>2 DEF Next, Crash, WriteFails

-----------------------------------------------------------------------------
\* Only a step that goes on without the migration says so.
LEMMA SkippedKept ==
  ASSUME NEW t \in Thread,
         \/ Arrive(t) \/ ReadEmb(t) \/ ReadMeta(t) \/ Migrate(t)
         \/ LockModel(t) \/ Add(t) \/ Plan(t) \/ Commit(t)
         \/ WriteOut(t) \/ Answer(t) \/ CallFails(t)
  PROVE  skipped' = skipped
<1>1. CASE Arrive(t) \/ ReadEmb(t) \/ ReadMeta(t) \/ Migrate(t)
  BY <1>1 DEF Arrive, ReadEmb, ReadMeta, Migrate, End, Save
<1>2. CASE LockModel(t) \/ Add(t) \/ Plan(t) \/ Commit(t)
  BY <1>2 DEF LockModel, Add, Plan, Commit, End, Save
<1>3. CASE WriteOut(t) \/ Answer(t) \/ CallFails(t)
  BY <1>3 DEF WriteOut, OpenEmb, CloseEmb, OpenMeta, CloseMeta, Answer, CallFails, End
<1> QED  BY <1>1, <1>2, <1>3

\* What AtomicBank shows of the files does not change with a step that writes
\* nothing.
LEMMA QuietStutters ==
  ASSUME BankInv, NEW t \in Thread, Others(t), Quiet(t) \/ Begins(t)
  PROVE  emb' = emb /\ ModelNow' = ModelNow
<1> USE DEF BankInv
<1>1. lock \in Thread \cup {NoThread} /\ NoThread \notin Thread
  BY BankAssumption DEF TypeOK
<1>2. CASE Quiet(t)
  <2>1. emb' = emb /\ meta' = meta /\ lock' = lock /\ lock # t
    BY <1>2 DEF Quiet, files, Writing
  <2>2. lock # NoThread => pc'[lock] = pc[lock] /\ mem'[lock] = mem[lock]
    BY <1>1, <2>1 DEF Others
  <2> QED  BY <2>1, <2>2 DEF ModelNow
<1>3. CASE Begins(t)
  <2>1. lock = NoThread /\ lock' = t /\ pc'[t] = "emb" /\ emb' = emb /\ meta' = meta
    BY <1>3 DEF Begins, Save, Goto, TypeOK, files
  <2> QED  BY <2>1 DEF ModelNow
<1> QED  BY <1>2, <1>3

\* A writer's first write is its step of AtomicBank; the rest of it shows
\* nothing new.
LEMMA WriteOutIsAtomic ==
  ASSUME BankInv, Serial, NEW t \in Thread, WriteOut(t)
  PROVE  [Atomic!Next]_(Atomic!bank)
<1> USE DEF BankInv
<1>1. ThreadSerial(t)  BY DEF Serial
<1>2. mem'[t] = mem[t] /\ pc[t] \in Saving /\ skipped' = skipped
  BY WriteOutStep, SkippedKept
<1>3. lock = t /\ lock # NoThread  BY <1>2, BankAssumption DEF Writing
<1>4. mem[t].model # NoModel  BY <1>1, <1>2 DEF ThreadSerial
<1>5. CASE OpenEmb(t)
  <2>1. /\ pc[t] = "emb" /\ pc'[t] = "emb2" /\ emb'.vec = mem[t].vec
        /\ meta' = meta /\ lock' = lock
    BY <1>5 DEF OpenEmb, Goto, TypeOK
  <2>2. ModelNow = meta.model /\ ModelNow' = mem[t].model
    BY <1>2, <1>3, <2>1 DEF ModelNow
  <2>3. mem[t].model \in Model  BY <1>4 DEF TypeOK, AnyModel
  <2>4. Intends(t)  BY <1>1, <2>1 DEF ThreadSerial
  <2>5. CASE /\ meta.model = NoModel
             /\ Classes(emb.vec) = {} \/ mem[t].model = Default \/ skipped
             /\ mem[t].vec = emb.vec
    <3>1. Classes(emb.vec) = {} => \A c \in Class : emb.vec[c] = <<>>  BY DEF Classes
    <3>2. Atomic!LockModel(mem[t].model)
      BY <1>2, <2>1, <2>2, <2>5, <3>1 DEF Atomic!LockModel, Atomic!IsEmpty
    <3> QED  BY <2>3, <3>2 DEF Atomic!Next
  <2>6. CASE /\ meta.model = mem[t].model
             /\ \E c \in Class, m \in Model : mem[t].vec = [emb.vec EXCEPT ![c] = Append(@, m)]
    <3>1. PICK c \in Class, m \in Model : mem[t].vec = [emb.vec EXCEPT ![c] = Append(@, m)]
      BY <2>6
    <3>2. Atomic!Teach(c, m)  BY <1>2, <1>4, <2>1, <2>2, <2>6, <3>1 DEF Atomic!Teach
    <3> QED  BY <3>2 DEF Atomic!Next
  <2>7. CASE /\ meta.model # NoModel
             /\ mem[t].vec = [c \in Class |-> [k \in 1..Len(emb.vec[c]) |-> mem[t].model]]
    <3>1. Atomic!Reembed(mem[t].model)  BY <1>2, <2>1, <2>2, <2>7 DEF Atomic!Reembed
    <3> QED  BY <2>3, <3>1 DEF Atomic!Next
  <2> QED  BY <2>4, <2>5, <2>6, <2>7 DEF Intends
<1>6. CASE CloseEmb(t)
  <2>1. /\ pc[t] = "emb2" /\ pc'[t] = "meta" /\ emb'.vec = emb.vec
        /\ meta' = meta /\ lock' = lock
    BY <1>6 DEF CloseEmb, Goto, TypeOK
  <2>2. ModelNow' = ModelNow  BY <1>2, <1>3, <2>1 DEF ModelNow
  <2> QED  BY <1>2, <2>1, <2>2 DEF Atomic!bank
<1>7. CASE OpenMeta(t)
  <2>1. /\ pc[t] = "meta" /\ pc'[t] = "meta2" /\ emb' = emb
        /\ meta'.model = mem[t].model /\ lock' = lock
    BY <1>7 DEF OpenMeta, Goto, TypeOK
  <2>2. ModelNow' = ModelNow  BY <1>2, <1>3, <2>1 DEF ModelNow
  <2> QED  BY <1>2, <2>1, <2>2 DEF Atomic!bank
<1>8. CASE CloseMeta(t)
  <2>1. pc[t] = "meta2" /\ emb' = emb /\ meta'.model = meta.model /\ lock' = NoThread
    BY <1>8 DEF CloseMeta, Goto, TypeOK
  <2>2. ModelNow' = ModelNow  BY <1>3, <2>1 DEF ModelNow
  <2> QED  BY <1>2, <2>1, <2>2 DEF Atomic!bank
<1> QED  BY <1>5, <1>6, <1>7, <1>8 DEF WriteOut

\* A call that passes over a failed migration is a step of its own.
LEMMA SkipIsAtomic ==
  ASSUME BankInv, Serial, NEW t \in Thread, MigrateFails(t)
  PROVE  [Atomic!Next]_(Atomic!bank)
<1>1. Quiet(t) /\ Others(t)  BY SkipStep, SkipSerial DEF BankInv
<1>2. emb' = emb /\ ModelNow' = ModelNow  BY <1>1, QuietStutters
<1>3. CASE skipped' = skipped  BY <1>2, <1>3 DEF Atomic!bank
<1>4. CASE skipped' = TRUE /\ Classes(emb.vec) # {}
  <2>1. ~Atomic!IsEmpty  BY <1>4 DEF Classes, Atomic!IsEmpty
  <2> QED  BY <1>2, <1>4, <2>1 DEF Atomic!Next, Atomic!Skip
<1> QED  BY <1>3, <1>4, SkipSerial

\* Every call of the bank takes effect at once, for any number of threads,
\* classes and models, as long as the process lives and no write fails: the two
\* files under their lock implement one bank that is changed call by call
\* (bank.py, lock_model, add, reembed and _save).  A crash or a failing write
\* between the two writes of a reembed leaves the new vectors with the old model,
\* which is not a step of AtomicBank.
THEOREM BankIsAtomic ==
  ASSUME ~Crashes, ~WriteFaults
  PROVE  Spec => OneAtATime
<1>1. Init => Serial
  <2>1. Init => \A t \in Thread : pc[t] = "idle"  BY DEF Init
  <2> QED  BY <2>1 DEF Serial, ThreadSerial, Saving
<1>2. Init => Atomic!Init
  <2> SUFFICES ASSUME Init PROVE Atomic!Init  OBVIOUS
  <2>1. ModelNow = NoModel /\ skipped = FALSE  BY DEF Init, ModelNow
  <2>2. AllFrom(emb.vec, Default)  BY NoVectorsFrom, LegacyFrom DEF Init
  <2> QED  BY <2>1, <2>2 DEF Atomic!Init, AllFrom
<1>3. BankInv /\ Serial /\ [Next]_vars => Serial'  BY SerialStep
<1>4. ASSUME BankInv, Serial, [Next]_vars
      PROVE  [Atomic!Next]_(Atomic!bank)
  <2>1. CASE UNCHANGED vars
    <3>1. emb' = emb /\ ModelNow' = ModelNow /\ skipped' = skipped
      BY <2>1 DEF vars, files, ModelNow
    <3> QED  BY <3>1 DEF Atomic!bank
  <2>2. ASSUME NEW t \in Thread, MigrateFails(t)
        PROVE  [Atomic!Next]_(Atomic!bank)
    BY <1>4, <2>2, SkipIsAtomic
  <2>3. CASE Next /\ \A t \in Thread : ~MigrateFails(t)
    <3>1. skipped' = skipped  BY <2>3, SkippedKept DEF Next, Crash, WriteFails
    <3>2. PICK t \in Thread : (Quiet(t) \/ Begins(t) \/ WriteOut(t)) /\ Others(t)
      BY <1>4, <2>3, StepKinds DEF Crash, WriteFails, BankInv
    <3>3. CASE WriteOut(t)  BY <1>4, <3>3, WriteOutIsAtomic
    <3>4. CASE Quiet(t) \/ Begins(t)
      <4>1. emb' = emb /\ ModelNow' = ModelNow  BY <1>4, <3>2, <3>4, QuietStutters
      <4> QED  BY <3>1, <4>1 DEF Atomic!bank
    <3> QED  BY <3>2, <3>3, <3>4
  <2> QED  BY <1>4, <2>1, <2>2, <2>3
<1> QED  BY <1>1, <1>2, <1>3, <1>4, BankSafe, PTL DEF Spec, OneAtATime, Atomic!Spec
=============================================================================
