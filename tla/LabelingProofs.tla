--------------------------- MODULE LabelingProofs ---------------------------
(***************************************************************************)
(* The safety of a project's label store, for every number of images,      *)
(* classes, requests and jobs, with failures, restarts and deletions.      *)
(***************************************************************************)
EXTENDS Labeling, FiniteSetTheorems, SequenceTheorems, TLAPS

-----------------------------------------------------------------------------
\* What get-or-create does to an append-only class list.

\* Any set of known or new classes is finite and its size is an index.
LEMMA ClassCount ==
  ASSUME NEW S \in SUBSET Class
  PROVE  IsFiniteSet(S) /\ Cardinality(S) \in Nat
BY ClassFinite, FS_Subset, FS_CardinalityType

\* Registering a drawing gives a list again.
LEMMA RegisterType ==
  ASSUME NEW list \in ClassList, NEW drawn, Names(drawn) \subseteq Class
  PROVE  Register(list, drawn) \in ClassList
<1> DEFINE fresh == Fresh(list, drawn)
           ahead(c) == {d \in fresh : At(drawn, d) < At(drawn, c)}
<1>1. \A c \in Class : Cardinality(Known(list)) \in Nat /\ Cardinality(ahead(c)) \in Nat
  <2> TAKE c \in Class
  <2>1. Known(list) \in SUBSET Class  BY DEF Known
  <2>2. ahead(c) \in SUBSET Class  BY DEF Fresh
  <2> HIDE DEF ahead
  <2> QED  BY <2>1, <2>2, ClassCount
<1>2. Register(list, drawn) = [c \in Class |-> IF c \in fresh
                                 THEN Cardinality(Known(list)) + Cardinality(ahead(c))
                                 ELSE list[c]]
  BY DEF Register
<1> HIDE DEF ahead, fresh
<1> QED  BY <1>1, <1>2 DEF ClassList

\* It adds the classes drawn, and no class ever leaves the list or moves in it.
LEMMA RegisterKnown ==
  ASSUME NEW list \in ClassList, NEW drawn, Names(drawn) \subseteq Class
  PROVE  /\ Known(Register(list, drawn)) = Known(list) \cup Names(drawn)
         /\ \A c \in Known(list) : Register(list, drawn)[c] = list[c]
<1> DEFINE fresh == Fresh(list, drawn)
           ahead(c) == {d \in fresh : At(drawn, d) < At(drawn, c)}
           index(c) == Cardinality(Known(list)) + Cardinality(ahead(c))
<1>1. \A c \in Class : index(c) \in Nat
  <2> TAKE c \in Class
  <2>1. Known(list) \in SUBSET Class  BY DEF Known
  <2>2. ahead(c) \in SUBSET Class  BY DEF Fresh
  <2> HIDE DEF ahead
  <2>3. Cardinality(Known(list)) \in Nat /\ Cardinality(ahead(c)) \in Nat
    BY <2>1, <2>2, ClassCount
  <2> QED  BY <2>3
<1>2. Register(list, drawn) = [c \in Class |-> IF c \in fresh THEN index(c) ELSE list[c]]
  BY DEF Register
<1> HIDE DEF index
<1>3. \A c \in Class : index(c) # Unlisted  BY <1>1 DEF Unlisted
<1> QED  BY <1>2, <1>3 DEF Known, Fresh

\* An index is given once: two classes of a list never share one, if the list
\* counts its classes from 0 without a gap.
LEMMA RegisterAppends ==
  ASSUME NEW list \in ClassList, NEW drawn, Names(drawn) \subseteq Class,
         \A c \in Known(list) : list[c] < Cardinality(Known(list))
  PROVE  \A c \in Known(list), d \in Fresh(list, drawn) :
           Register(list, drawn)[c] < Register(list, drawn)[d]
<1> DEFINE fresh == Fresh(list, drawn)
           ahead(c) == {d \in fresh : At(drawn, d) < At(drawn, c)}
           size == Cardinality(Known(list))
<1> TAKE c \in Known(list), d \in fresh
<1>0. d \in Class /\ c \in Class /\ c \notin fresh  BY DEF Fresh, Known
<1>1. size \in Nat /\ Cardinality(ahead(d)) \in Nat
  <2>1. Known(list) \in SUBSET Class  BY DEF Known
  <2>2. ahead(d) \in SUBSET Class  BY DEF Fresh
  <2> HIDE DEF ahead
  <2> QED  BY <2>1, <2>2, ClassCount
<1>2. Register(list, drawn)[c] = list[c]  BY <1>0 DEF Register
<1>3. Register(list, drawn)[d] = size + Cardinality(ahead(d))  BY <1>0 DEF Register
<1>4. list[c] < size /\ list[c] \in Int  BY <1>0 DEF ClassList, Unlisted
<1> HIDE DEF ahead, size
<1> QED  BY <1>1, <1>2, <1>3, <1>4
-----------------------------------------------------------------------------
(***************************************************************************)
(* One class at a time or all at once: the sidecar adds the classes of a    *)
(* drawing one by one, the database in one transaction.                     *)
(***************************************************************************)
Distinct(drawn) == \A j, k \in DOMAIN drawn : drawn[j] = drawn[k] => j = k

LEMMA AtPosition ==
  ASSUME NEW drawn \in Seq(Class), Distinct(drawn), NEW k \in DOMAIN drawn
  PROVE  At(drawn, drawn[k]) = k
<1>1. \A m : m \in DOMAIN drawn /\ drawn[m] = drawn[k] <=> m = k  BY DEF Distinct
<1> QED  BY <1>1 DEF At

LEMMA HeadTail ==
  ASSUME NEW drawn \in Seq(Class), drawn # <<>>, Distinct(drawn)
  PROVE  /\ Head(drawn) \in Class /\ Tail(drawn) \in Seq(Class)
         /\ Distinct(Tail(drawn))
         /\ Names(drawn) = Names(Tail(drawn)) \cup {Head(drawn)}
         /\ Head(drawn) \notin Names(Tail(drawn))
         /\ At(drawn, Head(drawn)) = 1
         /\ \A c \in Names(Tail(drawn)) :
              At(drawn, c) = At(Tail(drawn), c) + 1 /\ At(Tail(drawn), c) \in Nat \ {0}
<1> DEFINE t == Tail(drawn)
<1>1. t \in Seq(Class) /\ Len(t) = Len(drawn) - 1 /\ Len(drawn) \in Nat \ {0}
  OBVIOUS
<1>2. drawn[1] = Head(drawn) /\ Head(drawn) \in Class /\ 1 \in DOMAIN drawn  OBVIOUS
<1>3. \A k \in DOMAIN t : k \in Nat \ {0} /\ k + 1 \in DOMAIN drawn /\ t[k] = drawn[k + 1]
  OBVIOUS
<1>4. \A k \in DOMAIN drawn : k # 1 => k - 1 \in DOMAIN t /\ t[k - 1] = drawn[k]
  OBVIOUS
<1> HIDE DEF t
<1>5. Distinct(t)
  <2> SUFFICES ASSUME NEW j \in DOMAIN t, NEW k \in DOMAIN t, t[j] = t[k] PROVE j = k
    BY DEF Distinct
  <2>1. j + 1 = k + 1  BY <1>3 DEF Distinct
  <2> QED  BY <1>3, <2>1
<1>6. Names(drawn) = Names(t) \cup {Head(drawn)}
  <2>1. Names(drawn) \subseteq Names(t) \cup {Head(drawn)}  BY <1>2, <1>4 DEF Names
  <2>2. Names(t) \subseteq Names(drawn)  BY <1>3 DEF Names
  <2>3. Head(drawn) \in Names(drawn)  BY <1>2 DEF Names
  <2> QED  BY <2>1, <2>2, <2>3
<1>7. Head(drawn) \notin Names(t)
  <2> SUFFICES ASSUME NEW k \in DOMAIN t, t[k] = Head(drawn) PROVE FALSE  BY DEF Names
  <2>1. k + 1 = 1  BY <1>2, <1>3 DEF Distinct
  <2> QED  BY <1>3, <2>1
<1>8. At(drawn, Head(drawn)) = 1  BY <1>2, AtPosition
<1>9. \A c \in Names(t) : At(drawn, c) = At(t, c) + 1 /\ At(t, c) \in Nat \ {0}
  <2> TAKE c \in Names(t)
  <2>1. PICK k \in DOMAIN t : t[k] = c  BY DEF Names
  <2>2. At(t, c) = k  BY <1>1, <1>5, <2>1, AtPosition
  <2>3. At(drawn, c) = k + 1  BY <1>3, <2>1, AtPosition
  <2> QED  BY <1>3, <2>2, <2>3
<1> QED  BY <1>1, <1>2, <1>5, <1>6, <1>7, <1>8, <1>9 DEF t

\* Nothing drawn, nothing changed.
LEMMA RegisterNothing ==
  ASSUME NEW list \in ClassList
  PROVE  Register(list, <<>>) = list
<1>1. Fresh(list, <<>>) = {}  BY DEF Fresh, Names
<1> QED  BY <1>1 DEF Register, ClassList

\* The first class, then the others, gives the list that all together give.
LEMMA RegisterSplit ==
  ASSUME NEW list \in ClassList, NEW drawn \in Seq(Class), drawn # <<>>, Distinct(drawn)
  PROVE  Register(Register(list, <<Head(drawn)>>), Tail(drawn)) = Register(list, drawn)
<1> DEFINE h == Head(drawn)
           t == Tail(drawn)
           first == Register(list, <<h>>)
           size == Cardinality(Known(list))
           fresh == Fresh(list, drawn)
           later == Fresh(first, t)
           ahead(c) == {d \in fresh : At(drawn, d) < At(drawn, c)}
           behind(c) == {d \in later : At(t, d) < At(t, c)}
<1>0. /\ h \in Class /\ Names(drawn) = Names(t) \cup {h} /\ h \notin Names(t)
      /\ At(drawn, h) = 1
      /\ \A c \in Names(t) : At(drawn, c) = At(t, c) + 1 /\ At(t, c) \in Nat \ {0}
  BY HeadTail
<1>1. Names(<<h>>) = {h}  BY DEF Names
<1>2. Fresh(list, <<h>>) = {h} \ Known(list)  BY <1>1 DEF Fresh
<1>3. Register(list, drawn) = [c \in Class |-> IF c \in fresh
                                 THEN size + Cardinality(ahead(c)) ELSE list[c]]
  BY DEF Register
<1>4. Register(first, t) = [c \in Class |-> IF c \in later
                              THEN Cardinality(Known(first)) + Cardinality(behind(c))
                              ELSE first[c]]
  BY DEF Register
<1>5. Known(first) = Known(list) \cup {h} /\ first \in ClassList
  BY <1>0, <1>1, RegisterKnown, RegisterType
<1>6. size \in Nat /\ IsFiniteSet(Known(list))  BY ClassCount DEF Known
<1>7. list = [c \in Class |-> list[c]] /\ first = [c \in Class |-> first[c]]
  BY <1>5 DEF ClassList
<1> SUFFICES Register(first, t) = Register(list, drawn)  OBVIOUS
<1>8. CASE h \in Known(list)
  <2>1. first = list
    <3>1. Fresh(list, <<h>>) = {}  BY <1>2, <1>8
    <3> QED  BY <1>7, <3>1 DEF Register
  <2>2. later = fresh /\ later \subseteq Names(t)  BY <1>0, <1>8, <2>1 DEF Fresh
  <2>3. \A c \in fresh : ahead(c) = behind(c)
    <3> TAKE c \in fresh
    <3>1. \A d \in fresh : At(drawn, d) < At(drawn, c) <=> At(t, d) < At(t, c)
      <4> HIDE DEF h, t, fresh, later
      <4> QED  BY <1>0, <2>2
    <3> HIDE DEF h, t, fresh, later
    <3> QED  BY <2>2, <3>1
  <2> HIDE DEF h, t, first, fresh, later, ahead, behind, size
  <2>4. \A c \in Class : (IF c \in fresh THEN size + Cardinality(ahead(c)) ELSE list[c])
                       = (IF c \in later THEN Cardinality(Known(first)) + Cardinality(behind(c))
                          ELSE first[c])
    BY <2>1, <2>2, <2>3 DEF size
  <2> QED  BY <1>3, <1>4, <2>4
<1>9. CASE h \notin Known(list)
  <2>1. fresh = later \cup {h} /\ h \notin later /\ later \subseteq Names(t) /\ later \subseteq Class
    BY <1>0, <1>5, <1>9, HeadTail DEF Fresh, Names
  <2>2. Cardinality(Known(first)) = size + 1
    BY <1>5, <1>6, <1>9, FS_AddElement
  <2>3. first[h] = size
    <3> DEFINE before == {d \in Fresh(list, <<h>>) : At(<<h>>, d) < At(<<h>>, h)}
    <3>1. before = {}
      <4>1. At(<<h>>, h) = 1  BY DEF At
      <4> QED  BY <1>2, <4>1
    <3>2. first[h] = size + Cardinality(before)  BY <1>0, <1>2, <1>9 DEF Register
    <3> HIDE DEF before, first, size
    <3> QED  BY <1>6, <3>1, <3>2, FS_EmptySet
  <2>4. \A c \in Class : c # h => first[c] = list[c]  BY <1>2 DEF Register
  <2>5. \A c \in later : Cardinality(ahead(c)) = Cardinality(behind(c)) + 1
                         /\ Cardinality(behind(c)) \in Nat
    <3> TAKE c \in later
    <3>1. ahead(c) = behind(c) \cup {h} /\ h \notin behind(c)
      <4> HIDE DEF h, t, fresh, later
      <4>1. \A d \in later : At(drawn, d) < At(drawn, c) <=> At(t, d) < At(t, c)
        BY <1>0, <2>1
      <4>2. At(drawn, h) < At(drawn, c)  BY <1>0, <2>1
      <4> QED  BY <2>1, <4>1, <4>2
    <3>2. behind(c) \in SUBSET Class  BY <2>1
    <3> HIDE DEF behind, ahead
    <3>3. IsFiniteSet(behind(c)) /\ Cardinality(behind(c)) \in Nat  BY <3>2, ClassCount
    <3> QED  BY <3>1, <3>3, FS_AddElement
  <2>6. Cardinality(ahead(h)) = 0
    <3>1. ahead(h) = {}
      <4> HIDE DEF h, t, fresh, later
      <4> QED  BY <1>0, <2>1
    <3> HIDE DEF ahead
    <3> QED  BY <3>1, FS_EmptySet
  <2> HIDE DEF h, t, first, fresh, later, ahead, behind, size
  <2>7. \A c \in Class : (IF c \in fresh THEN size + Cardinality(ahead(c)) ELSE list[c])
                       = (IF c \in later THEN Cardinality(Known(first)) + Cardinality(behind(c))
                          ELSE first[c])
    <3> TAKE c \in Class
    <3>1. CASE c \in later  BY <1>6, <2>1, <2>2, <2>5, <3>1
    <3>2. CASE c = h  BY <1>6, <2>1, <2>3, <2>6, <3>2
    <3>3. CASE c \notin later /\ c # h  BY <2>1, <2>4, <3>3
    <3> QED  BY <3>1, <3>2, <3>3
  <2> QED  BY <1>3, <1>4, <2>7
<1> QED  BY <1>8, <1>9

-----------------------------------------------------------------------------
(***************************************************************************)
(* The inductive invariant.  LockDiscipline needs to know which handler can *)
(* be at which step; PoolClassesTaught needs to know that what a request or *)
(* a job is about to write has been taught by then.                         *)
(***************************************************************************)

StepsFit ==
  \A r \in Request :
    /\ pc[r] \in {"lock", "teach"} => call[r].op = "label"
    /\ pc[r] = "check" => call[r].op = "relabel"

\* What a teach has yet to add.
Pending(r) == {teaching[r][k][2] : k \in DOMAIN teaching[r]}

BankAhead ==
  /\ \A r \in Request :
       /\ pc[r] = "teach" => Names(call[r].drawn) \subseteq Known(bank) \cup Pending(r)
       /\ pc[r] = "write" /\ call[r].op # "testset" => Names(call[r].drawn) \subseteq Known(bank)
  /\ \A j \in Job : job[j].names \subseteq Known(bank)

IndInv ==
  /\ TypeOK
  /\ NoRowsWithoutProject
  /\ LockDiscipline
  /\ StepsFit
  /\ GroundTruthHeldOut
  /\ PoolClassesTaught
  /\ BankAhead
-----------------------------------------------------------------------------
(***************************************************************************)
(* The type invariant, in the parts that the building blocks of the         *)
(* actions keep.                                                            *)
(***************************************************************************)

DbType ==
  /\ project \in BOOLEAN
  /\ classes \in [Kind -> ClassList]
  /\ boxes \in [Kind -> [Image -> SUBSET Box]]
  /\ status \in [Image -> {"unlabeled", "auto", "labeled"}]
  /\ testset \subseteq Image

BankType == bank \in ClassList /\ taught \subseteq Image \X Class

SlotType ==
  /\ holder \in Request \cup {NoRequest}
  /\ pc \in [Request -> Steps]
  /\ call \in [Request -> Call \cup {NoCall}]
  /\ \A r \in Request : call[r] = NoCall <=> pc[r] = "idle"

JobType == job \in [Job -> JobRecord]

TeachType == teaching \in [Request -> Seq(Image \X Class)]

LEMMA TypeParts == TypeOK <=> DbType /\ BankType /\ SlotType /\ JobType /\ TeachType
BY DEF TypeOK, DbType, BankType, SlotType, JobType, TeachType

\* A drawing is a sequence of classes.
LEMMA DrawnType ==
  ASSUME NEW d \in Drawn
  PROVE  d \in Seq(Class) /\ Names(d) \subseteq Class
<1>1. PICK m \in 0..MaxBoxes : d \in [1..m -> Class]  BY DEF Drawn, Drawings
<1>2. m \in Nat  BY <1>1, LabelingAssumption
<1> QED  BY <1>1, <1>2 DEF Names

\* What a busy slot is asked for.
LEMMA BusyCall ==
  ASSUME SlotType, NEW r \in Request, pc[r] # "idle"
  PROVE  /\ call[r] \in Call
         /\ call[r].op \in {"label", "relabel", "testset"}
         /\ call[r].image \in Image
         /\ call[r].update \in BOOLEAN
         /\ call[r].drawn \in Seq(Class)
         /\ Names(call[r].drawn) \subseteq Class
<1>1. call[r] \in Call  BY DEF SlotType
<1>2. /\ call[r].op \in Ops /\ call[r].image \in Image
      /\ call[r].drawn \in Drawn /\ call[r].update \in BOOLEAN
  BY <1>1 DEF Call
<1> QED  BY <1>1, <1>2, DrawnType, LabelingAssumption

LEMMA BeginSlot ==
  ASSUME SlotType, NEW r \in Request, NEW c \in Call, NEW step \in Steps \ {"idle"},
         Begin(r, c, step)
  PROVE  SlotType'
<1>1. c # NoCall  BY NoCallAssumption
<1> QED  BY <1>1 DEF SlotType, Begin, Steps, Critical

LEMMA GotoSlot ==
  ASSUME SlotType, NEW r \in Request, NEW step \in Steps \ {"idle"},
         Goto(r, step), holder' \in {holder, r}
  PROVE  SlotType'
BY DEF SlotType, Goto

LEMMA EndSlot ==
  ASSUME SlotType, NEW r \in Request, End(r)
  PROVE  SlotType'
BY DEF SlotType, End, Steps

LEMMA WriteBoxesDb ==
  ASSUME DbType, NEW kind \in Kind, NEW i \in Image, NEW drawn, Names(drawn) \subseteq Class,
         NEW by \in {"user", "model"}, NEW merge \in BOOLEAN,
         WriteBoxes(kind, i, drawn, by, merge)
  PROVE  DbType'
<1> DEFINE new == (IF merge THEN boxes[kind][i] ELSE {}) \cup [cls : Names(drawn), by : {by}]
<1>1. classes' \in [Kind -> ClassList]
  <2>1. classes[kind] \in ClassList  BY DEF DbType
  <2>2. Register(classes[kind], drawn) \in ClassList  BY <2>1, RegisterType
  <2> QED  BY <2>2 DEF DbType, WriteBoxes
<1>2. new \in SUBSET Box
  <2>1. [cls : Names(drawn), by : {by}] \subseteq Box  BY DEF Box
  <2>2. boxes[kind][i] \in SUBSET Box  BY DEF DbType
  <2> QED  BY <2>1, <2>2
<1>3. boxes' = [boxes EXCEPT ![kind] = [boxes[kind] EXCEPT ![i] = new]]
  BY DEF WriteBoxes, DbType
<1> HIDE DEF new
<1>4. boxes' \in [Kind -> [Image -> SUBSET Box]]
  BY <1>2, <1>3 DEF DbType
<1>5. project' \in BOOLEAN /\ status' \in [Image -> {"unlabeled", "auto", "labeled"}]
  BY DEF DbType, WriteBoxes
<1>6. testset' \subseteq Image  BY DEF DbType, WriteBoxes
<1> QED  BY <1>1, <1>4, <1>5, <1>6 DEF DbType
LEMMA TypeStep == TypeOK /\ [Next]_vars => TypeOK'
<1> SUFFICES ASSUME DbType, BankType, SlotType, JobType, TeachType, [Next]_vars
             PROVE  DbType' /\ BankType' /\ SlotType' /\ JobType' /\ TeachType'
  BY TypeParts DEF TypeOK, DbType, BankType, SlotType, JobType, TeachType
<1>1. ASSUME NEW r \in Request, Arrive(r)
      PROVE  DbType' /\ BankType' /\ SlotType' /\ JobType' /\ TeachType'
  <2>1. PICK c \in Call : SaveLabel(r, c) \/ Relabel(r, c) \/ TestsetLabel(r, c)
    BY <1>1 DEF Arrive
  <2>2. PICK step \in {"lock", "check", "write"} : Begin(r, c, step)
    BY <2>1 DEF SaveLabel, Relabel, TestsetLabel
  <2>3. step \in Steps \ {"idle"}  BY DEF Steps, Critical
  <2>4. SlotType'  BY <2>2, <2>3, BeginSlot
  <2> QED
    BY <2>2, <2>4 DEF Begin, db, bankFiles, DbType, BankType, JobType, TeachType
<1>2. ASSUME NEW r \in Request, Lock(r)
      PROVE  DbType' /\ BankType' /\ SlotType' /\ JobType' /\ TeachType'
  <2>1. SlotType'
    <3>1. "teach" \in Steps \ {"idle"}  BY DEF Steps, Critical
    <3> QED  BY <1>2, <3>1, GotoSlot DEF Lock, Teaching
  <2>2. TeachType'
    <3> DEFINE posted == [k \in DOMAIN call[r].drawn |-> <<call[r].image, call[r].drawn[k]>>]
    <3>1. call[r].drawn \in Seq(Class) /\ call[r].image \in Image
      BY <1>2, BusyCall DEF Lock, Teaching
    <3>2. posted \in Seq(Image \X Class)
      <4>1. PICK n \in Nat : call[r].drawn \in [1..n -> Class]  BY <3>1
      <4> QED  BY <3>1, <4>1
    <3>3. teaching' = [teaching EXCEPT ![r] = posted]  BY <1>2 DEF Lock, Teaching
    <3> HIDE DEF posted
    <3> QED  BY <3>2, <3>3 DEF TeachType
  <2> QED
    BY <1>2, <2>1, <2>2 DEF Lock, Teaching, db, bankFiles, DbType, BankType, JobType
<1>3. ASSUME NEW r \in Request, TeachNext(r)
      PROVE  DbType' /\ BankType' /\ SlotType' /\ JobType' /\ TeachType'
  <2>1. teaching[r] \in Seq(Image \X Class) /\ teaching[r] # <<>>
    BY <1>3 DEF TeachNext, TeachType
  <2>2. Head(teaching[r]) \in Image \X Class /\ Tail(teaching[r]) \in Seq(Image \X Class)
    BY <2>1
  <2>3. TeachType'  BY <1>3, <2>2 DEF TeachNext, TeachType
  <2>4. bank' \in ClassList
    <3>1. Names(<<Head(teaching[r])[2]>>) \subseteq Class  BY <2>2 DEF Names
    <3> QED  BY <1>3, <3>1, RegisterType DEF TeachNext, BankType
  <2>5. BankType'  BY <1>3, <2>2, <2>4 DEF TeachNext, BankType
  <2> QED
    BY <1>3, <2>3, <2>5 DEF TeachNext, db, DbType, SlotType, JobType
<1>4. ASSUME NEW r \in Request, TeachDone(r)
      PROVE  DbType' /\ BankType' /\ SlotType' /\ JobType' /\ TeachType'
  <2>1. "write" \in Steps \ {"idle"}  BY DEF Steps, Critical
  <2>2. SlotType'  BY <1>4, <2>1, GotoSlot DEF TeachDone
  <2> QED
    BY <1>4, <2>2 DEF TeachDone, db, bankFiles, DbType, BankType, JobType, TeachType
<1>5. ASSUME NEW r \in Request, TeachFails(r)
      PROVE  DbType' /\ BankType' /\ SlotType' /\ JobType' /\ TeachType'
  <2>1. SlotType'
    <3>1. CASE pc[r] = "teach"  BY <1>5, <3>1, EndSlot DEF TeachFails
    <3>2. CASE pc[r] # "teach"  BY <1>5, <3>2 DEF TeachFails, SlotType
    <3> QED  BY <3>1, <3>2
  <2>2. TeachType'  BY <1>5 DEF TeachFails, TeachType
  <2> QED
    BY <1>5, <2>1, <2>2 DEF TeachFails, db, bankFiles, DbType, BankType, JobType
<1>6. ASSUME NEW r \in Request, Check(r)
      PROVE  DbType' /\ BankType' /\ SlotType' /\ JobType' /\ TeachType'
  <2>1. "write" \in Steps \ {"idle"}  BY DEF Steps, Critical
  <2>2. CASE Names(call[r].drawn) \subseteq Known(bank)
    <3>1. SlotType'  BY <1>6, <2>1, <2>2, GotoSlot DEF Check
    <3> QED
      BY <1>6, <3>1 DEF Check, db, bankFiles, DbType, BankType, JobType, TeachType
  <2>3. CASE ~(Names(call[r].drawn) \subseteq Known(bank))
    <3>1. SlotType'  BY <1>6, <2>3, EndSlot DEF Check
    <3> QED
      BY <1>6, <3>1 DEF Check, db, bankFiles, DbType, BankType, JobType, TeachType
  <2> QED  BY <2>2, <2>3
<1>7. ASSUME NEW r \in Request, Write(r)
      PROVE  DbType' /\ BankType' /\ SlotType' /\ JobType' /\ TeachType'
  <2>1. PICK kind \in Kind :
          /\ WriteBoxes(kind, call[r].image, call[r].drawn, "user", call[r].update)
          /\ \E step \in {"mark", "reply"} : Goto(r, step)
    BY <1>7 DEF Write, Kind
  <2>2. {"mark", "reply"} \subseteq Steps \ {"idle"}  BY DEF Steps, Critical
  <2>3. UNCHANGED <<bankFiles, holder, job, teaching>>  BY <1>7 DEF Write
  <2>4. SlotType'  BY <2>1, <2>2, <2>3, GotoSlot
  <2>5. DbType'  BY <1>7, <2>1, BusyCall, WriteBoxesDb DEF Write
  <2> QED  BY <2>3, <2>4, <2>5 DEF bankFiles, BankType, JobType, TeachType
<1>8. ASSUME NEW r \in Request, Mark(r)
      PROVE  DbType' /\ BankType' /\ SlotType' /\ JobType' /\ TeachType'
  <2>1. "reply" \in Steps \ {"idle"}  BY DEF Steps, Critical
  <2>2. SlotType'  BY <1>8, <2>1, GotoSlot DEF Mark
  <2>3. DbType'  BY <1>8 DEF Mark, MarkLabeled, DbType
  <2> QED  BY <1>8, <2>2, <2>3 DEF Mark, bankFiles, BankType, JobType, TeachType
<1>9. ASSUME NEW r \in Request, Reply(r) \/ Fail(r)
      PROVE  DbType' /\ BankType' /\ SlotType' /\ JobType' /\ TeachType'
  <2>1. End(r) /\ UNCHANGED <<db, bankFiles, job, teaching>>  BY <1>9 DEF Reply, Fail
  <2>2. SlotType'  BY <2>1, EndSlot
  <2> QED  BY <2>1, <2>2 DEF db, bankFiles, DbType, BankType, JobType, TeachType
<1>10. ASSUME NEW j \in Job, NEW batch \in SUBSET Image, Autolabel(j, batch)
       PROVE  DbType' /\ BankType' /\ SlotType' /\ JobType' /\ TeachType'
  <2>1. [NoJob EXCEPT !.at = "arm", !.targets = batch \ testset] \in JobRecord
    BY DEF NoJob, JobRecord
  <2>2. JobType'  BY <1>10, <2>1 DEF Autolabel, JobType
  <2> QED
    BY <1>10, <2>2 DEF Autolabel, db, bankFiles, DbType, BankType, SlotType, TeachType
<1>11. ASSUME NEW j \in Job, Arm(j)
       PROVE  DbType' /\ BankType' /\ SlotType' /\ JobType' /\ TeachType'
  <2>1. Known(bank) \subseteq Class  BY DEF Known
  <2>2. JobType'  BY <1>11, <2>1 DEF Arm, JobType, JobRecord
  <2> QED
    BY <1>11, <2>2 DEF Arm, db, bankFiles, DbType, BankType, SlotType, TeachType
<1>12. ASSUME NEW j \in Job, NEW i \in Image, NEW found \in Drawn, Line(j, i, found)
       PROVE  DbType' /\ BankType' /\ SlotType' /\ JobType' /\ TeachType'
  <2> DEFINE rest == job[j].targets \ {i}
             more == job[j].wrote \cup {i}
  <2>0. job[j] \in JobRecord  BY DEF JobType
  <2>1. JobType'
    <3>1. CASE found = <<>>
      <4>1. job' = [job EXCEPT ![j] = [job[j] EXCEPT !.targets = rest]]
        BY <1>12, <3>1 DEF Line
      <4>2. [job[j] EXCEPT !.targets = rest] \in JobRecord  BY <2>0 DEF JobRecord
      <4> QED  BY <4>1, <4>2 DEF JobType
    <3>2. CASE found # <<>>
      <4>1. job' = [job EXCEPT ![j] = [job[j] EXCEPT !.targets = rest, !.wrote = more]]
        BY <1>12, <2>0, <3>2 DEF Line, JobType
      <4>2. [job[j] EXCEPT !.targets = rest, !.wrote = more] \in JobRecord
        BY <2>0 DEF JobRecord
      <4> QED  BY <4>1, <4>2 DEF JobType
    <3> QED  BY <3>1, <3>2
  <2>2. DbType'
    <3>1. CASE found = <<>>  BY <1>12, <3>1 DEF Line, db, DbType
    <3>2. CASE found # <<>>
      <4>1. WriteBoxes("pool", i, found, "model", FALSE)  BY <1>12, <3>2 DEF Line
      <4>2. "pool" \in Kind  BY DEF Kind
      <4> QED  BY <4>1, <4>2, DrawnType, WriteBoxesDb
    <3> QED  BY <3>1, <3>2
  <2> QED  BY <1>12, <2>1, <2>2 DEF Line, bankFiles, BankType, SlotType, TeachType
<1>13. ASSUME NEW j \in Job, Finish(j)
       PROVE  DbType' /\ BankType' /\ SlotType' /\ JobType' /\ TeachType'
  <2>1. JobType'  BY <1>13 DEF Finish, JobType, JobRecord, NoJob
  <2>2. DbType'  BY <1>13 DEF Finish, MarkAuto, DbType
  <2> QED  BY <1>13, <2>1, <2>2 DEF Finish, bankFiles, BankType, SlotType, TeachType
<1>14. ASSUME NEW j \in Job, JobFails(j)
       PROVE  DbType' /\ BankType' /\ SlotType' /\ JobType' /\ TeachType'
  <2>1. JobType'  BY <1>14 DEF JobFails, JobType, JobRecord, NoJob
  <2> QED
    BY <1>14, <2>1 DEF JobFails, db, bankFiles, DbType, BankType, SlotType, TeachType
<1>15. ASSUME NEW S \in SUBSET Image, TestsetImport(S) \/ TestsetRemove(S)
       PROVE  DbType' /\ BankType' /\ SlotType' /\ JobType' /\ TeachType'
  <2>1. DbType'
    BY <1>15 DEF TestsetImport, TestsetRemove, DbType, Kind
  <2> QED
    BY <1>15, <2>1 DEF TestsetImport, TestsetRemove, bankFiles, BankType, SlotType,
                       JobType, TeachType
<1>16. ASSUME OpenSession \/ DeleteProject
       PROVE  DbType' /\ BankType' /\ SlotType' /\ JobType' /\ TeachType'
  <2>1. NoClasses \in [Kind -> ClassList]  BY DEF NoClasses, EmptyList, ClassList
  <2>2. NoBoxes \in [Kind -> [Image -> SUBSET Box]]  BY DEF NoBoxes
  <2>3. AllUnlabeled \in [Image -> {"unlabeled", "auto", "labeled"}]  BY DEF AllUnlabeled
  <2>4. DbType'  BY <1>16, <2>1, <2>2, <2>3 DEF OpenSession, DeleteProject, DbType
  <2> QED
    BY <1>16, <2>4 DEF OpenSession, DeleteProject, bankFiles, BankType, SlotType,
                       JobType, TeachType
<1>17. ASSUME Restart
       PROVE  DbType' /\ BankType' /\ SlotType' /\ JobType' /\ TeachType'
  <2>1. SlotType'  BY <1>17 DEF Restart, SlotType, Steps
  <2>2. JobType'  BY <1>17 DEF Restart, JobType, JobRecord, NoJob
  <2> QED  BY <1>17, <2>1, <2>2 DEF Restart, db, bankFiles, DbType, BankType, TeachType
<1>18. ASSUME UNCHANGED vars
       PROVE  DbType' /\ BankType' /\ SlotType' /\ JobType' /\ TeachType'
  BY <1>18 DEF vars, db, bankFiles, DbType, BankType, SlotType, JobType, TeachType
<1> QED
  BY <1>1, <1>2, <1>3, <1>4, <1>5, <1>6, <1>7, <1>8, <1>9, <1>10, <1>11, <1>12, <1>13,
     <1>14, <1>15, <1>16, <1>17, <1>18 DEF Next, RequestStep, JobStep
LEMMA TypeInit == Init => TypeOK
<1> SUFFICES ASSUME Init PROVE TypeOK  OBVIOUS
<1>1. EmptyList \in ClassList  BY DEF EmptyList, ClassList
<1>2. NoJob \in JobRecord  BY DEF NoJob, JobRecord
<1>3. NoClasses \in [Kind -> ClassList]  BY <1>1 DEF NoClasses
<1>4. NoBoxes \in [Kind -> [Image -> SUBSET Box]]  BY DEF NoBoxes
<1>5. AllUnlabeled \in [Image -> {"unlabeled", "auto", "labeled"}]  BY DEF AllUnlabeled
<1>6. "idle" \in Steps /\ <<>> \in Seq(Image \X Class)  BY DEF Steps
<1> QED  BY <1>1, <1>2, <1>3, <1>4, <1>5, <1>6 DEF Init, TypeOK

(***************************************************************************)
(* Every variable has its type in every reachable state: in particular a    *)
(* class is given a natural index, by whichever interleaving of handlers    *)
(* and jobs, and a slot's program counter and call agree.                   *)
(***************************************************************************)
THEOREM TypeCorrect == Spec => []TypeOK
BY TypeInit, TypeStep, PTL DEF Spec

-----------------------------------------------------------------------------
(***************************************************************************)
(* The lock.                                                                *)
(***************************************************************************)

LEMMA EndLock ==
  ASSUME TypeOK, LockDiscipline, StepsFit, NEW r \in Request, End(r)
  PROVE  LockDiscipline' /\ StepsFit'
<1>1. StepsFit'  BY DEF TypeOK, StepsFit, End
<1>2. LockDiscipline'
  BY LabelingAssumption DEF TypeOK, LockDiscipline, End, Critical
<1> QED  BY <1>1, <1>2

\* A step within the handler: in or out of the critical section it stays so.
LEMMA GotoLock ==
  ASSUME TypeOK, LockDiscipline, StepsFit, NEW r \in Request,
         NEW step \in {"write", "mark", "reply"}, Goto(r, step), UNCHANGED holder,
         pc[r] \in Critical \/ call[r].op # "label"
  PROVE  LockDiscipline' /\ StepsFit'
<1>1. StepsFit'  BY DEF TypeOK, StepsFit, Goto
<1>2. LockDiscipline'  BY DEF TypeOK, LockDiscipline, Goto, Critical
<1> QED  BY <1>1, <1>2

LEMMA LockStep ==
  TypeOK /\ LockDiscipline /\ StepsFit /\ [Next]_vars => LockDiscipline' /\ StepsFit'
<1> SUFFICES ASSUME TypeOK, LockDiscipline, StepsFit, [Next]_vars
             PROVE  LockDiscipline' /\ StepsFit'
  OBVIOUS
<1>1. ASSUME NEW r \in Request, Arrive(r)
      PROVE  LockDiscipline' /\ StepsFit'
  <2>1. PICK c \in Call : SaveLabel(r, c) \/ Relabel(r, c) \/ TestsetLabel(r, c)
    BY <1>1 DEF Arrive
  <2>2. PICK step : /\ Begin(r, c, step)
                    /\ \/ step = "lock" /\ c.op = "label"
                       \/ step = "check" /\ c.op = "relabel"
                       \/ step = "write" /\ c.op = "testset"
    BY <2>1 DEF SaveLabel, Relabel, TestsetLabel
  <2>3. StepsFit'  BY <2>2 DEF TypeOK, StepsFit, Begin
  <2>4. LockDiscipline'  BY <2>2 DEF TypeOK, LockDiscipline, Begin, Critical
  <2> QED  BY <2>3, <2>4
<1>2. ASSUME NEW r \in Request, Lock(r)
      PROVE  LockDiscipline' /\ StepsFit'
  <2>1. StepsFit'  BY <1>2 DEF TypeOK, StepsFit, Lock, Teaching, Goto
  <2>2. LockDiscipline'
    BY <1>2, LabelingAssumption
    DEF TypeOK, LockDiscipline, StepsFit, Lock, Teaching, Goto, Critical
  <2> QED  BY <2>1, <2>2
<1>3. ASSUME NEW r \in Request, TeachDone(r)
      PROVE  LockDiscipline' /\ StepsFit'
  BY <1>3, GotoLock DEF TeachDone, Critical
<1>4. ASSUME NEW r \in Request, TeachFails(r)
      PROVE  LockDiscipline' /\ StepsFit'
  <2>1. CASE pc[r] = "teach"  BY <1>4, <2>1, EndLock DEF TeachFails
  <2>2. CASE pc[r] # "teach"
    BY <1>4, <2>2 DEF TeachFails, LockDiscipline, StepsFit
  <2> QED  BY <2>1, <2>2
<1>5. ASSUME NEW r \in Request, Check(r)
      PROVE  LockDiscipline' /\ StepsFit'
  <2>1. call[r].op # "label"  BY <1>5 DEF Check, StepsFit
  <2>2. CASE Names(call[r].drawn) \subseteq Known(bank)
    BY <1>5, <2>1, <2>2, GotoLock DEF Check
  <2>3. CASE ~(Names(call[r].drawn) \subseteq Known(bank))
    BY <1>5, <2>3, EndLock DEF Check
  <2> QED  BY <2>2, <2>3
<1>6. ASSUME NEW r \in Request, Write(r)
      PROVE  LockDiscipline' /\ StepsFit'
  <2>1. PICK step \in {"mark", "reply"} : Goto(r, step)  BY <1>6 DEF Write
  <2> QED  BY <1>6, <2>1, GotoLock DEF Write, Critical
<1>7. ASSUME NEW r \in Request, Mark(r)
      PROVE  LockDiscipline' /\ StepsFit'
  BY <1>7, GotoLock DEF Mark, Critical
<1>8. ASSUME NEW r \in Request, Reply(r) \/ Fail(r)
      PROVE  LockDiscipline' /\ StepsFit'
  BY <1>8, EndLock DEF Reply, Fail
<1>9. ASSUME Restart
      PROVE  LockDiscipline' /\ StepsFit'
  BY <1>9, LabelingAssumption DEF Restart, LockDiscipline, StepsFit, Critical
<1>10. ASSUME UNCHANGED <<holder, pc, call>>
       PROVE  LockDiscipline' /\ StepsFit'
  BY <1>10 DEF LockDiscipline, StepsFit
<1> QED
  BY <1>1, <1>2, <1>3, <1>4, <1>5, <1>6, <1>7, <1>8, <1>9, <1>10
  DEF Next, RequestStep, JobStep, TeachNext, Autolabel, Arm, Line, Finish, JobFails,
      TestsetImport, TestsetRemove, OpenSession, DeleteProject, vars

(***************************************************************************)
(* The saves of a project exclude each other from the first class taught    *)
(* to the reply, and no way out of the handler, a restart included, leaves  *)
(* the lock taken.                                                          *)
(***************************************************************************)
THEOREM LockCorrect == Spec => []LockDiscipline
<1>1. Init => LockDiscipline /\ StepsFit
  BY LabelingAssumption DEF Init, LockDiscipline, StepsFit, Critical
<1> QED  BY <1>1, TypeInit, TypeStep, LockStep, PTL DEF Spec
-----------------------------------------------------------------------------
(***************************************************************************)
(* The database.                                                            *)
(***************************************************************************)

\* Who writes the database, and how: the facts the next lemmas share.
LEMMA DbStep ==
  ASSUME TypeOK, [Next]_vars
  PROVE  \/ UNCHANGED db
         \/ /\ project
            /\ \E kind \in Kind, i \in Image, by \in {"user", "model"}, merge \in BOOLEAN :
                 \E drawn \in Seq(Class) :
                   /\ Names(drawn) \subseteq Class
                   /\ WriteBoxes(kind, i, drawn, by, merge)
         \/ project /\ \E i \in Image : MarkLabeled(i)
         \/ /\ \E S \in SUBSET Image : MarkAuto(S) /\ (project \/ S = {})
            /\ UNCHANGED <<project, classes, boxes, testset>>
         \/ \E S \in SUBSET Image : TestsetImport(S) \/ TestsetRemove(S)
         \/ OpenSession
         \/ DeleteProject
<1>1. ASSUME NEW r \in Request, Write(r)
      PROVE  /\ project
             /\ \E kind \in Kind, i \in Image, by \in {"user", "model"}, merge \in BOOLEAN :
                  \E drawn \in Seq(Class) :
                    /\ Names(drawn) \subseteq Class
                    /\ WriteBoxes(kind, i, drawn, by, merge)
  <2>1. /\ call[r].image \in Image /\ call[r].update \in BOOLEAN
        /\ call[r].drawn \in Seq(Class) /\ Names(call[r].drawn) \subseteq Class
    BY <1>1, BusyCall, TypeParts DEF Write
  <2>2. PICK kind \in Kind :
          WriteBoxes(kind, call[r].image, call[r].drawn, "user", call[r].update)
    BY <1>1 DEF Write, Kind
  <2> QED  BY <1>1, <2>1, <2>2 DEF Write, RequireProject
<1>2. ASSUME NEW j \in Job, NEW i \in Image, NEW found \in Drawn, Line(j, i, found),
             found # <<>>
      PROVE  /\ project
             /\ \E kind \in Kind, im \in Image, by \in {"user", "model"}, merge \in BOOLEAN :
                  \E drawn \in Seq(Class) :
                    /\ Names(drawn) \subseteq Class
                    /\ WriteBoxes(kind, im, drawn, by, merge)
  BY <1>2, DrawnType DEF Line, Kind, RequireProject
<1>3. ASSUME NEW j \in Job, Finish(j)
      PROVE  /\ \E S \in SUBSET Image : MarkAuto(S) /\ (project \/ S = {})
             /\ UNCHANGED <<project, classes, boxes, testset>>
  BY <1>3 DEF Finish, RequireProject, TypeOK, JobRecord
<1>4. ASSUME NEW r \in Request, Mark(r)
      PROVE  project /\ \E i \in Image : MarkLabeled(i)
  BY <1>4, BusyCall, TypeParts DEF Mark, RequireProject
<1> HIDE DEF db
<1> QED
  BY <1>1, <1>2, <1>3, <1>4
  DEF Next, RequestStep, JobStep, Arrive, SaveLabel, Relabel, TestsetLabel, Begin, Lock,
      Teaching, TeachNext, TeachDone, TeachFails, Check, Reply, Fail, Autolabel, Arm, Line,
      JobFails, Restart, vars

LEMMA NoRowsStep == TypeOK /\ NoRowsWithoutProject /\ [Next]_vars => NoRowsWithoutProject'
<1> SUFFICES ASSUME TypeOK, NoRowsWithoutProject, [Next]_vars PROVE NoRowsWithoutProject'
  OBVIOUS
<1>1. CASE UNCHANGED db  BY <1>1 DEF db, NoRowsWithoutProject
<1>2. CASE project /\ \E kind \in Kind, i \in Image, by \in {"user", "model"},
                         merge \in BOOLEAN : \E drawn \in Seq(Class) :
                           /\ Names(drawn) \subseteq Class
                           /\ WriteBoxes(kind, i, drawn, by, merge)
  BY <1>2 DEF WriteBoxes, NoRowsWithoutProject
<1>3. CASE project /\ \E i \in Image : MarkLabeled(i)
  BY <1>3 DEF MarkLabeled, NoRowsWithoutProject
<1>4. ASSUME NEW S \in SUBSET Image, MarkAuto(S), project \/ S = {},
             UNCHANGED <<project, classes, boxes, testset>>
      PROVE  NoRowsWithoutProject'
  <2>1. CASE project  BY <1>4, <2>1 DEF NoRowsWithoutProject
  <2>2. CASE S = {}
    <3>1. status' = status  BY <1>4, <2>2 DEF MarkAuto, TypeOK
    <3> QED  BY <1>4, <3>1 DEF NoRowsWithoutProject
  <2> QED  BY <1>4, <2>1, <2>2
<1>5. ASSUME NEW S \in SUBSET Image, TestsetImport(S) \/ TestsetRemove(S)
      PROVE  NoRowsWithoutProject'
  BY <1>5 DEF TestsetImport, TestsetRemove, RequireProject, NoRowsWithoutProject
<1>6. CASE OpenSession  BY <1>6 DEF OpenSession, NoRowsWithoutProject
<1>7. CASE DeleteProject  BY <1>7 DEF DeleteProject, NoRowsWithoutProject
<1> QED  BY <1>1, <1>2, <1>3, <1>4, <1>5, <1>6, <1>7, DbStep

(***************************************************************************)
(* A deleted project owns no rows, whatever was in flight when it was       *)
(* deleted: a save between its transactions, a job between two lines.       *)
(***************************************************************************)
THEOREM DeletionFinal == Spec => []NoRowsWithoutProject
<1>1. Init => NoRowsWithoutProject  BY DEF Init, NoRowsWithoutProject
<1> QED  BY <1>1, TypeInit, TypeStep, NoRowsStep, PTL DEF Spec

LEMMA GroundTruthStep == TypeOK /\ GroundTruthHeldOut /\ [Next]_vars => GroundTruthHeldOut'
<1> SUFFICES ASSUME TypeOK, GroundTruthHeldOut, [Next]_vars PROVE GroundTruthHeldOut'
  OBVIOUS
<1>1. CASE UNCHANGED db  BY <1>1 DEF db, GroundTruthHeldOut
<1>2. ASSUME NEW kind \in Kind, NEW i \in Image, NEW by, NEW merge, NEW drawn,
             WriteBoxes(kind, i, drawn, by, merge)
      PROVE  GroundTruthHeldOut'
  <2>1. CASE kind = "testset"
    <3>1. testset' = testset \cup {i}  BY <1>2, <2>1 DEF WriteBoxes
    <3>2. \A k \in Image : k # i => boxes'["testset"][k] = boxes["testset"][k]
      BY <1>2, <2>1 DEF WriteBoxes, TypeOK
    <3> QED  BY <3>1, <3>2 DEF GroundTruthHeldOut
  <2>2. CASE kind # "testset"
    <3>1. boxes'["testset"] = boxes["testset"] /\ testset' = testset
      BY <1>2, <2>2 DEF WriteBoxes, TypeOK, Kind
    <3> QED  BY <3>1 DEF GroundTruthHeldOut
  <2> QED  BY <2>1, <2>2
<1>3. ASSUME NEW i \in Image, MarkLabeled(i)
      PROVE  GroundTruthHeldOut'
  BY <1>3 DEF MarkLabeled, GroundTruthHeldOut
<1>4. CASE UNCHANGED <<project, classes, boxes, testset>>
  BY <1>4 DEF GroundTruthHeldOut
<1>5. ASSUME NEW S \in SUBSET Image, TestsetImport(S) \/ TestsetRemove(S)
      PROVE  GroundTruthHeldOut'
  <2>1. CASE TestsetImport(S)  BY <2>1 DEF TestsetImport, GroundTruthHeldOut
  <2>2. CASE TestsetRemove(S)
    <3>1. boxes'["testset"] = [i \in Image |-> IF i \in S THEN {} ELSE boxes["testset"][i]]
      BY <2>2 DEF TestsetRemove, TypeOK, Kind
    <3> QED  BY <2>2, <3>1 DEF TestsetRemove, GroundTruthHeldOut
  <2> QED  BY <1>5, <2>1, <2>2
<1>6. CASE OpenSession  BY <1>6 DEF OpenSession, GroundTruthHeldOut
<1>7. CASE DeleteProject
  BY <1>7 DEF DeleteProject, GroundTruthHeldOut, NoBoxes, Kind
<1> QED  BY <1>1, <1>2, <1>3, <1>4, <1>5, <1>6, <1>7, DbStep

(***************************************************************************)
(* Ground truth belongs to a benchmark image, also when an annotator's      *)
(* answer meets the image's removal.                                        *)
(***************************************************************************)
THEOREM GroundTruthSafe == Spec => []GroundTruthHeldOut
<1>1. Init => GroundTruthHeldOut  BY DEF Init, GroundTruthHeldOut, NoBoxes, Kind
<1> QED  BY <1>1, TypeInit, TypeStep, GroundTruthStep, PTL DEF Spec

(***************************************************************************)
(* A person's decision is not taken back: neither by a job that started     *)
(* before it and ends after it, nor by any request.                         *)
(***************************************************************************)
THEOREM DecisionsKept == Spec => HumanDecisionKept
<1> DEFINE Keep == \A i \in Image : status[i] = "labeled" => status'[i] = "labeled" \/ ~project'
<1>1. TypeOK /\ [Next]_vars => Keep
  <2> SUFFICES ASSUME TypeOK, [Next]_vars PROVE Keep  OBVIOUS
  <2>1. CASE UNCHANGED db  BY <2>1 DEF db
  <2>2. CASE \E kind \in Kind, i \in Image, by \in {"user", "model"}, merge \in BOOLEAN :
               \E drawn \in Seq(Class) : WriteBoxes(kind, i, drawn, by, merge)
    BY <2>2 DEF WriteBoxes
  <2>3. CASE \E i \in Image : MarkLabeled(i)  BY <2>3 DEF MarkLabeled, TypeOK
  <2>4. CASE \E S \in SUBSET Image : MarkAuto(S)  BY <2>4 DEF MarkAuto
  <2>5. CASE \E S \in SUBSET Image : TestsetImport(S) \/ TestsetRemove(S)
    BY <2>5 DEF TestsetImport, TestsetRemove
  <2>6. CASE OpenSession  BY <2>6 DEF OpenSession
  <2>7. CASE DeleteProject  BY <2>7 DEF DeleteProject
  <2> QED  BY <2>1, <2>2, <2>3, <2>4, <2>5, <2>6, <2>7, DbStep
<1>2. TypeOK /\ [Next]_vars => [Keep]_vars  BY <1>1
<1> QED  BY <1>2, TypeInit, TypeStep, PTL DEF Spec, HumanDecisionKept
-----------------------------------------------------------------------------
(***************************************************************************)
(* The database behind the bank.                                            *)
(***************************************************************************)

\* One class taught: the bank keeps what it knew and gains this one.
LEMMA TeachNextBank ==
  ASSUME TypeOK, NEW r \in Request, TeachNext(r)
  PROVE  /\ Known(bank') = Known(bank) \cup {Head(teaching[r])[2]}
         /\ \A q \in Request : Pending(q) \subseteq Pending(q)' \cup Known(bank')
<1> DEFINE todo == teaching[r]
           c == Head(todo)[2]
<1>1. todo \in Seq(Image \X Class) /\ todo # <<>>  BY DEF TypeOK, TeachNext
<1>2. c \in Class  BY <1>1
<1>3. Names(<<c>>) = {c}  BY DEF Names
<1>4. Known(bank') = Known(bank) \cup {c}
  <2>1. bank \in ClassList /\ bank' = Register(bank, <<c>>)  BY DEF TypeOK, TeachNext
  <2>2. Names(<<c>>) \subseteq Class  BY <1>2, <1>3
  <2> HIDE DEF c
  <2> QED  BY <1>3, <2>1, <2>2, RegisterKnown
<1>5. \A q \in Request : q # r => teaching'[q] = teaching[q]
  BY DEF TypeOK, TeachNext
<1>6. Pending(r) \subseteq Pending(r)' \cup {c}
  <2>1. teaching'[r] = Tail(todo)  BY DEF TypeOK, TeachNext
  <2>2. \A k \in DOMAIN todo : k # 1 => k - 1 \in DOMAIN Tail(todo) /\ todo[k] = Tail(todo)[k - 1]
    BY <1>1
  <2>3. todo[1] = Head(todo)  BY <1>1
  <2> SUFFICES ASSUME NEW k \in DOMAIN todo, todo[k][2] # c
               PROVE  todo[k][2] \in Pending(r)'
    BY DEF Pending
  <2>4. k # 1  BY <2>3
  <2>5. k - 1 \in DOMAIN teaching'[r] /\ todo[k] = teaching'[r][k - 1]
    BY <2>1, <2>2, <2>4
  <2> HIDE DEF todo
  <2> QED  BY <2>5 DEF Pending
<1> HIDE DEF c, todo
<1> QED  BY <1>4, <1>5, <1>6 DEF Pending, c, todo

\* A slot moved, to a step that is about to write only what is known.
LEMMA SlotMoved ==
  ASSUME PoolClassesTaught, BankAhead, NEW r \in Request,
         UNCHANGED <<classes, bank, job, teaching>>,
         \A q \in Request : q # r => pc'[q] = pc[q] /\ call'[q] = call[q],
         pc'[r] # "teach",
         pc'[r] = "write" => Names(call'[r].drawn) \subseteq Known(bank)
  PROVE  PoolClassesTaught' /\ BankAhead'
<1>1. \A q \in Request : Pending(q)' = Pending(q)  BY DEF Pending
<1>2. Known(bank') = Known(bank) /\ Known(classes'["pool"]) = Known(classes["pool"])  OBVIOUS
<1> QED  BY <1>1, <1>2 DEF PoolClassesTaught, BankAhead

LEMMA BankStep ==
  TypeOK /\ StepsFit /\ PoolClassesTaught /\ BankAhead /\ [Next]_vars
    => PoolClassesTaught' /\ BankAhead'
<1> SUFFICES ASSUME TypeOK, StepsFit, PoolClassesTaught, BankAhead, [Next]_vars
             PROVE  PoolClassesTaught' /\ BankAhead'
  OBVIOUS
<1>1. ASSUME NEW r \in Request, Arrive(r)
      PROVE  PoolClassesTaught' /\ BankAhead'
  <2>1. PICK c \in Call : SaveLabel(r, c) \/ Relabel(r, c) \/ TestsetLabel(r, c)
    BY <1>1 DEF Arrive
  <2>2. PICK step : /\ Begin(r, c, step)
                    /\ \/ step = "lock"
                       \/ step = "check"
                       \/ step = "write" /\ c.op = "testset"
    BY <2>1 DEF SaveLabel, Relabel, TestsetLabel
  <2> QED
    BY <2>2 DEF TypeOK, Begin, db, bankFiles, PoolClassesTaught, BankAhead, Pending
<1>2. ASSUME NEW r \in Request, Lock(r)
      PROVE  PoolClassesTaught' /\ BankAhead'
  <2> DEFINE drawn == call[r].drawn
  <2>1. drawn \in Seq(Class)  BY <1>2, BusyCall, TypeParts DEF Lock, Teaching
  <2>2. Names(drawn) \subseteq Pending(r)'
    <3>1. teaching'[r] = [k \in DOMAIN drawn |-> <<call[r].image, drawn[k]>>]
      BY <1>2 DEF TypeOK, Lock, Teaching
    <3> QED  BY <3>1 DEF Pending, Names
  <2>3. \A q \in Request : q # r => Pending(q)' = Pending(q)
    BY <1>2 DEF TypeOK, Lock, Teaching, Pending
  <2> QED
    BY <1>2, <2>2, <2>3
    DEF TypeOK, Lock, Teaching, Goto, db, bankFiles, PoolClassesTaught, BankAhead
<1>3. ASSUME NEW r \in Request, TeachNext(r)
      PROVE  PoolClassesTaught' /\ BankAhead'
  <2>1. /\ Known(bank) \subseteq Known(bank')
        /\ \A q \in Request : Pending(q) \subseteq Pending(q)' \cup Known(bank')
    BY <1>3, TeachNextBank
  <2>2. UNCHANGED <<classes, pc, call, job>>  BY <1>3 DEF TeachNext, db
  <2> QED  BY <2>1, <2>2 DEF PoolClassesTaught, BankAhead
<1>4. ASSUME NEW r \in Request, TeachDone(r)
      PROVE  PoolClassesTaught' /\ BankAhead'
  <2>1. Pending(r) = {}  BY <1>4 DEF TeachDone, Pending
  <2>2. Names(call[r].drawn) \subseteq Known(bank)  BY <1>4, <2>1 DEF TeachDone, BankAhead
  <2> QED
    BY <1>4, <2>2
    DEF TypeOK, TeachDone, Goto, db, bankFiles, PoolClassesTaught, BankAhead, Pending
<1>5. ASSUME NEW r \in Request, TeachFails(r)
      PROVE  PoolClassesTaught' /\ BankAhead'
  <2>1. \A q \in Request : q # r => Pending(q)' = Pending(q)
    BY <1>5 DEF TypeOK, TeachFails, Pending
  <2>2. pc'[r] # "teach" /\ (pc'[r] = "write" => UNCHANGED <<pc, call>>)
    BY <1>5 DEF TypeOK, TeachFails, End
  <2>3. \A q \in Request : q # r => pc'[q] = pc[q] /\ call'[q] = call[q]
    BY <1>5 DEF TypeOK, TeachFails, End
  <2>4. UNCHANGED <<classes, bank, job>>  BY <1>5 DEF TeachFails, db, bankFiles
  <2> QED  BY <2>1, <2>2, <2>3, <2>4 DEF PoolClassesTaught, BankAhead
<1>6. ASSUME NEW r \in Request, Check(r)
      PROVE  PoolClassesTaught' /\ BankAhead'
  <2>1. UNCHANGED <<classes, bank, job, teaching>>  BY <1>6 DEF Check, db, bankFiles
  <2>2. \A q \in Request : q # r => pc'[q] = pc[q] /\ call'[q] = call[q]
    BY <1>6 DEF TypeOK, Check, Goto, End
  <2>3. pc'[r] # "teach"  BY <1>6 DEF TypeOK, Check, Goto, End
  <2>4. pc'[r] = "write" => Names(call'[r].drawn) \subseteq Known(bank)
    BY <1>6 DEF TypeOK, Check, Goto, End
  <2> QED  BY <2>1, <2>2, <2>3, <2>4, SlotMoved
<1>7. ASSUME NEW r \in Request, Write(r)
      PROVE  PoolClassesTaught' /\ BankAhead'
  <2>1. BankAhead'
    BY <1>7 DEF TypeOK, Write, Goto, bankFiles, BankAhead, Pending
  <2>2. classes["pool"] \in ClassList  BY DEF TypeOK, Kind
  <2>3. CASE call[r].op = "testset"
    <3>1. classes'["pool"] = classes["pool"]
      BY <1>7, <2>3 DEF TypeOK, Write, WriteBoxes, Kind
    <3> QED  BY <1>7, <2>1, <3>1 DEF Write, bankFiles, PoolClassesTaught
  <2>4. CASE call[r].op # "testset"
    <3>1. Names(call[r].drawn) \subseteq Known(bank) /\ Known(bank) \subseteq Class
      BY <1>7, <2>4 DEF Write, BankAhead, Known
    <3>2. classes'["pool"] = Register(classes["pool"], call[r].drawn)
      BY <1>7, <2>4 DEF TypeOK, Write, WriteBoxes, Kind
    <3>3. Known(classes'["pool"]) \subseteq Known(bank)
      BY <2>2, <3>1, <3>2, RegisterKnown DEF PoolClassesTaught
    <3> QED  BY <1>7, <2>1, <3>3 DEF Write, bankFiles, PoolClassesTaught
  <2> QED  BY <2>3, <2>4
<1>8. ASSUME NEW r \in Request, Mark(r) \/ Reply(r) \/ Fail(r)
      PROVE  PoolClassesTaught' /\ BankAhead'
  <2>1. UNCHANGED <<classes, bank, job, teaching>>
    BY <1>8 DEF Mark, MarkLabeled, Reply, Fail, db, bankFiles
  <2>2. \/ pc' = [pc EXCEPT ![r] = "reply"] /\ call' = call
        \/ pc' = [pc EXCEPT ![r] = "idle"] /\ call' = [call EXCEPT ![r] = NoCall]
    BY <1>8 DEF Mark, Reply, Fail, Goto, End
  <2>3. \A q \in Request : q # r => pc'[q] = pc[q] /\ call'[q] = call[q]
    BY <2>2 DEF TypeOK
  <2>4. pc'[r] \notin {"teach", "write"}  BY <2>2 DEF TypeOK
  <2> QED  BY <2>1, <2>3, <2>4, SlotMoved
<1>9. ASSUME NEW j \in Job, NEW i \in Image, NEW found \in Drawn, Line(j, i, found)
      PROVE  PoolClassesTaught' /\ BankAhead'
  <2>1. job[j].names \subseteq Known(bank) /\ Known(bank) \subseteq Class
    BY DEF BankAhead, Known
  <2>2. \A k \in Job : job'[k].names = job[k].names
    <3>0. job \in [Job -> JobRecord]  BY DEF TypeOK
    <3>1. CASE found = <<>>
      <4>1. job' = [job EXCEPT ![j] = [job[j] EXCEPT !.targets = job[j].targets \ {i}]]
        BY <1>9, <3>1 DEF Line
      <4> QED  BY <3>0, <4>1 DEF JobRecord
    <3>2. CASE found # <<>>
      <4>1. job' = [job EXCEPT ![j] = [job[j] EXCEPT !.targets = job[j].targets \ {i},
                                                     !.wrote = job[j].wrote \cup {i}]]
        BY <1>9, <3>0, <3>2 DEF Line, JobRecord
      <4> QED  BY <3>0, <4>1 DEF JobRecord
    <3> QED  BY <3>1, <3>2
  <2>3. BankAhead'  BY <1>9, <2>2 DEF Line, bankFiles, BankAhead, Pending
  <2>4. CASE found = <<>>
    BY <1>9, <2>3, <2>4 DEF Line, db, bankFiles, PoolClassesTaught
  <2>5. CASE found # <<>>
    <3>1. Names(found) \subseteq Known(bank)  BY <1>9, <2>1 DEF Line
    <3>2. classes'["pool"] = Register(classes["pool"], found)
      BY <1>9, <2>5 DEF TypeOK, Line, WriteBoxes, Kind
    <3>3. classes["pool"] \in ClassList  BY DEF TypeOK, Kind
    <3>4. Known(classes'["pool"]) \subseteq Known(bank)
      BY <2>1, <3>1, <3>2, <3>3, RegisterKnown DEF PoolClassesTaught
    <3> QED  BY <1>9, <2>3, <3>4 DEF Line, bankFiles, PoolClassesTaught
  <2> QED  BY <2>4, <2>5
<1>10. ASSUME NEW j \in Job,
              \/ \E batch \in SUBSET Image : Autolabel(j, batch)
              \/ Arm(j) \/ Finish(j) \/ JobFails(j)
       PROVE  PoolClassesTaught' /\ BankAhead'
  <2>0. PICK rec : /\ job' = [job EXCEPT ![j] = rec]
                   /\ rec.names \in {job[j].names, Known(bank), {}}
    <3>0. job[j] \in JobRecord  BY DEF TypeOK
    <3>1. CASE \E batch \in SUBSET Image : Autolabel(j, batch)
      BY <3>1 DEF Autolabel, NoJob
    <3>2. CASE Arm(j)
      <4>1. job' = [job EXCEPT ![j] = [job[j] EXCEPT !.at = "stream", !.names = Known(bank)]]
        BY <3>0, <3>2 DEF Arm, TypeOK, JobRecord
      <4>2. [job[j] EXCEPT !.at = "stream", !.names = Known(bank)].names = Known(bank)
        BY <3>0 DEF JobRecord
      <4> QED  BY <4>1, <4>2
    <3>3. CASE Finish(j) \/ JobFails(j)
      BY <3>3 DEF Finish, JobFails, NoJob
    <3> QED  BY <1>10, <3>1, <3>2, <3>3
  <2>1. job'[j].names \subseteq Known(bank) /\ \A k \in Job : k # j => job'[k] = job[k]
    BY <2>0 DEF TypeOK, BankAhead
  <2>2. UNCHANGED <<classes, bank, pc, call, teaching>>
    BY <1>10 DEF Autolabel, Arm, Finish, JobFails, db, bankFiles
  <2> QED  BY <2>1, <2>2 DEF PoolClassesTaught, BankAhead, Pending
<1>11. ASSUME NEW S \in SUBSET Image, TestsetImport(S) \/ TestsetRemove(S)
       PROVE  PoolClassesTaught' /\ BankAhead'
  BY <1>11 DEF TestsetImport, TestsetRemove, bankFiles, PoolClassesTaught, BankAhead, Pending
<1>12. ASSUME OpenSession \/ DeleteProject
       PROVE  PoolClassesTaught' /\ BankAhead'
  <2>1. Known(EmptyList) = {}  BY DEF Known, EmptyList
  <2> QED
    BY <1>12, <2>1 DEF OpenSession, DeleteProject, bankFiles, PoolClassesTaught, BankAhead,
                       Pending, NoClasses, Kind
<1>13. ASSUME Restart
       PROVE  PoolClassesTaught' /\ BankAhead'
  BY <1>13 DEF Restart, db, bankFiles, PoolClassesTaught, BankAhead, NoJob
<1>14. ASSUME UNCHANGED vars
       PROVE  PoolClassesTaught' /\ BankAhead'
  BY <1>14 DEF vars, db, bankFiles, PoolClassesTaught, BankAhead, Pending
<1> QED
  BY <1>1, <1>2, <1>3, <1>4, <1>5, <1>6, <1>7, <1>8, <1>9, <1>10, <1>11, <1>12, <1>13, <1>14
  DEF Next, RequestStep, JobStep

(***************************************************************************)
(* The pool never lists a class without a prompt, and the bank never loses  *)
(* one: across every interleaving of saves, reviews and jobs, whichever     *)
(* call fails, and across restarts and deletions.                           *)
(***************************************************************************)
THEOREM PoolTaught == Spec => []PoolClassesTaught
<1>1. Init => LockDiscipline /\ StepsFit
  BY LabelingAssumption DEF Init, LockDiscipline, StepsFit, Critical
<1>2. Init => PoolClassesTaught /\ BankAhead
  BY DEF Init, PoolClassesTaught, BankAhead, NoJob, NoClasses, Kind, Known, EmptyList
<1> QED  BY <1>1, <1>2, TypeInit, TypeStep, LockStep, BankStep, PTL DEF Spec
-----------------------------------------------------------------------------
(***************************************************************************)
(* The order of the two class lists.  With only saves (and benchmark        *)
(* labelling) under way and no failure, the lock does what projectlock.go   *)
(* says: the database gives a class the very index the bank gives it.       *)
(***************************************************************************)

SavesOnly ==
  /\ Ops \subseteq {"label", "testset"}
  /\ Job = {}
  /\ Faults = FALSE
  /\ Reopens = FALSE

\* The classes a teach has yet to add, in order.
Todo(r) == [k \in DOMAIN teaching[r] |-> teaching[r][k][2]]

\* The lock's holder has a debt to the database: what its drawing adds.
InStep ==
  /\ project
  /\ \A c \in Known(classes["pool"]) : bank[c] = classes["pool"][c]
  /\ \A r \in Request :
       /\ teaching[r] # <<>> => pc[r] = "teach"
       /\ pc[r] # "check"
       /\ pc[r] = "teach" =>
            /\ Todo(r) \in Seq(Class) /\ Distinct(Todo(r))
            /\ Register(bank, Todo(r)) = Register(classes["pool"], call[r].drawn)
       /\ pc[r] = "write" /\ call[r].op = "label" =>
            bank = Register(classes["pool"], call[r].drawn)
       /\ pc[r] \in {"mark", "reply"} /\ call[r].op = "label" => bank = classes["pool"]
  /\ holder = NoRequest => bank = classes["pool"]
\* One request at a time holds the lock.
LEMMA OneSaver ==
  ASSUME LockDiscipline, NEW q \in Request, NEW r \in Request,
         pc[q] \in Critical, call[q].op = "label", pc[r] \in Critical, call[r].op = "label"
  PROVE  q = r /\ holder = r /\ holder # NoRequest
BY LabelingAssumption DEF LockDiscipline

LEMMA InStepStep ==
  ASSUME SavesOnly
  PROVE  TypeOK /\ LockDiscipline /\ StepsFit /\ InStep /\ [Next]_vars => InStep'
<1> SUFFICES ASSUME TypeOK, LockDiscipline, StepsFit, InStep, [Next]_vars PROVE InStep'
  OBVIOUS
<1> USE SavesOnly DEF SavesOnly
<1>0. /\ \A r \in Request : pc[r] # "idle" => call[r].op \in {"label", "testset"}
      /\ bank \in ClassList /\ classes["pool"] \in ClassList
  BY DEF TypeOK, Call, Kind
<1>1. ASSUME NEW r \in Request, Arrive(r)
      PROVE  InStep'
  <2>1. PICK c \in Call : SaveLabel(r, c) \/ TestsetLabel(r, c)
    BY <1>1 DEF Arrive, Relabel, Call
  <2>2. PICK step : /\ Begin(r, c, step)
                    /\ step = "lock" \/ (step = "write" /\ c.op = "testset")
    BY <2>1 DEF SaveLabel, TestsetLabel
  <2>3. UNCHANGED <<project, classes, bank, holder, teaching>>
    BY <2>2 DEF Begin, db, bankFiles
  <2>4. \A q \in Request : q # r => pc'[q] = pc[q] /\ call'[q] = call[q]
    BY <2>2 DEF TypeOK, Begin
  <2>5. pc'[r] = "lock" \/ (pc'[r] = "write" /\ call'[r].op = "testset")
    BY <2>2 DEF TypeOK, Begin
  <2>6. teaching[r] = <<>>  BY <2>2 DEF Begin
  <2> QED  BY <2>3, <2>4, <2>5, <2>6 DEF InStep, Todo
<1>2. ASSUME NEW r \in Request, Lock(r)
      PROVE  InStep'
  <2> DEFINE drawn == call[r].drawn
  <2>1. drawn \in Seq(Class) /\ drawn \in Drawn
    <3>1. call[r] \in Call  BY <1>2 DEF TypeOK, Lock, Teaching
    <3> QED  BY <3>1, DrawnType DEF Call
  <2>2. Distinct(drawn)  BY <2>1 DEF Drawn, Drawings, Distinct
  <2>3. teaching' = [teaching EXCEPT ![r] = [k \in DOMAIN drawn |-> <<call[r].image, drawn[k]>>]]
    BY <1>2 DEF Lock, Teaching
  <2>4. Todo(r)' = drawn
    <3>1. Todo(r)' = [k \in DOMAIN drawn |-> drawn[k]]  BY <2>3 DEF TypeOK, Todo
    <3> QED  BY <2>1, <3>1
  <2>5. /\ UNCHANGED <<project, classes, bank, call>>
        /\ pc' = [pc EXCEPT ![r] = "teach"] /\ holder' = r /\ holder = NoRequest
    BY <1>2 DEF Lock, Teaching, Goto, db, bankFiles
  <2>6. bank = classes["pool"]  BY <2>5 DEF InStep
  <2>7. \A q \in Request : q # r => pc'[q] = pc[q] /\ teaching'[q] = teaching[q]
    BY <2>3, <2>5 DEF TypeOK
  <2>8. pc'[r] = "teach" /\ holder' # NoRequest  BY <2>5, LabelingAssumption DEF TypeOK
  <2> HIDE DEF drawn
  <2> QED  BY <2>1, <2>2, <2>4, <2>5, <2>6, <2>7, <2>8 DEF InStep, Todo, drawn
<1>3. ASSUME NEW r \in Request, TeachNext(r)
      PROVE  InStep'
  <2> DEFINE c == Head(teaching[r])[2]
  <2>1. teaching[r] \in Seq(Image \X Class) /\ teaching[r] # <<>>  BY <1>3 DEF TypeOK, TeachNext
  <2>2. pc[r] = "teach" /\ call[r].op = "label"  BY <2>1 DEF InStep, StepsFit
  <2>3. /\ Todo(r) \in Seq(Class) /\ Distinct(Todo(r)) /\ Todo(r) # <<>>
        /\ Head(Todo(r)) = c /\ Todo(r)' = Tail(Todo(r))
    <3>1. Todo(r) \in Seq(Class) /\ Distinct(Todo(r))  BY <2>2 DEF InStep
    <3>2. teaching'[r] = Tail(teaching[r])  BY <1>3 DEF TypeOK, TeachNext
    <3>3. Len(Todo(r)) = Len(teaching[r]) /\ Todo(r) # <<>> /\ Head(Todo(r)) = c
      BY <2>1, <3>1 DEF Todo
    <3>4. DOMAIN Tail(teaching[r]) = 1..(Len(teaching[r]) - 1)
          /\ \A k \in 1..(Len(teaching[r]) - 1) : Tail(teaching[r])[k] = teaching[r][k + 1]
      BY <2>1
    <3>5. Todo(r)' = [k \in 1..(Len(teaching[r]) - 1) |-> teaching[r][k + 1][2]]
      BY <3>2, <3>4 DEF Todo
    <3>6. \A k \in 1..(Len(teaching[r]) - 1) : Todo(r)[k + 1] = teaching[r][k + 1][2]
      BY <2>1 DEF Todo
    <3>7. Todo(r)' \in Seq(Class) /\ Len(Todo(r)') = Len(teaching[r]) - 1
      <4>1. Len(teaching[r]) - 1 \in Nat  BY <2>1
      <4>2. \A k \in 1..(Len(teaching[r]) - 1) : teaching[r][k + 1][2] \in Class
        BY <2>1
      <4> QED  BY <3>5, <4>1, <4>2
    <3>8. /\ Tail(Todo(r)) \in Seq(Class) /\ Len(Tail(Todo(r))) = Len(Todo(r)) - 1
          /\ \A k \in 1..(Len(Todo(r)) - 1) : Tail(Todo(r))[k] = Todo(r)[k + 1]
      BY <3>1, <3>3, HeadTailProperties
    <3>9. \A k \in 1..(Len(teaching[r]) - 1) : Todo(r)'[k] = Tail(Todo(r))[k]
      BY <3>3, <3>5, <3>6, <3>8
    <3>10. Todo(r)' = Tail(Todo(r))  BY <3>3, <3>7, <3>8, <3>9, SeqEqual
    <3> QED  BY <3>1, <3>3, <3>10
  <2>4. bank' = Register(bank, <<c>>)  BY <1>3 DEF TeachNext
  <2>5. Register(bank', Todo(r)') = Register(bank, Todo(r))
    BY <1>0, <2>3, <2>4, RegisterSplit
  <2>6. Todo(r)' \in Seq(Class) /\ Distinct(Todo(r)')  BY <2>3, HeadTail
  <2>7. \A d \in Known(bank) : bank'[d] = bank[d]
    <3>1. c \in Class  BY <2>3
    <3>2. Names(<<c>>) \subseteq Class  BY <3>1 DEF Names
    <3> HIDE DEF c
    <3> QED  BY <1>0, <2>4, <3>2, RegisterKnown
  <2>8. \A d \in Known(classes["pool"]) : bank'[d] = classes["pool"][d]
    BY <2>7 DEF InStep, Known
  <2>9. UNCHANGED <<project, classes, holder, pc, call>>  BY <1>3 DEF TeachNext, db
  <2>10. \A q \in Request : q # r => teaching'[q] = teaching[q]  BY <1>3 DEF TypeOK, TeachNext
  <2>11. \A q \in Request : pc[q] \in Critical /\ call[q].op = "label" => q = r
    BY <2>2, OneSaver DEF Critical
  <2>12. holder # NoRequest  BY <2>2, OneSaver DEF Critical
  <2> HIDE DEF c
  <2>13. \A q \in Request :
           /\ teaching'[q] # <<>> => pc[q] = "teach"
           /\ pc[q] \in {"teach", "write", "mark", "reply"} /\ call[q].op = "label" => q = r
    BY <2>2, <2>10, <2>11 DEF InStep, Critical
  <2>14. \A q \in Request : pc[q] = "teach" => q = r  BY <2>13 DEF StepsFit
  <2> QED
    BY <2>2, <2>5, <2>6, <2>8, <2>9, <2>12, <2>13, <2>14 DEF InStep
<1>4. ASSUME NEW r \in Request, TeachDone(r)
      PROVE  InStep'
  <2>1. pc[r] = "teach" /\ teaching[r] = <<>>  BY <1>4 DEF TeachDone
  <2>2. Todo(r) = <<>>  BY <2>1 DEF Todo
  <2>3. bank = Register(classes["pool"], call[r].drawn)
    BY <1>0, <2>1, <2>2, RegisterNothing DEF InStep
  <2>4. UNCHANGED <<project, classes, bank, holder, call, teaching>>
    BY <1>4 DEF TeachDone, Goto, db, bankFiles
  <2>5. pc'[r] = "write" /\ \A q \in Request : q # r => pc'[q] = pc[q]
    BY <1>4 DEF TypeOK, TeachDone, Goto
  <2> QED  BY <2>1, <2>3, <2>4, <2>5 DEF InStep, Todo
<1>5. ASSUME NEW r \in Request, Write(r)
      PROVE  InStep'
  <2>1. UNCHANGED <<project, bank, holder, call, teaching>>
    BY <1>5 DEF Write, WriteBoxes, Goto, bankFiles
  <2>2. pc'[r] \in {"mark", "reply"} /\ \A q \in Request : q # r => pc'[q] = pc[q]
    BY <1>5 DEF TypeOK, Write, Goto
  <2>3. pc[r] = "write" /\ call[r].op \in {"label", "testset"}  BY <1>0, <1>5 DEF Write
  <2>4. teaching[r] = <<>>  BY <2>3 DEF InStep
  <2>5. CASE call[r].op = "label"
    <3>1. classes'["pool"] = bank
      BY <1>5, <2>3, <2>5 DEF TypeOK, Write, WriteBoxes, Kind, InStep
    <3>2. \A q \in Request : pc[q] = "teach" => q = r
      BY <2>3, <2>5, OneSaver DEF StepsFit, Critical
    <3>3. \A q \in Request : pc[q] \in Critical /\ call[q].op = "label" => q = r
      BY <2>3, <2>5, OneSaver DEF Critical
    <3>4. pc[r] # "teach"  BY <2>3
    <3> QED  BY <2>1, <2>2, <2>4, <3>1, <3>2, <3>3, <3>4 DEF InStep, Critical, Todo
  <2>6. CASE call[r].op = "testset"
    <3>1. classes'["pool"] = classes["pool"]
      BY <1>5, <2>6 DEF TypeOK, Write, WriteBoxes, Kind
    <3> QED  BY <2>1, <2>2, <2>4, <2>6, <3>1 DEF InStep, Todo
  <2> QED  BY <2>3, <2>5, <2>6
<1>6. ASSUME NEW r \in Request, Mark(r)
      PROVE  InStep'
  <2>1. UNCHANGED <<project, classes, bank, holder, call, teaching>>
    BY <1>6 DEF Mark, MarkLabeled, Goto, bankFiles
  <2>2. pc[r] = "mark" /\ pc'[r] = "reply" /\ \A q \in Request : q # r => pc'[q] = pc[q]
    BY <1>6 DEF TypeOK, Mark, Goto
  <2> QED  BY <2>1, <2>2 DEF InStep, Todo
<1>7. ASSUME NEW r \in Request, Reply(r)
      PROVE  InStep'
  <2>1. UNCHANGED <<project, classes, bank, teaching>>
    BY <1>7 DEF Reply, End, db, bankFiles
  <2>2. /\ pc[r] = "reply" /\ pc'[r] = "idle"
        /\ \A q \in Request : q # r => pc'[q] = pc[q] /\ call'[q] = call[q]
    BY <1>7 DEF TypeOK, Reply, End
  <2>3. holder' = NoRequest => bank = classes["pool"]
    <3>1. CASE holder = r
      BY <2>2, <3>1 DEF InStep, LockDiscipline
    <3>2. CASE holder # r  BY <1>7, <3>2 DEF Reply, End, InStep
    <3> QED  BY <3>1, <3>2
  <2> QED  BY <2>1, <2>2, <2>3 DEF InStep, Todo
<1>8. ASSUME NEW S \in SUBSET Image, TestsetImport(S) \/ TestsetRemove(S)
      PROVE  InStep'
  <2>1. UNCHANGED <<project, classes, bank, holder, pc, call, teaching>>
    BY <1>8 DEF TestsetImport, TestsetRemove, bankFiles
  <2> QED  BY <2>1 DEF InStep, Todo
<1>9. ASSUME UNCHANGED vars PROVE InStep'
  BY <1>9 DEF vars, db, bankFiles, InStep, Todo
<1>10. \A r \in Request : ~TeachFails(r) /\ ~Check(r) /\ ~Fail(r)
  BY DEF TeachFails, Check, Fail, RequireProject, InStep
<1>11. ~OpenSession /\ ~DeleteProject /\ ~Restart
  BY DEF OpenSession, DeleteProject, Restart
<1> QED
  BY <1>1, <1>2, <1>3, <1>4, <1>5, <1>6, <1>7, <1>8, <1>9, <1>10, <1>11
  DEF Next, RequestStep

(***************************************************************************)
(* Among saves that succeed, however many and however they interleave, the  *)
(* database lists the classes in the bank's order.                          *)
(***************************************************************************)
THEOREM SavesKeepOrder ==
  ASSUME SavesOnly
  PROVE  Spec => []ClassOrderAgrees
<1>1. Init => LockDiscipline /\ StepsFit
  BY LabelingAssumption DEF Init, LockDiscipline, StepsFit, Critical
<1>2. Init => InStep
  BY DEF Init, InStep, NoClasses, Kind
<1>3. InStep => ClassOrderAgrees
  BY DEF InStep, ClassOrderAgrees
<1>4. TypeOK /\ LockDiscipline /\ StepsFit /\ InStep /\ [Next]_vars => InStep'
  BY InStepStep
<1> QED  BY <1>1, <1>2, <1>3, <1>4, TypeInit, TypeStep, LockStep, PTL DEF Spec
=============================================================================
