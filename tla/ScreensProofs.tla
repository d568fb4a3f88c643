--------------------------- MODULE ScreensProofs ---------------------------
(***************************************************************************)
(* The safety of the screens, for all values of the constants: each screen *)
(* has its inductive invariant, and a step of the composition is a step of *)
(* the screen a behaviour picked or leaves that screen as it is.           *)
(***************************************************************************)
EXTENDS Screens, FiniteSetTheorems, SequenceTheorems, TLAPS

vars == <<screen, benchmark, readiness, workspace, labels, home, report, download>>

-----------------------------------------------------------------------------
(***************************************************************************)
(* Benchmark.                                                              *)
(***************************************************************************)
BInv == B!TypeOK /\ B!KeyStraysOnlyByImport

LEMMA BenchmarkBegins == ASSUME B!Init PROVE BInv
<1>1. key \in [TestImages -> TestImages \cup {None}] /\ \A i \in TestImages : key[i] \in {None, i}
  BY DEF B!Init
<1>2. tsCurrent \in TestImages \cup {None}
  BY DEF B!Init, B!FirstOf, B!Keyed
<1>3. B!Keyed \subseteq TestImages
  BY DEF B!Init, B!Keyed
<1>4. opCountB \in 0..MaxOpsB /\ othersB \in 0..MaxOthersB
  BY BenchmarkAssumption DEF B!Init
<1> QED  BY <1>1, <1>2, <1>3, <1>4 DEF BInv, B!Init, B!TypeOK, B!KeyStraysOnlyByImport

LEMMA BenchmarkCanvas ==
  ASSUME BInv,
         \/ B!Draw \/ B!Clear \/ B!Skip \/ B!SelectAll
         \/ (\E p \in tsImages : B!goToTsImage(p)) \/ (\E p \in TestImages : B!TickPool(p))
         \/ (\E p \in tsImages : B!TickTest((tsPick \ {p}) \cup ({p} \ tsPick)))
  PROVE  BInv'
BY DEF BInv, B!TypeOK, B!KeyStraysOnlyByImport, B!Draw, B!Clear, B!Skip, B!SelectAll,
       B!goToTsImage, B!TickPool, B!TickTest, B!FirstOf, B!poolCandidates, B!server

LEMMA BenchmarkGuard ==
  ASSUME BInv, NEW kind \in {"import", "save", "remove"}, NEW paths \in SUBSET TestImages,
         B!guard(kind, paths), kind = "save" => paths = {tsCurrent} /\ drawn # None
  PROVE  BInv'
<1> DEFINE new == [id |-> opCountB + 1, kind |-> kind, paths |-> paths, drawn |-> drawn,
                   current |-> tsCurrent, list |-> tsImages,
                   st |-> "sent", images |-> {}, labeled |-> {}]
<1>1. opCountB + 1 \in 1..MaxOpsB /\ opCountB' \in 0..MaxOpsB
  BY BenchmarkAssumption DEF BInv, B!TypeOK, B!guard
<1>2. new \in B!Op
  BY <1>1 DEF BInv, B!TypeOK, B!Op
<1>3. opsB' = opsB \cup {new}  BY DEF B!guard
<1>4. new.kind = kind /\ new.paths = paths /\ new.drawn = drawn  OBVIOUS
<1> HIDE DEF new
<1>5. B!TypeOK'
  BY <1>1, <1>2, <1>3 DEF BInv, B!TypeOK, B!guard, B!server
<1>6. B!KeyStraysOnlyByImport'
  BY <1>3, <1>4 DEF BInv, B!KeyStraysOnlyByImport, B!guard, B!server
<1> QED  BY <1>5, <1>6 DEF BInv

LEMMA BenchmarkActs ==
  ASSUME BInv, \/ B!importToTestset \/ B!addRandomFromPool \/ B!removeFromTestset
               \/ B!saveTestset \/ B!SaveNothing
  PROVE  BInv'
<1>1. CASE B!importToTestset
  BY <1>1, BenchmarkGuard DEF BInv, B!TypeOK, B!importToTestset
<1>2. CASE B!addRandomFromPool
  BY <1>2, BenchmarkGuard DEF B!addRandomFromPool, B!poolCandidates
<1>3. CASE B!removeFromTestset
  BY <1>3, BenchmarkGuard DEF BInv, B!TypeOK, B!removeFromTestset
<1>4. CASE B!saveTestset
  <2>1. {tsCurrent} \in SUBSET TestImages
    BY <1>4 DEF BInv, B!TypeOK, B!saveTestset
  <2> QED  BY <1>4, <2>1, BenchmarkGuard DEF B!saveTestset
<1>5. CASE B!SaveNothing
  BY <1>5 DEF BInv, B!TypeOK, B!KeyStraysOnlyByImport, B!SaveNothing, B!server
<1> QED  BY <1>1, <1>2, <1>3, <1>4, <1>5

LEMMA BenchmarkServe ==
  ASSUME BInv, NEW op \in opsB, B!Serve(op)
  PROVE  BInv'
<1> DEFINE served == [op EXCEPT !.st = "served", !.images = flagged',
                                !.labeled = {i \in flagged' : key'[i] # None}]
<1>1. op \in B!Op /\ opsB' = (opsB \ {op}) \cup {served}
  BY DEF BInv, B!TypeOK, B!Serve
<1>2. op.paths \in SUBSET TestImages /\ op.drawn \in TestImages \cup {None}
  BY <1>1 DEF B!Op
<1>3. flagged' \in SUBSET TestImages /\ key' \in [TestImages -> TestImages \cup {None}]
  BY <1>1, <1>2 DEF BInv, B!TypeOK, B!Serve, B!Op
<1>4. served \in B!Op
  BY <1>1, <1>3 DEF B!Op
<1>5. served.kind = op.kind /\ served.paths = op.paths /\ served.drawn = op.drawn
  BY <1>1 DEF B!Op
<1> HIDE DEF served
<1>6. B!TypeOK'
  BY <1>1, <1>3, <1>4 DEF BInv, B!TypeOK, B!Serve, B!tab
<1>7. B!KeyStraysOnlyByImport'
  <2>1. CASE op.kind = "save"
    BY <1>1, <1>2, <1>5, <2>1 DEF BInv, B!KeyStraysOnlyByImport, B!Serve, B!tab
  <2>2. CASE op.kind # "save"
    <3>1. \A i \in TestImages : key'[i] \in {key[i], None}
      BY <1>1, <2>2 DEF BInv, B!TypeOK, B!Serve, B!Op
    <3> QED  BY <1>1, <1>5, <2>2, <3>1 DEF BInv, B!KeyStraysOnlyByImport, B!Serve, B!tab
  <2> QED  BY <2>1, <2>2
<1> QED  BY <1>6, <1>7 DEF BInv

LEMMA BenchmarkAnswers ==
  ASSUME BInv, NEW op \in opsB,
         B!ImportAnswer(op) \/ B!SaveAnswer(op) \/ B!RemoveAnswer(op) \/ B!OpFails(op)
  PROVE  BInv'
<1>1. op \in B!Op  BY DEF BInv, B!TypeOK
<1>2. /\ op.images \in SUBSET TestImages /\ op.labeled \in SUBSET TestImages
      /\ op.list \in SUBSET TestImages
  BY <1>1 DEF B!Op
<1> QED
  BY <1>2 DEF BInv, B!TypeOK, B!KeyStraysOnlyByImport, B!ImportAnswer, B!SaveAnswer,
     B!RemoveAnswer, B!OpFails, B!Answered, B!FirstOf, B!server

LEMMA BenchmarkOthers ==
  ASSUME BInv, B!Poll \/ (\E i \in TestImages : B!OtherChanges(i))
  PROVE  BInv'
<1>1. CASE B!Poll
  BY <1>1 DEF BInv, B!TypeOK, B!KeyStraysOnlyByImport, B!Poll, B!Keyed, B!server
<1>2. CASE \E i \in TestImages : B!OtherChanges(i)
  BY <1>2, BenchmarkAssumption DEF BInv, B!TypeOK, B!KeyStraysOnlyByImport, B!OtherChanges, B!tab
<1> QED  BY <1>1, <1>2

LEMMA BenchmarkStep == ASSUME BInv, B!Next PROVE BInv'
BY BenchmarkCanvas, BenchmarkActs, BenchmarkServe, BenchmarkAnswers, BenchmarkOthers DEF B!Next

LEMMA BenchmarkStays == ASSUME BInv, UNCHANGED benchmark PROVE BInv'
BY DEF BInv, B!TypeOK, B!KeyStraysOnlyByImport, benchmark

LEMMA BenchmarkAlways == Spec => [](screen = "benchmark" => BInv)
<1> DEFINE Inv == screen = "benchmark" => BInv
<1>1. Init => Inv
  BY BenchmarkBegins DEF Init
<1>2. Inv /\ [Next]_vars => Inv'
  <2> SUFFICES ASSUME Inv, [Next]_vars, screen = "benchmark"  PROVE BInv'
    BY DEF Next, vars
  <2> QED  BY BenchmarkStep, BenchmarkStays DEF Next, vars
<1> QED  BY <1>1, <1>2, PTL DEF Spec, vars

(* The answer key on screen was drawn on the image it grades, whatever     *)
(* overlaps: only an import that a person leapt away from can leave one    *)
(* under another image (session.ts:787, 794-819).                          *)
THEOREM NoKeyStrays == Spec => []KeyStraysOnlyByImport
<1>1. (screen = "benchmark" => BInv) => KeyStraysOnlyByImport
  BY DEF KeyStraysOnlyByImport, BInv
<1> QED  BY <1>1, BenchmarkAlways, PTL

-----------------------------------------------------------------------------
(***************************************************************************)
(* Home.  A project's owner never changes once there is one, and an id is  *)
(* handed out once: what a call knew of a project's owner when it was      *)
(* checked or answered stays true as long as the project is there.         *)
(***************************************************************************)
Own(i, u) == projects[i] = None \/ projects[i].owner = u

CallFits(u, c) ==
  /\ c \in H!Call
  /\ c.op \in {"rename", "create"} => c.name \in ProjectNames
  /\ c.op \in {"rename", "claim", "delete"} => c.id \in H!Ids
  /\ c.st = "checked" => c.id \in 1..made /\ (c.unowned \/ Own(c.id, u))
  /\ c.op = "create" /\ c.st = "done" => c.id \in 1..made /\ Own(c.id, u)

CallsFit == \A u \in People : \A c \in calls[u] : CallFits(u, c)

OnlyMade == \A i \in H!Ids : projects[i] # None => i <= made

SentToOwn == \A u \in People : at[u] # None => at[u] \in 1..made /\ Own(at[u], u)

HInv == /\ H!TypeOK /\ calls \in [People -> SUBSET H!Call]
        /\ CallsFit /\ OnlyMade /\ SentToOwn

\* What a step may do to the database.
StoreKept ==
  /\ projects' \in H!Rows /\ made' \in made..MaxProjects /\ OnlyMade'
  /\ \A u \in People, i \in 1..made : Own(i, u) => Own(i, u)'

LEMMA StoreSame == ASSUME HInv, UNCHANGED <<projects, made>> PROVE StoreKept
BY HomeAssumption DEF HInv, H!TypeOK, StoreKept, OnlyMade, Own

LEMMA FitStays ==
  ASSUME HInv, StoreKept, NEW u \in People, NEW c, CallFits(u, c)
  PROVE  CallFits(u, c)'
<1>1. 1..made \subseteq 1..made'  BY HomeAssumption DEF HInv, H!TypeOK, StoreKept
<1> QED  BY <1>1 DEF StoreKept, CallFits

\* The calls of one page change, into calls that fit.
LEMMA CallsChange ==
  ASSUME HInv, StoreKept, NEW u \in People, NEW S, calls' = [calls EXCEPT ![u] = S],
         \A c \in S : c \in calls[u] \/ CallFits(u, c)'
  PROVE  calls' \in [People -> SUBSET H!Call] /\ CallsFit'
<1>1. ASSUME NEW v \in People, NEW c \in calls'[v]  PROVE CallFits(v, c)'
  <2>1. v = u => calls'[v] = S  BY DEF HInv
  <2>2. v # u => calls'[v] = calls[v]  BY DEF HInv
  <2>3. c \in calls[v] => CallFits(v, c)'  BY FitStays DEF HInv, CallsFit
  <2> QED  BY <1>1, <2>1, <2>2, <2>3
<1>2. \A c \in S : c \in H!Call
  BY DEF HInv, CallFits
<1> QED  BY <1>1, <1>2 DEF HInv, CallsFit

LEMMA CallsStay ==
  ASSUME HInv, StoreKept, UNCHANGED calls
  PROVE  calls' \in [People -> SUBSET H!Call] /\ CallsFit'
BY FitStays DEF HInv, CallsFit

\* A free place is a place.
LEMMA FirstIsFree ==
  ASSUME NEW u \in People, H!Free(u) # {}
  PROVE  H!First(u) \in H!Free(u) /\ H!First(u) \in 1..MaxCalls
<1> DEFINE Below == {ss \in Nat \X Nat : ss[1] < ss[2]}
           F == H!Free(u)
<1>1. F \subseteq Nat /\ F \subseteq 1..MaxCalls
  BY HomeAssumption DEF H!Free
<1>2. IsWellFoundedOn(Below, Nat)  BY NatLessThanWellFounded DEF OpToRel
<1>3. PICK x \in F : \A y \in F : ~(<<y, x>> \in Below)
  <2> HIDE DEF Below, F
  <2> QED  BY <1>1, <1>2, WFMin DEF F
<1>4. \A y \in F : x <= y
  <2> SUFFICES ASSUME NEW y \in F  PROVE x <= y  OBVIOUS
  <2>1. x \in Nat /\ y \in Nat
    <3> HIDE DEF F
    <3> QED  BY <1>1
  <2>2. ~(y < x)
    <3> HIDE DEF F
    <3> QED  BY <1>3, <2>1
  <2> QED  BY <2>1, <2>2
<1>5. H!First(u) \in F  BY <1>4 DEF H!First
<1> QED  BY <1>1, <1>5

LEMMA RequestFits ==
  ASSUME HInv, NEW u \in People, NEW n \in 1..MaxCalls,
         NEW op \in {"list", "rename", "claim", "delete", "create"},
         NEW id \in H!Ids \cup {None}, NEW name \in ProjectNames \cup {None},
         op \in {"rename", "create"} => name \in ProjectNames,
         op \in {"rename", "claim", "delete"} => id \in H!Ids
  PROVE  CallFits(u, H!Request(n, op, id, name))
BY HomeAssumption DEF CallFits, H!Request, H!Call, H!Nothing, H!Rows

\* The rest of the state: what the pages show.
PageType ==
  /\ rows \in [People -> H!Rows \cup {None}]
  /\ renaming \in [People -> H!Ids \cup {None}]
  /\ error \in [People -> BOOLEAN]
  /\ confirmH \in [People -> H!Ids \cup {None}]
  /\ dialogH \in [People -> H!Dialog \cup {None}]
  /\ at \in [People -> H!Ids \cup {None}] /\ asked \in 0..MaxAsked

LEMMA HomeAgain ==
  ASSUME HInv, StoreKept, calls' \in [People -> SUBSET H!Call], CallsFit', PageType',
         \A u \in People : at'[u] \in {at[u], None} \/ (at'[u] \in 1..made' /\ Own(at[u], u)')
  PROVE  HInv'
<1>1. made' \in 0..MaxProjects /\ 1..made \subseteq 1..made'
  BY HomeAssumption DEF StoreKept, HInv, H!TypeOK
<1>2. H!TypeOK'
  BY <1>1 DEF H!TypeOK, PageType, StoreKept
<1>3. SentToOwn'
  BY <1>1 DEF SentToOwn, StoreKept, HInv
<1> QED  BY <1>2, <1>3 DEF HInv, StoreKept

\* Steps that ask for nothing.
LEMMA HomeClicks ==
  ASSUME HInv, NEW u \in People,
         \/ \E i \in H!Ids : H!startRename(u, i) \/ H!onDelete(u, i)
         \/ H!CancelRename(u) \/ H!NotDeleted(u)
         \/ H!NewProject(u) \/ H!Fill(u) \/ H!CloseDialog(u)
  PROVE  HInv'
<1>1. UNCHANGED <<projects, made, calls, at>>
  BY DEF H!startRename, H!onDelete, H!CancelRename, H!NotDeleted, H!NewProject, H!Fill,
     H!CloseDialog, H!server
<1>2. StoreKept  BY <1>1, StoreSame
<1>3. PageType
  BY DEF HInv, H!TypeOK, PageType
<1>4. UNCHANGED <<rows, error, at, asked>>
  BY DEF H!startRename, H!onDelete, H!CancelRename, H!NotDeleted, H!NewProject, H!Fill,
     H!CloseDialog
<1>5. renaming' \in [People -> H!Ids \cup {None}]
  BY <1>3 DEF PageType, H!startRename, H!onDelete, H!CancelRename, H!NotDeleted, H!NewProject,
     H!Fill, H!CloseDialog
<1>6. confirmH' \in [People -> H!Ids \cup {None}]
  BY <1>3 DEF PageType, H!startRename, H!onDelete, H!CancelRename, H!NotDeleted, H!NewProject,
     H!Fill, H!CloseDialog
<1>7. dialogH' \in [People -> H!Dialog \cup {None}]
  <2>1. CASE H!NewProject(u)
    BY <1>3, <2>1, HomeAssumption DEF PageType, H!NewProject, H!Dialog
  <2>2. CASE H!Fill(u)
    <3>1. dialogH[u] \in H!Dialog  BY <1>3, <2>2 DEF PageType, H!Fill, H!InDialog
    <3>2. [dialogH[u] EXCEPT !.filled = ~@] \in H!Dialog  BY <3>1 DEF H!Dialog
    <3> QED  BY <1>3, <2>2, <3>2 DEF PageType, H!Fill
  <2>3. CASE ~H!NewProject(u) /\ ~H!Fill(u)
    BY <1>3, <2>3 DEF PageType, H!startRename, H!onDelete, H!CancelRename, H!NotDeleted,
       H!CloseDialog
  <2> QED  BY <2>1, <2>2, <2>3
<1>8. PageType'  BY <1>3, <1>4, <1>5, <1>6, <1>7 DEF PageType
<1> QED  BY <1>1, <1>2, <1>8, CallsStay, HomeAgain

\* Steps that ask for something.
LEMMA HomeAsks ==
  ASSUME HInv, NEW u \in People,
         NEW op \in {"list", "rename", "claim", "delete", "create"},
         NEW id \in H!Ids \cup {None}, NEW name \in ProjectNames \cup {None},
         op \in {"rename", "create"} => name \in ProjectNames,
         op \in {"rename", "claim", "delete"} => id \in H!Ids,
         H!Ask(u, op, id, name), UNCHANGED <<projects, made>>
  PROVE  /\ StoreKept /\ calls' \in [People -> SUBSET H!Call] /\ CallsFit'
         /\ asked' \in 0..MaxAsked /\ H!First(u) \in 1..MaxCalls
<1>1. StoreKept  BY StoreSame
<1>2. H!First(u) \in 1..MaxCalls  BY FirstIsFree DEF H!Ask
<1>3. PICK new : new = H!Request(H!First(u), op, id, name)  OBVIOUS
<1>4. CallFits(u, new)'  BY <1>1, <1>2, <1>3, RequestFits, FitStays
<1>5. PICK S : S = calls[u] \cup {new}  OBVIOUS
<1>6. calls' = [calls EXCEPT ![u] = S]  BY <1>3, <1>5 DEF H!Ask
<1>7. calls' \in [People -> SUBSET H!Call] /\ CallsFit'
  BY <1>1, <1>4, <1>5, <1>6, CallsChange
<1>8. asked' \in 0..MaxAsked  BY HomeAssumption DEF H!Ask, HInv, H!TypeOK
<1> QED  BY <1>1, <1>2, <1>7, <1>8

LEMMA HomeRequests ==
  ASSUME HInv, NEW u \in People,
         \/ H!reload(u) \/ (\E i \in H!Ids : H!Claim(u, i))
         \/ (\E n \in ProjectNames : H!submit(u, n) \/ H!rename(u, n))
         \/ H!Confirmed(u) \/ H!Home(u)
  PROVE  HInv'
<1>1. PageType  BY DEF HInv, H!TypeOK, PageType
<1>2. CASE H!reload(u)
  <2>1. UNCHANGED <<projects, made, rows, renaming, error, confirmH, dialogH, at>>
    BY <1>2 DEF H!reload, H!server, H!page
  <2>2. H!Ask(u, "list", None, None)  BY <1>2 DEF H!reload
  <2> QED  BY <1>1, <2>1, <2>2, HomeAsks, HomeAgain DEF PageType
<1>3. CASE \E i \in H!Ids : H!Claim(u, i)
  <2>1. UNCHANGED <<projects, made, rows, renaming, error, confirmH, dialogH, at>>
    BY <1>3 DEF H!Claim, H!server, H!page
  <2>2. PICK i \in H!Ids : H!Ask(u, "claim", i, None)  BY <1>3 DEF H!Claim
  <2> QED  BY <1>1, <2>1, <2>2, HomeAsks, HomeAgain DEF PageType
<1>4. CASE \E n \in ProjectNames : H!submit(u, n)
  <2>1. UNCHANGED <<projects, made, rows, renaming, error, confirmH, at>>
    BY <1>4 DEF H!submit, H!server
  <2>2. PICK n \in ProjectNames : H!Ask(u, "create", None, n)  BY <1>4 DEF H!submit
  <2>3. /\ StoreKept /\ calls' \in [People -> SUBSET H!Call] /\ CallsFit'
        /\ asked' \in 0..MaxAsked /\ H!First(u) \in 1..MaxCalls
    BY <2>1, <2>2, HomeAsks
  <2>4. dialogH[u] \in H!Dialog /\ dialogH' = [dialogH EXCEPT ![u].busy = H!First(u)]
    BY <1>1, <1>4 DEF PageType, H!submit, H!InDialog
  <2>5. [dialogH[u] EXCEPT !.busy = H!First(u)] \in H!Dialog
    BY <2>3, <2>4, HomeAssumption DEF H!Dialog
  <2>6. dialogH' \in [People -> H!Dialog \cup {None}]
    BY <1>1, <2>4, <2>5 DEF PageType
  <2> QED  BY <1>1, <2>1, <2>3, <2>6, HomeAgain DEF PageType
<1>5. CASE \E n \in ProjectNames : H!rename(u, n)
  <2>1. PICK n \in ProjectNames : H!rename(u, n)  BY <1>5
  <2>2. /\ UNCHANGED <<projects, made, rows, error, confirmH, dialogH, at>>
        /\ renaming[u] \in H!Ids
    BY <1>1, <2>1 DEF H!rename, H!server, PageType
  <2>3. CASE n = rows[u][renaming[u]].name
    <3>1. UNCHANGED <<calls, asked>> /\ renaming' = [renaming EXCEPT ![u] = None]
      BY <2>1, <2>3 DEF H!rename
    <3>2. StoreKept  BY <2>2, StoreSame
    <3>3. PageType'  BY <1>1, <2>2, <3>1 DEF PageType
    <3> QED  BY <2>2, <3>1, <3>2, <3>3, CallsStay, HomeAgain
  <2>4. CASE n # rows[u][renaming[u]].name
    <3>1. PICK i \in H!Ids : i = renaming[u]  BY <2>2
    <3>2. H!Ask(u, "rename", i, n) /\ UNCHANGED renaming
      BY <2>1, <2>4, <3>1 DEF H!rename
    <3>3. /\ StoreKept /\ calls' \in [People -> SUBSET H!Call] /\ CallsFit'
          /\ asked' \in 0..MaxAsked
      BY <2>2, <3>2, HomeAsks
    <3> QED  BY <1>1, <2>2, <3>2, <3>3, HomeAgain DEF PageType
  <2> QED  BY <2>3, <2>4
<1>6. CASE H!Confirmed(u)
  <2>1. /\ UNCHANGED <<projects, made, rows, renaming, error, dialogH, at>>
        /\ confirmH' = [confirmH EXCEPT ![u] = None]
    BY <1>6 DEF H!Confirmed, H!server
  <2>2. PICK i \in H!Ids : i = confirmH[u]  BY <1>1, <1>6 DEF PageType, H!Confirmed
  <2>3. H!Ask(u, "delete", i, None)  BY <1>6, <2>2 DEF H!Confirmed
  <2> QED  BY <1>1, <2>1, <2>3, HomeAsks, HomeAgain DEF PageType
<1>7. CASE H!Home(u)
  <2>1. /\ UNCHANGED <<projects, made, rows, renaming, error, confirmH, dialogH>>
        /\ at' = [at EXCEPT ![u] = None]
    BY <1>7 DEF H!Home, H!server
  <2>2. H!Ask(u, "list", None, None)  BY <1>7 DEF H!Home
  <2> QED  BY <1>1, <2>1, <2>2, HomeAsks, HomeAgain DEF PageType
<1> QED  BY <1>2, <1>3, <1>4, <1>5, <1>6, <1>7

\* What the server does to the database, by request.
LEMMA StoreUpdated ==
  ASSUME HInv, NEW u \in People, NEW c \in calls[u], H!UpdateProject(u, c)
  PROVE  StoreKept /\ \A i \in H!Live : projects'[i] # None
<1>1. CASE projects' = projects
  BY <1>1, StoreSame DEF H!UpdateProject, H!Live
<1>2. CASE projects' # projects
  <2>1. /\ c.id \in H!Ids /\ projects[c.id] # None /\ made' = made
        /\ projects' = [projects EXCEPT ![c.id] = H!Updated(projects[c.id], u, c)]
    BY <1>2 DEF H!UpdateProject, HInv, H!TypeOK, H!Rows
  <2>2. projects[c.id] \in H!Project  BY <2>1 DEF HInv, H!TypeOK, H!Rows
  <2>3. c.op = "rename" => c.name \in ProjectNames  BY DEF HInv, CallsFit, CallFits
  <2>4. /\ H!Updated(projects[c.id], u, c) \in H!Project
        /\ projects[c.id].owner # None
             => H!Updated(projects[c.id], u, c).owner = projects[c.id].owner
    BY <2>2, <2>3 DEF H!Updated, H!Project
  <2>5. H!Updated(projects[c.id], u, c) # None
    BY <2>4, HomeAssumption DEF H!Project
  <2>6. OnlyMade'  BY <2>1, <2>5 DEF HInv, OnlyMade, H!TypeOK, H!Rows
  <2>7. ASSUME NEW v \in People, NEW i \in 1..made, Own(i, v)  PROVE Own(i, v)'
    BY <2>1, <2>4, <2>7, HomeAssumption DEF Own, HInv, H!TypeOK, H!Rows
  <2>8. projects' \in H!Rows  BY <2>1, <2>4 DEF HInv, H!TypeOK, H!Rows
  <2>9. made' \in made..MaxProjects  BY <2>1, HomeAssumption DEF HInv, H!TypeOK
  <2> QED  BY <2>1, <2>5, <2>6, <2>7, <2>8, <2>9 DEF StoreKept, H!Live, HInv, H!TypeOK, H!Rows
<1> QED  BY <1>1, <1>2

\* A call changes on its way.
LEMMA CallMoves ==
  ASSUME HInv, StoreKept, NEW u \in People, NEW c \in calls[u], NEW new, CallFits(u, new)',
         calls' = [calls EXCEPT ![u] = (@ \ {c}) \cup {new}]
  PROVE  calls' \in [People -> SUBSET H!Call] /\ CallsFit'
<1>1. PICK S : S = (calls[u] \ {c}) \cup {new}  OBVIOUS
<1> QED  BY <1>1, CallsChange

LEMMA ReplyFits ==
  ASSUME HInv, StoreKept, NEW u \in People, NEW c \in calls[u], NEW st \in {"refused", "done"},
         st = "done" => c.op # "create", H!Reply(u, c, st)
  PROVE  calls' \in [People -> SUBSET H!Call] /\ CallsFit'
<1>1. CallFits(u, c)  BY DEF HInv, CallsFit
<1>2. PICK new : new = [c EXCEPT !.st = st]  OBVIOUS
<1>3. CallFits(u, new)  BY <1>1, <1>2 DEF CallFits, H!Call
<1> QED  BY <1>2, <1>3, FitStays, CallMoves DEF H!Reply

LEMMA PageStays == ASSUME HInv, UNCHANGED <<rows, renaming, error, confirmH, dialogH, at, asked>>
                   PROVE  PageType' /\ \A v \in People : at'[v] \in {at[v], None}
BY DEF HInv, H!TypeOK, PageType

LEMMA HomeUpdates ==
  ASSUME HInv, NEW u \in People, NEW c \in calls[u], H!ListProjects(u, c) \/ H!UpdateProject(u, c)
  PROVE  HInv' /\ H!DeletesOwn
<1>1. CallFits(u, c)  BY DEF HInv, CallsFit
<1>2. CASE H!ListProjects(u, c)
  <2>1. StoreKept  BY <1>2, StoreSame DEF H!ListProjects, H!server
  <2>2. PICK new : new = [c EXCEPT !.st = "done", !.got = projects]  OBVIOUS
  <2>3. CallFits(u, new)
    BY <1>1, <1>2, <2>2 DEF CallFits, H!Call, H!ListProjects, HInv, H!TypeOK
  <2>4. calls' \in [People -> SUBSET H!Call] /\ CallsFit'
    BY <1>2, <2>1, <2>2, <2>3, FitStays, CallMoves DEF H!ListProjects
  <2>5. H!DeletesOwn  BY <1>2 DEF H!DeletesOwn, H!Live, H!ListProjects, H!server
  <2> QED  BY <1>2, <2>1, <2>4, <2>5, PageStays, HomeAgain DEF H!ListProjects, H!page
<1>3. CASE H!UpdateProject(u, c)
  <2>1. StoreKept /\ \A i \in H!Live : projects'[i] # None  BY <1>3, StoreUpdated
  <2>2. calls' \in [People -> SUBSET H!Call] /\ CallsFit'
    BY <1>3, <2>1, ReplyFits DEF H!UpdateProject
  <2>3. UNCHANGED <<rows, renaming, error, confirmH, dialogH, at, asked>>
    BY <1>3 DEF H!UpdateProject, H!page
  <2> QED  BY <2>1, <2>2, <2>3, PageStays, HomeAgain DEF H!DeletesOwn
<1> QED  BY <1>2, <1>3

LEMMA HomeCreates ==
  ASSUME HInv, NEW u \in People, NEW c \in calls[u], H!CreateProject(u, c)
  PROVE  HInv' /\ H!DeletesOwn
<1>1. CallFits(u, c)  BY DEF HInv, CallsFit
<1>2. UNCHANGED <<rows, renaming, error, confirmH, dialogH, at, asked>>
  BY DEF H!CreateProject, H!page
<1>3. CASE H!Live # {}
  <2>1. UNCHANGED <<projects, made>> /\ H!Reply(u, c, "refused")
    BY <1>3 DEF H!CreateProject, H!server
  <2>2. StoreKept  BY <2>1, StoreSame
  <2>3. calls' \in [People -> SUBSET H!Call] /\ CallsFit'  BY <2>1, <2>2, ReplyFits
  <2>4. H!DeletesOwn  BY <2>1 DEF H!DeletesOwn, H!Live
  <2> QED  BY <1>2, <2>2, <2>3, <2>4, PageStays, HomeAgain
<1>4. CASE H!Live = {}
  <2> DEFINE row == [owner |-> u, name |-> c.name]
  <2>1. /\ made < MaxProjects /\ made' = made + 1
        /\ projects' = [projects EXCEPT ![made + 1] = row]
        /\ calls' = [calls EXCEPT ![u] =
             (@ \ {c}) \cup {[c EXCEPT !.st = "done", !.id = made + 1]}]
    BY <1>4 DEF H!CreateProject
  <2>2. row \in H!Project /\ row # None /\ row.owner = u
    BY <1>1, HomeAssumption DEF CallFits, H!CreateProject, H!Project
  <2> HIDE DEF row
  <2>3. made \in Nat /\ MaxProjects \in Nat /\ made + 1 \in H!Ids /\ projects \in H!Rows
    BY <2>1, HomeAssumption DEF HInv, H!TypeOK, H!Ids
  <2>4. projects' \in H!Rows  BY <2>1, <2>2, <2>3 DEF H!Rows
  <2>5. OnlyMade'  BY <2>1, <2>3 DEF HInv, OnlyMade, H!Rows, H!Ids
  <2>6. ASSUME NEW i \in 1..made  PROVE projects'[i] = projects[i]
    BY <2>1, <2>3 DEF H!Rows
  <2>7. StoreKept  BY <2>1, <2>3, <2>4, <2>5, <2>6 DEF StoreKept, Own
  <2>8. PICK new : new = [c EXCEPT !.st = "done", !.id = made + 1]  OBVIOUS
  <2>9. projects'[made + 1].owner = u
    BY <2>1, <2>2, <2>3 DEF H!Rows
  <2>10. new \in H!Call /\ new.id = made' /\ new.st = "done" /\ new.op = "create"
        /\ new.name = c.name
    BY <1>1, <2>1, <2>3, <2>8 DEF CallFits, H!Call, H!CreateProject
  <2>11. new.id \in 1..made' /\ Own(new.id, u)'
    BY <2>1, <2>3, <2>9, <2>10 DEF Own
  <2>12. CallFits(u, new)'
    BY <1>1, <2>10, <2>11 DEF CallFits, H!CreateProject
  <2>13. calls' \in [People -> SUBSET H!Call] /\ CallsFit'
    BY <2>1, <2>7, <2>8, <2>12, CallMoves
  <2>14. H!DeletesOwn  BY <1>4 DEF H!DeletesOwn
  <2> QED  BY <1>2, <2>7, <2>13, <2>14, PageStays, HomeAgain
<1> QED  BY <1>3, <1>4

LEMMA HomeDeletes ==
  ASSUME HInv, NEW u \in People, NEW c \in calls[u], H!CheckOwner(u, c) \/ H!DeleteProject(u, c)
  PROVE  HInv' /\ H!DeletesOwn
<1>1. CallFits(u, c)  BY DEF HInv, CallsFit
<1>2. UNCHANGED <<made, rows, renaming, error, confirmH, dialogH, at, asked>>
  BY DEF H!CheckOwner, H!DeleteProject, H!page, H!server
<1>3. CASE H!CheckOwner(u, c)
  <2>1. UNCHANGED projects  BY <1>3 DEF H!CheckOwner, H!server
  <2>2. StoreKept  BY <1>2, <2>1, StoreSame
  <2>3. H!DeletesOwn  BY <2>1 DEF H!DeletesOwn, H!Live
  <2>4. calls' \in [People -> SUBSET H!Call] /\ CallsFit'
    <3>1. CASE projects[c.id] = None \/ projects[c.id].owner \notin {None, u}
      BY <1>3, <2>2, <3>1, ReplyFits DEF H!CheckOwner
    <3>2. CASE ~(projects[c.id] = None \/ projects[c.id].owner \notin {None, u})
      <4>1. PICK new : new = [c EXCEPT !.st = "checked", !.unowned = projects[c.id].owner = None]
        OBVIOUS
      <4>2. calls' = [calls EXCEPT ![u] = (@ \ {c}) \cup {new}]
        BY <1>3, <3>2, <4>1 DEF H!CheckOwner
      <4>3. c.id \in 1..made
        BY <1>1, <1>3, <3>2 DEF CallFits, H!CheckOwner, HInv, OnlyMade, H!Ids, H!TypeOK
      <4>4. new \in H!Call /\ new.op = "delete" /\ new.id = c.id /\ new.st = "checked"
        BY <1>1, <1>3, <4>1 DEF CallFits, H!Call, H!CheckOwner
      <4>5. new.unowned \/ Own(new.id, u)
        BY <1>1, <1>3, <3>2, <4>1 DEF CallFits, H!Call, H!CheckOwner, Own
      <4>6. new.id \in H!Ids  BY <1>1, <1>3, <4>4 DEF CallFits, H!CheckOwner
      <4> HIDE <4>1
      <4>7. CallFits(u, new)  BY <4>3, <4>4, <4>5, <4>6 DEF CallFits
      <4> QED  BY <2>2, <4>2, <4>7, FitStays, CallMoves
    <3> QED  BY <3>1, <3>2
  <2> QED  BY <1>2, <2>2, <2>3, <2>4, PageStays, HomeAgain
<1>4. CASE H!DeleteProject(u, c)
  <2>1. projects' = [projects EXCEPT ![c.id] = None]  BY <1>4 DEF H!DeleteProject
  <2>2. projects \in H!Rows /\ made \in 0..MaxProjects  BY DEF HInv, H!TypeOK
  <2>3. \A i \in H!Ids : projects'[i] \in {projects[i], None}  BY <2>1, <2>2 DEF H!Rows
  <2>4. projects' \in H!Rows  BY <2>1, <2>2 DEF H!Rows
  <2>5. 1..made \subseteq H!Ids /\ made' \in made..MaxProjects
    BY <1>2, <2>2, HomeAssumption DEF H!Ids
  <2>6. StoreKept  BY <1>2, <2>3, <2>4, <2>5 DEF StoreKept, OnlyMade, Own, HInv
  <2>7. calls' \in [People -> SUBSET H!Call] /\ CallsFit'
    <3>1. PICK st \in {"refused", "done"} : H!Reply(u, c, st)  BY <1>4 DEF H!DeleteProject
    <3> QED  BY <1>4, <2>6, <3>1, ReplyFits DEF H!DeleteProject
  <2>8. ASSUME NEW i \in H!Live, projects'[i] = None
        PROVE  c.op = "delete" /\ c.id = i /\ (c.unowned \/ projects[i].owner = u)
    <3>1. i = c.id  BY <2>1, <2>2, <2>8 DEF H!Live, H!Rows
    <3> QED  BY <1>1, <1>4, <3>1 DEF H!DeleteProject, CallFits, Own, H!Live
  <2> QED  BY <1>2, <2>6, <2>7, <2>8, PageStays, HomeAgain DEF H!DeletesOwn
<1> QED  BY <1>3, <1>4

LEMMA RenamingType ==
  ASSUME HInv, NEW u \in People, NEW c
  PROVE  H!RenamingAfter(u, c) \in [People -> H!Ids \cup {None}]
BY DEF HInv, H!TypeOK, H!RenamingAfter

LEMMA HomeListed ==
  ASSUME HInv, NEW u \in People, NEW c \in calls[u], H!ListAnswer(u, c) \/ H!ChangeAnswer(u, c)
  PROVE  HInv'
<1>1. CallFits(u, c) /\ PageType  BY DEF HInv, CallsFit, PageType, H!TypeOK
<1>2. UNCHANGED <<projects, made, at>>
  BY DEF H!ListAnswer, H!ChangeAnswer, H!server
<1>3. StoreKept  BY <1>2, StoreSame
<1>4. CASE H!ListAnswer(u, c)
  <2>1. PICK S : S = calls[u] \ {c}  OBVIOUS
  <2>2. calls' = [calls EXCEPT ![u] = S]  BY <1>4, <2>1 DEF H!ListAnswer
  <2>3. calls' \in [People -> SUBSET H!Call] /\ CallsFit'
    BY <1>3, <2>1, <2>2, CallsChange
  <2>4. PageType'
    <3>1. c.got \in H!Rows  BY <1>1 DEF CallFits, H!Call
    <3> QED  BY <1>1, <1>4, <3>1 DEF PageType, H!ListAnswer
  <2> QED  BY <1>2, <1>3, <2>3, <2>4, HomeAgain
<1>5. CASE H!ChangeAnswer(u, c)
  <2>1. PICK new : new = H!Request(c.n, "list", None, None)  OBVIOUS
  <2>2. c.n \in 1..MaxCalls  BY <1>1 DEF CallFits, H!Call
  <2>3. CallFits(u, new)'  BY <1>3, <2>1, <2>2, RequestFits, FitStays
  <2>4. calls' \in [People -> SUBSET H!Call] /\ CallsFit'
    BY <1>3, <1>5, <2>1, <2>3, CallMoves DEF H!ChangeAnswer
  <2>5. PageType'  BY <1>1, <1>5, RenamingType DEF PageType, H!ChangeAnswer
  <2> QED  BY <1>2, <1>3, <2>4, <2>5, HomeAgain
<1> QED  BY <1>4, <1>5

LEMMA HomeSent ==
  ASSUME HInv, NEW u \in People, NEW c \in calls[u], H!CreateAnswer(u, c)
  PROVE  HInv'
<1>1. CallFits(u, c) /\ PageType  BY DEF HInv, CallsFit, PageType, H!TypeOK
<1>2. UNCHANGED <<projects, made>> /\ at' = [at EXCEPT ![u] = c.id]
  BY DEF H!CreateAnswer, H!server
<1>3. StoreKept  BY <1>2, StoreSame
<1>4. PICK S : S = {[d EXCEPT !.here = FALSE] : d \in calls[u] \ {c}}  OBVIOUS
<1>5. calls' = [calls EXCEPT ![u] = S]  BY <1>4 DEF H!CreateAnswer
<1>6. ASSUME NEW d \in S  PROVE CallFits(u, d)'
  <2>1. PICK old \in calls[u] : d = [old EXCEPT !.here = FALSE]  BY <1>4
  <2>2. CallFits(u, old)  BY DEF HInv, CallsFit
  <2>3. CallFits(u, d)  BY <2>1, <2>2 DEF CallFits, H!Call
  <2> QED  BY <1>3, <2>3, FitStays
<1>7. calls' \in [People -> SUBSET H!Call] /\ CallsFit'
  BY <1>3, <1>5, <1>6, CallsChange
<1>8. c.id \in 1..made /\ Own(c.id, u)  BY <1>1 DEF CallFits, H!CreateAnswer
<1>9. c.id \in H!Ids
  BY <1>8, HomeAssumption DEF HInv, H!TypeOK, H!Ids
<1>10. PageType'
  BY <1>1, <1>2, <1>9 DEF PageType, H!CreateAnswer
<1>11. \A v \in People : at'[v] \in {at[v], None} \/ (at'[v] \in 1..made' /\ Own(at[v], v)')
  <2> SUFFICES ASSUME NEW v \in People, v = u
               PROVE  at'[v] \in 1..made' /\ Own(at[v], v)'
    BY <1>1, <1>2 DEF PageType
  <2>1. at'[v] = c.id  BY <1>1, <1>2 DEF PageType
  <2> QED  BY <1>2, <1>8, <2>1 DEF Own
<1> QED  BY <1>3, <1>7, <1>10, <1>11, HomeAgain

LEMMA HomeFails ==
  ASSUME HInv, NEW u \in People, NEW c \in calls[u], H!CallFails(u, c)
  PROVE  HInv'
<1>1. PageType  BY DEF HInv, PageType, H!TypeOK
<1>2. UNCHANGED <<projects, made, rows, confirmH, at, asked>>
  BY DEF H!CallFails, H!server
<1>3. StoreKept  BY <1>2, StoreSame
<1>4. PICK S : S = calls[u] \ {c}  OBVIOUS
<1>5. calls' \in [People -> SUBSET H!Call] /\ CallsFit'
  BY <1>3, <1>4, CallsChange DEF H!CallFails
<1>6. dialogH' \in [People -> H!Dialog \cup {None}]
  <2>1. CASE dialogH[u] # None /\ dialogH[u].busy = c.n
    <3>1. dialogH[u] \in H!Dialog  BY <1>1, <2>1 DEF PageType
    <3>2. [dialogH[u] EXCEPT !.busy = 0] \in H!Dialog  BY <3>1, HomeAssumption DEF H!Dialog
    <3> QED  BY <1>1, <2>1, <3>2 DEF PageType, H!CallFails
  <2>2. CASE ~(dialogH[u] # None /\ dialogH[u].busy = c.n)
    BY <1>1, <2>2 DEF PageType, H!CallFails
  <2> QED  BY <2>1, <2>2
<1>7. error' \in [People -> BOOLEAN]
  BY <1>1 DEF PageType, H!CallFails
<1>8. PageType'
  BY <1>1, <1>2, <1>6, <1>7, RenamingType DEF PageType, H!CallFails
<1> QED  BY <1>2, <1>3, <1>5, <1>8, HomeAgain

LEMMA HomeCounts == ASSUME NEW S  PROVE H!Cardinality(S) = Cardinality(S)
BY DEF H!Cardinality, Cardinality

LEMMA HomeBegins == ASSUME H!Init PROVE HInv
<1>1. PICK o \in People \cup {None}, n \in ProjectNames :
        projects \in {H!Nothing, [H!Nothing EXCEPT ![1] = [owner |-> o, name |-> n]]}
  BY DEF H!Init
<1>2. H!Nothing \in H!Rows  BY DEF H!Nothing, H!Rows
<1>3. [owner |-> o, name |-> n] \in H!Project /\ [owner |-> o, name |-> n] # None
  BY HomeAssumption DEF H!Project
<1>4. projects \in H!Rows  BY <1>1, <1>2, <1>3 DEF H!Rows
<1>5. made \in 0..MaxProjects /\ OnlyMade
  <2>1. CASE H!Live = {}
    <3>1. made = 0  BY <2>1, FS_EmptySet, HomeCounts DEF H!Init
    <3> QED  BY <2>1, <3>1, HomeAssumption DEF OnlyMade, H!Live
  <2>2. CASE H!Live # {}
    <3>1. \A i \in H!Ids : i # 1 => projects[i] = None
      BY <1>1 DEF H!Nothing
    <3>2. H!Live = {1} /\ 1 \in H!Ids  BY <2>2, <3>1 DEF H!Live
    <3>3. made = 1  BY <3>2, FS_Singleton, HomeCounts DEF H!Init
    <3> QED  BY <3>1, <3>2, <3>3, HomeAssumption DEF OnlyMade, H!Ids
  <2> QED  BY <2>1, <2>2
<1>6. \A u \in People : CallFits(u, H!Request(1, "list", None, None))
  BY <1>2, HomeAssumption DEF CallFits, H!Request, H!Call
<1>7. calls \in [People -> SUBSET H!Call] /\ CallsFit
  BY <1>6 DEF H!Init, CallsFit, CallFits
<1>8. PageType  BY HomeAssumption DEF PageType, H!Init
<1>9. SentToOwn  BY DEF SentToOwn, H!Init
<1> QED  BY <1>4, <1>5, <1>7, <1>8, <1>9 DEF HInv, H!TypeOK, PageType

LEMMA HomeStep == ASSUME HInv, H!Next PROVE HInv' /\ H!DeletesOwn
<1>1. PICK u \in People :
        H!Act(u) \/ \E c \in calls[u] : \/ H!Serve(u, c) \/ H!ListAnswer(u, c)
                                        \/ H!ChangeAnswer(u, c) \/ H!CreateAnswer(u, c)
                                        \/ H!CallFails(u, c)
  BY DEF H!Next
<1>2. CASE H!Act(u)
  <2>1. UNCHANGED projects
    BY <1>2 DEF H!Act, H!reload, H!startRename, H!Claim, H!onDelete, H!submit, H!rename,
       H!CancelRename, H!Confirmed, H!NotDeleted, H!NewProject, H!Fill, H!CloseDialog, H!Home,
       H!server
  <2> QED  BY <1>2, <2>1, HomeClicks, HomeRequests DEF H!Act, H!DeletesOwn, H!Live
<1>3. ASSUME NEW c \in calls[u], H!Serve(u, c)  PROVE HInv' /\ H!DeletesOwn
  BY <1>3, HomeUpdates, HomeCreates, HomeDeletes DEF H!Serve
<1>4. ASSUME NEW c \in calls[u], \/ H!ListAnswer(u, c) \/ H!ChangeAnswer(u, c)
                                 \/ H!CreateAnswer(u, c) \/ H!CallFails(u, c)
      PROVE  HInv' /\ H!DeletesOwn
  <2>1. UNCHANGED projects
    BY <1>4 DEF H!ListAnswer, H!ChangeAnswer, H!CreateAnswer, H!CallFails, H!server
  <2> QED  BY <1>4, <2>1, HomeListed, HomeSent, HomeFails DEF H!DeletesOwn, H!Live
<1> QED  BY <1>1, <1>2, <1>3, <1>4

LEMMA HomeStays == ASSUME HInv, UNCHANGED home PROVE HInv' /\ H!DeletesOwn
<1>1. UNCHANGED <<projects, made, calls, rows, renaming, error, confirmH, dialogH, at, asked>>
  BY DEF home
<1> QED  BY <1>1, StoreSame, CallsStay, PageStays, HomeAgain DEF H!DeletesOwn, H!Live

LEMMA HomeAlways == Spec => [](screen = "home" => HInv)
<1>1. Init => (screen = "home" => HInv)
  BY HomeBegins DEF Init
<1>2. (screen = "home" => HInv) /\ [Next]_vars => (screen = "home" => HInv)'
  <2> SUFFICES ASSUME HInv, [Next]_vars, screen = "home"  PROVE HInv'
    BY DEF Next, vars
  <2> QED  BY HomeStep, HomeStays DEF Next, vars
<1> QED  BY <1>1, <1>2, PTL DEF Spec, vars

(* For any people, names and calls: nobody who creates a project is given  *)
(* one that somebody else made (projects.go:69-75).                        *)
THEOREM NobodyAdopted == Spec => []NeverAdopted
<1>1. (screen = "home" => HInv) => NeverAdopted
  BY DEF NeverAdopted, H!NeverAdopted, HInv, SentToOwn, Own
<1> QED  BY <1>1, HomeAlways, PTL

(* A project is deleted only by its owner, or by somebody who asked for it *)
(* while it had none (projects.go:166-181).                                *)
THEOREM OwnersDelete == Spec => DeletedByOwner
<1>1. (screen = "home" => HInv) /\ [Next]_vars => [screen = "home" => H!DeletesOwn]_home
  <2> SUFFICES ASSUME HInv, [Next]_vars, screen = "home", home' # home  PROVE H!DeletesOwn
    OBVIOUS
  <2> QED  BY HomeStep, HomeStays DEF Next, vars
<1> QED  BY <1>1, HomeAlways, PTL DEF Spec, vars, DeletedByOwner

-----------------------------------------------------------------------------
(***************************************************************************)
(* Readiness.  As long as Enter starts nothing next to something else, one *)
(* request is under way at a time; so a measurement is of the server's     *)
(* bank until a switch is served, and its answer forgets the measurement.  *)
(***************************************************************************)
OpsFit ==
  \A op \in opsR : /\ op.kind = "reembed" => op.to \in Models
                   /\ op.st = "served" => op.bank \in Models

OneAtATime == ~raced => (\A a, b \in opsR : a = b) /\ (opsR # {} => busyR)

MeasuredIsServed ==
  ~raced /\ ~lost /\ othersR = 0 =>
    /\ evalResult # None =>
         evalResult.bank = srvBank \/ \E op \in opsR : op.kind = "reembed" /\ op.st = "served"
    /\ \A op \in opsR : op.kind = "eval" /\ op.st = "served" => op.bank = srvBank

\* Each save counted had a request of its own.
SavesCounted == IsFiniteSet(opsR) /\ staleScores + Cardinality(opsR) <= opCountR

ReadinessType ==
  /\ bank \in Models /\ srvBank \in Models
  /\ evalResult \in R!Measured \cup {None}
  /\ staleScores \in 0..MaxOpsR
  /\ left \in BOOLEAN /\ confirmR \in BOOLEAN /\ busyR \in BOOLEAN
  /\ raced \in BOOLEAN /\ lost \in BOOLEAN
  /\ target \in Models \cup {None}
  /\ opsR \subseteq R!Op /\ opCountR \in 0..MaxOpsR /\ othersR \in 0..MaxOthersR

LEMMA ReadinessTyped == R!TypeOK <=> ReadinessType
BY DEF R!TypeOK, ReadinessType

RInv == /\ ReadinessType /\ OpsFit /\ OneAtATime /\ MeasuredIsServed /\ SavesCounted

\* Requests come and go one at a time.
LEMMA AddOne ==
  ASSUME NEW S, IsFiniteSet(S), NEW x
  PROVE  /\ IsFiniteSet(S \cup {x}) /\ Cardinality(S \cup {x}) \in Nat
         /\ Cardinality(S \cup {x}) <= Cardinality(S) + 1
<1>1. Cardinality(S) \in Nat  BY FS_CardinalityType
<1>2. CASE x \in S  BY <1>1, <1>2, FS_AddElement
<1>3. CASE x \notin S  BY <1>1, <1>3, FS_AddElement
<1> QED  BY <1>2, <1>3

LEMMA DropOne ==
  ASSUME NEW S, IsFiniteSet(S), NEW x \in S
  PROVE  /\ IsFiniteSet(S \ {x}) /\ Cardinality(S \ {x}) \in Nat
         /\ Cardinality(S \ {x}) + 1 = Cardinality(S)
<1>1. Cardinality(S) \in Nat  BY FS_CardinalityType
<1>2. IsFiniteSet(S \ {x}) /\ Cardinality(S \ {x}) = Cardinality(S) - 1
  BY FS_RemoveElement
<1>3. Cardinality(S \ {x}) \in Nat  BY <1>2, FS_CardinalityType
<1> QED  BY <1>1, <1>2, <1>3

LEMMA ReplaceOne ==
  ASSUME NEW S, IsFiniteSet(S), NEW x \in S, NEW y
  PROVE  /\ IsFiniteSet((S \ {x}) \cup {y}) /\ Cardinality((S \ {x}) \cup {y}) \in Nat
         /\ Cardinality((S \ {x}) \cup {y}) <= Cardinality(S)
<1>1. /\ IsFiniteSet(S \ {x}) /\ Cardinality(S \ {x}) \in Nat
      /\ Cardinality(S \ {x}) + 1 = Cardinality(S)
  BY DropOne
<1>2. PICK T : T = S \ {x}  OBVIOUS
<1>3. /\ IsFiniteSet(T \cup {y}) /\ Cardinality(T \cup {y}) \in Nat
      /\ Cardinality(T \cup {y}) <= Cardinality(T) + 1
  BY <1>1, <1>2, AddOne
<1> QED  BY <1>1, <1>2, <1>3

LEMMA ReadinessBegins == ASSUME R!Init PROVE RInv
<1>1. bank \in Models /\ srvBank \in Models /\ evalResult \in R!Measured \cup {None}
  BY DEF R!Init
<1>2. staleScores \in 0..MaxOpsR /\ opCountR \in 0..MaxOpsR /\ othersR \in 0..MaxOthersR
  BY ReadinessAssumption DEF R!Init
<1>3. /\ left \in BOOLEAN /\ confirmR \in BOOLEAN /\ busyR \in BOOLEAN
      /\ raced \in BOOLEAN /\ lost \in BOOLEAN
  BY DEF R!Init
<1>4. target \in Models \cup {None} /\ opsR \subseteq R!Op
  BY DEF R!Init
<1>5. ReadinessType  BY <1>1, <1>2, <1>3, <1>4 DEF ReadinessType
<1>6. SavesCounted  BY FS_EmptySet DEF R!Init, SavesCounted
<1>7. OpsFit /\ OneAtATime /\ MeasuredIsServed
  BY DEF R!Init, OpsFit, OneAtATime, MeasuredIsServed
<1> QED  BY <1>5, <1>6, <1>7 DEF RInv

LEMMA ReadinessGuard ==
  ASSUME RInv, NEW kind \in R!Kinds, NEW to \in Models \cup {None}, kind = "reembed" => to \in Models,
         R!guard(kind, to), {confirmR, confirmR'} \subseteq BOOLEAN, target' \in Models \cup {None}
  PROVE  RInv' /\ (kind = "auto" /\ evalResult # None => R!HandsToMeasured)
<1>1. PICK new : new = [id |-> opCountR + 1, kind |-> kind, to |-> to, st |-> "sent",
                        bank |-> None, ready |-> FALSE]
  OBVIOUS
<1>2. opsR' = opsR \cup {new} /\ opCountR' = opCountR + 1 /\ opCountR < MaxOpsR
  BY <1>1 DEF R!guard
<1>3. opCountR \in Nat /\ MaxOpsR \in Nat /\ staleScores \in Nat
  BY ReadinessAssumption DEF RInv, ReadinessType
<1>4. new \in R!Op /\ new.kind = kind /\ new.st = "sent" /\ new.to = to
  BY <1>1, <1>2, <1>3 DEF R!Op
<1>5. ReadinessType'
  BY <1>2, <1>3, <1>4 DEF RInv, ReadinessType, R!guard
<1>6. OpsFit'
  BY <1>2, <1>4 DEF RInv, OpsFit
<1>7. OneAtATime'
  BY <1>2 DEF RInv, OneAtATime, R!guard
<1>8. MeasuredIsServed'
  BY <1>2, <1>4 DEF RInv, MeasuredIsServed, R!guard, R!used
<1>9. SavesCounted'
  <2>1. IsFiniteSet(opsR) /\ Cardinality(opsR) \in Nat
    BY FS_CardinalityType DEF RInv, SavesCounted
  <2>2. IsFiniteSet(opsR') /\ Cardinality(opsR') <= Cardinality(opsR) + 1
        /\ Cardinality(opsR') \in Nat
    BY <1>2, <2>1, AddOne
  <2>3. UNCHANGED staleScores  BY DEF R!guard
  <2> QED  BY <1>2, <1>3, <2>1, <2>2, <2>3 DEF RInv, SavesCounted
<1>10. ASSUME evalResult # None  PROVE R!HandsToMeasured
  <2> SUFFICES ASSUME ~raced', ~lost, othersR = 0
               PROVE  evalResult.bank = srvBank
    BY <1>10 DEF R!HandsToMeasured
  <2>1. ~raced /\ opsR = {}  BY DEF R!guard, RInv, OneAtATime, ReadinessType
  <2> QED  BY <1>10, <2>1 DEF RInv, MeasuredIsServed
<1> QED  BY <1>5, <1>6, <1>7, <1>8, <1>9, <1>10 DEF RInv

LEMMA ReadinessAsks ==
  ASSUME RInv, R!runEval \/ R!rescore \/ R!save \/ R!reembedModel \/ R!LabelAnyway
               \/ (R!askAutoLabel /\ evalResult.ready)
  PROVE  RInv' /\ R!HandsToMeasured
<1>1. confirmR \in BOOLEAN /\ target \in Models \cup {None}
  BY DEF RInv, ReadinessType
<1>2. ASSUME NEW kind \in R!Kinds, NEW to \in Models \cup {None}, R!guard(kind, to), kind # "auto"
      PROVE  R!HandsToMeasured
  BY <1>2 DEF R!guard, R!HandsToMeasured
<1>3. CASE R!runEval
  BY <1>1, <1>2, <1>3, ReadinessGuard DEF R!runEval, R!Kinds
<1>4. CASE R!rescore
  BY <1>1, <1>2, <1>4, ReadinessGuard DEF R!rescore, R!Kinds
<1>5. CASE R!save
  BY <1>1, <1>2, <1>5, ReadinessGuard DEF R!save, R!Kinds
<1>6. CASE R!reembedModel
  <2>1. PICK to \in Models : to = target  BY <1>1, <1>6 DEF R!reembedModel
  <2> QED  BY <1>1, <1>2, <1>6, <2>1, ReadinessGuard DEF R!reembedModel, R!Kinds
<1>7. CASE R!LabelAnyway
  BY <1>1, <1>7, ReadinessGuard DEF R!LabelAnyway, R!runAuto, R!Kinds
<1>8. CASE R!askAutoLabel /\ evalResult.ready
  BY <1>1, <1>8, ReadinessGuard DEF R!askAutoLabel, R!runAuto, R!Kinds
<1> QED  BY <1>3, <1>4, <1>5, <1>6, <1>7, <1>8

\* Dialogs, and what the other annotator does.
LEMMA ReadinessClicks ==
  ASSUME RInv,
         \/ R!SaveNothing \/ R!NotNow \/ R!KeepModel \/ R!OtherSwitches
         \/ (\E m \in Models : R!Go(m)) \/ (R!askAutoLabel /\ ~evalResult.ready)
  PROVE  RInv' /\ opsR' = opsR
<1>1. UNCHANGED <<opsR, staleScores, opCountR, bank, evalResult, left, lost>>
  BY DEF R!SaveNothing, R!NotNow, R!KeepModel, R!OtherSwitches, R!Go, R!askAutoLabel, R!used, R!tab
<1>2. ReadinessType'
  <2>1. /\ confirmR' \in BOOLEAN /\ busyR' \in BOOLEAN /\ raced' \in BOOLEAN
        /\ target' \in Models \cup {None}
    BY DEF RInv, ReadinessType, R!SaveNothing, R!NotNow, R!KeepModel, R!OtherSwitches, R!Go,
       R!askAutoLabel, R!used, R!tab
  <2>2. srvBank' \in Models /\ othersR' \in 0..MaxOthersR
    BY ReadinessAssumption DEF RInv, ReadinessType, R!SaveNothing, R!NotNow, R!KeepModel,
       R!OtherSwitches, R!Go, R!askAutoLabel, R!used
  <2> QED  BY <1>1, <2>1, <2>2 DEF RInv, ReadinessType
<1>3. OneAtATime' /\ MeasuredIsServed'
  <2>1. CASE R!SaveNothing
    BY <2>1 DEF OneAtATime, MeasuredIsServed, R!SaveNothing
  <2>2. CASE R!OtherSwitches
    <3>1. othersR' # 0  BY <2>2 DEF RInv, ReadinessType, R!OtherSwitches
    <3> QED  BY <2>2, <3>1 DEF RInv, OneAtATime, MeasuredIsServed, R!OtherSwitches, R!tab
  <2>3. CASE ~R!SaveNothing /\ ~R!OtherSwitches
    <3>1. UNCHANGED <<busyR, raced, srvBank, othersR>>
      BY <2>3 DEF R!NotNow, R!KeepModel, R!Go, R!askAutoLabel, R!used
    <3> QED  BY <1>1, <3>1 DEF RInv, OneAtATime, MeasuredIsServed
  <2> QED  BY <2>1, <2>2, <2>3
<1> QED  BY <1>1, <1>2, <1>3 DEF RInv, OpsFit, SavesCounted

LEMMA ReadinessServe ==
  ASSUME RInv, NEW op \in opsR, R!Serve(op)
  PROVE  RInv' /\ R!HandsToMeasured
<1>1. PICK ready \in BOOLEAN :
        opsR' = (opsR \ {op}) \cup {[op EXCEPT !.st = "served", !.ready = ready, !.bank = srvBank']}
  BY DEF R!Serve
<1>2. PICK new : new = [op EXCEPT !.st = "served", !.ready = ready, !.bank = srvBank']  OBVIOUS
<1>3. op \in R!Op /\ op.st = "sent" /\ (op.kind = "reembed" => op.to \in Models)
  BY DEF RInv, ReadinessType, OpsFit, R!Serve
<1>4. srvBank' = (IF op.kind = "reembed" THEN op.to ELSE srvBank) /\ srvBank' \in Models
  BY <1>3 DEF R!Serve, RInv, ReadinessType
<1>5. /\ new \in R!Op /\ new.kind = op.kind /\ new.st = "served" /\ new.bank = srvBank'
      /\ new.to = op.to
  BY <1>2, <1>3, <1>4 DEF R!Op
<1>6. opsR' = (opsR \ {op}) \cup {new}  BY <1>1, <1>2
<1>7. UNCHANGED <<bank, evalResult, staleScores, left, confirmR, target, busyR, opCountR, othersR,
                  raced, lost>>
  BY DEF R!Serve, R!tab, R!used
<1>8. ReadinessType' /\ OpsFit' /\ OneAtATime'
  BY <1>3, <1>4, <1>5, <1>6, <1>7 DEF RInv, ReadinessType, OpsFit, OneAtATime
<1>9. MeasuredIsServed'
  BY <1>3, <1>4, <1>5, <1>6, <1>7 DEF RInv, OneAtATime, MeasuredIsServed
<1>10. SavesCounted'
  <2>1. IsFiniteSet(opsR) /\ staleScores + Cardinality(opsR) <= opCountR /\ staleScores \in Nat
        /\ opCountR \in Nat /\ Cardinality(opsR) \in Nat
    BY FS_CardinalityType, ReadinessAssumption DEF RInv, SavesCounted, ReadinessType
  <2>2. IsFiniteSet(opsR') /\ Cardinality(opsR') \in Nat /\ Cardinality(opsR') <= Cardinality(opsR)
    BY <1>6, <2>1, ReplaceOne
  <2> QED  BY <1>7, <2>1, <2>2 DEF SavesCounted
<1>11. R!HandsToMeasured
  BY <1>5, <1>6 DEF R!HandsToMeasured
<1> QED  BY <1>8, <1>9, <1>10, <1>11 DEF RInv

LEMMA ReadinessMeasured ==
  ASSUME RInv, NEW op \in opsR, R!EvalAnswer(op)
  PROVE  RInv' /\ R!HandsToMeasured
<1>1. PICK new : new = [op EXCEPT !.kind = "append", !.st = "sent", !.bank = None, !.ready = FALSE]
  OBVIOUS
<1>2. op \in R!Op /\ op.kind = "eval" /\ op.st = "served" /\ op.bank \in Models
  BY DEF RInv, ReadinessType, OpsFit, R!EvalAnswer
<1>3. new \in R!Op /\ new.kind = "append" /\ new.st = "sent"
  BY <1>1, <1>2 DEF R!Op, R!Kinds
<1>4. opsR' = (opsR \ {op}) \cup {new}  BY <1>1 DEF R!EvalAnswer
<1>5. UNCHANGED <<bank, staleScores, left, confirmR, target, busyR, srvBank, opCountR, othersR,
                  raced, lost>>
  BY DEF R!EvalAnswer, R!used
<1>6. evalResult' \in R!Measured /\ evalResult'.bank = op.bank
  BY <1>2 DEF R!EvalAnswer, R!Measured, R!Op
<1>7. ReadinessType' /\ OpsFit' /\ OneAtATime'
  BY <1>3, <1>4, <1>5, <1>6 DEF RInv, ReadinessType, OpsFit, OneAtATime
<1>8. MeasuredIsServed'
  BY <1>2, <1>3, <1>4, <1>5, <1>6 DEF RInv, OneAtATime, MeasuredIsServed
<1>9. SavesCounted'
  <2>1. IsFiniteSet(opsR) /\ staleScores + Cardinality(opsR) <= opCountR /\ staleScores \in Nat
        /\ opCountR \in Nat /\ Cardinality(opsR) \in Nat
    BY FS_CardinalityType, ReadinessAssumption DEF RInv, SavesCounted, ReadinessType
  <2>2. IsFiniteSet(opsR') /\ Cardinality(opsR') \in Nat /\ Cardinality(opsR') <= Cardinality(opsR)
    BY <1>4, <2>1, ReplaceOne
  <2> QED  BY <1>5, <2>1, <2>2 DEF SavesCounted
<1>10. R!HandsToMeasured
  BY <1>3, <1>4 DEF R!HandsToMeasured
<1> QED  BY <1>7, <1>8, <1>9, <1>10 DEF RInv

LEMMA ReadinessSettles ==
  ASSUME RInv, NEW op \in opsR,
         \/ R!AppendAnswer(op) \/ R!RescoreAnswer(op) \/ R!AutoAnswer(op) \/ R!SaveAnswer(op)
         \/ R!ReembedAnswer(op) \/ R!OpFails(op)
  PROVE  RInv' /\ R!HandsToMeasured
<1>1. opsR' = opsR \ {op} /\ busyR' = FALSE
  BY DEF R!AppendAnswer, R!RescoreAnswer, R!AutoAnswer, R!SaveAnswer, R!ReembedAnswer, R!OpFails,
     R!Settle
<1>2. UNCHANGED <<srvBank, opCountR, othersR, raced, confirmR, target>>
  BY DEF R!AppendAnswer, R!RescoreAnswer, R!AutoAnswer, R!SaveAnswer, R!ReembedAnswer, R!OpFails,
     R!Settle, R!used
<1>3. op \in R!Op /\ (op.st = "served" => op.bank \in Models)
  BY DEF RInv, ReadinessType, OpsFit
<1>4. bank' \in Models /\ left' \in BOOLEAN /\ lost' \in BOOLEAN /\ (lost => lost')
  BY <1>3 DEF RInv, ReadinessType, R!AppendAnswer, R!RescoreAnswer, R!AutoAnswer, R!SaveAnswer,
     R!ReembedAnswer, R!OpFails, R!Settle, R!used
<1>5. evalResult' \in {evalResult, None} /\ staleScores' \in {staleScores, 0, staleScores + 1}
  BY DEF R!AppendAnswer, R!RescoreAnswer, R!AutoAnswer, R!SaveAnswer, R!ReembedAnswer, R!OpFails
<1>6. SavesCounted' /\ staleScores' \in Nat /\ staleScores' <= opCountR'
  BY <1>1, <1>2, <1>5, DropOne, ReadinessAssumption DEF RInv, ReadinessType, SavesCounted
<1>7. ReadinessType'
  <2>1. staleScores' \in 0..MaxOpsR
    BY <1>2, <1>6, ReadinessAssumption DEF RInv, ReadinessType
  <2>2. evalResult' \in R!Measured \cup {None} /\ opsR' \subseteq R!Op /\ busyR' \in BOOLEAN
    BY <1>1, <1>5 DEF RInv, ReadinessType
  <2> QED  BY <1>2, <1>4, <2>1, <2>2 DEF RInv, ReadinessType
<1>8. OpsFit' /\ OneAtATime'
  BY <1>1, <1>2 DEF RInv, OpsFit, OneAtATime
<1>9. MeasuredIsServed'
  <2>1. op.kind = "reembed" => evalResult' = None \/ lost'
    BY DEF R!AppendAnswer, R!RescoreAnswer, R!AutoAnswer, R!SaveAnswer, R!ReembedAnswer, R!OpFails
  <2> QED  BY <1>1, <1>2, <1>4, <1>5, <2>1 DEF RInv, OneAtATime, MeasuredIsServed
<1>10. R!HandsToMeasured  BY <1>1 DEF R!HandsToMeasured
<1> QED  BY <1>6, <1>7, <1>8, <1>9, <1>10 DEF RInv

LEMMA ReadinessStep == ASSUME RInv, R!Next PROVE RInv' /\ R!HandsToMeasured
<1>1. opsR' = opsR => R!HandsToMeasured  BY DEF R!HandsToMeasured
<1>2. CASE R!runEval \/ R!rescore \/ R!save \/ R!reembedModel \/ R!LabelAnyway \/ R!askAutoLabel
  BY <1>1, <1>2, ReadinessAsks, ReadinessClicks
<1>3. CASE R!SaveNothing \/ R!NotNow \/ R!KeepModel \/ R!OtherSwitches \/ (\E m \in Models : R!Go(m))
  BY <1>1, <1>3, ReadinessClicks
<1>4. CASE \E op \in opsR : R!Serve(op) \/ R!Answer(op) \/ R!OpFails(op)
  BY <1>4, ReadinessServe, ReadinessMeasured, ReadinessSettles DEF R!Answer
<1> QED  BY <1>2, <1>3, <1>4 DEF R!Next

LEMMA ReadinessStays == ASSUME RInv, UNCHANGED readiness PROVE RInv'
BY DEF RInv, ReadinessType, OpsFit, OneAtATime, MeasuredIsServed, SavesCounted, readiness

LEMMA ReadinessAlways == Spec => [](screen = "readiness" => RInv)
<1>1. Init => (screen = "readiness" => RInv)
  BY ReadinessBegins DEF Init
<1>2. (screen = "readiness" => RInv) /\ [Next]_vars => (screen = "readiness" => RInv)'
  <2> SUFFICES ASSUME RInv, [Next]_vars, screen = "readiness"  PROVE RInv'
    BY DEF Next, vars
  <2> QED  BY ReadinessStep, ReadinessStays DEF Next, vars
<1> QED  BY <1>1, <1>2, PTL DEF Spec, vars

(* For any models and any number of clicks and answers in any order: the   *)
(* rest of the pool goes only to the model that was measured -- unless     *)
(* Enter starts a save while something runs, the answer of a switch is     *)
(* lost, or somebody else changes the bank's model.  Saves in between      *)
(* teach the bank and keep the measurement (session.ts:759-774).           *)
THEOREM MeasuredFirst == Spec => AutoAsMeasured
<1>1. (screen = "readiness" => RInv) /\ [Next]_vars
        => [screen = "readiness" => R!HandsToMeasured]_readiness
  <2> SUFFICES ASSUME RInv, [Next]_vars, screen = "readiness", readiness' # readiness
               PROVE  R!HandsToMeasured
    OBVIOUS
  <2> QED  BY ReadinessStep DEF Next, vars
<1> QED  BY <1>1, ReadinessAlways, PTL DEF Spec, vars, AutoAsMeasured

-----------------------------------------------------------------------------
(***************************************************************************)
(* Workspace.  As long as the past was not cut, the oldest state of the    *)
(* pool's timeline is what its canvas opened with; with nothing to undo    *)
(* that is the state on screen.                                            *)
(***************************************************************************)
IsTimeline(t) ==
  /\ t \in [boxes : Content, past : Seq(Content), future : Seq(Content)]
  /\ Len(t.past) + Len(t.future) <= Limit

Oldest(t) == Append(t.past, t.boxes)[1]

\* The newest and the first n of a list.
LEMMA CutTypes ==
  ASSUME NEW S, NEW s \in Seq(S), NEW n \in Nat
  PROVE  /\ W!LastN(s, n) \in Seq(S) /\ Len(W!LastN(s, n)) <= n
         /\ W!FirstN(s, n) \in Seq(S) /\ Len(W!FirstN(s, n)) <= n
         /\ Len(W!LastN(s, n)) <= Len(s) /\ Len(W!FirstN(s, n)) <= Len(s)
         /\ Len(s) <= n => W!LastN(s, n) = s /\ W!FirstN(s, n) = s
<1>1. Len(s) \in Nat  OBVIOUS
<1>2. CASE Len(s) > n
  <2>1. /\ SubSeq(s, Len(s) - n + 1, Len(s)) \in Seq(S)
        /\ Len(SubSeq(s, Len(s) - n + 1, Len(s))) = n
    BY <1>1, <1>2
  <2>2. SubSeq(s, 1, n) \in Seq(S) /\ Len(SubSeq(s, 1, n)) = n
    BY <1>1, <1>2
  <2> QED  BY <1>1, <1>2, <2>1, <2>2 DEF W!LastN, W!FirstN
<1>3. CASE ~(Len(s) > n)
  BY <1>1, <1>3 DEF W!LastN, W!FirstN
<1> QED  BY <1>2, <1>3

LEMMA Remembered ==
  ASSUME NEW t, IsTimeline(t), NEW c \in Content, NEW f \in Seq(Content), NEW t2,
         t2 = [boxes |-> c, past |-> W!LastN(Append(t.past, t.boxes), Limit), future |-> f],
         Len(f) = 0 \/ Len(f) + 1 <= Len(t.future)
  PROVE  IsTimeline(t2) /\ (Len(t.past) < Limit => Oldest(t2) = Oldest(t))
<1>1. /\ t.past \in Seq(Content) /\ t.boxes \in Content /\ Limit \in Nat /\ Limit > 0
      /\ Len(t.past) \in Nat /\ Len(t.future) \in Nat /\ Len(t.past) + Len(t.future) <= Limit
  BY WorkspaceAssumption DEF IsTimeline
<1>2. PICK a : a = Append(t.past, t.boxes)  OBVIOUS
<1>3. a \in Seq(Content) /\ Len(a) = Len(t.past) + 1  BY <1>1, <1>2
<1>4. /\ W!LastN(a, Limit) \in Seq(Content) /\ Len(W!LastN(a, Limit)) <= Limit
      /\ Len(W!LastN(a, Limit)) <= Len(a)
      /\ Len(a) <= Limit => W!LastN(a, Limit) = a
  BY <1>1, <1>3, CutTypes
<1>5. t2.past = W!LastN(a, Limit) /\ t2.boxes = c /\ t2.future = f  BY <1>2
<1>6. IsTimeline(t2)
  <2>1. t2 \in [boxes : Content, past : Seq(Content), future : Seq(Content)]
    BY <1>2, <1>4
  <2> QED  BY <1>1, <1>3, <1>4, <1>5, <2>1 DEF IsTimeline
<1>7. ASSUME Len(t.past) < Limit  PROVE Oldest(t2) = Oldest(t)
  <2>1. t2.past = a  BY <1>1, <1>3, <1>4, <1>5, <1>7
  <2>2. Append(a, c)[1] = a[1]  BY <1>1, <1>3
  <2> QED  BY <1>2, <1>5, <2>1, <2>2 DEF Oldest
<1> QED  BY <1>6, <1>7

LEMMA Undone ==
  ASSUME NEW t, IsTimeline(t), t.past # <<>>, NEW t2,
         t2 = [boxes  |-> t.past[Len(t.past)],
               past   |-> SubSeq(t.past, 1, Len(t.past) - 1),
               future |-> W!FirstN(<<t.boxes>> \o t.future, Limit)]
  PROVE  IsTimeline(t2) /\ Oldest(t2) = Oldest(t)
<1>1. /\ t.past \in Seq(Content) /\ t.future \in Seq(Content) /\ t.boxes \in Content
      /\ Limit \in Nat /\ Len(t.past) \in Nat \ {0} /\ Len(t.future) \in Nat
      /\ Len(t.past) + Len(t.future) <= Limit
  BY WorkspaceAssumption DEF IsTimeline
<1>2. PICK p : p = SubSeq(t.past, 1, Len(t.past) - 1)  OBVIOUS
<1>3. p \in Seq(Content) /\ Len(p) = Len(t.past) - 1  BY <1>1, <1>2
<1>4. PICK a : a = <<t.boxes>> \o t.future  OBVIOUS
<1>5. a \in Seq(Content) /\ Len(a) = Len(t.future) + 1  BY <1>1, <1>4
<1>6. W!FirstN(a, Limit) = a
  <2>1. PICK p0, f0, l0 : p0 = Len(t.past) /\ f0 = Len(t.future) /\ l0 = Len(a)  OBVIOUS
  <2>2. p0 \in Nat /\ p0 # 0 /\ f0 \in Nat /\ p0 + f0 <= Limit /\ l0 = f0 + 1
    BY <1>1, <1>5, <2>1
  <2>3. l0 <= Limit  BY <2>2, <1>1
  <2>4. Len(a) <= Limit  BY <2>1, <2>3
  <2> QED  BY <1>1, <1>5, <2>4, CutTypes
<1>7. t.past[Len(t.past)] \in Content  BY <1>1
<1>8. t2 = [boxes |-> t.past[Len(t.past)], past |-> p, future |-> a]  BY <1>2, <1>4, <1>6
<1>9. IsTimeline(t2)  BY <1>1, <1>3, <1>5, <1>7, <1>8 DEF IsTimeline
<1>10. Append(p, t.past[Len(t.past)])[1] = t.past[1]
  <2>1. CASE Len(t.past) = 1  BY <1>1, <1>3, <2>1
  <2>2. CASE Len(t.past) > 1
    <3>1. p[1] = t.past[1]  BY <1>1, <1>2, <2>2
    <3> QED  BY <1>1, <1>3, <2>2, <3>1
  <2> QED  BY <1>1, <2>1, <2>2
<1>11. Append(t.past, t.boxes)[1] = t.past[1]  BY <1>1
<1> QED  BY <1>8, <1>9, <1>10, <1>11 DEF Oldest

\* An edit, an undo, a redo and a reset of a timeline, as a relation of two.
SetTo(t, t2) ==
  \E c \in Content :
    t2 = [boxes |-> c, past |-> W!LastN(Append(t.past, t.boxes), Limit), future |-> <<>>]
UndoneTo(t, t2) ==
  /\ t.past # <<>>
  /\ t2 = [boxes  |-> t.past[Len(t.past)],
           past   |-> SubSeq(t.past, 1, Len(t.past) - 1),
           future |-> W!FirstN(<<t.boxes>> \o t.future, Limit)]
RedoneTo(t, t2) ==
  /\ t.future # <<>>
  /\ t2 = [boxes  |-> t.future[1],
           past   |-> W!LastN(Append(t.past, t.boxes), Limit),
           future |-> Tail(t.future)]
OpensWith(c, t2) == t2 = [boxes |-> c, past |-> <<>>, future |-> <<>>]

LEMMA TimelineSteps ==
  ASSUME NEW t, NEW t2, IsTimeline(t)
  PROVE  /\ SetTo(t, t2) => IsTimeline(t2) /\ (Len(t.past) < Limit => Oldest(t2) = Oldest(t))
         /\ UndoneTo(t, t2) \/ RedoneTo(t, t2) => IsTimeline(t2) /\ Oldest(t2) = Oldest(t)
         /\ \A c \in Content : OpensWith(c, t2) => IsTimeline(t2) /\ Oldest(t2) = c
<1>1. /\ t.past \in Seq(Content) /\ t.future \in Seq(Content) /\ Limit \in Nat
      /\ Len(t.past) \in Nat /\ Len(t.future) \in Nat /\ Len(t.past) + Len(t.future) <= Limit
  BY WorkspaceAssumption DEF IsTimeline
<1>2. ASSUME SetTo(t, t2)
      PROVE  IsTimeline(t2) /\ (Len(t.past) < Limit => Oldest(t2) = Oldest(t))
  <2>1. PICK c \in Content :
          t2 = [boxes |-> c, past |-> W!LastN(Append(t.past, t.boxes), Limit), future |-> <<>>]
    BY <1>2 DEF SetTo
  <2>2. <<>> \in Seq(Content) /\ Len(<<>>) = 0  OBVIOUS
  <2> QED  BY <2>1, <2>2, Remembered
<1>3. ASSUME UndoneTo(t, t2)  PROVE IsTimeline(t2) /\ Oldest(t2) = Oldest(t)
  BY <1>3, Undone DEF UndoneTo
<1>4. ASSUME RedoneTo(t, t2)  PROVE IsTimeline(t2) /\ Oldest(t2) = Oldest(t)
  <2>1. /\ t.future # <<>>
        /\ t2 = [boxes |-> t.future[1], past |-> W!LastN(Append(t.past, t.boxes), Limit),
                 future |-> Tail(t.future)]
    BY <1>4 DEF RedoneTo
  <2>2. PICK f : f = Tail(t.future)  OBVIOUS
  <2>3. f \in Seq(Content) /\ Len(f) = Len(t.future) - 1 /\ Len(t.future) > 0
    BY <1>1, <2>1, <2>2
  <2>4. t.future[1] \in Content  BY <1>1, <2>1
  <2>5. PICK p0, f0 : p0 = Len(t.past) /\ f0 = Len(t.future)  OBVIOUS
  <2>6. p0 \in Nat /\ f0 \in Nat /\ p0 + f0 <= Limit /\ Len(f) = f0 - 1 /\ f0 > 0
    BY <1>1, <2>3, <2>5
  <2>7. Len(f) + 1 <= f0 /\ p0 < Limit  BY <1>1, <2>6
  <2> QED  BY <2>1, <2>2, <2>3, <2>4, <2>5, <2>7, Remembered
<1>5. ASSUME NEW c \in Content, OpensWith(c, t2)  PROVE IsTimeline(t2) /\ Oldest(t2) = c
  <2>1. t2 = [boxes |-> c, past |-> <<>>, future |-> <<>>]  BY <1>5 DEF OpensWith
  <2> QED  BY <1>1, <2>1 DEF IsTimeline, Oldest
<1> QED  BY <1>2, <1>3, <1>4, <1>5

Canvases ==
  /\ IsTimeline(poolW) /\ IsTimeline(ts)
  /\ opened \in Content /\ trimmed \in BOOLEAN /\ editsW \in 0..MaxEdits
  /\ ~trimmed => Oldest(poolW) = opened

UiTypes ==
  /\ panel \in W!Panels /\ focus \in W!Focus
  /\ selW \in Nat \cup {None}
  /\ dialogW \in {None, "known", "other"} /\ shortcuts \in BOOLEAN

WInv == Canvases /\ UiTypes

LEMMA WorkspaceTyped == WInv => W!TypeOK
BY DEF WInv, Canvases, UiTypes, IsTimeline, W!TypeOK, W!TimelineType, W!Bench!TimelineType

LEMMA WorkspaceBegins == W!Init => WInv
<1> SUFFICES ASSUME W!Init  PROVE WInv
  OBVIOUS
<1>1. PICK t : t = [boxes |-> Blank, past |-> <<>>, future |-> <<>>]  OBVIOUS
<1>2. IsTimeline(t) /\ Oldest(t) = Blank
  BY <1>1, WorkspaceAssumption DEF IsTimeline, Oldest
<1>3. poolW = t /\ ts = t  BY <1>1 DEF W!Init, W!EMPTY
<1>4. Canvases
  <2>1. opened = Blank /\ trimmed = FALSE /\ editsW = 0  BY DEF W!Init
  <2>2. 0 \in 0..MaxEdits  BY WorkspaceAssumption
  <2>3. Blank \in Content  BY WorkspaceAssumption
  <2> QED  BY <1>2, <1>3, <2>1, <2>2, <2>3 DEF Canvases
<1>5. UiTypes  BY DEF W!Init, UiTypes, W!Panels, W!Focus
<1> QED  BY <1>4, <1>5 DEF WInv

\* What the operations of Timeline are, on either canvas.
LEMMA Operations ==
  /\ \A c \in Content : W!Set(c) => SetTo(poolW, poolW')
  /\ \A c \in Content : W!Bench!Set(c) => SetTo(ts, ts')
  /\ W!Undo => UndoneTo(poolW, poolW')
  /\ W!Bench!Undo => UndoneTo(ts, ts')
  /\ W!Redo => RedoneTo(poolW, poolW')
  /\ W!Bench!Redo => RedoneTo(ts, ts')
  /\ \A c \in Content : W!Reset(c) => OpensWith(c, poolW')
  /\ \A c \in Content : W!Bench!Reset(c) => OpensWith(c, ts')
<1>1. \A c \in Content : W!Set(c) => SetTo(poolW, poolW')
  BY DEF W!Set, SetTo
<1>2. \A c \in Content : W!Bench!Set(c) => SetTo(ts, ts')
  BY DEF W!Bench!Set, W!Bench!LastN, W!LastN, SetTo
<1>3. W!Undo => UndoneTo(poolW, poolW')
  BY DEF W!Undo, W!canUndo, UndoneTo
<1>4. W!Bench!Undo => UndoneTo(ts, ts')
  BY DEF W!Bench!Undo, W!Bench!canUndo, W!Bench!FirstN, W!FirstN, UndoneTo
<1>5. W!Redo => RedoneTo(poolW, poolW')
  BY DEF W!Redo, W!canRedo, RedoneTo
<1>6. W!Bench!Redo => RedoneTo(ts, ts')
  BY DEF W!Bench!Redo, W!Bench!canRedo, W!Bench!LastN, W!LastN, RedoneTo
<1>7. \A c \in Content : W!Reset(c) => OpensWith(c, poolW')
  BY DEF W!Reset, W!EMPTY, OpensWith
<1>8. \A c \in Content : W!Bench!Reset(c) => OpensWith(c, ts')
  BY DEF W!Bench!Reset, W!Bench!EMPTY, OpensWith
<1> QED  BY <1>1, <1>2, <1>3, <1>4, <1>5, <1>6, <1>7, <1>8

SameCanvases == UNCHANGED <<poolW, ts, opened, trimmed, editsW>>
Travels      == (W!UndoKey \/ W!RedoKey) /\ UNCHANGED <<editsW, opened, trimmed>>

LEMMA CanvasesKept ==
  ASSUME Canvases,
         \/ SameCanvases
         \/ \E c : W!Edit(c)
         \/ Travels
         \/ W!go
         \/ \E c \in Content : W!Opens(c)
  PROVE  Canvases'
<1> USE DEF Canvases
<1>1. CASE SameCanvases  BY <1>1 DEF SameCanvases
<1>2. ASSUME NEW c, W!Edit(c)  PROVE Canvases'
  <2>1. c \in Content /\ opened' = opened /\ editsW' \in 0..MaxEdits
    BY <1>2, WorkspaceAssumption DEF W!Edit
  <2>2. CASE W!inTestset
    <3>1. SetTo(ts, ts') /\ UNCHANGED <<poolW, trimmed>>  BY <1>2, <2>1, <2>2, Operations DEF W!Edit
    <3>2. IsTimeline(ts')  BY <3>1, TimelineSteps
    <3> QED  BY <2>1, <3>1, <3>2
  <2>3. CASE ~W!inTestset
    <3>1. /\ SetTo(poolW, poolW') /\ UNCHANGED ts
          /\ trimmed' = (trimmed \/ Len(poolW.past) = Limit)
      BY <1>2, <2>1, <2>3, Operations DEF W!Edit, W!Trimming
    <3>2. IsTimeline(poolW') /\ (Len(poolW.past) < Limit => Oldest(poolW') = Oldest(poolW))
      BY <3>1, TimelineSteps
    <3>3. Len(poolW.past) # Limit => Len(poolW.past) < Limit
      <4>1. /\ Len(poolW.past) \in Nat /\ Len(poolW.future) \in Nat /\ Limit \in Nat
            /\ Len(poolW.past) + Len(poolW.future) <= Limit
        BY WorkspaceAssumption DEF IsTimeline
      <4>2. PICK p0, f0 : p0 = Len(poolW.past) /\ f0 = Len(poolW.future)  OBVIOUS
      <4>3. p0 \in Nat /\ f0 \in Nat /\ Limit \in Nat /\ p0 + f0 <= Limit  BY <4>1, <4>2
      <4>4. p0 <= Limit  BY <4>3
      <4> QED  BY <4>2, <4>3, <4>4
    <3> QED  BY <2>1, <3>1, <3>2, <3>3
  <2> QED  BY <2>2, <2>3
<1>3. CASE Travels
  <2>1. UNCHANGED <<editsW, opened, trimmed>>  BY <1>3 DEF Travels
  <2>2. \/ UndoneTo(poolW, poolW') /\ ts' = ts
        \/ RedoneTo(poolW, poolW') /\ ts' = ts
        \/ UndoneTo(ts, ts') /\ poolW' = poolW
        \/ RedoneTo(ts, ts') /\ poolW' = poolW
    BY <1>3, Operations DEF Travels, W!UndoKey, W!RedoKey
  <2>3. IsTimeline(poolW') /\ IsTimeline(ts') /\ Oldest(poolW') = Oldest(poolW)
    BY <2>2, TimelineSteps
  <2> QED  BY <2>1, <2>3
<1>4. CASE W!go
  <2>1. Blank \in Content /\ editsW' \in 0..MaxEdits  BY <1>4, WorkspaceAssumption DEF W!go
  <2>2. \/ OpensWith(Blank, ts') /\ UNCHANGED <<poolW, opened, trimmed>>
        \/ OpensWith(Blank, poolW') /\ opened' = Blank /\ trimmed' = FALSE /\ ts' = ts
    BY <1>4, <2>1, Operations DEF W!go
  <2>3. CASE OpensWith(Blank, ts') /\ UNCHANGED <<poolW, opened, trimmed>>
    BY <2>1, <2>3, TimelineSteps
  <2>4. CASE OpensWith(Blank, poolW') /\ opened' = Blank /\ trimmed' = FALSE /\ ts' = ts
    BY <2>1, <2>4, TimelineSteps
  <2> QED  BY <2>2, <2>3, <2>4
<1>5. ASSUME NEW c \in Content, W!Opens(c)  PROVE Canvases'
  <2>1. /\ OpensWith(c, poolW') /\ opened' = c /\ trimmed' = FALSE /\ ts' = ts
        /\ editsW' \in 0..MaxEdits
    BY <1>5, Operations, WorkspaceAssumption DEF W!Opens
  <2> QED  BY <2>1, TimelineSteps
<1> QED  BY <1>1, <1>2, <1>3, <1>4, <1>5

\* What a step of the page does to the canvases.
LEMMA PageSteps ==
  ASSUME W!Next
  PROVE  \/ SameCanvases
         \/ \E c : W!Edit(c)
         \/ Travels
         \/ W!go
         \/ \E c \in Content : W!Opens(c)
<1>1. CASE W!Key
  <2>1. CASE W!EscapeKey  BY <2>1 DEF W!EscapeKey, SameCanvases
  <2>2. CASE W!DeleteKey  BY <2>2 DEF W!DeleteKey
  <2>3. CASE W!StepKey \/ W!LetterStepKey  BY <2>3 DEF W!StepKey, W!LetterStepKey
  <2>4. CASE W!UndoRedoKey  BY <2>4 DEF W!UndoRedoKey, Travels
  <2>5. CASE W!CopyAcceptKey  BY <2>5 DEF W!CopyAcceptKey
  <2>6. CASE W!HelpKey  BY <2>6 DEF W!HelpKey, SameCanvases
  <2> QED  BY <1>1, <2>1, <2>2, <2>3, <2>4, <2>5, <2>6 DEF W!Key
<1>2. CASE W!DrawBox  BY <1>2 DEF W!DrawBox
<1>3. CASE \E i \in DOMAIN W!boxes : W!SelectBox(i)  BY <1>3 DEF W!SelectBox, SameCanvases
<1>4. CASE \E p \in W!Panels : W!setPanel(p)  BY <1>4 DEF W!setPanel, SameCanvases
<1>5. CASE \E f \in {"page", "field", "control"} : W!FocusOn(f)
  BY <1>5 DEF W!FocusOn, SameCanvases
<1>6. CASE \E d \in {"known", "other"} : W!Open(d)  BY <1>6 DEF W!Open, SameCanvases
<1>7. CASE W!CloseButton  BY <1>7 DEF W!CloseButton, SameCanvases
<1>8. CASE W!setShortcuts  BY <1>8 DEF W!setShortcuts, SameCanvases
<1> QED
  BY <1>1, <1>2, <1>3, <1>4, <1>5, <1>6, <1>7, <1>8 DEF W!Next

\* Every step leaves the panel, the focus, the selection and the dialog one
\* that there is.
LEMMA PageTyped ==
  ASSUME WInv, W!Next
  PROVE  UiTypes'
<1> USE DEF WInv, UiTypes, W!Panels, W!Focus
<1>1. DOMAIN W!boxes \subseteq Nat
  <2>1. W!boxes \in Content  BY DEF Canvases, IsTimeline, W!boxes
  <2> QED  BY <2>1, WorkspaceAssumption
<1>2. CASE W!EscapeKey
  BY <1>2 DEF W!EscapeKey, W!Deselect, W!Close, W!HasCanvas
<1>3. CASE W!DeleteKey  BY <1>3 DEF W!DeleteKey, W!Deselect
<1>4. CASE W!StepKey \/ W!LetterStepKey
  BY <1>4 DEF W!StepKey, W!LetterStepKey, W!go, W!Deselect
<1>5. CASE W!UndoRedoKey \/ W!CopyAcceptKey  BY <1>5 DEF W!UndoRedoKey, W!CopyAcceptKey, W!ui
<1>6. CASE W!HelpKey  BY <1>6 DEF W!HelpKey
<1>7. CASE W!DrawBox  BY <1>7 DEF W!DrawBox, W!Deselect
<1>8. CASE \E i \in DOMAIN W!boxes : W!SelectBox(i)  BY <1>1, <1>8 DEF W!SelectBox
<1>9. CASE \E p \in W!Panels : W!setPanel(p)  BY <1>9 DEF W!setPanel, W!Deselect
<1>10. CASE \E f \in {"page", "field", "control"} : W!FocusOn(f)  BY <1>10 DEF W!FocusOn
<1>11. CASE \E d \in {"known", "other"} : W!Open(d)  BY <1>11 DEF W!Open
<1>12. CASE W!CloseButton  BY <1>12 DEF W!CloseButton, W!Close, W!HasCanvas
<1>13. CASE W!setShortcuts  BY <1>13 DEF W!setShortcuts
<1>14. CASE \E c \in Content : W!Opens(c)  BY <1>14 DEF W!Opens, W!Deselect
<1> QED
  BY <1>2, <1>3, <1>4, <1>5, <1>6, <1>7, <1>8, <1>9, <1>10, <1>11, <1>12, <1>13, <1>14
     DEF W!Next, W!Key

LEMMA WorkspaceStep == WInv /\ W!Next => WInv'
BY PageSteps, CanvasesKept, PageTyped DEF WInv

LEMMA WorkspaceStays == WInv /\ UNCHANGED workspace => WInv'
BY DEF WInv, Canvases, UiTypes, workspace

LEMMA WorkspaceAlways == Spec => [](screen = "workspace" => WInv)
<1>1. Init => (screen = "workspace" => WInv)
  BY WorkspaceBegins DEF Init
<1>2. (screen = "workspace" => WInv) /\ [Next]_vars => (screen = "workspace" => WInv)'
  <2> SUFFICES ASSUME WInv, [Next]_vars, screen = "workspace"  PROVE WInv'
    BY DEF Next, vars
  <2> QED  BY WorkspaceStep, WorkspaceStays DEF Next, vars
<1> QED  BY <1>1, <1>2, PTL DEF Spec, vars

(* The page of a project is left without a warning only when the pool's    *)
(* canvas holds what it opened with, through undo, redo and the edits of   *)
(* both canvases, for every content and every limit of the history, as     *)
(* long as the history was not cut at it (page.tsx:70-74).                 *)
THEOREM LeftClean == Spec => []CleanMeansOpened
<1>1. (screen = "workspace" => WInv) => CleanMeansOpened
  <2> SUFFICES ASSUME WInv, ~trimmed, poolW.past = <<>>  PROVE poolW.boxes = opened
    BY DEF CleanMeansOpened, W!CleanMeansOpened, W!unsaved, W!canUndo
  <2>1. Oldest(poolW) = opened  BY DEF WInv, Canvases
  <2>2. poolW.boxes \in Content  BY DEF WInv, Canvases, IsTimeline
  <2>3. Append(<<>>, poolW.boxes)[1] = poolW.boxes  OBVIOUS
  <2> QED  BY <2>1, <2>3 DEF Oldest
<1> QED  BY <1>1, WorkspaceAlways, PTL

-----------------------------------------------------------------------------
(***************************************************************************)
(* Labels.  Every list of classes this tab holds or still hears of is a    *)
(* beginning of the server's, which only grows.  What is taught stays      *)
(* taught, so the boxes of a review stay savable; and a class keeps its    *)
(* place, so its colour.                                                   *)
(***************************************************************************)
LEMMA LabelsCounts == \A S : L!Cardinality(S) = Cardinality(S)
BY DEF L!Cardinality, Cardinality

\* The places of a finite set of places are numbered from 1 on, without gaps.
LEMMA PlaceNumbers ==
  ASSUME NEW K, NEW n \in Nat, K \subseteq 1..n
  PROVE  /\ Cardinality(K) \in Nat
         /\ \A j \in 1..Cardinality(K) :
              L!Nth(K, j) \in K /\ Cardinality({i \in K : i <= L!Nth(K, j)}) = j
         /\ \A k \in K : \E j \in 1..Cardinality(K) : L!Nth(K, j) = k
<1> DEFINE C == Cardinality(K)
           upTo(k) == {i \in K : i <= k}
           rank == [k \in K |-> Cardinality(upTo(k))]
<1>1. IsFiniteSet(K) /\ C \in Nat /\ IsFiniteSet(1..C) /\ Cardinality(1..C) = C
  <2>1. IsFiniteSet(1..n)  BY FS_Interval
  <2>2. IsFiniteSet(K)  BY <2>1, FS_Subset
  <2>3. C \in Nat  BY <2>2, FS_CardinalityType
  <2>4. IsFiniteSet(1..C) /\ Cardinality(1..C) = IF 1 > C THEN 0 ELSE C - 1 + 1
    BY <2>3, FS_Interval
  <2> QED  BY <2>2, <2>3, <2>4
<1>2. \A k \in K : IsFiniteSet(upTo(k)) /\ Cardinality(upTo(k)) \in 1..C
  <2> SUFFICES ASSUME NEW k \in K  PROVE IsFiniteSet(upTo(k)) /\ Cardinality(upTo(k)) \in 1..C
    OBVIOUS
  <2>1. upTo(k) \in SUBSET K  OBVIOUS
  <2>2. IsFiniteSet(upTo(k)) /\ Cardinality(upTo(k)) <= C  BY <1>1, <2>1, FS_Subset
  <2>3. Cardinality(upTo(k)) \in Nat  BY <2>2, FS_CardinalityType
  <2>4. k \in upTo(k)  OBVIOUS
  <2>5. Cardinality(upTo(k)) # 0  BY <2>2, <2>4, FS_EmptySet
  <2> QED  BY <1>1, <2>2, <2>3, <2>5
<1>3. \A k, m \in K : k < m => Cardinality(upTo(k)) # Cardinality(upTo(m))
  <2> SUFFICES ASSUME NEW k \in K, NEW m \in K, k < m,
                      Cardinality(upTo(k)) = Cardinality(upTo(m))
               PROVE  FALSE
    OBVIOUS
  <2>1. upTo(k) \in SUBSET upTo(m)
    <3>1. \A i \in K : i \in Int  OBVIOUS
    <3>2. \A i \in K : i <= k => i <= m  BY <3>1
    <3> QED  BY <3>2
  <2>2. upTo(m) = upTo(k)  BY <1>2, <2>1, FS_Subset
  <2>3. m \in upTo(m) /\ m \notin upTo(k)  OBVIOUS
  <2> QED  BY <2>2, <2>3
<1>4. rank \in Injection(K, 1..C)
  <2>1. rank \in [K -> 1..C]  BY <1>2
  <2>2. \A k, m \in K : rank[k] = rank[m] => k = m
    <3> SUFFICES ASSUME NEW k \in K, NEW m \in K, rank[k] = rank[m], k # m  PROVE FALSE
      OBVIOUS
    <3>1. k < m \/ m < k  OBVIOUS
    <3> QED  BY <1>3, <3>1
  <2> QED  BY <2>1, <2>2 DEF Injection, IsInjective
<1>5. rank \in Surjection(K, 1..C)  BY <1>1, <1>4, FS_Injection
<1>6. \A j \in 1..C : L!Nth(K, j) \in K /\ Cardinality(upTo(L!Nth(K, j))) = j
  <2> SUFFICES ASSUME NEW j \in 1..C
               PROVE  L!Nth(K, j) \in K /\ Cardinality(upTo(L!Nth(K, j))) = j
    OBVIOUS
  <2>1. PICK k \in K : rank[k] = j  BY <1>5 DEF Surjection
  <2>2. Cardinality(upTo(k)) = j  BY <2>1
  <2>3. L!Nth(K, j) = CHOOSE i \in K : Cardinality({h \in K : h <= i}) = j
    BY LabelsCounts DEF L!Nth
  <2> QED  BY <2>2, <2>3
<1>7. \A k \in K : \E j \in 1..C : L!Nth(K, j) = k
  <2> SUFFICES ASSUME NEW k \in K  PROVE \E j \in 1..C : L!Nth(K, j) = k
    OBVIOUS
  <2>1. rank[k] \in 1..C  BY <1>2
  <2>2. L!Nth(K, rank[k]) \in K /\ rank[L!Nth(K, rank[k])] = rank[k]  BY <1>6, <2>1
  <2>3. L!Nth(K, rank[k]) = k  BY <1>4, <2>2 DEF Injection, IsInjective
  <2> QED  BY <2>1, <2>3
<1> QED  BY <1>1, <1>6, <1>7

\* What Array.filter returns.
LEMMA Kept ==
  ASSUME NEW T, NEW s \in Seq(T), NEW S
  PROVE  /\ L!Keep(s, S) \in Seq(T)
         /\ \A x : (\E j \in DOMAIN L!Keep(s, S) : L!Keep(s, S)[j] = x)
                  <=> x \in S /\ \E k \in DOMAIN s : s[k] = x
         /\ L!IsInjective(s) => L!IsInjective(L!Keep(s, S))
<1> DEFINE K == {k \in DOMAIN s : s[k] \in S}
           C == Cardinality(K)
           f == L!Keep(s, S)
<1>1. K \subseteq 1..Len(s) /\ Len(s) \in Nat /\ DOMAIN s = 1..Len(s)  OBVIOUS
<1>2. /\ C \in Nat
      /\ \A j \in 1..C : L!Nth(K, j) \in K /\ Cardinality({i \in K : i <= L!Nth(K, j)}) = j
      /\ \A k \in K : \E j \in 1..C : L!Nth(K, j) = k
  BY <1>1, PlaceNumbers
<1>3. f = [j \in 1..C |-> s[L!Nth(K, j)]]
  BY LabelsCounts DEF L!Keep
<1> HIDE DEF f, C
<1>4. f \in Seq(T)
  <2>1. \A k \in K : s[k] \in T  BY <1>1
  <2>2. \A j \in 1..C : s[L!Nth(K, j)] \in T  BY <1>2, <2>1
  <2> QED  BY <1>2, <1>3, <2>2
<1>5. \A x : (\E j \in DOMAIN f : f[j] = x) <=> x \in S /\ \E k \in DOMAIN s : s[k] = x
  <2>1. ASSUME NEW j \in DOMAIN f  PROVE f[j] \in S /\ \E k \in DOMAIN s : s[k] = f[j]
    BY <1>2, <1>3
  <2>2. ASSUME NEW k \in DOMAIN s, s[k] \in S  PROVE \E j \in DOMAIN f : f[j] = s[k]
    <3>1. k \in K  BY <2>2
    <3>2. PICK j \in 1..C : L!Nth(K, j) = k  BY <1>2, <3>1
    <3> QED  BY <1>3, <3>2
  <2> QED  BY <2>1, <2>2
<1>6. ASSUME L!IsInjective(s)  PROVE L!IsInjective(f)
  <2> SUFFICES ASSUME NEW a \in 1..C, NEW b \in 1..C, f[a] = f[b]  PROVE a = b
    BY <1>3 DEF L!IsInjective
  <2>1. s[L!Nth(K, a)] = s[L!Nth(K, b)]  BY <1>3
  <2>2. L!Nth(K, a) \in DOMAIN s /\ L!Nth(K, b) \in DOMAIN s  BY <1>2
  <2>3. L!Nth(K, a) = L!Nth(K, b)  BY <1>6, <2>1, <2>2 DEF L!IsInjective
  <2> QED  BY <1>2, <2>3
<1> QED  BY <1>4, <1>5, <1>6 DEF f

IsBeginning(l, t) ==
  /\ l \in Seq(L!Classes) /\ t \in Seq(L!Classes) /\ L!IsInjective(t)
  /\ Len(l) <= Len(t) /\ \A i \in 1..Len(l) : l[i] = t[i]

BeginningsOf(t) == IsBeginning(bankNames, t) /\ \A l \in answers : IsBeginning(l, t)

PlanTypes ==
  /\ planned \in Seq(L!Classes) /\ L!IsInjective(planned)
  /\ chosen \in [L!Classes -> 0..Palette]
  /\ cls \in L!Classes \cup {""} /\ saves \in 0..MaxSaves
  /\ isReview \in BOOLEAN /\ turned \in BOOLEAN

OnlyTaught ==
  /\ boxesL \subseteq L!Classes
  /\ isReview /\ ~turned /\ bankNames # <<>> => boxesL \subseteq L!ToSet(taught)

LInv == BeginningsOf(taught) /\ PlanTypes /\ OnlyTaught

LEMMA ClassesFinite == IsFiniteSet(L!Classes) /\ Cardinality(L!Classes) \in Nat
BY LabelsAssumption, FS_AddElement, FS_CardinalityType DEF L!Classes

\* A list without repetition is no longer than there are classes.
LEMMA ListsAre ==
  ASSUME NEW l
  PROVE  l \in L!Lists <=> l \in Seq(L!Classes) /\ L!IsInjective(l)
<1>1. ASSUME l \in L!Lists  PROVE l \in Seq(L!Classes) /\ L!IsInjective(l)
  <2>1. PICK m \in 0..L!Cardinality(L!Classes) : l \in [1..m -> L!Classes]
    BY <1>1 DEF L!Lists, L!SeqOf
  <2>2. m \in Nat  BY <2>1, ClassesFinite, LabelsCounts
  <2>3. L!IsInjective(l)  BY <1>1 DEF L!Lists
  <2> QED  BY <2>1, <2>2, <2>3
<1>2. ASSUME l \in Seq(L!Classes), L!IsInjective(l)  PROVE l \in L!Lists
  <2>1. l \in [1..Len(l) -> L!Classes] /\ Len(l) \in Nat  BY <1>2
  <2>2. l \in Injection(1..Len(l), L!Classes)
    BY <1>2, <2>1 DEF Injection, IsInjective, L!IsInjective
  <2>3. Cardinality(1..Len(l)) <= Cardinality(L!Classes)  BY <2>2, ClassesFinite, FS_Injection
  <2>4. Cardinality(1..Len(l)) = Len(l)
    <3>1. 1 \in Int /\ Len(l) \in Int  BY <2>1
    <3>2. Cardinality(1..Len(l)) = IF 1 > Len(l) THEN 0 ELSE Len(l) - 1 + 1
      BY <3>1, FS_Interval
    <3> QED  BY <2>1, <3>2
  <2>5. Len(l) \in 0..L!Cardinality(L!Classes)
    BY <2>1, <2>3, <2>4, ClassesFinite, LabelsCounts
  <2> QED  BY <1>2, <2>1, <2>5 DEF L!Lists, L!SeqOf
<1> QED  BY <1>1, <1>2

LEMMA LabelsTyped == LInv => L!TypeOK
<1> SUFFICES ASSUME LInv  PROVE L!TypeOK
  OBVIOUS
<1>1. \A l : IsBeginning(l, taught) => l \in Seq(L!Classes) /\ L!IsInjective(l)
  <2> SUFFICES ASSUME NEW l, IsBeginning(l, taught)
               PROVE  l \in Seq(L!Classes) /\ L!IsInjective(l)
    OBVIOUS
  <2>1. /\ l \in Seq(L!Classes) /\ taught \in Seq(L!Classes) /\ L!IsInjective(taught)
        /\ Len(l) <= Len(taught) /\ \A i \in 1..Len(l) : l[i] = taught[i]
    BY DEF IsBeginning
  <2>2. /\ DOMAIN l = 1..Len(l) /\ DOMAIN taught = 1..Len(taught)
        /\ Len(l) \in Nat /\ Len(taught) \in Nat
    BY <2>1
  <2>3. \A i \in 1..Len(l) : i \in 1..Len(taught)  BY <2>1, <2>2
  <2> QED  BY <2>1, <2>2, <2>3 DEF L!IsInjective
<1>2. taught \in L!Lists  BY ListsAre DEF LInv, BeginningsOf, IsBeginning
<1>3. bankNames \in L!Lists  BY <1>1, ListsAre DEF LInv, BeginningsOf
<1>4. answers \subseteq L!Lists  BY <1>1, ListsAre DEF LInv, BeginningsOf
<1>5. planned \in L!Lists  BY ListsAre DEF LInv, PlanTypes
<1>6. {isReview, turned} \subseteq BOOLEAN  BY DEF LInv, PlanTypes
<1>7. /\ chosen \in [L!Classes -> 0..Palette] /\ cls \in L!Classes \cup {""}
      /\ saves \in 0..MaxSaves
  BY DEF LInv, PlanTypes
<1>8. boxesL \subseteq L!Classes  BY DEF LInv, OnlyTaught
<1> QED  BY <1>2, <1>3, <1>4, <1>5, <1>6, <1>7, <1>8 DEF L!TypeOK

LEMMA LabelsBegin == L!Init => LInv
<1> SUFFICES ASSUME L!Init  PROVE LInv
  OBVIOUS
<1>1. taught \in Seq(L!Classes) /\ L!IsInjective(taught) /\ bankNames = taught /\ answers = {}
  BY ListsAre DEF L!Init
<1>2. BeginningsOf(taught)  BY <1>1 DEF BeginningsOf, IsBeginning
<1>3. planned \in Seq(L!Classes) /\ L!IsInjective(planned)  BY ListsAre DEF L!Init
<1>4. 0 \in 0..Palette /\ 0 \in 0..MaxSaves  BY LabelsAssumption
<1>5. chosen \in [L!Classes -> 0..Palette] /\ saves \in 0..MaxSaves  BY <1>4 DEF L!Init
<1>6. PlanTypes  BY <1>3, <1>5 DEF L!Init, PlanTypes, L!Classes
<1>7. OnlyTaught  BY DEF L!Init, OnlyTaught
<1> QED  BY <1>2, <1>6, <1>7 DEF LInv

\* The server's list grows at its end, by classes it does not have.
LEMMA TaughtGrows ==
  ASSUME LInv, L!Next
  PROVE  IsBeginning(taught, taught')
<1>1. taught \in Seq(L!Classes) /\ L!IsInjective(taught)
  BY DEF LInv, BeginningsOf, IsBeginning
<1>2. ASSUME NEW m \in Nat, NEW order \in [1..m -> L!Classes],
             \A i, j \in 1..m : i # j => order[i] # order[j],
             \A i \in 1..m, k \in DOMAIN taught : order[i] # taught[k],
             taught' = taught \o order
      PROVE  IsBeginning(taught, taught')
  <2>1. order \in Seq(L!Classes) /\ Len(order) = m  BY <1>2
  <2>2. PICK t : t = taught \o order  OBVIOUS
  <2>3. t \in Seq(L!Classes) /\ Len(t) = Len(taught) + m
    <3>1. PICK o, s : o = order /\ s = taught  OBVIOUS
    <3>2. o \in Seq(L!Classes) /\ s \in Seq(L!Classes)  BY <1>1, <2>1, <3>1
    <3>3. s \o o \in Seq(L!Classes) /\ Len(s \o o) = Len(s) + Len(o)  BY <3>2
    <3> QED  BY <2>1, <2>2, <3>1, <3>3
  <2>4. Len(taught) \in Nat /\ DOMAIN taught = 1..Len(taught)  BY <1>1
  <2>5. /\ \A i \in 1..Len(taught) : t[i] = taught[i]
        /\ \A i \in 1..Len(t) : i > Len(taught) =>
             i - Len(taught) \in 1..m /\ t[i] = order[i - Len(taught)]
    BY <1>1, <2>1, <2>2, <2>3, <2>4
  <2>6. \A a, b \in 1..Len(t) : t[a] = t[b] => a = b
    <3> SUFFICES ASSUME NEW a \in 1..Len(t), NEW b \in 1..Len(t), t[a] = t[b]  PROVE a = b
      OBVIOUS
    <3>1. CASE a <= Len(taught) /\ b <= Len(taught)
      BY <1>1, <2>4, <2>5, <3>1 DEF L!IsInjective
    <3>2. CASE a > Len(taught) /\ b > Len(taught)
      <4>1. order[a - Len(taught)] = order[b - Len(taught)]  BY <2>5, <3>2
      <4>2. a - Len(taught) = b - Len(taught)  BY <1>2, <2>5, <3>2, <4>1
      <4> QED  BY <2>3, <2>4, <4>2
    <3>3. CASE a <= Len(taught) /\ b > Len(taught)
      <4>1. a \in DOMAIN taught /\ t[a] = taught[a]  BY <2>3, <2>4, <2>5, <3>3
      <4> QED  BY <1>2, <2>5, <3>3, <4>1
    <3>4. CASE a > Len(taught) /\ b <= Len(taught)
      <4>1. b \in DOMAIN taught /\ t[b] = taught[b]  BY <2>3, <2>4, <2>5, <3>4
      <4> QED  BY <1>2, <2>5, <3>4, <4>1
    <3> QED  BY <2>3, <2>4, <3>1, <3>2, <3>3, <3>4
  <2>7. L!IsInjective(t)
    <3>1. DOMAIN t = 1..Len(t)  BY <2>3
    <3> QED  BY <2>6, <3>1 DEF L!IsInjective
  <2>8. taught' = t  BY <1>2, <2>2
  <2>9. Len(taught) <= Len(t)  BY <2>3, <2>4
  <2> QED  BY <1>1, <2>3, <2>5, <2>7, <2>8, <2>9 DEF IsBeginning
<1>3. ASSUME taught' = taught  PROVE IsBeginning(taught, taught')
  BY <1>1, <1>3 DEF IsBeginning
<1>4. CASE L!saveLabel
  <2> DEFINE S == boxesL \ L!ToSet(taught)
  <2>1. PICK order \in L!SetToSeqs(S) : taught' = taught \o order  BY <1>4 DEF L!saveLabel
  <2>2. Cardinality(S) \in Nat /\ S \subseteq L!Classes
    <3>1. S \in SUBSET L!Classes  BY DEF LInv, OnlyTaught
    <3>2. IsFiniteSet(S)  BY <3>1, ClassesFinite, FS_Subset
    <3> QED  BY <3>1, <3>2, FS_CardinalityType
  <2>3. /\ order \in [1..Cardinality(S) -> S]
        /\ \A i, j \in 1..Cardinality(S) : i # j => order[i] # order[j]
    BY <2>1, LabelsCounts DEF L!SetToSeqs
  <2>4. \A k \in DOMAIN taught : taught[k] \notin S  BY DEF L!ToSet
  <2>5. order \in [1..Cardinality(S) -> L!Classes]  BY <2>2, <2>3
  <2> QED  BY <1>2, <2>1, <2>2, <2>3, <2>4, <2>5
<1>5. ASSUME NEW n \in L!Classes, L!OtherTeaches(n)  PROVE IsBeginning(taught, taught')
  <2>1. PICK order : order = <<n>>  OBVIOUS
  <2>2. order \in [1..1 -> L!Classes] /\ \A i \in 1..1 : order[i] = n  BY <2>1
  <2>3. \A k \in DOMAIN taught : taught[k] # n
    BY <1>1, <1>5 DEF L!OtherTeaches, L!Contains
  <2>4. taught' = taught \o order  BY <1>1, <1>5, <2>1 DEF L!OtherTeaches
  <2>5. \A i, j \in 1..1 : i # j => order[i] # order[j]  OBVIOUS
  <2>6. \A i \in 1..1, k \in DOMAIN taught : order[i] # taught[k]  BY <2>2, <2>3
  <2>7. 1 \in Nat  OBVIOUS
  <2> QED  BY <1>2, <2>2, <2>4, <2>5, <2>6, <2>7
<1>6. CASE ~(L!saveLabel \/ \E n \in L!Classes : L!OtherTeaches(n))
  BY <1>3, <1>6 DEF L!Next, L!add, L!removeClass, L!setClassColor, L!PickClass, L!TypeClass,
     L!onAdd, L!Erase, L!GoToImage, L!Turn, L!SaveAnswer
<1> QED  BY <1>4, <1>5, <1>6

LEMMA BeginningsNest ==
  ASSUME NEW l, NEW s, NEW t, IsBeginning(l, s), IsBeginning(s, t)
  PROVE  IsBeginning(l, t)
<1>1. /\ Len(l) \in Nat /\ Len(s) \in Nat /\ Len(t) \in Nat /\ Len(l) <= Len(s)
      /\ Len(s) <= Len(t)
  BY DEF IsBeginning
<1>2. \A i \in 1..Len(l) : i \in 1..Len(s)  BY <1>1
<1> QED  BY <1>1, <1>2 DEF IsBeginning

LEMMA BeginningsStay ==
  ASSUME LInv, L!Next
  PROVE  BeginningsOf(taught)'
<1>1. IsBeginning(taught, taught')  BY TaughtGrows
<1>2. IsBeginning(taught', taught')  BY <1>1 DEF IsBeginning
<1>3. IsBeginning(bankNames, taught') /\ \A l \in answers : IsBeginning(l, taught')
  BY <1>1, BeginningsNest DEF LInv, BeginningsOf
<1>4. /\ bankNames' = bankNames \/ bankNames' \in answers
      /\ answers' \subseteq answers \cup {taught'}
  BY DEF L!Next, L!add, L!removeClass, L!setClassColor, L!PickClass, L!TypeClass, L!onAdd,
     L!Erase, L!GoToImage, L!Turn, L!saveLabel, L!SaveAnswer, L!OtherTeaches
<1> QED  BY <1>2, <1>3, <1>4 DEF BeginningsOf

\* What the tab shows is what it has of the server's list, then the plan.
LEMMA Shown ==
  ASSUME LInv
  PROVE  /\ L!classNames \in Seq(L!Classes)
         /\ Len(bankNames) <= Len(L!classNames)
         /\ \A i \in 1..Len(bankNames) : L!classNames[i] = bankNames[i]
         /\ \A k \in DOMAIN planned : L!Contains(L!classNames, planned[k])
<1> DEFINE rest == L!Keep(planned, L!Classes \ L!ToSet(bankNames))
<1>1. bankNames \in Seq(L!Classes) /\ planned \in Seq(L!Classes)
  BY DEF LInv, BeginningsOf, IsBeginning, PlanTypes
<1>2. /\ rest \in Seq(L!Classes)
      /\ \A x : (\E j \in DOMAIN rest : rest[j] = x)
               <=> x \in L!Classes \ L!ToSet(bankNames) /\ \E k \in DOMAIN planned : planned[k] = x
  <2>1. PICK T, D : T = L!Classes /\ D = L!Classes \ L!ToSet(bankNames)  OBVIOUS
  <2>2. planned \in Seq(T) /\ rest = L!Keep(planned, D)  BY <1>1, <2>1
  <2>3. /\ L!Keep(planned, D) \in Seq(T)
        /\ \A x : (\E j \in DOMAIN L!Keep(planned, D) : L!Keep(planned, D)[j] = x)
                 <=> x \in D /\ \E k \in DOMAIN planned : planned[k] = x
    BY <2>2, Kept
  <2> HIDE DEF rest
  <2>4. rest \in Seq(L!Classes)  BY <2>1, <2>2, <2>3
  <2>5. \A x : (\E j \in DOMAIN rest : rest[j] = x)
             <=> x \in D /\ \E k \in DOMAIN planned : planned[k] = x
    BY <2>2, <2>3
  <2> QED  BY <2>1, <2>4, <2>5
<1>3. L!classNames = bankNames \o rest  BY DEF L!classNames
<1> HIDE DEF rest
<1>4. /\ L!classNames \in Seq(L!Classes)
      /\ Len(L!classNames) = Len(bankNames) + Len(rest)
      /\ \A i \in 1..Len(bankNames) : L!classNames[i] = bankNames[i]
      /\ \A j \in 1..Len(rest) : L!classNames[Len(bankNames) + j] = rest[j]
  BY <1>1, <1>2, <1>3
<1>5. Len(bankNames) \in Nat /\ Len(rest) \in Nat /\ DOMAIN rest = 1..Len(rest)
  BY <1>1, <1>2
<1>6. ASSUME NEW k \in DOMAIN planned  PROVE L!Contains(L!classNames, planned[k])
  <2>1. planned[k] \in L!Classes  BY <1>1
  <2>2. CASE planned[k] \in L!ToSet(bankNames)
    <3>1. PICK i \in 1..Len(bankNames) : bankNames[i] = planned[k]
      BY <1>1, <2>2 DEF L!ToSet
    <3>2. i \in 1..Len(L!classNames)  BY <1>4, <1>5
    <3> QED  BY <1>4, <3>1, <3>2 DEF L!Contains
  <2>3. CASE planned[k] \notin L!ToSet(bankNames)
    <3>1. PICK j \in 1..Len(rest) : rest[j] = planned[k]  BY <1>2, <1>5, <2>1, <2>3
    <3>2. Len(bankNames) + j \in 1..Len(L!classNames)  BY <1>4, <1>5
    <3> QED  BY <1>4, <3>1, <3>2 DEF L!Contains
  <2> QED  BY <2>2, <2>3
<1> QED  BY <1>4, <1>5, <1>6

LEMMA Appended ==
  ASSUME NEW T, NEW s \in Seq(T), NEW n \in T, L!IsInjective(s), \A k \in DOMAIN s : s[k] # n
  PROVE  Append(s, n) \in Seq(T) /\ L!IsInjective(Append(s, n))
<1>1. PICK p : p = Append(s, n)  OBVIOUS
<1>2. p \in Seq(T) /\ Len(p) = Len(s) + 1  BY <1>1
<1>3. Len(s) \in Nat /\ DOMAIN s = 1..Len(s) /\ DOMAIN p = 1..Len(p)  BY <1>2
<1>4. \A i \in DOMAIN p : p[i] = IF i = Len(s) + 1 THEN n ELSE s[i]  BY <1>1, <1>2, <1>3
<1>5. \A i \in DOMAIN p : i = Len(s) + 1 \/ i \in DOMAIN s  BY <1>2, <1>3
<1>6. L!IsInjective(p)  BY <1>4, <1>5 DEF L!IsInjective
<1> QED  BY <1>1, <1>2, <1>6

LEMMA PlanStays ==
  ASSUME LInv, L!Next
  PROVE  PlanTypes'
<1>1. /\ planned \in Seq(L!Classes) /\ L!IsInjective(planned)
      /\ chosen \in [L!Classes -> 0..Palette]
      /\ cls \in L!Classes \cup {""} /\ saves \in 0..MaxSaves
      /\ isReview \in BOOLEAN /\ turned \in BOOLEAN
  BY DEF LInv, PlanTypes
<1>2. planned' \in Seq(L!Classes) /\ L!IsInjective(planned')
  <2>1. ASSUME NEW n \in L!Classes, L!add(n)
        PROVE  planned' \in Seq(L!Classes) /\ L!IsInjective(planned')
    <3>1. \A k \in DOMAIN planned : planned[k] # n  BY <2>1, Shown DEF L!add
    <3>2. planned' = Append(planned, n)  BY <2>1 DEF L!add
    <3> QED  BY <1>1, <3>1, <3>2, Appended
  <2>2. ASSUME NEW n \in L!Classes, L!removeClass(n)
        PROVE  planned' \in Seq(L!Classes) /\ L!IsInjective(planned')
    <3>1. planned' = L!Keep(planned, L!Classes \ {n})  BY <2>2 DEF L!removeClass
    <3> QED  BY <1>1, <3>1, Kept
  <2>3. CASE ~\E n \in L!Classes : L!add(n) \/ L!removeClass(n)
    <3>1. planned' = planned
      BY <2>3 DEF L!Next, L!setClassColor, L!PickClass, L!TypeClass, L!onAdd, L!Erase,
         L!GoToImage, L!Turn, L!saveLabel, L!SaveAnswer, L!OtherTeaches
    <3> QED  BY <1>1, <3>1
  <2> QED  BY <2>1, <2>2, <2>3
<1>3. chosen' \in [L!Classes -> 0..Palette]
  <2>1. 0 \in 0..Palette  BY LabelsAssumption
  <2>2. \/ chosen' = chosen
        \/ \E n \in L!Classes, c \in 0..Palette : chosen' = [chosen EXCEPT ![n] = c]
    BY <2>1 DEF L!Next, L!add, L!removeClass, L!setClassColor, L!PickClass, L!TypeClass,
       L!onAdd, L!Erase, L!GoToImage, L!Turn, L!saveLabel, L!SaveAnswer, L!OtherTeaches
  <2> QED  BY <1>1, <2>2
<1>4. cls' \in L!Classes \cup {""}
  BY <1>1 DEF L!Next, L!add, L!removeClass, L!setClassColor, L!PickClass, L!TypeClass,
     L!onAdd, L!Erase, L!GoToImage, L!Turn, L!saveLabel, L!SaveAnswer, L!OtherTeaches
<1>5. saves' \in 0..MaxSaves
  <2>1. saves' = saves \/ (saves < MaxSaves /\ saves' = saves + 1)
    BY DEF L!Next, L!add, L!removeClass, L!setClassColor, L!PickClass, L!TypeClass,
       L!onAdd, L!Erase, L!GoToImage, L!Turn, L!saveLabel, L!SaveAnswer, L!OtherTeaches
  <2>2. PICK n, m : n = saves /\ m = saves'  OBVIOUS
  <2>3. n \in 0..MaxSaves /\ (m = n \/ (n < MaxSaves /\ m = n + 1)) /\ MaxSaves \in Nat
    BY <1>1, <2>1, <2>2, LabelsAssumption
  <2>4. m \in 0..MaxSaves  BY <2>3
  <2> QED  BY <2>2, <2>4
<1>6. isReview' \in BOOLEAN /\ turned' \in BOOLEAN
  BY <1>1 DEF L!Next, L!add, L!removeClass, L!setClassColor, L!PickClass, L!TypeClass,
     L!onAdd, L!Erase, L!GoToImage, L!Turn, L!saveLabel, L!SaveAnswer, L!OtherTeaches
<1> QED  BY <1>2, <1>3, <1>4, <1>5, <1>6 DEF PlanTypes

LEMMA OnlyTaughtStays ==
  ASSUME LInv, L!Next
  PROVE  OnlyTaught'
<1>1. /\ boxesL \subseteq L!Classes
      /\ isReview /\ ~turned /\ bankNames # <<>> => boxesL \subseteq L!ToSet(taught)
  BY DEF LInv, OnlyTaught
<1>2. L!ToSet(taught) \subseteq L!ToSet(taught')
  <2>1. IsBeginning(taught, taught')  BY TaughtGrows
  <2>2. /\ DOMAIN taught = 1..Len(taught) /\ DOMAIN taught' = 1..Len(taught')
        /\ Len(taught) \in Nat /\ Len(taught') \in Nat
    BY <2>1 DEF IsBeginning
  <2>3. \A i \in DOMAIN taught : i \in DOMAIN taught' /\ taught'[i] = taught[i]
    BY <2>1, <2>2 DEF IsBeginning
  <2> QED  BY <2>3 DEF L!ToSet
<1>3. /\ \A i \in 1..Len(bankNames) : bankNames[i] \in L!ToSet(taught) /\ bankNames[i] \in L!Classes
      /\ bankNames # <<>> => 1 \in 1..Len(bankNames)
      /\ L!ToSet(taught) \subseteq L!Classes
  <2>1. IsBeginning(bankNames, taught)  BY DEF LInv, BeginningsOf
  <2>2. /\ bankNames \in Seq(L!Classes) /\ taught \in Seq(L!Classes)
        /\ Len(bankNames) \in Nat /\ Len(taught) \in Nat /\ Len(bankNames) <= Len(taught)
        /\ \A i \in 1..Len(bankNames) : bankNames[i] = taught[i]
    BY <2>1 DEF IsBeginning
  <2>3. \A i \in 1..Len(bankNames) : i \in DOMAIN taught  BY <2>2
  <2>4. L!ToSet(taught) \subseteq L!Classes  BY <2>2 DEF L!ToSet
  <2>5. bankNames # <<>> => 1 \in 1..Len(bankNames)  BY <2>2
  <2> QED  BY <2>2, <2>3, <2>4, <2>5 DEF L!ToSet
<1>4. CASE L!onAdd
  <2>1. PICK name : /\ boxesL' = boxesL \cup {name} /\ name \in L!Classes
                    /\ isReview /\ bankNames # <<>> => name \in L!ToSet(taught)
    <3>1. PICK name :
            /\ boxesL' = boxesL \cup {name}
            /\ name = IF ~isReview THEN IF cls = "" THEN "item" ELSE cls
                      ELSE IF L!Contains(bankNames, cls) THEN cls
                      ELSE IF bankNames # <<>> THEN bankNames[1] ELSE "item"
      BY <1>4 DEF L!onAdd
    <3>2. cls \in L!Classes \cup {""} /\ "item" \in L!Classes
      BY DEF LInv, PlanTypes, L!Classes
    <3>3. L!Contains(bankNames, cls) => cls \in L!ToSet(taught) /\ cls \in L!Classes
      BY <1>3 DEF L!Contains
    <3> QED  BY <1>3, <3>1, <3>2, <3>3
  <2>2. UNCHANGED <<taught, bankNames, isReview, turned>>  BY <1>4 DEF L!onAdd
  <2> QED  BY <1>1, <2>1, <2>2 DEF OnlyTaught, L!ToSet
<1>5. CASE L!GoToImage
  <2>1. /\ boxesL' \subseteq L!ToSet(taught) /\ taught' = taught
    BY <1>5 DEF L!GoToImage
  <2> QED  BY <1>3, <2>1 DEF OnlyTaught, L!ToSet
<1>6. CASE L!Turn
  <2>1. /\ UNCHANGED <<taught, bankNames, boxesL>> /\ turned' = (turned \/ boxesL # {})
    BY <1>6 DEF L!Turn
  <2> QED  BY <1>1, <2>1 DEF OnlyTaught, L!ToSet
<1>7. CASE \E list \in answers : L!SaveAnswer(list)
  <2>1. boxesL' = {}  BY <1>7 DEF L!SaveAnswer
  <2> QED  BY <2>1 DEF OnlyTaught
<1>8. CASE ~(L!onAdd \/ L!GoToImage \/ L!Turn \/ \E list \in answers : L!SaveAnswer(list))
  <2>1. boxesL' \subseteq boxesL /\ UNCHANGED <<bankNames, isReview, turned>>
    BY <1>8 DEF L!Next, L!add, L!removeClass, L!setClassColor, L!PickClass, L!TypeClass,
       L!Erase, L!saveLabel, L!OtherTeaches
  <2>2. boxesL' \subseteq L!Classes  BY <1>1, <2>1
  <2>3. isReview' /\ ~turned' /\ bankNames' # <<>> => boxesL' \subseteq L!ToSet(taught')
    BY <1>1, <1>2, <2>1
  <2> QED  BY <2>2, <2>3 DEF OnlyTaught, L!ToSet
<1> QED  BY <1>4, <1>5, <1>6, <1>7, <1>8

LEMMA LabelsStep == LInv /\ L!Next => LInv'
BY BeginningsStay, PlanStays, OnlyTaughtStays DEF LInv

LEMMA LabelsStay == LInv /\ UNCHANGED labels => LInv'
<1> SUFFICES ASSUME LInv, UNCHANGED labels  PROVE LInv'
  OBVIOUS
<1>1. BeginningsOf(taught)'  BY DEF LInv, BeginningsOf, labels
<1>2. PlanTypes'  BY DEF LInv, PlanTypes, labels
<1>3. OnlyTaught'  BY DEF LInv, OnlyTaught, L!ToSet, labels
<1> QED  BY <1>1, <1>2, <1>3 DEF LInv

LEMMA LabelsAlways == Spec => [](screen = "labels" => LInv)
<1>1. Init => (screen = "labels" => LInv)
  BY LabelsBegin DEF Init
<1>2. (screen = "labels" => LInv) /\ [Next]_vars => (screen = "labels" => LInv)'
  <2> SUFFICES ASSUME LInv, [Next]_vars, screen = "labels"  PROVE LInv'
    BY DEF Next, vars
  <2> QED  BY LabelsStep, LabelsStay DEF Next, vars
<1> QED  BY <1>1, <1>2, PTL DEF Spec, vars

(* The server would take what a review shows: its boxes are all of classes *)
(* that are taught, whatever is planned, picked, typed, drawn, taught by   *)
(* others or answered late, for every set of names -- unless the image got *)
(* its label while they were on the canvas (PoolPanel.tsx:23-27, 200-205). *)
THEOREM ReviewsAreTaken == Spec => []ReviewIsSavable
<1>1. (screen = "labels" => LInv) => ReviewIsSavable
  BY DEF LInv, OnlyTaught, ReviewIsSavable, L!ReviewIsSavable
<1> QED  BY <1>1, LabelsAlways, PTL

\* Where a class of the bank is found in what the tab shows: at its place in
\* the server's list.
LEMMA FoundWhereTaught ==
  ASSUME LInv, NEW n \in L!ToSet(bankNames)
  PROVE  /\ L!Contains(L!classNames, n)
         /\ \A k \in 1..Len(taught) :
              taught[k] = n => L!SelectInSeq(L!classNames, LAMBDA m : m = n) = k
<1>1. /\ bankNames \in Seq(L!Classes) /\ taught \in Seq(L!Classes) /\ L!IsInjective(taught)
      /\ Len(bankNames) <= Len(taught) /\ \A i \in 1..Len(bankNames) : bankNames[i] = taught[i]
      /\ Len(bankNames) \in Nat /\ Len(taught) \in Nat
      /\ DOMAIN bankNames = 1..Len(bankNames) /\ DOMAIN taught = 1..Len(taught)
  BY DEF LInv, BeginningsOf, IsBeginning
<1>2. /\ L!classNames \in Seq(L!Classes) /\ Len(bankNames) <= Len(L!classNames)
      /\ \A i \in 1..Len(bankNames) : L!classNames[i] = bankNames[i]
  BY Shown
<1>3. PICK p \in 1..Len(bankNames) : bankNames[p] = n  BY <1>1 DEF L!ToSet
<1>4. Len(L!classNames) \in Nat  BY <1>2
<1>5. p \in 1..Len(L!classNames) /\ L!classNames[p] = n /\ p \in 1..Len(taught) /\ taught[p] = n
  BY <1>1, <1>2, <1>3, <1>4
<1>6. ASSUME NEW k \in 1..Len(taught), taught[k] = n
      PROVE  L!SelectInSeq(L!classNames, LAMBDA m : m = n) = k
  <2> DEFINE I == {i \in 1..Len(L!classNames) : L!classNames[i] = n}
  <2>1. k = p  BY <1>1, <1>5, <1>6 DEF L!IsInjective
  <2>2. p \in I /\ I # {}  BY <1>5
  <2>3. \A i \in I : p <= i
    <3> SUFFICES ASSUME NEW i \in I, i < p  PROVE FALSE
      BY <1>1, <1>3, <1>4
    <3>1. i \in 1..Len(bankNames)  BY <1>3, <1>4, <1>1
    <3>2. taught[i] = n /\ i \in 1..Len(taught)  BY <1>1, <1>2, <3>1
    <3> QED  BY <1>1, <1>5, <3>2 DEF L!IsInjective
  <2>4. L!SelectInSeq(L!classNames, LAMBDA m : m = n) = L!Min(I)
    BY <2>2 DEF L!SelectInSeq
  <2>5. L!Min(I) = CHOOSE x \in I : \A y \in I : x <= y  BY DEF L!Min
  <2>6. \A x \in I : (\A y \in I : x <= y) => x = p
    <3> SUFFICES ASSUME NEW x \in I, x <= p  PROVE x = p
      BY <2>2
    <3> QED  BY <2>3, <1>1, <1>3, <1>4
  <2> QED  BY <2>1, <2>2, <2>3, <2>4, <2>5, <2>6
<1> QED  BY <1>5, <1>6 DEF L!Contains

ColoursByPlace ==
  \A n \in L!ToSet(bankNames), k \in 1..Len(taught) :
    taught[k] = n =>
      L!color(n) = IF chosen[n] # 0 THEN chosen[n] ELSE 1 + ((k - 1) % Palette)

LEMMA ColourOfPlace == LInv => ColoursByPlace
<1> SUFFICES ASSUME LInv, NEW n \in L!ToSet(bankNames), NEW k \in 1..Len(taught), taught[k] = n
             PROVE  L!color(n) = IF chosen[n] # 0 THEN chosen[n] ELSE 1 + ((k - 1) % Palette)
  BY DEF ColoursByPlace
<1>1. /\ L!Contains(L!classNames, n)
      /\ L!SelectInSeq(L!classNames, LAMBDA m : m = n) = k
  BY FoundWhereTaught
<1> QED  BY <1>1 DEF L!color

LEMMA ColoursStay ==
  ASSUME LInv, L!Next
  PROVE  L!KeepsColours
<1> SUFFICES ASSUME NEW n \in L!ToSet(bankNames), n \in L!ToSet(bankNames'),
                    chosen'[n] = chosen[n]
             PROVE  L!color(n)' = L!color(n)
  BY DEF L!KeepsColours
<1>1. LInv'  BY LabelsStep
<1>2. IsBeginning(taught, taught')  BY TaughtGrows
<1>3. PICK k \in 1..Len(taught) : taught[k] = n
  <2>1. /\ Len(bankNames) <= Len(taught) /\ \A i \in 1..Len(bankNames) : bankNames[i] = taught[i]
        /\ Len(bankNames) \in Nat /\ Len(taught) \in Nat /\ DOMAIN bankNames = 1..Len(bankNames)
    BY DEF LInv, BeginningsOf, IsBeginning
  <2>2. PICK i \in 1..Len(bankNames) : bankNames[i] = n  BY <2>1 DEF L!ToSet
  <2> QED  BY <2>1, <2>2
<1>4. k \in 1..Len(taught') /\ taught'[k] = n
  <2>1. /\ Len(taught) <= Len(taught') /\ \A i \in 1..Len(taught) : taught[i] = taught'[i]
        /\ Len(taught) \in Nat /\ Len(taught') \in Nat
    BY <1>2 DEF IsBeginning
  <2> QED  BY <1>3, <2>1
<1>5. ColoursByPlace  BY ColourOfPlace
<1>6. ColoursByPlace'  BY <1>1, ColourOfPlace, PTL
<1>7. L!color(n) = IF chosen[n] # 0 THEN chosen[n] ELSE 1 + ((k - 1) % Palette)
  BY <1>3, <1>5 DEF ColoursByPlace
<1>8. L!color(n)' = IF chosen'[n] # 0 THEN chosen'[n] ELSE 1 + ((k - 1) % Palette)
  <2>1. n \in L!ToSet(bankNames)'  BY DEF L!ToSet
  <2> QED  BY <1>4, <1>6, <2>1 DEF ColoursByPlace
<1> QED  BY <1>7, <1>8

(* A class that is taught keeps its colour on screen until somebody picks  *)
(* another, for every palette: its place in what the tab shows is its      *)
(* place in the server's list, and that never changes                      *)
(* (session.ts:266-280, 353-358).                                          *)
THEOREM ColoursLast == Spec => TaughtColourStays
<1>1. (screen = "labels" => LInv) /\ [Next]_vars => [screen = "labels" => L!KeepsColours]_labels
  <2> SUFFICES ASSUME LInv, [Next]_vars, screen = "labels", labels' # labels
               PROVE  L!KeepsColours
    OBVIOUS
  <2> QED  BY ColoursStay DEF Next, vars
<1> QED  BY <1>1, LabelsAlways, PTL DEF Spec, vars, TaughtColourStays

-----------------------------------------------------------------------------
(***************************************************************************)
(* Export.  The names read cover the boxes read unless a class came in     *)
(* between; the boxes are those the database had unless one was written;   *)
(* and the archive so far, with the paths still left, holds the images in  *)
(* the order of their paths, each with all of its boxes.                   *)
(***************************************************************************)
Listed(boxes, list) == \A b \in DOMAIN boxes : \E n \in DOMAIN list : list[n] = boxes[b]

ExportRequests == [kind : E!Kinds \cup {"all"}, format : E!Formats, images : BOOLEAN]

ExportTypes ==
  /\ classes \in [E!Kinds -> Seq(Class)] /\ \A k \in E!Kinds : E!IsInjective(classes[k])
  /\ rowsE \in [E!Kinds -> [Paths -> Seq(Class)]]
  /\ first \in [E!Kinds -> [Paths -> Seq(Class)]]
  /\ files \subseteq Paths /\ ask \in ExportRequests
  /\ pc \in E!Reading \cup {"bundle", "build", "sent", "refused"}
  /\ names \in Seq(Class) /\ E!IsInjective(names)
  /\ byImage \in [Paths -> Seq(Class)]
  /\ writes \in Nat /\ moves \in Nat /\ grew \in BOOLEAN
  /\ pc \in {"test names", "test boxes"} => ask.kind = "all"

RowsListed == \A k \in E!Kinds, i \in Paths : Listed(rowsE[k][i], classes[k])

NamesCover == ~grew =>
  /\ pc = "test names" => Listed(classes["pool"], names)
  /\ pc \in {"boxes", "test boxes"} =>
       \A k \in E!Kinds : ask.kind \in {k, "all"} => Listed(classes[k], names)
  /\ pc \in {"test boxes", "bundle", "build", "sent"} => \A i \in Paths : Listed(byImage[i], names)

Wanted(i) == IF ask.kind = "all" THEN first["pool"][i] \o first["testset"][i]
             ELSE first[ask.kind][i]

AsRead == writes = 0 =>
  /\ rowsE = first
  /\ ~grew
  /\ pc = "test boxes" => byImage = first["pool"]
  /\ pc \in {"bundle", "build", "sent"} => \A i \in Paths : byImage[i] = Wanted(i)

Entry(i) == [image |-> i, name |-> E!LabelFile(i), bundled |-> ask.images, id |-> Cardinality({j \in E!Boxed : j <= i}),
             labels |-> [k \in DOMAIN byImage[i] |-> E!Label(byImage[i][k])]]
Entries  == {Entry(i) : i \in E!Boxed}

ArchiveFits ==
  /\ pc \notin {"build", "sent"} => archive = <<>>
  /\ pc \in E!Reading \cup {"bundle"} => leftE = <<>>
  /\ archive \in Seq(Entries) /\ leftE \in Seq(E!Boxed)
  /\ \A m, n \in DOMAIN archive : m < n => archive[m].image < archive[n].image
  /\ \A m, n \in DOMAIN leftE : m < n => leftE[m] < leftE[n]
  /\ \A m \in DOMAIN archive, n \in DOMAIN leftE : archive[m].image < leftE[n]

NoneMissed == pc \in {"build", "sent"} /\ moves = 0 =>
  /\ \A m \in DOMAIN archive : archive[m].image \in files
  /\ \A i \in E!Boxed \cap files : \/ \E m \in DOMAIN archive : archive[m].image = i
                                   \/ \E n \in DOMAIN leftE : leftE[n] = i
  /\ ask.images => Cardinality(E!Boxed \cap files) <= Budget
  /\ pc = "sent" => leftE = <<>>

EInv == ExportTypes /\ RowsListed /\ NamesCover /\ AsRead /\ ArchiveFits /\ NoneMissed

LEMMA ExportCounts == \A S : E!Cardinality(S) = Cardinality(S)
BY DEF E!Cardinality, Cardinality

\* The images are numbered in the order of their paths.
LEMMA PathsAre == \E n \in Nat : Paths = 1..n
BY ExportAssumption, FS_CardinalityType

LEMMA KeepsAgree ==
  ASSUME NEW s, NEW S
  PROVE  E!Keep(s, S) = L!Keep(s, S)
<1>1. \A K, j : E!Nth(K, j) = L!Nth(K, j)
  BY ExportCounts, LabelsCounts DEF E!Nth, L!Nth
<1> QED  BY <1>1, ExportCounts, LabelsCounts DEF E!Keep, L!Keep

LEMMA KeptHere ==
  ASSUME NEW T, NEW s \in Seq(T), NEW S
  PROVE  /\ E!Keep(s, S) \in Seq(T)
         /\ \A x : (\E j \in DOMAIN E!Keep(s, S) : E!Keep(s, S)[j] = x)
                  <=> x \in S /\ \E k \in DOMAIN s : s[k] = x
         /\ E!IsInjective(s) => E!IsInjective(E!Keep(s, S))
<1>1. E!Keep(s, S) = L!Keep(s, S)  BY KeepsAgree
<1>2. \A f : E!IsInjective(f) <=> L!IsInjective(f)  BY DEF E!IsInjective, L!IsInjective
<1>3. PICK f : f = L!Keep(s, S)  OBVIOUS
<1>4. E!Keep(s, S) = f  BY <1>1, <1>3
<1>5. f \in Seq(T) /\ (L!IsInjective(s) => L!IsInjective(f))  BY <1>3, Kept
<1>6. \A x : (\E j \in DOMAIN f : f[j] = x) <=> x \in S /\ \E k \in DOMAIN s : s[k] = x
  <2> TAKE x
  <2> QED  BY <1>3, Kept
<1> QED  BY <1>2, <1>4, <1>5, <1>6

\* A set of images in the order of their paths.
LEMMA Numbered ==
  ASSUME NEW S \in SUBSET Paths
  PROVE  /\ Cardinality(S) \in Nat
         /\ E!InOrder(S) = [j \in 1..Cardinality(S) |-> L!Nth(S, j)]
         /\ \A j \in 1..Cardinality(S) :
              L!Nth(S, j) \in S /\ Cardinality({i \in S : i <= L!Nth(S, j)}) = j
         /\ \A k \in S : \E j \in 1..Cardinality(S) : L!Nth(S, j) = k
<1>1. PICK n \in Nat : Paths = 1..n  BY PathsAre
<1>2. /\ Cardinality(S) \in Nat
      /\ \A j \in 1..Cardinality(S) :
           L!Nth(S, j) \in S /\ Cardinality({i \in S : i <= L!Nth(S, j)}) = j
      /\ \A k \in S : \E j \in 1..Cardinality(S) : L!Nth(S, j) = k
  BY <1>1, PlaceNumbers
<1>3. PICK id : id = [i \in Paths |-> i]  OBVIOUS
<1>4. {k \in DOMAIN id : id[k] \in S} = S  BY <1>3
<1>5. L!Keep(id, S) = [j \in 1..Cardinality(S) |-> id[L!Nth(S, j)]]
  BY <1>4, LabelsCounts DEF L!Keep
<1>6. \A j \in 1..Cardinality(S) : id[L!Nth(S, j)] = L!Nth(S, j)  BY <1>2, <1>3
<1>7. E!InOrder(S) = L!Keep(id, S)  BY <1>3, KeepsAgree DEF E!InOrder
<1> QED  BY <1>2, <1>5, <1>6, <1>7

LEMMA Ordered ==
  ASSUME NEW S \in SUBSET Paths
  PROVE  /\ E!InOrder(S) \in Seq(S)
         /\ \A m, n \in DOMAIN E!InOrder(S) : m < n => E!InOrder(S)[m] < E!InOrder(S)[n]
         /\ \A k \in S : \E n \in DOMAIN E!InOrder(S) : E!InOrder(S)[n] = k
<1>1. PICK c, f : c = Cardinality(S) /\ f = E!InOrder(S)  OBVIOUS
<1>2. /\ c \in Nat /\ f = [j \in 1..c |-> L!Nth(S, j)]
      /\ \A j \in 1..c : f[j] \in S /\ Cardinality({i \in S : i <= f[j]}) = j
      /\ \A k \in S : \E j \in 1..c : f[j] = k
  <2>1. /\ c \in Nat /\ f = [j \in 1..c |-> L!Nth(S, j)]
        /\ \A j \in 1..c : L!Nth(S, j) \in S /\ Cardinality({i \in S : i <= L!Nth(S, j)}) = j
        /\ \A k \in S : \E j \in 1..c : L!Nth(S, j) = k
    BY <1>1, Numbered
  <2>2. \A j \in 1..c : f[j] = L!Nth(S, j)  BY <2>1
  <2> QED  BY <2>1, <2>2
<1>3. S \subseteq Int /\ IsFiniteSet(S)
  <2>1. PICK n \in Nat : Paths = 1..n  BY PathsAre
  <2>2. IsFiniteSet(Paths)  BY ExportAssumption
  <2>3. IsFiniteSet(S)  BY <2>2, FS_Subset
  <2> QED  BY <2>1, <2>3
<1>4. ASSUME NEW m \in 1..c, NEW n \in 1..c, m < n, ~(f[m] < f[n])  PROVE FALSE
  <2>1. f[m] \in Int /\ f[n] \in Int  BY <1>2, <1>3
  <2>2. f[n] <= f[m]  BY <1>4, <2>1
  <2>3. {i \in S : i <= f[n]} \in SUBSET {i \in S : i <= f[m]}
    <3>1. \A i \in S : i <= f[n] => i <= f[m]  BY <1>3, <2>1, <2>2
    <3> QED  BY <3>1
  <2>4. IsFiniteSet({i \in S : i <= f[m]})  BY <1>3, FS_Subset
  <2>5. Cardinality({i \in S : i <= f[n]}) <= Cardinality({i \in S : i <= f[m]})
    BY <2>3, <2>4, FS_Subset
  <2>6. n <= m
    <3>1. Cardinality({i \in S : i <= f[n]}) = n /\ Cardinality({i \in S : i <= f[m]}) = m
      BY <1>2
    <3> QED  BY <2>5, <3>1
  <2>7. m \in Int /\ n \in Int  BY <1>2
  <2> QED  BY <1>4, <2>6, <2>7
<1>5. f \in [1..c -> S]  BY <1>2
<1>6. f \in Seq(S) /\ DOMAIN f = 1..c  BY <1>2, <1>5
<1> QED  BY <1>1, <1>2, <1>4, <1>6

\* It is the only increasing list of its images.
LEMMA OrderedOnce ==
  ASSUME NEW S \in SUBSET Paths, NEW s \in Seq(S),
         \A m, n \in DOMAIN s : m < n => s[m] < s[n],
         \A k \in S : \E n \in DOMAIN s : s[n] = k
  PROVE  s = E!InOrder(S)
<1>1. PICK c, f, l : c = Cardinality(S) /\ f = E!InOrder(S) /\ l = Len(s)  OBVIOUS
<1>2. /\ c \in Nat /\ f = [j \in 1..c |-> L!Nth(S, j)]
      /\ \A j \in 1..c : f[j] \in S /\ Cardinality({i \in S : i <= f[j]}) = j
      /\ \A k \in S : \E j \in 1..c : f[j] = k
  <2>1. /\ c \in Nat /\ f = [j \in 1..c |-> L!Nth(S, j)]
        /\ \A j \in 1..c : L!Nth(S, j) \in S /\ Cardinality({i \in S : i <= L!Nth(S, j)}) = j
        /\ \A k \in S : \E j \in 1..c : L!Nth(S, j) = k
    BY <1>1, Numbered
  <2>2. \A j \in 1..c : f[j] = L!Nth(S, j)  BY <2>1
  <2> QED  BY <2>1, <2>2
<1>3. l \in Nat /\ DOMAIN s = 1..l /\ s \in [1..l -> S]  BY <1>1
<1>4. S \subseteq Int
  BY PathsAre
<1>5. \A m, n \in 1..l : m <= n <=> s[m] <= s[n]
  <2> SUFFICES ASSUME NEW m \in 1..l, NEW n \in 1..l  PROVE m <= n <=> s[m] <= s[n]
    OBVIOUS
  <2>1. s[m] \in Int /\ s[n] \in Int  BY <1>3, <1>4
  <2>2. m < n \/ m = n \/ n < m  OBVIOUS
  <2>3. m < n => s[m] < s[n]  BY <1>3
  <2>4. n < m => s[n] < s[m]  BY <1>3
  <2> QED  BY <2>1, <2>2, <2>3, <2>4
<1>6. ASSUME NEW j \in 1..l  PROVE Cardinality({i \in S : i <= s[j]}) = j
  <2>1. PICK g : g = [m \in 1..j |-> s[m]]  OBVIOUS
  <2>2. 1..j \subseteq 1..l  BY <1>3
  <2>3. g \in [1..j -> {i \in S : i <= s[j]}]
    <3>1. \A m \in 1..j : s[m] \in S /\ s[m] <= s[j]  BY <1>3, <1>5, <2>2
    <3> QED  BY <2>1, <3>1
  <2>4. \A a, b \in 1..j : g[a] = g[b] => a = b
    <3> SUFFICES ASSUME NEW a \in 1..j, NEW b \in 1..j, g[a] = g[b]  PROVE a = b
      OBVIOUS
    <3>1. s[a] = s[b] /\ s[a] \in Int  BY <1>3, <1>4, <2>1, <2>2
    <3>2. a \in 1..l /\ b \in 1..l  BY <2>2
    <3>3. a <= b /\ b <= a  BY <1>5, <3>1, <3>2
    <3> QED  BY <3>3
  <2>5. \A k \in {i \in S : i <= s[j]} : \E m \in 1..j : g[m] = k
    <3> SUFFICES ASSUME NEW k \in S, k <= s[j]  PROVE \E m \in 1..j : g[m] = k
      OBVIOUS
    <3>1. PICK m \in 1..l : s[m] = k  BY <1>3
    <3>2. m <= j  BY <1>5, <3>1
    <3> QED  BY <2>1, <3>1, <3>2
  <2>6. g \in Bijection(1..j, {i \in S : i <= s[j]})
    BY <2>3, <2>4, <2>5 DEF Bijection, Injection, Surjection, IsInjective
  <2>7. j \in Int /\ 1 \in Int /\ j >= 1  OBVIOUS
  <2>8. IsFiniteSet(1..j) /\ Cardinality(1..j) = IF 1 > j THEN 0 ELSE j - 1 + 1
    BY <2>7, FS_Interval
  <2>9. Cardinality({i \in S : i <= s[j]}) = Cardinality(1..j)
    BY <2>6, <2>8, FS_Bijection DEF ExistsBijection
  <2> QED  BY <2>7, <2>8, <2>9
<1>7. \A j \in 1..l : j \in 1..c /\ f[j] = s[j]
  <2> SUFFICES ASSUME NEW j \in 1..l  PROVE j \in 1..c /\ f[j] = s[j]
    OBVIOUS
  <2>1. s[j] \in S  BY <1>3
  <2>2. PICK h \in 1..c : f[h] = s[j]  BY <1>2, <2>1
  <2>3. h = j  BY <1>2, <1>6, <2>2
  <2> QED  BY <2>2, <2>3
<1>8. \A j \in 1..c : j \in 1..l
  <2> SUFFICES ASSUME NEW j \in 1..c  PROVE j \in 1..l
    OBVIOUS
  <2>1. PICK n \in 1..l : s[n] = f[j]  BY <1>2, <1>3
  <2>2. n = j  BY <1>2, <1>6, <2>1
  <2> QED  BY <2>2
<1>9. 1..l = 1..c  BY <1>7, <1>8
<1>10. s = [j \in 1..l |-> s[j]]  BY <1>3
<1>11. f = [j \in 1..l |-> f[j]]  BY <1>2, <1>9
<1> QED  BY <1>1, <1>7, <1>10, <1>11


LEMMA ListedThrough ==
  ASSUME NEW a, NEW b, NEW c, Listed(a, b), Listed(b, c)
  PROVE  Listed(a, c)
<1> SUFFICES ASSUME NEW m \in DOMAIN a  PROVE \E n \in DOMAIN c : c[n] = a[m]
  BY DEF Listed
<1>1. PICK k \in DOMAIN b : b[k] = a[m]  BY DEF Listed
<1> QED  BY <1>1 DEF Listed

\* One list after another.
LEMMA Joined ==
  ASSUME NEW T, NEW s \in Seq(T), NEW t \in Seq(T), NEW l
  PROVE  /\ s \o t \in Seq(T)
         /\ Listed(l, s) => Listed(l, s \o t)
         /\ Listed(s, l) /\ Listed(t, l) => Listed(s \o t, l)
         /\ (\A m \in DOMAIN l : (\E n \in DOMAIN s : s[n] = l[m]) \/ (\E n \in DOMAIN t : t[n] = l[m]))
              => Listed(l, s \o t)
         /\ E!IsInjective(s) /\ E!IsInjective(t)
              /\ (\A m \in DOMAIN s, n \in DOMAIN t : s[m] # t[n]) => E!IsInjective(s \o t)
<1>1. PICK j, a, b : j = s \o t /\ a = Len(s) /\ b = Len(t)  OBVIOUS
<1>2. j \in Seq(T) /\ Len(j) = a + b /\ a \in Nat /\ b \in Nat
  BY <1>1, ConcatProperties
<1>3. DOMAIN s = 1..a /\ DOMAIN t = 1..b /\ DOMAIN j = 1..a + b
  BY <1>1, <1>2
<1>4. \A i \in 1..a + b : j[i] = IF i <= a THEN s[i] ELSE t[i - a]
  BY <1>1, ConcatProperties
<1>5. \A i \in 1..a : i \in 1..a + b /\ j[i] = s[i]
  BY <1>2, <1>4
<1>6. \A i \in 1..b : a + i \in 1..a + b /\ j[a + i] = t[i]
  <2> SUFFICES ASSUME NEW i \in 1..b  PROVE a + i \in 1..a + b /\ j[a + i] = t[i]
    OBVIOUS
  <2>1. a + i \in 1..a + b /\ ~(a + i <= a) /\ (a + i) - a = i  BY <1>2
  <2> QED  BY <1>4, <2>1
<1>7. \A i \in 1..a + b : (i \in 1..a /\ j[i] = s[i]) \/ (i - a \in 1..b /\ j[i] = t[i - a])
  <2> SUFFICES ASSUME NEW i \in 1..a + b
               PROVE  (i \in 1..a /\ j[i] = s[i]) \/ (i - a \in 1..b /\ j[i] = t[i - a])
    OBVIOUS
  <2>1. i <= a \/ (~(i <= a) /\ i - a \in 1..b)  BY <1>2
  <2>2. i <= a => i \in 1..a  OBVIOUS
  <2> QED  BY <1>4, <2>1, <2>2
<1>8. Listed(l, s) => Listed(l, j)
  BY <1>3, <1>5 DEF Listed
<1>9. Listed(s, l) /\ Listed(t, l) => Listed(j, l)
  BY <1>3, <1>7 DEF Listed
<1>10. (\A m \in DOMAIN l : (\E n \in DOMAIN s : s[n] = l[m]) \/ (\E n \in DOMAIN t : t[n] = l[m]))
         => Listed(l, j)
  BY <1>3, <1>5, <1>6 DEF Listed
<1>11. ASSUME E!IsInjective(s), E!IsInjective(t), \A m \in DOMAIN s, n \in DOMAIN t : s[m] # t[n]
       PROVE  E!IsInjective(j)
  <2> SUFFICES ASSUME NEW m \in 1..a + b, NEW n \in 1..a + b, j[m] = j[n]  PROVE m = n
    BY <1>3 DEF E!IsInjective
  <2>1. \/ m \in 1..a /\ n \in 1..a /\ s[m] = s[n]
        \/ m - a \in 1..b /\ n - a \in 1..b /\ t[m - a] = t[n - a]
    BY <1>3, <1>7, <1>11
  <2>2. CASE m \in 1..a /\ n \in 1..a /\ s[m] = s[n]
    BY <1>3, <1>11, <2>2 DEF E!IsInjective
  <2>3. CASE m - a \in 1..b /\ n - a \in 1..b /\ t[m - a] = t[n - a]
    <3>1. m - a = n - a  BY <1>3, <1>11, <2>3 DEF E!IsInjective
    <3> QED  BY <1>2, <3>1
  <2> QED  BY <2>1, <2>2, <2>3
<1> QED  BY <1>1, <1>2, <1>8, <1>9, <1>10, <1>11

LEMMA ArchiveEmpty == ASSUME archive' = <<>>, leftE' = <<>> PROVE ArchiveFits'
<1>1. \A m \in DOMAIN archive' : FALSE  OBVIOUS
<1>2. \A m \in DOMAIN leftE' : FALSE  OBVIOUS
<1>3. archive' \in Seq(Entries')  OBVIOUS
<1>4. leftE' \in Seq(E!Boxed')  OBVIOUS
<1> QED  BY <1>1, <1>2, <1>3, <1>4 DEF ArchiveFits

LEMMA EntriesSame ==
  ASSUME UNCHANGED <<ask, names, byImage>>
  PROVE  Entries' = Entries /\ E!Boxed' = E!Boxed
BY DEF Entries, Entry, E!Boxed, E!LabelFile, E!Label, E!YoloLabel, E!CocoLabel, E!VocLabel,
       E!Place

LEMMA ExportBegins == ASSUME E!Init PROVE EInv
<1>1. PICK s \in Starts : classes = s.classes /\ rowsE = s.rows
  BY DEF E!Init
<1>2. /\ s.classes \in [E!Kinds -> Seq(Class)] /\ s.rows \in [E!Kinds -> [Paths -> Seq(Class)]]
      /\ \A k \in E!Kinds :
            /\ \A m, n \in DOMAIN s.classes[k] : s.classes[k][m] = s.classes[k][n] => m = n
            /\ \A i \in Paths : \A b \in DOMAIN s.rows[k][i] :
                 \E n \in DOMAIN s.classes[k] : s.classes[k][n] = s.rows[k][i][b]
  BY <1>1, ExportAssumption DEF E!Kinds
<1>3. /\ classes \in [E!Kinds -> Seq(Class)] /\ rowsE \in [E!Kinds -> [Paths -> Seq(Class)]]
      /\ \A k \in E!Kinds : E!IsInjective(classes[k])
  BY <1>1, <1>2 DEF E!IsInjective
<1>4. RowsListed
  BY <1>1, <1>2 DEF RowsListed, Listed
<1>5. /\ pc = "names" /\ names = <<>> /\ writes = 0 /\ moves = 0 /\ grew = FALSE
      /\ files \subseteq Paths /\ ask \in ExportRequests /\ first = rowsE
      /\ byImage = [i \in Paths |-> <<>>] /\ archive = <<>> /\ leftE = <<>>
  BY DEF E!Init, ExportRequests, E!NoBoxes
<1>6. names \in Seq(Class) /\ E!IsInjective(names) /\ byImage \in [Paths -> Seq(Class)]
  BY <1>5 DEF E!IsInjective
<1>7. ExportTypes
  BY <1>3, <1>5, <1>6 DEF ExportTypes, E!Reading
<1>8. NamesCover /\ AsRead /\ NoneMissed
  BY <1>5 DEF NamesCover, AsRead, NoneMissed
<1>9. ArchiveFits
  <2>1. archive \in Seq(Entries) /\ leftE \in Seq(E!Boxed)  BY <1>5
  <2>2. (\A m \in DOMAIN archive : FALSE) /\ (\A m \in DOMAIN leftE : FALSE)  BY <1>5
  <2> QED  BY <1>5, <2>1, <2>2 DEF ArchiveFits
<1> QED  BY <1>4, <1>7, <1>8, <1>9 DEF EInv

\* What a step that reads leaves alone.
LEMMA ExportReads ==
  ASSUME EInv, E!ReadNames \/ E!ReadTestNames \/ E!ReadBoxes \/ E!ReadTestBoxes
  PROVE  /\ UNCHANGED <<classes, rowsE, files, ask, leftE, archive, writes, moves, grew, first>>
         /\ pc \in E!Reading /\ ArchiveFits' /\ pc' \notin {"build", "sent"} /\ NoneMissed'
         /\ RowsListed'
<1>1. UNCHANGED <<classes, rowsE, files, ask, leftE, archive, writes, moves, grew, first>>
  BY DEF E!ReadNames, E!ReadTestNames, E!ReadBoxes, E!ReadTestBoxes, E!Goto, E!store
<1>2. pc \in E!Reading
  BY DEF E!ReadNames, E!ReadTestNames, E!ReadBoxes, E!ReadTestBoxes, E!Reading
<1>3. archive = <<>> /\ leftE = <<>>  BY <1>2 DEF EInv, ArchiveFits, E!Reading
<1>4. ArchiveFits'  BY <1>1, <1>3, ArchiveEmpty
<1>5. pc' \notin {"build", "sent"}
  BY DEF E!ReadNames, E!ReadTestNames, E!ReadBoxes, E!ReadTestBoxes, E!Goto
<1>6. NoneMissed'  BY <1>5 DEF NoneMissed
<1>7. RowsListed'  BY <1>1 DEF EInv, RowsListed
<1> QED  BY <1>1, <1>2, <1>4, <1>5, <1>6, <1>7

LEMMA ExportReadsNames ==
  ASSUME EInv, E!ReadNames
  PROVE  EInv'
<1>1. PICK k : k = IF ask.kind = "all" THEN "pool" ELSE ask.kind  OBVIOUS
<1>2. k \in E!Kinds /\ (ask.kind \in {k, "all"}) /\ (ask.kind = "all" => k = "pool")
  BY <1>1 DEF EInv, ExportTypes, ExportRequests, E!Kinds
<1>3. /\ names' = classes[k] /\ UNCHANGED byImage
      /\ pc' = IF ask.kind = "all" THEN "test names" ELSE "boxes"
  BY <1>1 DEF E!ReadNames, E!Goto
<1>4. /\ UNCHANGED <<classes, rowsE, files, ask, leftE, archive, writes, moves, grew, first>>
      /\ ArchiveFits' /\ NoneMissed' /\ RowsListed'
  BY ExportReads
<1>5. names' \in Seq(Class) /\ E!IsInjective(names')
  BY <1>2, <1>3 DEF EInv, ExportTypes
<1>6. pc' \in E!Reading /\ pc' \notin {"test boxes", "bundle", "build", "sent"}
  BY <1>3 DEF E!Reading
<1>7. ExportTypes'
  BY <1>3, <1>4, <1>5, <1>6 DEF EInv, ExportTypes
<1>8. AsRead'
  BY <1>4, <1>6 DEF EInv, AsRead
<1>9. NamesCover'
  <2>1. Listed(classes[k], names')  BY <1>3 DEF Listed
  <2>2. pc' = "test names" => k = "pool"  BY <1>2, <1>3
  <2>3. pc' = "boxes" => \A h \in E!Kinds : ask.kind \in {h, "all"} => h = k
    BY <1>2, <1>3 DEF E!Kinds
  <2> QED  BY <1>4, <1>6, <2>1, <2>2, <2>3 DEF NamesCover
<1> QED  BY <1>4, <1>7, <1>8, <1>9 DEF EInv

LEMMA ExportReadsTestNames ==
  ASSUME EInv, E!ReadTestNames
  PROVE  EInv'
<1>1. PICK new : new = E!Keep(classes["testset"], Class \ E!ToSet(names))  OBVIOUS
<1>2. pc = "test names" /\ pc' = "boxes" /\ names' = names \o new /\ UNCHANGED byImage
  BY <1>1 DEF E!ReadTestNames, E!Goto
<1>3. /\ UNCHANGED <<classes, rowsE, files, ask, leftE, archive, writes, moves, grew, first>>
      /\ ArchiveFits' /\ NoneMissed' /\ RowsListed'
  BY ExportReads
<1>4. /\ classes["testset"] \in Seq(Class) /\ E!IsInjective(classes["testset"])
      /\ names \in Seq(Class) /\ E!IsInjective(names)
  BY DEF EInv, ExportTypes, E!Kinds
<1>5. /\ new \in Seq(Class) /\ E!IsInjective(new)
      /\ \A x : (\E j \in DOMAIN new : new[j] = x)
               <=> x \in Class \ E!ToSet(names) /\ \E k \in DOMAIN classes["testset"] : classes["testset"][k] = x
  <2>1. PICK list, S : list = classes["testset"] /\ S = Class \ E!ToSet(names)  OBVIOUS
  <2>2. new = E!Keep(list, S) /\ list \in Seq(Class) /\ E!IsInjective(list)  BY <1>1, <1>4, <2>1
  <2>3. /\ new \in Seq(Class) /\ E!IsInjective(new)
        /\ \A x : (\E j \in DOMAIN new : new[j] = x) <=> x \in S /\ \E k \in DOMAIN list : list[k] = x
    BY <2>2, KeptHere
  <2> QED  BY <2>1, <2>3
<1>6. \A m \in DOMAIN names, n \in DOMAIN new : names[m] # new[n]
  BY <1>5 DEF E!ToSet
<1>7. names' \in Seq(Class) /\ E!IsInjective(names')
  BY <1>2, <1>4, <1>5, <1>6, Joined
<1>8. ExportTypes'
  BY <1>2, <1>3, <1>7 DEF EInv, ExportTypes, E!Reading
<1>9. AsRead'
  BY <1>2, <1>3 DEF EInv, AsRead
<1>10. Listed(classes["testset"], names')
  <2>1. \A m \in DOMAIN classes["testset"] : classes["testset"][m] \in Class
    BY <1>4
  <2>2. \A m \in DOMAIN classes["testset"] :
          \/ \E n \in DOMAIN names : names[n] = classes["testset"][m]
          \/ \E n \in DOMAIN new : new[n] = classes["testset"][m]
    BY <1>5, <2>1 DEF E!ToSet
  <2> QED  BY <1>2, <1>4, <1>5, <2>2, Joined
<1>11. Listed(classes["pool"], names) => Listed(classes["pool"], names')
  BY <1>2, <1>4, <1>5, Joined
<1>12. NamesCover'
  BY <1>2, <1>3, <1>10, <1>11 DEF EInv, NamesCover, E!Kinds
<1> QED  BY <1>3, <1>8, <1>9, <1>12 DEF EInv

LEMMA ExportReadsBoxes ==
  ASSUME EInv, E!ReadBoxes
  PROVE  EInv'
<1>1. PICK k : k = IF ask.kind = "all" THEN "pool" ELSE ask.kind  OBVIOUS
<1>2. k \in E!Kinds /\ ask.kind \in {k, "all"}
  BY <1>1 DEF EInv, ExportTypes, ExportRequests, E!Kinds
<1>3. /\ pc = "boxes" /\ byImage' = rowsE[k] /\ UNCHANGED names
      /\ pc' = IF ask.kind = "all" THEN "test boxes" ELSE "bundle"
  BY <1>1 DEF E!ReadBoxes, E!Goto
<1>4. /\ UNCHANGED <<classes, rowsE, files, ask, leftE, archive, writes, moves, grew, first>>
      /\ ArchiveFits' /\ NoneMissed' /\ RowsListed'
  BY ExportReads
<1>5. byImage' \in [Paths -> Seq(Class)]
  BY <1>2, <1>3 DEF EInv, ExportTypes
<1>6. pc' \in E!Reading \cup {"bundle"} /\ pc' \notin {"test names", "boxes", "build", "sent"}
  BY <1>3 DEF E!Reading
<1>7. ExportTypes'
  BY <1>3, <1>4, <1>5, <1>6 DEF EInv, ExportTypes
<1>8. AsRead'
  <2> SUFFICES ASSUME writes = 0
               PROVE  /\ rowsE = first
                      /\ pc' = "test boxes" => byImage' = first["pool"]
                      /\ pc' = "bundle" => \A i \in Paths : byImage'[i] = Wanted(i)
    BY <1>4, <1>6 DEF EInv, AsRead, Wanted
  <2>1. rowsE = first  BY DEF EInv, AsRead
  <2>2. pc' = "test boxes" => k = "pool"  BY <1>1, <1>3
  <2>3. pc' = "bundle" => ask.kind # "all" /\ k = ask.kind  BY <1>1, <1>3
  <2> QED  BY <1>3, <2>1, <2>2, <2>3 DEF Wanted
<1>9. NamesCover'
  <2> SUFFICES ASSUME ~grew
               PROVE  /\ \A h \in E!Kinds : ask.kind \in {h, "all"} => Listed(classes[h], names)
                      /\ \A i \in Paths : Listed(byImage'[i], names)
    BY <1>3, <1>4, <1>6 DEF NamesCover
  <2>1. \A h \in E!Kinds : ask.kind \in {h, "all"} => Listed(classes[h], names)
    BY <1>3 DEF EInv, NamesCover
  <2>2. \A i \in Paths : Listed(rowsE[k][i], classes[k])
    BY <1>2 DEF EInv, RowsListed
  <2>3. Listed(classes[k], names)  BY <1>2, <2>1
  <2> QED  BY <1>3, <2>1, <2>2, <2>3, ListedThrough
<1> QED  BY <1>4, <1>7, <1>8, <1>9 DEF EInv

LEMMA ExportReadsTestBoxes ==
  ASSUME EInv, E!ReadTestBoxes
  PROVE  EInv'
<1>1. /\ pc = "test boxes" /\ pc' = "bundle" /\ UNCHANGED names
      /\ byImage' = [i \in Paths |-> byImage[i] \o rowsE["testset"][i]]
  BY DEF E!ReadTestBoxes, E!Goto
<1>2. /\ UNCHANGED <<classes, rowsE, files, ask, leftE, archive, writes, moves, grew, first>>
      /\ ArchiveFits' /\ NoneMissed' /\ RowsListed'
  BY ExportReads
<1>3. ask.kind = "all"  BY <1>1 DEF EInv, ExportTypes
<1>4. \A i \in Paths : byImage[i] \in Seq(Class) /\ rowsE["testset"][i] \in Seq(Class)
  BY DEF EInv, ExportTypes, E!Kinds
<1>5. byImage' \in [Paths -> Seq(Class)]
  <2>1. \A i \in Paths : byImage[i] \o rowsE["testset"][i] \in Seq(Class)  BY <1>4
  <2> QED  BY <1>1, <2>1
<1>6. ExportTypes'
  BY <1>1, <1>2, <1>5 DEF EInv, ExportTypes
<1>7. AsRead'
  <2> SUFFICES ASSUME writes = 0
               PROVE  rowsE = first /\ \A i \in Paths : byImage'[i] = Wanted(i)
    BY <1>1, <1>2 DEF EInv, AsRead, Wanted
  <2>1. rowsE = first /\ byImage = first["pool"]  BY <1>1 DEF EInv, AsRead
  <2> QED  BY <1>1, <1>3, <2>1 DEF Wanted
<1>8. NamesCover'
  <2> SUFFICES ASSUME ~grew, NEW i \in Paths  PROVE Listed(byImage'[i], names)
    BY <1>1, <1>2 DEF NamesCover
  <2>1. Listed(byImage[i], names)  BY <1>1 DEF EInv, NamesCover
  <2>2. Listed(classes["testset"], names)  BY <1>1, <1>3 DEF EInv, NamesCover, E!Kinds
  <2>3. Listed(rowsE["testset"][i], classes["testset"])  BY DEF EInv, RowsListed, E!Kinds
  <2>4. Listed(rowsE["testset"][i], names)  BY <2>2, <2>3, ListedThrough
  <2> QED  BY <1>1, <1>4, <2>1, <2>4, Joined
<1> QED  BY <1>2, <1>6, <1>7, <1>8 DEF EInv


\* The budget is counted, and the order fixed, before the first byte.
LEMMA ExportBundles ==
  ASSUME EInv, E!Bundle
  PROVE  EInv'
<1>1. /\ pc = "bundle" /\ pc' \in {"build", "refused"} /\ leftE' = E!InOrder(E!Boxed)
      /\ UNCHANGED <<classes, rowsE, files, ask, names, byImage, archive, writes, moves, grew, first>>
      /\ pc' = "build" /\ ask.images => ~E!tooManyToBundle
  BY DEF E!Bundle, E!store, E!sortedPaths
<1>2. ExportTypes' /\ RowsListed' /\ NamesCover'
  BY <1>1 DEF EInv, ExportTypes, RowsListed, NamesCover
<1>3. AsRead'
  BY <1>1 DEF EInv, AsRead, Wanted
<1>4. archive = <<>>  BY <1>1 DEF EInv, ArchiveFits
<1>5. PICK S, l : S = E!Boxed /\ l = leftE'  OBVIOUS
<1>6. S \in SUBSET Paths  BY <1>5 DEF E!Boxed
<1>7. /\ l \in Seq(S) /\ \A m, n \in DOMAIN l : m < n => l[m] < l[n]
      /\ \A k \in S : \E n \in DOMAIN l : l[n] = k
  BY <1>1, <1>5, <1>6, Ordered
<1>8. Entries' = Entries /\ E!Boxed' = S  BY <1>1, <1>5, EntriesSame
<1>9. ArchiveFits'
  <2>1. archive' \in Seq(Entries') /\ \A m \in DOMAIN archive' : FALSE  BY <1>1, <1>4
  <2>2. pc' \notin E!Reading \cup {"bundle"}  BY <1>1 DEF E!Reading
  <2>3. archive' = <<>>  BY <1>1, <1>4
  <2> QED  BY <1>5, <1>7, <1>8, <2>1, <2>2, <2>3 DEF ArchiveFits
<1>10. NoneMissed'
  <2> SUFFICES ASSUME pc' = "build"
               PROVE  /\ \A i \in E!Boxed \cap files : \E n \in DOMAIN leftE' : leftE'[n] = i
                      /\ ask.images => Cardinality(E!Boxed \cap files) <= Budget
    BY <1>1, <1>4, <1>5, <1>8 DEF NoneMissed
  <2>1. \A i \in E!Boxed \cap files : \E n \in DOMAIN leftE' : leftE'[n] = i
    BY <1>5, <1>7
  <2>2. Cardinality(E!Boxed \cap files) \in Nat
    <3>1. IsFiniteSet(Paths)  BY ExportAssumption
    <3>2. E!Boxed \cap files \in SUBSET Paths  BY DEF E!Boxed
    <3> QED  BY <3>1, <3>2, FS_Subset, FS_CardinalityType
  <2>3. ask.images => Cardinality(E!Boxed \cap files) <= Budget
    <3>1. PICK c : c = Cardinality(E!Boxed \cap files)  OBVIOUS
    <3>2. ask.images => ~(c > Budget)
      BY <1>1, <3>1, ExportCounts DEF E!tooManyToBundle
    <3>3. c \in Nat /\ Budget \in Nat  BY <2>2, <3>1, ExportAssumption
    <3> QED  BY <3>1, <3>2, <3>3
  <2> QED  BY <2>1, <2>3
<1> QED  BY <1>2, <1>3, <1>9, <1>10 DEF EInv

\* One image goes from the paths left into the archive, or is dropped.
LEMMA ExportWrites ==
  ASSUME EInv, E!WriteImage
  PROVE  EInv'
<1>1. /\ pc = "build" /\ leftE # <<>> /\ leftE' = Tail(leftE)
      /\ UNCHANGED <<classes, rowsE, files, ask, pc, names, byImage, writes, moves, grew, first>>
      /\ archive' = IF Head(leftE) \notin files THEN archive ELSE Append(archive, Entry(Head(leftE)))
  <2>1. \A S : E!Cardinality(S) = Cardinality(S)  BY ExportCounts
  <2>2. \A i : Entry(i) = [image |-> i, name |-> E!LabelFile(i), bundled |-> ask.images,
                           id |-> E!Cardinality({j \in E!Boxed : j <= i}),
                           labels |-> [k \in DOMAIN byImage[i] |-> E!Label(byImage[i][k])]]
    BY <2>1 DEF Entry
  <2> QED  BY <2>2 DEF E!WriteImage, E!store, E!Skipped
<1>2. ExportTypes' /\ RowsListed' /\ NamesCover' /\ AsRead'
  BY <1>1 DEF EInv, ExportTypes, RowsListed, NamesCover, AsRead, Wanted
<1>3. Entries' = Entries /\ E!Boxed' = E!Boxed  BY <1>1, EntriesSame
<1>4. PICK i, e, S, T, a, l, t, c :
        /\ i = Head(leftE) /\ e = Entry(i) /\ S = E!Boxed /\ T = Entries
        /\ a = archive /\ l = leftE /\ t = leftE' /\ c = archive'
  OBVIOUS
<1>5. /\ l \in Seq(S) /\ l # <<>> /\ i = Head(l) /\ t = Tail(l)
      /\ a \in Seq(T) /\ c = IF i \notin files THEN a ELSE Append(a, e)
      /\ \A m, n \in DOMAIN a : m < n => a[m].image < a[n].image
      /\ \A m, n \in DOMAIN l : m < n => l[m] < l[n]
      /\ \A m \in DOMAIN a, n \in DOMAIN l : a[m].image < l[n]
  BY <1>1, <1>4 DEF EInv, ArchiveFits
<1>6. i \in S /\ i = l[1] /\ e \in T /\ e.image = i
  <2>1. i \in S /\ i = l[1]  BY <1>5
  <2>2. e \in T  BY <1>4, <2>1 DEF Entries
  <2> QED  BY <1>4, <2>1, <2>2 DEF Entry
<1>7. /\ t \in Seq(S) /\ Len(l) \in Nat \ {0} /\ DOMAIN l = 1..Len(l) /\ DOMAIN t = 1..(Len(l) - 1)
      /\ \A n \in DOMAIN t : t[n] = l[n + 1]
  <2>1. /\ t \in Seq(S) /\ Len(t) = Len(l) - 1
        /\ \A n \in 1..Len(t) : t[n] = l[n + 1]
    BY <1>5, HeadTailProperties
  <2>2. Len(l) \in Nat \ {0}  BY <1>5, EmptySeq
  <2> QED  BY <1>5, <2>1, <2>2
<1>8. \A n \in DOMAIN t : n + 1 \in DOMAIN l /\ 1 \in DOMAIN l /\ 1 < n + 1
  BY <1>7
<1>9. \A m, n \in DOMAIN t : m < n => t[m] < t[n]
  <2> SUFFICES ASSUME NEW m \in DOMAIN t, NEW n \in DOMAIN t, m < n  PROVE t[m] < t[n]
    OBVIOUS
  <2>1. m + 1 < n + 1  BY <1>7
  <2> QED  BY <1>5, <1>7, <1>8, <2>1
<1>10. \A n \in DOMAIN t : i < t[n]
  BY <1>5, <1>6, <1>7, <1>8
<1>11. \A n \in DOMAIN l : l[n] = i \/ \E m \in DOMAIN t : t[m] = l[n]
  <2> SUFFICES ASSUME NEW n \in DOMAIN l, n # 1  PROVE \E m \in DOMAIN t : t[m] = l[n]
    BY <1>6
  <2>1. n - 1 \in DOMAIN t /\ (n - 1) + 1 = n  BY <1>7
  <2> QED  BY <1>7, <2>1
<1>12. CASE i \notin files
  <2>1. c = a  BY <1>5, <1>12
  <2>2. /\ c \in Seq(T) /\ \A m, n \in DOMAIN c : m < n => c[m].image < c[n].image
        /\ \A m \in DOMAIN c, n \in DOMAIN t : c[m].image < t[n]
    BY <1>5, <1>7, <1>8, <2>1
  <2>3. pc' \notin E!Reading \cup {"bundle"}  BY <1>1 DEF E!Reading
  <2>4. ArchiveFits'
    BY <1>1, <1>3, <1>4, <1>7, <1>9, <2>2, <2>3 DEF ArchiveFits
  <2>5. NoneMissed'
    <3> SUFFICES ASSUME moves = 0
                 PROVE  /\ \A m \in DOMAIN c : c[m].image \in files
                        /\ \A k \in S \cap files : \/ \E m \in DOMAIN c : c[m].image = k
                                                   \/ \E n \in DOMAIN t : t[n] = k
                        /\ ask.images => Cardinality(S \cap files) <= Budget
      BY <1>1, <1>3, <1>4 DEF NoneMissed
    <3>1. /\ \A m \in DOMAIN a : a[m].image \in files
          /\ \A k \in S \cap files : \/ \E m \in DOMAIN a : a[m].image = k
                                     \/ \E n \in DOMAIN l : l[n] = k
          /\ ask.images => Cardinality(S \cap files) <= Budget
      BY <1>1, <1>4 DEF EInv, NoneMissed
    <3> QED  BY <1>11, <1>12, <2>1, <3>1
  <2> QED  BY <1>2, <2>4, <2>5 DEF EInv
<1>13. CASE i \in files
  <2>1. c = Append(a, e)  BY <1>5, <1>13
  <2>2. /\ c \in Seq(T) /\ Len(a) \in Nat /\ DOMAIN a = 1..Len(a) /\ DOMAIN c = 1..(Len(a) + 1)
        /\ \A m \in DOMAIN a : c[m] = a[m]
        /\ c[Len(a) + 1] = e
    <3>1. /\ c \in Seq(T) /\ Len(c) = Len(a) + 1 /\ \A m \in 1..Len(a) : c[m] = a[m]
          /\ c[Len(a) + 1] = e
      BY <1>5, <1>6, <2>1, AppendProperties
    <3>2. Len(a) \in Nat /\ DOMAIN a = 1..Len(a)  BY <1>5
    <3>3. DOMAIN c = 1..Len(c)  BY <3>1
    <3> QED  BY <3>1, <3>2, <3>3
  <2>3. \A m \in DOMAIN c : \/ m \in DOMAIN a /\ c[m] = a[m]
                            \/ m = Len(a) + 1 /\ c[m] = e
    BY <2>2
  <2>4. \A m \in DOMAIN a : a[m].image < i
    BY <1>5, <1>6, <1>7
  <2>5. \A m, n \in DOMAIN c : m < n => c[m].image < c[n].image
    <3> SUFFICES ASSUME NEW m \in DOMAIN c, NEW n \in DOMAIN c, m < n
                 PROVE  c[m].image < c[n].image
      OBVIOUS
    <3>1. m \in DOMAIN a  BY <2>2
    <3> QED  BY <1>5, <1>6, <2>3, <2>4, <3>1
  <2>6. \A m \in DOMAIN c, n \in DOMAIN t : c[m].image < t[n]
    <3> SUFFICES ASSUME NEW m \in DOMAIN c, NEW n \in DOMAIN t  PROVE c[m].image < t[n]
      OBVIOUS
    <3>1. m \in DOMAIN a => a[m].image < l[n + 1]  BY <1>5, <1>8
    <3> QED  BY <1>6, <1>7, <1>10, <2>3, <3>1
  <2>7. pc' \notin E!Reading \cup {"bundle"}  BY <1>1 DEF E!Reading
  <2>8. ArchiveFits'
    BY <1>1, <1>3, <1>4, <1>7, <1>9, <2>2, <2>5, <2>6, <2>7 DEF ArchiveFits
  <2>9. NoneMissed'
    <3> SUFFICES ASSUME moves = 0
                 PROVE  /\ \A m \in DOMAIN c : c[m].image \in files
                        /\ \A k \in S \cap files : \/ \E m \in DOMAIN c : c[m].image = k
                                                   \/ \E n \in DOMAIN t : t[n] = k
                        /\ ask.images => Cardinality(S \cap files) <= Budget
      BY <1>1, <1>3, <1>4 DEF NoneMissed
    <3>1. /\ \A m \in DOMAIN a : a[m].image \in files
          /\ \A k \in S \cap files : \/ \E m \in DOMAIN a : a[m].image = k
                                     \/ \E n \in DOMAIN l : l[n] = k
          /\ ask.images => Cardinality(S \cap files) <= Budget
      BY <1>1, <1>4 DEF EInv, NoneMissed
    <3>2. \A m \in DOMAIN a : m \in DOMAIN c /\ c[m].image = a[m].image  BY <2>2
    <3>3. \E m \in DOMAIN c : c[m].image = i  BY <1>6, <2>2
    <3>4. \A m \in DOMAIN c : c[m].image \in files  BY <1>6, <1>13, <2>3, <3>1
    <3> QED  BY <1>11, <3>1, <3>2, <3>3, <3>4
  <2> QED  BY <1>2, <2>8, <2>9 DEF EInv
<1> QED  BY <1>12, <1>13

LEMMA ExportSends ==
  ASSUME EInv, E!Send
  PROVE  EInv'
<1>1. /\ pc = "build" /\ pc' = "sent" /\ leftE = <<>>
      /\ UNCHANGED <<classes, rowsE, files, ask, names, byImage, leftE, archive, writes, moves, grew, first>>
  BY DEF E!Send, E!store
<1>2. ExportTypes' /\ RowsListed' /\ NamesCover' /\ AsRead'
  BY <1>1 DEF EInv, ExportTypes, RowsListed, NamesCover, AsRead, Wanted
<1>3. Entries' = Entries /\ E!Boxed' = E!Boxed  BY <1>1, EntriesSame
<1>4. pc' \notin E!Reading \cup {"bundle"}  BY <1>1 DEF E!Reading
<1>5. ArchiveFits'  BY <1>1, <1>3, <1>4 DEF EInv, ArchiveFits
<1>6. NoneMissed'  BY <1>1, <1>3 DEF EInv, NoneMissed
<1> QED  BY <1>2, <1>5, <1>6 DEF EInv


\* What a step of another request leaves alone.
LEMMA OthersWrite ==
  ASSUME EInv, E!Written
  PROVE  /\ UNCHANGED <<files, ask, pc, names, byImage, leftE, archive, moves, first>>
         /\ pc \in E!Reading /\ ArchiveFits' /\ NoneMissed' /\ writes' \in Nat /\ AsRead'
<1>1. /\ UNCHANGED <<files, ask, pc, names, byImage, leftE, archive, moves, first>>
      /\ pc \in E!Reading /\ writes' = writes + 1
  BY DEF E!Written
<1>2. archive = <<>> /\ leftE = <<>>  BY <1>1 DEF EInv, ArchiveFits, E!Reading
<1>3. ArchiveFits'  BY <1>1, <1>2, ArchiveEmpty
<1>4. NoneMissed'  BY <1>1 DEF NoneMissed, E!Reading
<1>5. writes' \in Nat /\ writes' # 0
  <2>1. PICK n, m : n = writes /\ m = writes'  OBVIOUS
  <2>2. n \in Nat /\ m = n + 1  BY <1>1, <2>1 DEF EInv, ExportTypes
  <2>3. m \in Nat /\ m # 0  BY <2>2
  <2> QED  BY <2>1, <2>3
<1> QED  BY <1>1, <1>3, <1>4, <1>5 DEF AsRead

LEMMA OthersWriteBoxes ==
  ASSUME EInv, NEW k \in E!Kinds, NEW i \in Paths, NEW boxes \in Seq(Class),
         E!IsInjective(boxes), E!WriteBoxes(k, i, boxes)
  PROVE  EInv'
<1>1. PICK list, S, new : /\ list = classes[k] /\ S = Class \ E!ToSet(classes[k])
                          /\ new = E!Keep(boxes, S)
  OBVIOUS
<1>2. /\ rowsE' = [rowsE EXCEPT ![k][i] = boxes]
      /\ classes' = [classes EXCEPT ![k] = list \o new]
      /\ grew' = (grew \/ (E!NamesRead(k) /\ new # <<>>))
  BY <1>1 DEF E!WriteBoxes
<1>3. /\ UNCHANGED <<files, ask, pc, names, byImage, leftE, archive, moves, first>>
      /\ pc \in E!Reading /\ ArchiveFits' /\ NoneMissed' /\ writes' \in Nat /\ AsRead'
  BY OthersWrite DEF E!WriteBoxes
<1>4. list \in Seq(Class) /\ E!IsInjective(list)
  BY <1>1 DEF EInv, ExportTypes
<1>5. /\ new \in Seq(Class) /\ E!IsInjective(new)
      /\ \A x : (\E j \in DOMAIN new : new[j] = x) <=> x \in S /\ \E n \in DOMAIN boxes : boxes[n] = x
  <2>1. new = E!Keep(boxes, S)  BY <1>1
  <2> QED  BY <2>1, KeptHere
<1>6. \A m \in DOMAIN list, n \in DOMAIN new : list[m] # new[n]
  <2>1. \A m \in DOMAIN list : list[m] \notin S  BY <1>1 DEF E!ToSet
  <2>2. \A n \in DOMAIN new : new[n] \in S  BY <1>5
  <2> QED  BY <2>1, <2>2
<1>7. list \o new \in Seq(Class) /\ E!IsInjective(list \o new)
  BY <1>4, <1>5, <1>6, Joined
<1>8. classes' \in [E!Kinds -> Seq(Class)] /\ \A h \in E!Kinds : E!IsInjective(classes'[h])
  BY <1>2, <1>7 DEF EInv, ExportTypes
<1>9. rowsE' \in [E!Kinds -> [Paths -> Seq(Class)]]
  BY <1>2 DEF EInv, ExportTypes
<1>10. grew' \in BOOLEAN  BY <1>2 DEF EInv, ExportTypes
<1>11. ExportTypes'
  BY <1>3, <1>8, <1>9, <1>10 DEF EInv, ExportTypes
<1>12. Listed(boxes, list \o new)
  <2>1. \A m \in DOMAIN boxes : boxes[m] \in Class  OBVIOUS
  <2>2. \A m \in DOMAIN boxes : (\E n \in DOMAIN list : list[n] = boxes[m])
                             \/ (\E n \in DOMAIN new : new[n] = boxes[m])
    BY <1>1, <1>5, <2>1 DEF E!ToSet
  <2> QED  BY <1>4, <1>5, <2>2, Joined
<1>13. RowsListed'
  <2> SUFFICES ASSUME NEW h \in E!Kinds, NEW p \in Paths  PROVE Listed(rowsE'[h][p], classes'[h])
    BY DEF RowsListed
  <2>1. Listed(rowsE[h][p], classes[h])  BY DEF EInv, RowsListed
  <2>2. CASE h = k /\ p = i
    <3>1. rowsE'[h][p] = boxes /\ classes'[h] = list \o new
      BY <1>2, <2>2 DEF EInv, ExportTypes
    <3> QED  BY <1>12, <3>1
  <2>3. CASE h = k /\ p # i
    <3>1. rowsE'[h][p] = rowsE[h][p] /\ classes'[h] = list \o new
      BY <1>2, <2>3 DEF EInv, ExportTypes
    <3>2. Listed(rowsE[h][p], list)  BY <1>1, <2>1, <2>3
    <3>3. Listed(rowsE[h][p], list \o new)  BY <1>4, <1>5, <3>2, Joined
    <3> QED  BY <3>1, <3>3
  <2>4. CASE h # k
    <3>1. rowsE'[h][p] = rowsE[h][p] /\ classes'[h] = classes[h]
      BY <1>2, <2>4 DEF EInv, ExportTypes
    <3> QED  BY <2>1, <3>1
  <2> QED  BY <2>2, <2>3, <2>4
<1>14. NamesCover'
  <2> SUFFICES ASSUME ~grew'  PROVE NamesCover'
    BY DEF NamesCover
  <2>1. ~grew /\ (E!NamesRead(k) => new = <<>>)  BY <1>2
  <2>2. ASSUME NEW h \in E!Kinds, h = k => E!NamesRead(k)  PROVE classes'[h] = classes[h]
    <3>1. CASE h = k
      <4>1. list \o new = list  BY <1>4, <2>1, <2>2, <3>1, ConcatEmptySeq
      <4> QED  BY <1>1, <1>2, <3>1, <4>1 DEF EInv, ExportTypes
    <3>2. CASE h # k
      BY <1>2, <3>2 DEF EInv, ExportTypes
    <3> QED  BY <3>1, <3>2
  <2>3. pc = "test names" => classes'["pool"] = classes["pool"]
    BY <2>2 DEF E!NamesRead, E!Kinds
  <2>4. pc \in {"boxes", "test boxes"} => \A h \in E!Kinds : classes'[h] = classes[h]
    BY <2>2 DEF E!NamesRead
  <2> QED  BY <1>3, <2>1, <2>3, <2>4 DEF EInv, NamesCover
<1> QED  BY <1>3, <1>11, <1>13, <1>14 DEF EInv

LEMMA OthersDelete ==
  ASSUME EInv, E!DeleteProject
  PROVE  EInv'
<1>1. /\ classes' = [k \in E!Kinds |-> <<>>]
      /\ rowsE' = [k \in E!Kinds |-> [i \in Paths |-> <<>>]] /\ UNCHANGED grew
  BY DEF E!DeleteProject, E!NoBoxes
<1>2. /\ UNCHANGED <<files, ask, pc, names, byImage, leftE, archive, moves, first>>
      /\ pc \in E!Reading /\ ArchiveFits' /\ NoneMissed' /\ writes' \in Nat /\ AsRead'
  BY OthersWrite DEF E!DeleteProject
<1>3. /\ classes' \in [E!Kinds -> Seq(Class)] /\ \A k \in E!Kinds : E!IsInjective(classes'[k])
      /\ rowsE' \in [E!Kinds -> [Paths -> Seq(Class)]]
  BY <1>1 DEF E!IsInjective
<1>4. ExportTypes'  BY <1>1, <1>2, <1>3 DEF EInv, ExportTypes
<1>5. RowsListed'  BY <1>1 DEF RowsListed, Listed
<1>6. \A k \in E!Kinds : \A list : Listed(classes'[k], list)  BY <1>1 DEF Listed
<1>7. NamesCover'  BY <1>1, <1>2, <1>6 DEF EInv, NamesCover, E!Kinds
<1> QED  BY <1>2, <1>4, <1>5, <1>7 DEF EInv

LEMMA FilesMove ==
  ASSUME EInv, NEW i \in Paths, E!Move(i)
  PROVE  EInv'
<1>1. /\ UNCHANGED <<classes, rowsE, ask, pc, names, byImage, leftE, archive, writes, grew, first>>
      /\ files' \subseteq Paths /\ moves' = moves + 1 /\ moves \in Nat
  BY DEF E!Move, E!store, EInv, ExportTypes
<1>2. moves' \in Nat /\ moves' # 0  BY <1>1
<1>3. ExportTypes' /\ RowsListed' /\ NamesCover' /\ AsRead'
  BY <1>1, <1>2 DEF EInv, ExportTypes, RowsListed, NamesCover, AsRead, Wanted
<1>4. Entries' = Entries /\ E!Boxed' = E!Boxed  BY <1>1, EntriesSame
<1>5. ArchiveFits'  BY <1>1, <1>4 DEF EInv, ArchiveFits
<1>6. NoneMissed'  BY <1>2 DEF NoneMissed
<1> QED  BY <1>3, <1>5, <1>6 DEF EInv

LEMMA ExportStep == ASSUME EInv, E!Next PROVE EInv'
<1>1. CASE E!ReadNames  BY <1>1, ExportReadsNames
<1>2. CASE E!ReadTestNames  BY <1>2, ExportReadsTestNames
<1>3. CASE E!ReadBoxes  BY <1>3, ExportReadsBoxes
<1>4. CASE E!ReadTestBoxes  BY <1>4, ExportReadsTestBoxes
<1>5. CASE E!Bundle  BY <1>5, ExportBundles
<1>6. CASE E!WriteImage  BY <1>6, ExportWrites
<1>7. CASE E!Send  BY <1>7, ExportSends
<1>8. CASE \E k \in E!Kinds, i \in Paths, boxes \in {<<>>} \cup {<<c>> : c \in Class} :
             E!WriteBoxes(k, i, boxes)
  <2>1. PICK k \in E!Kinds, i \in Paths, boxes \in {<<>>} \cup {<<c>> : c \in Class} :
          E!WriteBoxes(k, i, boxes)
    BY <1>8
  <2>2. boxes \in Seq(Class) /\ E!IsInjective(boxes)
    <3>1. CASE boxes = <<>>  BY <3>1 DEF E!IsInjective
    <3>2. ASSUME NEW c \in Class, boxes = <<c>>  PROVE boxes \in Seq(Class) /\ E!IsInjective(boxes)
      BY <3>2 DEF E!IsInjective
    <3> QED  BY <3>1, <3>2
  <2> QED  BY <2>1, <2>2, OthersWriteBoxes
<1>9. CASE E!DeleteProject  BY <1>9, OthersDelete
<1>10. CASE \E i \in Paths : E!Move(i)  BY <1>10, FilesMove
<1> QED
  BY <1>1, <1>2, <1>3, <1>4, <1>5, <1>6, <1>7, <1>8, <1>9, <1>10 DEF E!Next

LEMMA ExportStays == ASSUME EInv, UNCHANGED download PROVE EInv'
<1>1. UNCHANGED <<classes, rowsE, files, ask, pc, names, byImage, leftE, archive, writes, moves, grew, first>>
  BY DEF download
<1>2. ExportTypes' /\ RowsListed' /\ NamesCover' /\ AsRead'
  BY <1>1 DEF EInv, ExportTypes, RowsListed, NamesCover, AsRead, Wanted
<1>3. Entries' = Entries /\ E!Boxed' = E!Boxed  BY <1>1, EntriesSame
<1>4. ArchiveFits' /\ NoneMissed'  BY <1>1, <1>3 DEF EInv, ArchiveFits, NoneMissed
<1> QED  BY <1>2, <1>4 DEF EInv

LEMMA ExportAlways == Spec => [](screen = "download" => EInv)
<1> DEFINE Inv == screen = "download" => EInv
<1>1. Init => Inv
  BY ExportBegins DEF Init
<1>2. Inv /\ [Next]_vars => Inv'
  <2> SUFFICES ASSUME Inv, [Next]_vars, screen = "download"  PROVE EInv'
    BY DEF Next, vars
  <2> QED  BY ExportStep, ExportStays DEF Next, vars
<1> QED  BY <1>1, <1>2, PTL DEF Spec, vars


\* The class a label stands for, where it has a place among the names.
LEMMA Understood ==
  ASSUME NEW c, NEW n \in DOMAIN names, names[n] = c, EInv
  PROVE  E!Meaning(E!Label(c)) = c
<1>1. names \in Seq(Class) /\ ask \in ExportRequests  BY DEF EInv, ExportTypes
<1>2. c \in E!ToSet(names)  BY DEF E!ToSet
<1>3. PICK k : k = CHOOSE m \in DOMAIN names : names[m] = c  OBVIOUS
<1>4. k \in DOMAIN names /\ names[k] = c  BY <1>3
<1>5. E!Place(c) = k  BY <1>2, <1>3 DEF E!Place
<1>6. k \in Nat /\ k # 0  BY <1>1, <1>4
<1>7. CASE ask.format = "yolo"
  <2>1. E!Label(c) = k - 1  BY <1>5, <1>6, <1>7 DEF E!Label, E!YoloLabel
  <2>2. (k - 1) + 1 = k  BY <1>6
  <2>3. E!Meaning(k - 1) = names[(k - 1) + 1]  BY <1>7 DEF E!Meaning
  <2> QED  BY <1>4, <2>1, <2>2, <2>3
<1>8. CASE ask.format = "coco"
  <2>1. E!Label(c) = k  BY <1>5, <1>8 DEF E!Label, E!CocoLabel
  <2>2. E!Meaning(k) = names[k]  BY <1>6, <1>8 DEF E!Meaning
  <2> QED  BY <1>4, <2>1, <2>2
<1>9. CASE ask.format = "voc"
  BY <1>9 DEF E!Label, E!VocLabel, E!Meaning
<1> QED  BY <1>1, <1>7, <1>8, <1>9 DEF ExportRequests, E!Formats

LEMMA Archived ==
  ASSUME EInv, NEW m \in DOMAIN archive
  PROVE  /\ archive[m] = Entry(archive[m].image) /\ archive[m].image \in E!Boxed
         /\ m \in Int /\ archive[m].image \in Paths
<1>1. archive \in Seq(Entries)  BY DEF EInv, ArchiveFits
<1>2. archive[m] \in Entries /\ m \in Int  BY <1>1
<1>3. PICK i \in E!Boxed : archive[m] = Entry(i)  BY <1>2 DEF Entries
<1>4. archive[m].image = i  BY <1>3 DEF Entry
<1> QED  BY <1>2, <1>3, <1>4 DEF E!Boxed

\* What is unpacked for an image whose stem no other shares is its own.
LEMMA UnpackedAlone ==
  ASSUME EInv, NEW m \in DOMAIN archive, NEW i, i = archive[m].image, E!Alone(i)
  PROVE  E!Unpacked(i) = archive[m].labels
<1>1. \A n \in DOMAIN archive : archive[n].name = E!LabelFile(archive[n].image)
  <2> SUFFICES ASSUME NEW n \in DOMAIN archive
               PROVE  archive[n].name = E!LabelFile(archive[n].image)
    OBVIOUS
  <2>1. PICK j, f : j = archive[n].image /\ f = E!LabelFile(j)  OBVIOUS
  <2>2. archive[n] = Entry(j)  BY <2>1, Archived
  <2>3. Entry(j).name = f  BY <2>1 DEF Entry
  <2> QED  BY <2>1, <2>2, <2>3
<1>2. ASSUME NEW n \in DOMAIN archive, archive[n].name = E!LabelFile(i)  PROVE n = m
  <2>1. PICK j : j = archive[n].image  OBVIOUS
  <2>2. j \in E!Shipped  BY <2>1 DEF E!Shipped, E!ToSet
  <2>3. E!LabelFile(j) = E!LabelFile(i)  BY <1>1, <1>2, <2>1
  <2>4. j = i  BY <2>2, <2>3 DEF E!Alone
  <2>5. m \in Int /\ n \in Int /\ i \in Int  BY Archived, PathsAre
  <2>6. m < n => i < j  BY <2>1 DEF EInv, ArchiveFits
  <2>7. n < m => j < i  BY <2>1 DEF EInv, ArchiveFits
  <2> QED  BY <2>4, <2>5, <2>6, <2>7
<1>3. m \in Int  BY Archived
<1>4. archive[m].name = E!LabelFile(i)  BY <1>1
<1>5. m = CHOOSE n \in DOMAIN archive :
            /\ archive[n].name = E!LabelFile(i)
            /\ \A k \in DOMAIN archive : archive[k].name = E!LabelFile(i) => k <= n
  <2> DEFINE Last(n) == /\ archive[n].name = E!LabelFile(i)
                        /\ \A k \in DOMAIN archive : archive[k].name = E!LabelFile(i) => k <= n
  <2>1. Last(m)  BY <1>2, <1>3, <1>4
  <2>2. \A n \in DOMAIN archive : Last(n) => n = m  BY <1>2
  <2> HIDE DEF Last
  <2>3. m = CHOOSE n \in DOMAIN archive : Last(n)  BY <2>1, <2>2
  <2> QED  BY <2>3 DEF Last
<1> QED  BY <1>5 DEF E!Unpacked

\* It is read as the classes its boxes have.
LEMMA TakenAlone ==
  ASSUME EInv, ~grew, NEW i \in E!Shipped, E!Alone(i)
  PROVE  E!Taken(i) = byImage[i] /\ i \in Paths
<1>1. PICK m \in DOMAIN archive : archive[m].image = i  BY DEF E!Shipped, E!ToSet
<1>2. i \in Paths /\ archive[m] = Entry(i)  BY <1>1, Archived
<1>3. PICK b, l : b = byImage[i] /\ l = E!Unpacked(i)  OBVIOUS
<1>4. l = [k \in DOMAIN b |-> E!Label(b[k])]
  <2>1. l = archive[m].labels  BY <1>1, <1>3, UnpackedAlone
  <2> QED  BY <1>2, <1>3, <2>1 DEF Entry
<1>5. pc \in {"build", "sent"}
  <2>1. archive # <<>>  BY <1>1
  <2> QED  BY <2>1 DEF EInv, ArchiveFits
<1>6. Listed(b, names)  BY <1>2, <1>3, <1>5 DEF EInv, NamesCover
<1>7. ASSUME NEW k \in DOMAIN b  PROVE E!Meaning(l[k]) = b[k]
  <2>1. PICK n \in DOMAIN names : names[n] = b[k]  BY <1>6 DEF Listed
  <2>2. l[k] = E!Label(b[k])  BY <1>4
  <2> QED  BY <2>1, <2>2, Understood
<1>8. b \in Seq(Class)  BY <1>2, <1>3 DEF EInv, ExportTypes
<1>9. DOMAIN l = DOMAIN b  BY <1>4
<1>10. b = [k \in DOMAIN b |-> b[k]]  BY <1>8
<1>11. E!Taken(i) = [k \in DOMAIN l |-> E!Meaning(l[k])]  BY <1>3 DEF E!Taken
<1>12. E!Taken(i) = [k \in DOMAIN b |-> E!Meaning(l[k])]  BY <1>9, <1>11
<1>13. E!Taken(i) = [k \in DOMAIN b |-> b[k]]  BY <1>7, <1>12
<1> QED  BY <1>2, <1>3, <1>10, <1>13

LEMMA LabelsAreRead == EInv => E!LabelsMean
BY TakenAlone DEF E!LabelsMean

LEMMA SnapshotIsWhole == EInv => E!WholeSnapshot
<1> DEFINE boxes(i) == IF ask.kind = "all" THEN first["pool"][i] \o first["testset"][i]
                       ELSE first[ask.kind][i]
<1> SUFFICES ASSUME EInv, pc = "sent", writes = 0, moves = 0
             PROVE  LET shown == E!InOrder({i \in files : boxes(i) # <<>>})
                    IN  /\ [n \in DOMAIN archive |-> archive[n].image] = shown
                        /\ \A i \in E!Shipped : E!Alone(i) => E!Taken(i) = boxes(i)
  BY DEF E!WholeSnapshot
<1>1. \A i \in Paths : byImage[i] = boxes(i)
  BY DEF EInv, AsRead, Wanted
<1> HIDE DEF boxes
<1>2. PICK S, s : S = {i \in files : boxes(i) # <<>>} /\ s = [n \in DOMAIN archive |-> archive[n].image]
  OBVIOUS
<1>3. S = E!Boxed \cap files /\ S \in SUBSET Paths
  <2>1. files \subseteq Paths  BY DEF EInv, ExportTypes
  <2> QED  BY <1>1, <1>2, <2>1 DEF E!Boxed
<1>4. /\ \A m \in DOMAIN archive : archive[m].image \in files
      /\ \A i \in S : \E m \in DOMAIN archive : archive[m].image = i
  <2>1. leftE = <<>>  BY DEF EInv, NoneMissed
  <2>2. \A n \in DOMAIN leftE : FALSE  BY <2>1
  <2> QED  BY <1>3, <2>2 DEF EInv, NoneMissed
<1>5. s \in Seq(S) /\ DOMAIN s = DOMAIN archive
  <2>1. \A m \in DOMAIN archive : archive[m].image \in S  BY <1>3, <1>4, Archived
  <2>2. archive \in Seq(Entries)  BY DEF EInv, ArchiveFits
  <2>3. PICK l : l = Len(archive)  OBVIOUS
  <2>4. l \in Nat /\ DOMAIN archive = 1..l  BY <2>2, <2>3
  <2>5. s \in [1..l -> S]  BY <1>2, <2>1, <2>4
  <2> QED  BY <2>4, <2>5
<1>6. \A m, n \in DOMAIN s : m < n => s[m] < s[n]
  BY <1>2, <1>5 DEF EInv, ArchiveFits
<1>7. \A i \in S : \E n \in DOMAIN s : s[n] = i
  BY <1>2, <1>4, <1>5
<1>8. s = E!InOrder(S)
  BY <1>3, <1>5, <1>6, <1>7, OrderedOnce
<1>9. ~grew  BY DEF EInv, AsRead
<1>10. \A i \in E!Shipped : E!Alone(i) => E!Taken(i) = boxes(i)
  BY <1>1, <1>9, TakenAlone
<1> QED  BY <1>2, <1>8, <1>10

LEMMA BudgetIsKept == EInv => E!WithinBudget
<1> SUFFICES ASSUME EInv, moves = 0
             PROVE  Cardinality({e \in E!ToSet(archive) : e.bundled}) <= Budget
  BY ExportCounts DEF E!WithinBudget
<1> DEFINE D == {e \in E!ToSet(archive) : e.bundled}
<1>1. IsFiniteSet({}) /\ Cardinality({}) = 0 /\ Budget \in Nat
  BY FS_EmptySet, ExportAssumption
<1>2. CASE D = {}
  BY <1>1, <1>2
<1>3. ASSUME NEW d \in D  PROVE Cardinality(D) <= Budget
  <2>1. PICK m \in DOMAIN archive : archive[m] = d  BY <1>3 DEF E!ToSet
  <2>2. ask.images
    <3>1. d.bundled  BY <1>3
    <3>2. PICK i, b : d = Entry(i) /\ b = ask.images  BY <2>1, Archived
    <3>3. d.bundled = b  BY <3>2 DEF Entry
    <3> QED  BY <3>1, <3>2, <3>3
  <2>3. pc \in {"build", "sent"}
    <3>1. archive # <<>>  BY <2>1
    <3> QED  BY <3>1 DEF EInv, ArchiveFits
  <2>4. PICK T : T = E!Boxed \cap files  OBVIOUS
  <2>5. Cardinality(T) <= Budget /\ \A n \in DOMAIN archive : archive[n].image \in T
    BY <2>2, <2>3, <2>4, Archived DEF EInv, NoneMissed
  <2>6. IsFiniteSet(T) /\ Cardinality(T) \in Nat
    <3>1. IsFiniteSet(Paths)  BY ExportAssumption
    <3>2. T \in SUBSET Paths  BY <2>4 DEF E!Boxed
    <3> QED  BY <3>1, <3>2, FS_Subset, FS_CardinalityType
  <2>7. PICK f : f = [e \in D |-> e.image]  OBVIOUS
  <2>8. \A e \in D : e.image \in T /\ e = Entry(e.image)
    BY <2>5, Archived DEF E!ToSet
  <2>9. f \in Injection(D, T)
    <3>1. f \in [D -> T]  BY <2>7, <2>8
    <3>2. \A a, b \in D : f[a] = f[b] => a = b
      <4> SUFFICES ASSUME NEW a \in D, NEW b \in D, f[a] = f[b]  PROVE a = b
        OBVIOUS
      <4>1. a.image = b.image  BY <2>7
      <4>2. a = Entry(a.image) /\ b = Entry(b.image)  BY <2>8
      <4> QED  BY <4>1, <4>2
    <3> QED  BY <3>1, <3>2 DEF Injection, IsInjective
  <2>10. IsFiniteSet(D) /\ Cardinality(D) <= Cardinality(T)  BY <2>6, <2>9, FS_Injection
  <2>11. Cardinality(D) \in Nat  BY <2>10, FS_CardinalityType
  <2> QED  BY <1>1, <2>5, <2>6, <2>10, <2>11
<1> QED  BY <1>2, <1>3

LEMMA ExportTyped == EInv => E!TypeOK
<1> SUFFICES ASSUME EInv  PROVE E!TypeOK
  OBVIOUS
<1>1. \A k \in E!Kinds : classes[k] \in Seq(Class) /\ E!IsInjective(classes[k])
  BY DEF EInv, ExportTypes
<1>2. \A k \in E!Kinds, i \in Paths : E!ToSet(rowsE[k][i]) \subseteq E!ToSet(classes[k])
  BY DEF EInv, RowsListed, Listed, E!ToSet
<1>3. /\ files \subseteq Paths /\ names \in Seq(Class) /\ E!IsInjective(names)
      /\ pc \in {"names", "test names", "boxes", "test boxes", "bundle", "build", "sent", "refused"}
  BY DEF EInv, ExportTypes, E!Reading
<1>4. \A e \in E!ToSet(archive) : byImage[e.image] # <<>> /\ Len(e.labels) = Len(byImage[e.image])
  <2> SUFFICES ASSUME NEW m \in DOMAIN archive
               PROVE  /\ byImage[archive[m].image] # <<>>
                      /\ Len(archive[m].labels) = Len(byImage[archive[m].image])
    BY DEF E!ToSet
  <2>1. PICK i : i = archive[m].image  OBVIOUS
  <2>2. i \in E!Boxed /\ i \in Paths /\ archive[m] = Entry(i)  BY <2>1, Archived
  <2>3. PICK b, l : b = byImage[i] /\ l = archive[m].labels  OBVIOUS
  <2>4. b \in Seq(Class) /\ b # <<>>
    BY <2>2, <2>3 DEF EInv, ExportTypes, E!Boxed
  <2>5. l = [k \in DOMAIN b |-> E!Label(b[k])]  BY <2>2, <2>3 DEF Entry
  <2>6. Len(l) = Len(b)
    <3>1. DOMAIN b = 1..Len(b) /\ Len(b) \in Nat  BY <2>4
    <3> QED  BY <2>5, <3>1
  <2> QED  BY <2>1, <2>3, <2>4, <2>6
<1>5. \A m, n \in DOMAIN archive : m < n => archive[m].id < archive[n].id
  <2> SUFFICES ASSUME NEW m \in DOMAIN archive, NEW n \in DOMAIN archive, m < n
               PROVE  archive[m].id < archive[n].id
    OBVIOUS
  <2>1. PICK i, j, S : i = archive[m].image /\ j = archive[n].image /\ S = E!Boxed  OBVIOUS
  <2>2. /\ i \in S /\ j \in S /\ i \in Paths /\ j \in Paths
        /\ archive[m] = Entry(i) /\ archive[n] = Entry(j)
    BY <2>1, Archived
  <2>3. i < j  BY <2>1 DEF EInv, ArchiveFits
  <2>4. S \subseteq Paths /\ Paths \subseteq Int  BY <2>1, PathsAre DEF E!Boxed
  <2>5. PICK A, Aj : A = {h \in S : h <= i} /\ Aj = {h \in S : h <= j}  OBVIOUS
  <2>6. A \in SUBSET Aj /\ j \in Aj /\ j \notin A
    <3>1. \A h \in S : h \in Int  BY <2>4
    <3>2. \A h \in S : h <= i => h <= j  BY <2>2, <2>3, <3>1
    <3>3. j <= j /\ ~(j <= i)  BY <2>2, <2>3, <3>1
    <3> QED  BY <2>2, <2>5, <3>2, <3>3
  <2>7. IsFiniteSet(Aj)
    <3>1. IsFiniteSet(Paths) /\ Aj \in SUBSET Paths  BY <2>4, <2>5, ExportAssumption
    <3> QED  BY <3>1, FS_Subset
  <2>8. /\ IsFiniteSet(A) /\ Cardinality(A) <= Cardinality(Aj)
        /\ Cardinality(Aj) # Cardinality(A)
    BY <2>6, <2>7, FS_Subset
  <2>9. Cardinality(A) \in Nat /\ Cardinality(Aj) \in Nat  BY <2>7, <2>8, FS_CardinalityType
  <2>10. Cardinality(A) < Cardinality(Aj)  BY <2>8, <2>9
  <2>11. Entry(i).id = Cardinality(A) /\ Entry(j).id = Cardinality(Aj)
    BY <2>1, <2>5 DEF Entry
  <2> QED  BY <2>2, <2>10, <2>11
<1> QED  BY <1>1, <1>2, <1>3, <1>4, <1>5 DEF E!TypeOK

(* For every image whose stem no other image of the archive has, the       *)
(* labels found in it read as the classes of its boxes, unless a class     *)
(* came between the two reads; and where nothing changed meanwhile, they   *)
(* are what the database held, for every image with boxes and a file       *)
(* (httpapi/export.go:37-164, core export.go:74-290).                      *)
THEOREM ExportIsFaithful == Spec => []ExportFaithful
<1>1. (screen = "download" => EInv) => ExportFaithful
  BY LabelsAreRead, SnapshotIsWhole, BudgetIsKept DEF ExportFaithful, E!Faithful
<1> QED  BY <1>1, ExportAlways, PTL

-----------------------------------------------------------------------------
(***************************************************************************)
(* Report.  The predictions of an image wait in the order of their         *)
(* confidence; those matched so far have what they fit best of what those  *)
(* ahead of them left; and every count is that of a set of boxes.          *)
(***************************************************************************)
Fits(p, d, t) == /\ gt[p][t].cls = pred[p][d].cls
                 /\ M!AtLeast(M!IoU(pred[p][d].box, gt[p][t].box), iouThr)

\* The predictions of the n-th image that are still to be matched.
Waiting(n) == CASE n < atM -> {}
                [] n = atM -> {dets[k] : k \in DOMAIN dets}
                [] n > atM -> DOMAIN pred[gtOrder[n]]

Given == \E input \in Inputs : gt = input.gt /\ pred = input.pred

MatchTypes ==
  /\ Given
  /\ atM \in 1..(Len(gtOrder) + 1)
  /\ DOMAIN claimed = M!Reported
  /\ dets \in Seq(Nat) /\ (atM > Len(gtOrder) => dets = <<>>)

InTurn == \A n \in DOMAIN gtOrder : n = atM => LET p == gtOrder[n] IN
  /\ \A k \in DOMAIN dets : dets[k] \in DOMAIN pred[p]
  /\ \A k, m \in DOMAIN dets : k < m => M!Ahead(p, dets[k], dets[m])
  /\ \A d \in DOMAIN pred[p] \ Waiting(n), k \in DOMAIN dets : M!Ahead(p, d, dets[k])

ClaimsFit == \A n \in DOMAIN gtOrder : LET p == gtOrder[n] IN
  /\ claimed[p] \in [DOMAIN gt[p] -> {0} \cup (DOMAIN pred[p] \ Waiting(n))]
  /\ \A t, u \in DOMAIN gt[p] : claimed[p][t] = claimed[p][u] /\ claimed[p][t] # 0 => t = u
  /\ \A t \in DOMAIN gt[p] : claimed[p][t] # 0 => Fits(p, claimed[p][t], t)

Refused(p, d, t) ==
  \/ \E u \in DOMAIN gt[p] : claimed[p][u] = d
       /\ M!AtLeast(M!IoU(pred[p][d].box, gt[p][u].box), M!IoU(pred[p][d].box, gt[p][t].box))
  \/ \E e \in DOMAIN pred[p] : M!Ahead(p, e, d) /\ claimed[p][t] = e

FirstServed == \A n \in DOMAIN gtOrder : LET p == gtOrder[n] IN
  \A d \in DOMAIN pred[p] \ Waiting(n), t \in DOMAIN gt[p] : Fits(p, d, t) => Refused(p, d, t)

Truths  == UNION {{p} \X DOMAIN gt[p] : p \in M!Reported}
Guesses == UNION {{p} \X DOMAIN pred[p] : p \in M!Reported}

Hit(x)    == claimed[x[1]][x[2]] # 0
Right(x)  == \E t \in DOMAIN gt[x[1]] : claimed[x[1]][t] = x[2]
Ended(x)  == \E n \in 1..(atM - 1) : gtOrder[n] = x[1]
Passed(x) == \E n \in DOMAIN gtOrder : gtOrder[n] = x[1] /\ x[2] \notin Waiting(n)

Hits(c)   == {x \in Truths : gt[x[1]][x[2]].cls = c /\ Hit(x)}
Misses(c) == {x \in Truths : gt[x[1]][x[2]].cls = c /\ ~Hit(x) /\ Ended(x)}
Wrong(c)  == {x \in Guesses : pred[x[1]][x[2]].cls = c /\ ~Right(x) /\ Passed(x)}

Counted == \A c :
  M!Bucket(c) = [tp |-> Cardinality(Hits(c)), fp |-> Cardinality(Wrong(c)), fn |-> Cardinality(Misses(c))]

RowsCount ==
  /\ perImage \in Seq([image : M!Reported, tp : Nat, fp : Nat, fn : Nat]) /\ Len(perImage) = atM - 1
  /\ \A n \in 1..(atM - 1) : LET p == gtOrder[n] IN
       /\ perImage[n].tp = Cardinality({t \in DOMAIN gt[p] : claimed[p][t] # 0})
       /\ perImage[n].fp = Len(pred[p]) - perImage[n].tp
       /\ perImage[n].fn = Len(gt[p]) - perImage[n].tp

IsFraction(v) == v \in Int \X (Nat \ {0})

LEMMA Scaled ==
  ASSUME NEW x \in Int, NEW y \in Int, NEW k \in Nat \ {0}, x * k >= y * k
  PROVE  x >= y
OBVIOUS

\* Overlaps are compared as fractions are.
LEMMA Compared ==
  ASSUME NEW v, NEW w, IsFraction(v), IsFraction(w)
  PROVE  /\ M!AtLeast(v, v)
         /\ M!AtLeast(v, w) \/ M!AtLeast(w, v)
         /\ \A x : IsFraction(x) /\ M!AtLeast(v, w) /\ M!AtLeast(w, x) => M!AtLeast(v, x)
<1>1. PICK a \in Int, b \in Nat \ {0} : a = v[1] /\ b = v[2]  BY DEF IsFraction
<1>2. PICK c \in Int, d \in Nat \ {0} : c = w[1] /\ d = w[2]  BY DEF IsFraction
<1>3. M!AtLeast(v, v)
  <2>1. a * b >= a * b  OBVIOUS
  <2> QED  BY <1>1, <2>1 DEF M!AtLeast
<1>4. M!AtLeast(v, w) \/ M!AtLeast(w, v)
  <2>1. PICK m \in Int, n \in Int : m = a * d /\ n = c * b  OBVIOUS
  <2>2. m >= n \/ n >= m  OBVIOUS
  <2>3. (M!AtLeast(v, w) <=> m >= n) /\ (M!AtLeast(w, v) <=> n >= m)
    BY <1>1, <1>2, <2>1 DEF M!AtLeast
  <2> QED  BY <2>2, <2>3
<1>5. ASSUME NEW x, IsFraction(x), M!AtLeast(v, w), M!AtLeast(w, x)  PROVE M!AtLeast(v, x)
  <2>1. PICK e \in Int, f \in Nat \ {0} : e = x[1] /\ f = x[2]  BY <1>5 DEF IsFraction
  <2>2. a * d >= c * b /\ c * f >= e * d  BY <1>1, <1>2, <1>5, <2>1 DEF M!AtLeast
  <2>3. (a * d) * f >= (c * b) * f  BY <2>2
  <2>4. (c * f) * b >= (e * d) * b  BY <2>2
  <2>5. (a * f) * d >= (e * b) * d  BY <2>3, <2>4
  <2>6. a * f \in Int /\ e * b \in Int  OBVIOUS
  <2>7. a * f >= e * b  BY <2>5, <2>6, Scaled
  <2> QED  BY <1>1, <2>1, <2>7 DEF M!AtLeast
<1> QED  BY <1>3, <1>4, <1>5

LEMMA OverlapIsFraction ==
  ASSUME NEW a \in Int \X Int, NEW b \in Int \X Int
  PROVE  IsFraction(M!IoU(a, b))
<1>1. PICK p \in Int, q \in Int, r \in Int, s \in Int : a[1] = p /\ a[2] = q /\ b[1] = r /\ b[2] = s
  OBVIOUS
<1>2. PICK l \in Int, h \in Int : l = M!Larger(p, r) /\ h = M!Smaller(q, s)
  BY DEF M!Smaller, M!Larger
<1>3. l >= p /\ l >= r /\ h <= q /\ h <= s
  BY <1>2 DEF M!Smaller, M!Larger
<1>4. PICK i \in Int : i = h - l  OBVIOUS
<1>5. i <= q - p /\ i <= s - r
  BY <1>3, <1>4
<1>6. M!IoU(a, b) = IF i <= 0 THEN <<0, 1>> ELSE <<i, (q - p) + (s - r) - i>>
  BY <1>1, <1>2, <1>4 DEF M!IoU
<1>7. ~(i <= 0) => (q - p) + (s - r) - i \in Nat \ {0}
  BY <1>5
<1> QED  BY <1>6, <1>7 DEF IsFraction

\* Of finitely many boxes one is overlapped most, and is the last of those.
LEMMA Topmost ==
  ASSUME NEW S, IsFiniteSet(S), S # {}, S \subseteq Nat, NEW v, \A t \in S : IsFraction(v[t])
  PROVE  \E t \in S : \A u \in S : M!AtLeast(v[t], v[u]) /\ (u > t => ~M!AtLeast(v[u], v[t]))
<1> DEFINE ge(t, u) == M!AtLeast(v[t], v[u])
           beats(u, t) == ~ge(t, u) \/ (ge(u, t) /\ u > t)
           above(t) == {u \in S : beats(u, t)}
<1>1. \A t, u \in S : ge(t, t) /\ (ge(t, u) \/ ge(u, t))
  BY Compared
<1>2. \A t, u, w \in S : ge(t, u) /\ ge(u, w) => ge(t, w)
  BY Compared
<1> HIDE DEF ge
<1>3. \A t \in S : t \notin above(t)
  BY <1>1
<1>4. ASSUME NEW t \in S, NEW u \in above(t)  PROVE above(u) \in SUBSET above(t)
  <2> SUFFICES ASSUME NEW w \in above(u)  PROVE beats(w, t)
    OBVIOUS
  <2>1. w \in S /\ u \in S /\ beats(w, u) /\ beats(u, t)  BY <1>4
  <2>2. ge(w, u) /\ ge(u, t)  BY <1>1, <2>1
  <2>3. ge(w, t)  BY <1>2, <2>1, <2>2
  <2>4. CASE ~ge(t, w)  BY <2>4
  <2>5. CASE ge(t, w)
    <3>1. ge(t, u) /\ ge(u, w)  BY <1>2, <2>1, <2>2, <2>5
    <3>2. u > t /\ w > u  BY <2>1, <3>1
    <3>3. w > t  BY <2>1, <3>2
    <3> QED  BY <2>3, <3>3
  <2> QED  BY <2>4, <2>5
<1>5. \A t \in S : IsFiniteSet(above(t)) /\ Cardinality(above(t)) \in Nat
  BY FS_Subset, FS_CardinalityType
<1> HIDE DEF beats, above
<1> DEFINE Below == {ss \in Nat \X Nat : ss[1] < ss[2]}
           C == {Cardinality(above(t)) : t \in S}
<1>6. PICK m \in C : \A n \in C : ~(<<n, m>> \in Below)
  <2>1. IsWellFoundedOn(Below, Nat)  BY NatLessThanWellFounded DEF OpToRel
  <2>2. C \subseteq Nat /\ C # {}  BY <1>5
  <2> HIDE DEF Below, C
  <2> QED  BY <2>1, <2>2, WFMin
<1>7. PICK t \in S : m = Cardinality(above(t))  BY <1>6
<1>8. above(t) = {}
  <2> SUFFICES ASSUME NEW u \in above(t)  PROVE FALSE
    OBVIOUS
  <2>1. u \in S  BY DEF above
  <2>2. above(u) \in SUBSET above(t) /\ u \notin above(u)  BY <1>3, <1>4, <2>1
  <2>3. /\ Cardinality(above(u)) <= Cardinality(above(t))
        /\ Cardinality(above(t)) # Cardinality(above(u))
    BY <1>5, <2>2, FS_Subset
  <2>4. Cardinality(above(u)) < m /\ Cardinality(above(u)) \in Nat /\ m \in Nat
    BY <1>5, <1>7, <2>1, <2>3
  <2> QED  BY <1>6, <2>1, <2>4
<1>9. \A u \in S : ~beats(u, t)  BY <1>8 DEF above
<1>10. \A u \in S : ge(t, u) /\ (u > t => ~ge(u, t))  BY <1>9 DEF beats
<1> QED  BY <1>7, <1>10 DEF ge

LEMMA OrderIs ==
  /\ Len(gtOrder) \in Nat \ {0} /\ DOMAIN gtOrder = 1..Len(gtOrder)
  /\ \A n \in DOMAIN gtOrder : gtOrder[n] \in M!Reported
  /\ \A m, n \in DOMAIN gtOrder : gtOrder[m] = gtOrder[n] => m = n
  /\ IsFiniteSet(M!Reported)
<1>1. PICK images : images = M!Reported  OBVIOUS
<1>2. /\ gtOrder \in Seq(images) /\ gtOrder # <<>>
      /\ \A m, n \in DOMAIN gtOrder : gtOrder[m] = gtOrder[n] => m = n
  BY <1>1, MetricsAssumption DEF M!Reported
<1>3. Len(gtOrder) \in Nat \ {0} /\ DOMAIN gtOrder = 1..Len(gtOrder)
  BY <1>2, EmptySeq
<1>4. gtOrder \in Surjection(DOMAIN gtOrder, M!Reported)
  <2>1. gtOrder \in [DOMAIN gtOrder -> M!Reported]  BY <1>2, <1>3 DEF M!Reported
  <2> QED  BY <2>1 DEF Surjection, M!Reported
<1>5. IsFiniteSet(DOMAIN gtOrder)
  <2>1. 1 \in Int /\ Len(gtOrder) \in Int  BY <1>3
  <2> QED  BY <1>3, <2>1, FS_Interval
<1> QED  BY <1>2, <1>3, <1>4, <1>5, FS_Surjection DEF M!Reported

LEMMA InputsAre ==
  ASSUME Given, NEW p \in M!Reported
  PROVE  /\ Len(gt[p]) \in Nat /\ DOMAIN gt[p] = 1..Len(gt[p])
         /\ Len(pred[p]) \in Nat /\ DOMAIN pred[p] = 1..Len(pred[p])
         /\ \A t \in DOMAIN gt[p] : gt[p][t].box \in Int \X Int
         /\ \A d \in DOMAIN pred[p] : pred[p][d].box \in Int \X Int /\ pred[p][d].conf \in Int
         /\ IsFiniteSet(DOMAIN gt[p]) /\ Cardinality(DOMAIN gt[p]) = Len(gt[p])
         /\ IsFiniteSet(DOMAIN pred[p]) /\ Cardinality(DOMAIN pred[p]) = Len(pred[p])
<1>1. PICK input \in Inputs : gt = input.gt /\ pred = input.pred  BY DEF Given
<1>2. /\ Len(gt[p]) \in Nat /\ DOMAIN gt[p] = 1..Len(gt[p])
      /\ Len(pred[p]) \in Nat /\ DOMAIN pred[p] = 1..Len(pred[p])
      /\ \A t \in DOMAIN gt[p] : gt[p][t].box \in Int \X Int
      /\ \A d \in DOMAIN pred[p] : pred[p][d].box \in Int \X Int /\ pred[p][d].conf \in Int
  BY <1>1, MetricsAssumption DEF M!Reported
<1>3. \A n \in Nat : IsFiniteSet(1..n) /\ Cardinality(1..n) = n
  <2> TAKE n \in Nat
  <2>1. 1 \in Int /\ n \in Int  OBVIOUS
  <2>2. IsFiniteSet(1..n) /\ Cardinality(1..n) = IF 1 > n THEN 0 ELSE n - 1 + 1
    BY <2>1, FS_Interval
  <2> QED  BY <2>2
<1> QED  BY <1>2, <1>3

LEMMA AheadIsOrder ==
  ASSUME Given, NEW p \in M!Reported,
         NEW d \in DOMAIN pred[p], NEW e \in DOMAIN pred[p]
  PROVE  /\ ~M!Ahead(p, d, d) /\ (d # e => M!Ahead(p, d, e) \/ M!Ahead(p, e, d))
         /\ \A f \in DOMAIN pred[p] : M!Ahead(p, d, e) /\ M!Ahead(p, e, f) => M!Ahead(p, d, f)
<1>1. \A f \in DOMAIN pred[p] : f \in Int /\ pred[p][f].conf \in Int
  BY InputsAre
<1>2. PICK conf : conf = [f \in DOMAIN pred[p] |-> pred[p][f].conf]  OBVIOUS
<1>3. \A f \in DOMAIN pred[p] : conf[f] \in Int  BY <1>1, <1>2
<1>4. \A f, g \in DOMAIN pred[p] :
        M!Ahead(p, f, g) <=> conf[f] > conf[g] \/ (conf[f] = conf[g] /\ f < g)
  BY <1>2 DEF M!Ahead
<1>5. ~M!Ahead(p, d, d)  BY <1>1, <1>3, <1>4
<1>6. d # e => M!Ahead(p, d, e) \/ M!Ahead(p, e, d)  BY <1>1, <1>3, <1>4
<1>7. ASSUME NEW f \in DOMAIN pred[p], M!Ahead(p, d, e), M!Ahead(p, e, f)
      PROVE  M!Ahead(p, d, f)
  BY <1>1, <1>3, <1>4, <1>7
<1> QED  BY <1>5, <1>6, <1>7

LEMMA ReportCounts == \A S : M!Cardinality(S) = Cardinality(S)
BY DEF M!Cardinality, Cardinality

\* The order by confidence lists every prediction once, those ahead first.
LEMMA Ranked ==
  ASSUME Given, NEW p \in M!Reported
  PROVE  /\ M!ByConfidence(p) \in Seq(DOMAIN pred[p])
         /\ DOMAIN M!ByConfidence(p) = DOMAIN pred[p]
         /\ \A k, m \in DOMAIN pred[p] :
              k < m => M!Ahead(p, M!ByConfidence(p)[k], M!ByConfidence(p)[m])
         /\ \A d \in DOMAIN pred[p] : \E k \in DOMAIN pred[p] : M!ByConfidence(p)[k] = d
<1>1. PICK D, n, o : D = DOMAIN pred[p] /\ n = Len(pred[p]) /\ o = M!ByConfidence(p)  OBVIOUS
<1>2. n \in Nat /\ D = 1..n /\ IsFiniteSet(D) /\ Cardinality(D) = n
  BY <1>1, InputsAre
<1> DEFINE before(d) == {e \in D : M!Ahead(p, e, d)}
<1>3. /\ \A d \in D : ~M!Ahead(p, d, d)
      /\ \A d, e \in D : d # e => M!Ahead(p, d, e) \/ M!Ahead(p, e, d)
      /\ \A d, e, f \in D : M!Ahead(p, d, e) /\ M!Ahead(p, e, f) => M!Ahead(p, d, f)
  BY <1>1, AheadIsOrder
<1>4. \A d \in D : /\ IsFiniteSet(before(d)) /\ Cardinality(before(d)) \in Nat
                   /\ Cardinality(before(d)) + 1 \in D
  <2> TAKE d \in D
  <2>1. before(d) \in SUBSET D /\ d \notin before(d)  BY <1>3
  <2>2. /\ IsFiniteSet(before(d)) /\ Cardinality(before(d)) <= Cardinality(D)
        /\ Cardinality(D) # Cardinality(before(d))
    BY <1>2, <2>1, FS_Subset
  <2>3. Cardinality(before(d)) \in Nat  BY <2>2, FS_CardinalityType
  <2> QED  BY <1>2, <2>2, <2>3
<1>5. \A d, e \in D : M!Ahead(p, d, e) => Cardinality(before(d)) < Cardinality(before(e))
  <2> SUFFICES ASSUME NEW d \in D, NEW e \in D, M!Ahead(p, d, e)
               PROVE  Cardinality(before(d)) < Cardinality(before(e))
    OBVIOUS
  <2>1. before(d) \in SUBSET before(e) /\ d \in before(e) /\ d \notin before(d)  BY <1>3
  <2>2. /\ Cardinality(before(d)) <= Cardinality(before(e))
        /\ Cardinality(before(e)) # Cardinality(before(d))
    BY <1>4, <2>1, FS_Subset
  <2> QED  BY <1>4, <2>2
<1>6. PICK rank : rank = [d \in D |-> Cardinality(before(d)) + 1]  OBVIOUS
<1> HIDE DEF before
<1>7. \A d, e \in D : M!Ahead(p, d, e) <=> rank[d] < rank[e]
  <2> SUFFICES ASSUME NEW d \in D, NEW e \in D  PROVE M!Ahead(p, d, e) <=> rank[d] < rank[e]
    OBVIOUS
  <2>1. rank[d] \in Nat /\ rank[e] \in Nat  BY <1>4, <1>6
  <2>2. M!Ahead(p, d, e) => rank[d] < rank[e]  BY <1>4, <1>5, <1>6
  <2>3. M!Ahead(p, e, d) => rank[e] < rank[d]  BY <1>4, <1>5, <1>6
  <2> QED  BY <1>3, <2>1, <2>2, <2>3
<1>8. rank \in Injection(D, D)
  <2>1. rank \in [D -> D]  BY <1>4, <1>6
  <2>2. \A d, e \in D : rank[d] = rank[e] => d = e
    <3> SUFFICES ASSUME NEW d \in D, NEW e \in D, rank[d] = rank[e], d # e  PROVE FALSE
      OBVIOUS
    <3>1. rank[d] < rank[e] \/ rank[e] < rank[d]  BY <1>3, <1>7
    <3>2. rank[d] \in Nat  BY <1>4, <1>6
    <3> QED  BY <3>1, <3>2
  <2> QED  BY <2>1, <2>2 DEF Injection, IsInjective
<1>9. rank \in Surjection(D, D)  BY <1>2, <1>8, FS_Injection
<1>10. \A k \in D : o[k] \in D /\ rank[o[k]] = k
  <2> TAKE k \in D
  <2>1. PICK d \in D : rank[d] = k  BY <1>9 DEF Surjection
  <2>2. \A e \in D : Cardinality({f \in D : M!Ahead(p, f, e)}) = k - 1 <=> rank[e] = k
    <3> TAKE e \in D
    <3>1. rank[e] = Cardinality(before(e)) + 1 /\ Cardinality(before(e)) \in Nat /\ k \in Nat
      BY <1>2, <1>4, <1>6
    <3> QED  BY <3>1 DEF before
  <2>3. o[k] = CHOOSE e \in D : Cardinality({f \in D : M!Ahead(p, f, e)}) = k - 1
    BY <1>1, ReportCounts DEF M!ByConfidence
  <2> QED  BY <2>1, <2>2, <2>3
<1>11. DOMAIN o = D  BY <1>1 DEF M!ByConfidence
<1>12. o \in Seq(D)
  <2> DEFINE nth(k) == CHOOSE e \in D : M!Cardinality({f \in D : M!Ahead(p, f, e)}) = k - 1
  <2>1. o = [k \in D |-> nth(k)]  BY <1>1 DEF M!ByConfidence
  <2> HIDE DEF nth
  <2>2. o \in [1..n -> D]  BY <1>2, <1>10, <2>1
  <2> QED  BY <1>2, <2>2
<1>13. \A k, m \in D : k < m => M!Ahead(p, o[k], o[m])
  BY <1>7, <1>10
<1>14. \A d \in D : \E k \in D : o[k] = d
  <2> TAKE d \in D
  <2>1. rank[d] \in D  BY <1>8 DEF Injection
  <2>2. rank[o[rank[d]]] = rank[d] /\ o[rank[d]] \in D  BY <1>10, <2>1
  <2>3. o[rank[d]] = d  BY <1>8, <2>2 DEF Injection, IsInjective
  <2> QED  BY <2>1, <2>3
<1> QED  BY <1>1, <1>11, <1>12, <1>13, <1>14

Matching == MatchTypes /\ InTurn /\ ClaimsFit /\ FirstServed

\* An image whose predictions have just been put in order.
LEMMA Lined ==
  ASSUME Given, NEW p \in M!Reported, NEW l, l = M!ByConfidence(p)
  PROVE  /\ l \in Seq(Nat) /\ {l[k] : k \in DOMAIN l} = DOMAIN pred[p]
         /\ \A k \in DOMAIN l : l[k] \in DOMAIN pred[p]
         /\ \A k, m \in DOMAIN l : k < m => M!Ahead(p, l[k], l[m])
<1>1. /\ l \in Seq(DOMAIN pred[p]) /\ DOMAIN l = DOMAIN pred[p]
      /\ \A k, m \in DOMAIN pred[p] : k < m => M!Ahead(p, l[k], l[m])
      /\ \A d \in DOMAIN pred[p] : \E k \in DOMAIN pred[p] : l[k] = d
  BY Ranked
<1>2. DOMAIN pred[p] = 1..Len(pred[p]) /\ Len(pred[p]) \in Nat  BY InputsAre
<1>3. \A k \in DOMAIN l : l[k] \in DOMAIN pred[p]  BY <1>1
<1>4. l \in Seq(Nat)  BY <1>1, <1>2
<1> QED  BY <1>1, <1>3, <1>4

LEMMA MatchingBegins == ASSUME M!Init PROVE Matching
<1>1. Given  BY DEF M!Init, Given
<1>2. /\ atM = 1 /\ dets = M!ByConfidence(gtOrder[1])
      /\ claimed = [p \in DOMAIN gt |-> [t \in DOMAIN gt[p] |-> 0]]
  BY DEF M!Init
<1>3. DOMAIN gt = M!Reported
  BY <1>1, MetricsAssumption DEF M!Reported, Given
<1>4. /\ 1 \in DOMAIN gtOrder /\ gtOrder[1] \in M!Reported /\ Len(gtOrder) \in Nat \ {0}
      /\ DOMAIN gtOrder = 1..Len(gtOrder)
  BY OrderIs
<1>5. PICK p : p = gtOrder[1]  OBVIOUS
<1>6. /\ dets \in Seq(Nat) /\ {dets[k] : k \in DOMAIN dets} = DOMAIN pred[p]
      /\ \A k \in DOMAIN dets : dets[k] \in DOMAIN pred[p]
      /\ \A k, m \in DOMAIN dets : k < m => M!Ahead(p, dets[k], dets[m])
  BY <1>1, <1>2, <1>4, <1>5, Lined
<1>7. MatchTypes
  BY <1>1, <1>2, <1>3, <1>4, <1>6 DEF MatchTypes
<1>8. \A n \in DOMAIN gtOrder : DOMAIN pred[gtOrder[n]] \ Waiting(n) = {}
  <2> TAKE n \in DOMAIN gtOrder
  <2>1. n \in Nat /\ (n = 1 \/ n > 1)  BY <1>4
  <2> QED  BY <1>2, <1>5, <1>6, <2>1 DEF Waiting
<1>9. InTurn
  BY <1>2, <1>4, <1>5, <1>6, <1>8 DEF InTurn
<1>10. ClaimsFit
  BY <1>2, <1>3, <1>4, OrderIs DEF ClaimsFit
<1>11. FirstServed
  BY <1>8 DEF FirstServed
<1> QED  BY <1>7, <1>9, <1>10, <1>11 DEF Matching

\* What the search for a truth box finds.
LEMMA BestIs ==
  ASSUME Given, NEW p \in M!Reported, p = gtOrder[atM], NEW d \in DOMAIN pred[p],
         NEW t, t = M!best(d)
  PROVE  \/ /\ t = 0
            /\ \A u \in DOMAIN gt[p] : Fits(p, d, u) => claimed[p][u] # 0
         \/ /\ t \in DOMAIN gt[p] /\ t # 0 /\ Fits(p, d, t) /\ claimed[p][t] = 0
            /\ \A u \in DOMAIN gt[p] : Fits(p, d, u) /\ claimed[p][u] = 0 =>
                 M!AtLeast(M!IoU(pred[p][d].box, gt[p][t].box), M!IoU(pred[p][d].box, gt[p][u].box))
<1> DEFINE over(u) == M!IoU(pred[gtOrder[atM]][d].box, gt[gtOrder[atM]][u].box)
           S == {u \in DOMAIN gt[gtOrder[atM]] :
                   /\ claimed[gtOrder[atM]][u] = 0
                   /\ gt[gtOrder[atM]][u].cls = pred[gtOrder[atM]][d].cls
                   /\ M!AtLeast(over(u), iouThr)}
           most(w) == \A u \in S : M!AtLeast(over(w), over(u)) /\ (u > w => ~M!AtLeast(over(u), over(w)))
<1>1. t = IF S = {} THEN 0 ELSE CHOOSE w \in S : most(w)
  BY DEF M!best, M!image
<1>2. \A u : u \in S <=> u \in DOMAIN gt[p] /\ claimed[p][u] = 0 /\ Fits(p, d, u)
  BY DEF Fits
<1>3. \A u : over(u) = M!IoU(pred[p][d].box, gt[p][u].box)
  OBVIOUS
<1>4. /\ DOMAIN gt[p] = 1..Len(gt[p]) /\ Len(gt[p]) \in Nat /\ IsFiniteSet(DOMAIN gt[p])
      /\ \A u \in DOMAIN gt[p] : gt[p][u].box \in Int \X Int
      /\ pred[p][d].box \in Int \X Int
  BY InputsAre
<1> HIDE DEF S, over
<1>5. \A u \in S : IsFraction(over(u))
  BY <1>2, <1>3, <1>4, OverlapIsFraction
<1>6. IsFiniteSet(S) /\ S \subseteq Nat /\ 0 \notin S
  BY <1>2, <1>4, FS_Subset
<1>7. CASE S = {}
  BY <1>1, <1>2, <1>7
<1>8. CASE S # {}
  <2>1. PICK v : v = [u \in S |-> over(u)]  OBVIOUS
  <2>2. \A u \in S : v[u] = over(u)  BY <2>1
  <2>3. \A u \in S : IsFraction(v[u])  BY <1>5, <2>2
  <2>4. \E w \in S : \A u \in S : M!AtLeast(v[w], v[u]) /\ (u > w => ~M!AtLeast(v[u], v[w]))
    BY <1>6, <1>8, <2>3, Topmost
  <2>5. \E w \in S : most(w)  BY <2>2, <2>4
  <2> HIDE DEF most
  <2>6. t \in S /\ most(t)  BY <1>1, <1>8, <2>5
  <2>7. \A u \in S : M!AtLeast(over(t), over(u))  BY <2>6 DEF most
  <2>8. t # 0  BY <1>6, <2>6
  <2> QED  BY <1>2, <1>3, <2>6, <2>7, <2>8
<1> QED  BY <1>7, <1>8

\* The position an image has, and no other.
LEMMA OnePlace ==
  ASSUME NEW m \in DOMAIN gtOrder, NEW n \in DOMAIN gtOrder, gtOrder[m] = gtOrder[n]
  PROVE  m = n
BY OrderIs

\* One prediction is matched: d, the next in turn, for p, with t (0 for none).
Matched(p, d, t) ==
  /\ atM \in DOMAIN gtOrder /\ p = gtOrder[atM] /\ p \in M!Reported
  /\ d \in DOMAIN pred[p] /\ d # 0 /\ d \in Waiting(atM)
  /\ \A e \in DOMAIN pred[p] \ Waiting(atM) : M!Ahead(p, e, d)
  /\ UNCHANGED <<gt, pred, atM, perImage>>
  /\ claimed' = IF t = 0 THEN claimed ELSE [claimed EXCEPT ![p][t] = d]
  /\ dets' \in Seq(Nat) /\ \A k \in DOMAIN dets' : k + 1 \in DOMAIN dets /\ dets'[k] = dets[k + 1]
  /\ \A k \in DOMAIN dets' : M!Ahead(p, d, dets'[k])
  /\ \A n \in DOMAIN gtOrder :
       Waiting(n)' = IF n = atM THEN Waiting(n) \ {d} ELSE Waiting(n)

LEMMA MatchIs ==
  ASSUME Matching, M!Match, NEW p, p = gtOrder[atM], NEW d, d = Head(dets), NEW t, t = M!best(d)
  PROVE  Matched(p, d, t)
<1>1. /\ atM \in 1..(Len(gtOrder) + 1) /\ ~(atM > Len(gtOrder)) /\ dets # <<>> /\ dets \in Seq(Nat)
      /\ dets' = Tail(dets) /\ UNCHANGED <<gt, pred, atM, perImage>>
      /\ claimed' = IF t = 0 THEN claimed ELSE [claimed EXCEPT ![p][t] = d]
  BY DEF Matching, MatchTypes, M!Match, M!Done, M!image
<1>2. atM \in DOMAIN gtOrder /\ atM <= Len(gtOrder) /\ p \in M!Reported /\ atM \in Nat
  BY <1>1, OrderIs
<1>3. PICK l, r : l = dets /\ r = dets'  OBVIOUS
<1>4. /\ l \in Seq(Nat) /\ l # <<>> /\ r = Tail(l) /\ d = Head(l)  BY <1>1, <1>3
<1>5. /\ Len(l) \in Nat \ {0} /\ DOMAIN l = 1..Len(l) /\ d = l[1] /\ r \in Seq(Nat)
      /\ DOMAIN r = 1..(Len(l) - 1) /\ \A k \in DOMAIN r : r[k] = l[k + 1]
  <2>1. r \in Seq(Nat) /\ Len(r) = Len(l) - 1 /\ \A k \in 1..Len(r) : r[k] = l[k + 1]
    BY <1>4, HeadTailProperties
  <2>2. Len(l) \in Nat \ {0}  BY <1>4, EmptySeq
  <2> QED  BY <1>4, <2>1, <2>2
<1>6. 1 \in DOMAIN l /\ \A k \in DOMAIN r : k + 1 \in DOMAIN l /\ 1 < k + 1
  BY <1>5
<1>7. /\ \A k \in DOMAIN l : l[k] \in DOMAIN pred[p]
      /\ \A k, m \in DOMAIN l : k < m => M!Ahead(p, l[k], l[m])
      /\ \A e \in DOMAIN pred[p] \ Waiting(atM), k \in DOMAIN l : M!Ahead(p, e, l[k])
  BY <1>2, <1>3 DEF Matching, InTurn
<1>8. d \in DOMAIN pred[p] /\ d # 0
  <2>1. DOMAIN pred[p] = 1..Len(pred[p])  BY <1>2, InputsAre DEF Matching, MatchTypes
  <2> QED  BY <1>5, <1>6, <1>7, <2>1
<1>9. Waiting(atM) = {l[k] : k \in DOMAIN l}
  BY <1>2, <1>3 DEF Waiting
<1>10. \A e \in DOMAIN pred[p] \ Waiting(atM) : M!Ahead(p, e, d)
  BY <1>5, <1>6, <1>7
<1>11. \A k \in DOMAIN r : M!Ahead(p, d, r[k])
  BY <1>5, <1>6, <1>7
<1>12. {r[k] : k \in DOMAIN r} = {l[k] : k \in DOMAIN l} \ {d}
  <2>1. \A k \in DOMAIN r : r[k] # d
    <3>1. ~M!Ahead(p, d, d)  BY <1>2, <1>8, AheadIsOrder DEF Matching, MatchTypes
    <3> QED  BY <1>11, <3>1
  <2>2. \A k \in DOMAIN l : l[k] # d => k - 1 \in DOMAIN r /\ r[k - 1] = l[k]
    <3> SUFFICES ASSUME NEW k \in DOMAIN l, l[k] # d  PROVE k - 1 \in DOMAIN r /\ r[k - 1] = l[k]
      OBVIOUS
    <3>1. k # 1 /\ k \in 1..Len(l)  BY <1>5
    <3>2. k - 1 \in DOMAIN r /\ (k - 1) + 1 = k  BY <1>5, <3>1
    <3> QED  BY <1>5, <3>2
  <2> QED  BY <1>5, <1>6, <2>1, <2>2
<1>13. \A n \in DOMAIN gtOrder : Waiting(n)' = IF n = atM THEN Waiting(n) \ {d} ELSE Waiting(n)
  <2> SUFFICES ASSUME NEW n \in DOMAIN gtOrder
               PROVE  Waiting(n)' = IF n = atM THEN Waiting(n) \ {d} ELSE Waiting(n)
    OBVIOUS
  <2>1. CASE n = atM
    <3>1. Waiting(n)' = {r[k] : k \in DOMAIN r}  BY <1>1, <1>2, <1>3, <2>1 DEF Waiting
    <3> QED  BY <1>9, <1>12, <2>1, <3>1
  <2>2. CASE n # atM
    <3>1. n < atM \/ n > atM  BY <1>2, <2>2, OrderIs
    <3> QED  BY <1>1, <1>2, <2>2, <3>1 DEF Waiting
  <2> QED  BY <2>1, <2>2
<1> QED
  BY <1>1, <1>2, <1>3, <1>5, <1>6, <1>8, <1>9, <1>10, <1>11, <1>13 DEF Matched

\* The claims afterwards: those before, and d's.
LEMMA ClaimsGrow ==
  ASSUME Matching, NEW p, NEW d, NEW t, Matched(p, d, t), t = M!best(d)
  PROVE  /\ DOMAIN claimed' = M!Reported
         /\ \A n \in DOMAIN gtOrder :
              /\ DOMAIN claimed'[gtOrder[n]] = DOMAIN gt[gtOrder[n]]
              /\ \A u \in DOMAIN gt[gtOrder[n]] :
                   claimed'[gtOrder[n]][u] = IF n = atM /\ u = t THEN d ELSE claimed[gtOrder[n]][u]
         /\ t # 0 => t \in DOMAIN gt[p] /\ Fits(p, d, t) /\ claimed[p][t] = 0
<1>1. /\ Given /\ DOMAIN claimed = M!Reported /\ atM \in DOMAIN gtOrder /\ p \in M!Reported
      /\ d \in DOMAIN pred[p] /\ p = gtOrder[atM]
      /\ claimed' = IF t = 0 THEN claimed ELSE [claimed EXCEPT ![p][t] = d]
  BY DEF Matching, MatchTypes, Matched
<1>2. t # 0 => t \in DOMAIN gt[p] /\ Fits(p, d, t) /\ claimed[p][t] = 0
  BY <1>1, BestIs
<1>3. \A n \in DOMAIN gtOrder : DOMAIN claimed[gtOrder[n]] = DOMAIN gt[gtOrder[n]]
  BY DEF Matching, ClaimsFit
<1>4. \A n \in DOMAIN gtOrder : gtOrder[n] \in M!Reported /\ 0 \notin DOMAIN gt[gtOrder[n]]
  BY <1>1, OrderIs, InputsAre
<1>5. \A n \in DOMAIN gtOrder : gtOrder[n] = p <=> n = atM
  BY <1>1, OnePlace
<1>6. CASE t = 0
  BY <1>1, <1>2, <1>3, <1>4, <1>6
<1>7. CASE t # 0
  <2>1. claimed' = [claimed EXCEPT ![p][t] = d]  BY <1>1, <1>7
  <2>2. DOMAIN claimed' = M!Reported  BY <1>1, <2>1
  <2>3. \A q \in M!Reported : claimed'[q] = IF q = p THEN [claimed[p] EXCEPT ![t] = d] ELSE claimed[q]
    BY <1>1, <2>1
  <2>4. ASSUME NEW n \in DOMAIN gtOrder
        PROVE  /\ DOMAIN claimed'[gtOrder[n]] = DOMAIN gt[gtOrder[n]]
               /\ \A u \in DOMAIN gt[gtOrder[n]] :
                    claimed'[gtOrder[n]][u] = IF n = atM /\ u = t THEN d ELSE claimed[gtOrder[n]][u]
    <3>1. CASE n = atM
      <4>1. claimed'[gtOrder[n]] = [claimed[p] EXCEPT ![t] = d] /\ gtOrder[n] = p
        BY <1>1, <2>3, <3>1
      <4> QED  BY <1>3, <3>1, <4>1
    <3>2. CASE n # atM
      <4>1. claimed'[gtOrder[n]] = claimed[gtOrder[n]]
        BY <1>4, <1>5, <2>3, <3>2
      <4> QED  BY <1>3, <3>2, <4>1
    <3> QED  BY <3>1, <3>2
  <2> QED  BY <1>2, <2>2, <2>4
<1> QED  BY <1>6, <1>7

LEMMA MatchKeeps ==
  ASSUME Matching, M!Match
  PROVE  Matching'
<1>1. PICK p, d, t, i : p = gtOrder[atM] /\ d = Head(dets) /\ t = M!best(d) /\ i = atM  OBVIOUS
<1>2. Matched(p, d, t)  BY <1>1, MatchIs
<1>3. PICK w, v : /\ w = [n \in DOMAIN gtOrder |-> Waiting(n)]
                  /\ v = [n \in DOMAIN gtOrder |-> IF n = i THEN w[n] \ {d} ELSE w[n]]
  OBVIOUS
<1>4. \A n \in DOMAIN gtOrder : Waiting(n) = w[n] /\ Waiting(n)' = v[n]
  BY <1>1, <1>2, <1>3 DEF Matched
<1>5. PICK nw : nw = claimed'  OBVIOUS
<1>6. /\ DOMAIN nw = M!Reported
      /\ \A n \in DOMAIN gtOrder :
           /\ DOMAIN nw[gtOrder[n]] = DOMAIN gt[gtOrder[n]]
           /\ \A u \in DOMAIN gt[gtOrder[n]] :
                nw[gtOrder[n]][u] = IF n = i /\ u = t THEN d ELSE claimed[gtOrder[n]][u]
      /\ t # 0 => t \in DOMAIN gt[p] /\ Fits(p, d, t) /\ claimed[p][t] = 0
  BY <1>1, <1>2, <1>5, ClaimsGrow
<1>7. /\ i \in DOMAIN gtOrder /\ gtOrder[i] = p /\ p \in M!Reported /\ d \in DOMAIN pred[p] /\ d # 0
      /\ d \in w[i] /\ (\A e \in DOMAIN pred[p] \ w[i] : M!Ahead(p, e, d))
      /\ gt' = gt /\ pred' = pred /\ atM' = i
      /\ dets' \in Seq(Nat) /\ (\A k \in DOMAIN dets' : k + 1 \in DOMAIN dets /\ dets'[k] = dets[k + 1])
      /\ \A k \in DOMAIN dets' : M!Ahead(p, d, dets'[k])
  BY <1>1, <1>2, <1>4 DEF Matched
<1>8. \A n \in DOMAIN gtOrder : \A e \in DOMAIN pred[gtOrder[n]] :
        e \notin v[n] <=> e \notin w[n] \/ (n = i /\ e = d)
  BY <1>3
<1>9. MatchTypes'
  <2>1. Given' /\ atM' \in 1..(Len(gtOrder) + 1) /\ ~(atM' > Len(gtOrder))
    BY <1>7, OrderIs DEF Matching, MatchTypes, Given
  <2> QED  BY <1>5, <1>6, <1>7, <2>1 DEF MatchTypes, M!Reported
<1>10. InTurn'
  <2>1. PICK r, l : r = dets' /\ l = dets  OBVIOUS
  <2>2. DOMAIN r \subseteq Nat /\ \A k \in DOMAIN r : k + 1 \in DOMAIN l /\ r[k] = l[k + 1]
    BY <1>7, <2>1
  <2>3. /\ \A k \in DOMAIN l : l[k] \in DOMAIN pred[p]
        /\ \A k, m \in DOMAIN l : k < m => M!Ahead(p, l[k], l[m])
        /\ \A e \in DOMAIN pred[p] \ w[i], k \in DOMAIN l : M!Ahead(p, e, l[k])
    BY <1>1, <1>4, <1>7, <2>1 DEF Matching, InTurn
  <2>4. \A k, m \in DOMAIN r : k < m => M!Ahead(p, r[k], r[m])
    <3> SUFFICES ASSUME NEW k \in DOMAIN r, NEW m \in DOMAIN r, k < m  PROVE M!Ahead(p, r[k], r[m])
      OBVIOUS
    <3>1. k + 1 < m + 1 /\ k + 1 \in DOMAIN l /\ m + 1 \in DOMAIN l  BY <2>2
    <3> QED  BY <2>2, <2>3, <3>1
  <2>5. \A k \in DOMAIN r : r[k] \in DOMAIN pred[p]  BY <2>2, <2>3
  <2>6. \A e \in DOMAIN pred[p] \ v[i], k \in DOMAIN r : M!Ahead(p, e, r[k])
    BY <1>7, <1>8, <2>1, <2>2, <2>3
  <2>7. \A n \in DOMAIN gtOrder : n = i =>
          /\ \A k \in DOMAIN r : r[k] \in DOMAIN pred[gtOrder[n]]
          /\ \A k, m \in DOMAIN r : k < m => M!Ahead(gtOrder[n], r[k], r[m])
          /\ \A e \in DOMAIN pred[gtOrder[n]] \ v[n], k \in DOMAIN r : M!Ahead(gtOrder[n], e, r[k])
    BY <1>7, <2>4, <2>5, <2>6
  <2> QED  BY <1>4, <1>7, <2>1, <2>7 DEF InTurn, M!Ahead
<1>11. ClaimsFit'
  <2>1. ASSUME NEW n \in DOMAIN gtOrder, NEW q, q = gtOrder[n]
        PROVE  /\ nw[q] \in [DOMAIN gt[q] -> {0} \cup (DOMAIN pred[q] \ v[n])]
               /\ \A u, x \in DOMAIN gt[q] : nw[q][u] = nw[q][x] /\ nw[q][u] # 0 => u = x
               /\ \A u \in DOMAIN gt[q] : nw[q][u] # 0 => Fits(q, nw[q][u], u)
    <3>1. PICK a, b : a = claimed[q] /\ b = nw[q]  OBVIOUS
    <3>2. /\ a \in [DOMAIN gt[q] -> {0} \cup (DOMAIN pred[q] \ w[n])]
          /\ \A u, x \in DOMAIN gt[q] : a[u] = a[x] /\ a[u] # 0 => u = x
          /\ \A u \in DOMAIN gt[q] : a[u] # 0 => Fits(q, a[u], u)
      BY <1>4, <2>1, <3>1 DEF Matching, ClaimsFit
    <3>3. \A u \in DOMAIN gt[q] : b[u] = IF n = i /\ u = t THEN d ELSE a[u]
      BY <1>6, <2>1, <3>1
    <3>4. n = i => q = p  BY <1>7, <2>1
    <3>5. b \in [DOMAIN gt[q] -> {0} \cup (DOMAIN pred[q] \ v[n])]
      <4>1. b = [u \in DOMAIN gt[q] |-> b[u]]
        <5>1. q \in M!Reported /\ DOMAIN b = DOMAIN gt[q]  BY <1>6, <2>1, <3>1, OrderIs
        <5>2. claimed' = nw /\ b = nw[q]  BY <1>5, <3>1
        <5>3. CASE t = 0
          <6>1. b = a  BY <1>2, <1>5, <3>1, <5>3 DEF Matched
          <6> QED  BY <3>2, <6>1
        <5>4. CASE t # 0
          <6>1. nw = [claimed EXCEPT ![p][t] = d]  BY <1>2, <1>5, <5>4 DEF Matched
          <6>2. DOMAIN claimed = M!Reported  BY DEF Matching, MatchTypes
          <6>3. b = IF q = p THEN [a EXCEPT ![t] = d] ELSE a
            BY <3>1, <5>1, <6>1, <6>2
          <6> QED  BY <3>2, <6>3
        <5> QED  BY <5>3, <5>4
      <4>2. \A u \in DOMAIN gt[q] : b[u] \in {0} \cup (DOMAIN pred[q] \ v[n])
        BY <1>7, <1>8, <2>1, <3>2, <3>3, <3>4
      <4> QED  BY <4>1, <4>2
    <3>6. \A u, x \in DOMAIN gt[q] : b[u] = b[x] /\ b[u] # 0 => u = x
      <4>1. n = i => \A u \in DOMAIN gt[q] : a[u] # d
        BY <1>7, <3>2, <3>4
      <4> QED  BY <3>2, <3>3, <4>1
    <3>7. \A u \in DOMAIN gt[q] : b[u] # 0 => Fits(q, b[u], u)
      <4>1. \A u \in DOMAIN gt[q] : n = i /\ u = t => t # 0
        BY <2>1, OrderIs, InputsAre DEF Matching, MatchTypes
      <4> QED  BY <1>6, <3>2, <3>3, <3>4, <4>1
    <3> QED  BY <3>1, <3>5, <3>6, <3>7
  <2>2. \A n \in DOMAIN gtOrder :
          /\ nw[gtOrder[n]] \in [DOMAIN gt[gtOrder[n]] -> {0} \cup (DOMAIN pred[gtOrder[n]] \ v[n])]
          /\ \A u, x \in DOMAIN gt[gtOrder[n]] :
               nw[gtOrder[n]][u] = nw[gtOrder[n]][x] /\ nw[gtOrder[n]][u] # 0 => u = x
          /\ \A u \in DOMAIN gt[gtOrder[n]] :
               nw[gtOrder[n]][u] # 0 => Fits(gtOrder[n], nw[gtOrder[n]][u], u)
    BY <2>1
  <2> QED  BY <1>4, <1>5, <1>7, <2>2 DEF ClaimsFit, Fits
<1>12. FirstServed'
  <2>1. ASSUME NEW n \in DOMAIN gtOrder, NEW q, q = gtOrder[n],
               NEW e \in DOMAIN pred[q] \ v[n], NEW u \in DOMAIN gt[q], Fits(q, e, u)
        PROVE  \/ \E x \in DOMAIN gt[q] : nw[q][x] = e
                    /\ M!AtLeast(M!IoU(pred[q][e].box, gt[q][x].box), M!IoU(pred[q][e].box, gt[q][u].box))
               \/ \E f \in DOMAIN pred[q] : M!Ahead(q, f, e) /\ nw[q][u] = f
    <3>1. \A x \in DOMAIN gt[q] : nw[q][x] = IF n = i /\ x = t THEN d ELSE claimed[q][x]
      BY <1>6, <2>1
    <3>2. \A x \in DOMAIN gt[q] : claimed[q][x] \in {0} \cup (DOMAIN pred[q] \ w[n])
      BY <1>4, <2>1 DEF Matching, ClaimsFit
    <3>3. 0 \notin DOMAIN pred[q] /\ (n = i => q = p) /\ 0 \notin DOMAIN gt[q]
      BY <1>7, <2>1, OrderIs, InputsAre DEF Matching, MatchTypes
    <3>4. \A x \in DOMAIN gt[q] : claimed[q][x] # 0 => nw[q][x] = claimed[q][x]
      BY <1>6, <3>1, <3>3
    <3>5. CASE e \notin w[n]
      <4>1. Refused(q, e, u)  BY <1>4, <2>1, <3>5 DEF Matching, FirstServed
      <4> QED  BY <3>3, <3>4, <4>1 DEF Refused
    <3>6. CASE e \in w[n]
      <4>1. n = i /\ e = d /\ q = p  BY <1>8, <2>1, <3>3, <3>6
      <4>2. CASE t # 0 /\ claimed[p][u] = 0
        <5>1. /\ t \in DOMAIN gt[p]
              /\ M!AtLeast(M!IoU(pred[p][d].box, gt[p][t].box), M!IoU(pred[p][d].box, gt[p][u].box))
          BY <1>1, <1>7, <2>1, <4>1, <4>2, BestIs DEF Matching, MatchTypes
        <5> QED  BY <3>1, <4>1, <5>1
      <4>3. CASE claimed[p][u] # 0
        <5>1. claimed[p][u] \in DOMAIN pred[p] \ w[i]  BY <2>1, <3>2, <4>1, <4>3
        <5> QED  BY <1>7, <2>1, <3>4, <4>1, <4>3, <5>1
      <4>4. CASE t = 0
        <5>1. claimed[p][u] # 0
          BY <1>1, <1>7, <2>1, <4>1, <4>4, BestIs DEF Matching, MatchTypes
        <5> QED  BY <4>3, <5>1
      <4> QED  BY <4>2, <4>3, <4>4
    <3> QED  BY <3>5, <3>6
  <2>2. \A n \in DOMAIN gtOrder : \A e \in DOMAIN pred[gtOrder[n]] \ v[n], u \in DOMAIN gt[gtOrder[n]] :
          Fits(gtOrder[n], e, u) =>
            \/ \E x \in DOMAIN gt[gtOrder[n]] : nw[gtOrder[n]][x] = e
                 /\ M!AtLeast(M!IoU(pred[gtOrder[n]][e].box, gt[gtOrder[n]][x].box),
                              M!IoU(pred[gtOrder[n]][e].box, gt[gtOrder[n]][u].box))
            \/ \E f \in DOMAIN pred[gtOrder[n]] : M!Ahead(gtOrder[n], f, e) /\ nw[gtOrder[n]][u] = f
    BY <2>1
  <2> QED  BY <1>4, <1>5, <1>7, <2>2 DEF FirstServed, Refused, Fits, M!Ahead
<1> QED  BY <1>9, <1>10, <1>11, <1>12 DEF Matching

\* An image ends, and the next one's predictions are put in order.
LEMMA EndIs ==
  ASSUME Matching, M!EndImage
  PROVE  /\ atM \in DOMAIN gtOrder /\ dets = <<>> /\ atM' = atM + 1 /\ UNCHANGED <<gt, pred, claimed>>
         /\ \A n \in DOMAIN gtOrder : Waiting(n)' = Waiting(n) /\ (n <= atM => Waiting(n) = {})
         /\ MatchTypes' /\ InTurn'
<1>1. PICK i, l, r : i = atM /\ l = dets /\ r = dets'  OBVIOUS
<1>2. /\ Given /\ i \in 1..(Len(gtOrder) + 1) /\ ~(i > Len(gtOrder)) /\ l = <<>>
      /\ atM' = i + 1 /\ gt' = gt /\ pred' = pred /\ claimed' = claimed
      /\ r = IF i < Len(gtOrder) THEN M!ByConfidence(gtOrder[i + 1]) ELSE <<>>
  BY <1>1 DEF Matching, MatchTypes, M!EndImage, M!Done
<1>3. i \in DOMAIN gtOrder /\ i \in Nat /\ Len(gtOrder) \in Nat /\ DOMAIN gtOrder = 1..Len(gtOrder)
  BY <1>2, OrderIs
<1>4. \A n \in DOMAIN gtOrder : n \in Nat /\ (n < i \/ n = i \/ n = i + 1 \/ n > i + 1)
  BY <1>3
<1>5. ASSUME i < Len(gtOrder)
      PROVE  /\ r \in Seq(Nat) /\ {r[k] : k \in DOMAIN r} = DOMAIN pred[gtOrder[i + 1]]
             /\ \A k \in DOMAIN r : r[k] \in DOMAIN pred[gtOrder[i + 1]]
             /\ \A k, m \in DOMAIN r : k < m => M!Ahead(gtOrder[i + 1], r[k], r[m])
  <2>1. i + 1 \in DOMAIN gtOrder  BY <1>3, <1>5
  <2>2. gtOrder[i + 1] \in M!Reported  BY <2>1, OrderIs
  <2> QED  BY <1>2, <1>5, <2>2, Lined
<1>6. \A n \in DOMAIN gtOrder : n = i + 1 => i < Len(gtOrder)
  BY <1>3
<1>7. \A n \in DOMAIN gtOrder : Waiting(n)' = Waiting(n) /\ (n <= i => Waiting(n) = {})
  <2> SUFFICES ASSUME NEW n \in DOMAIN gtOrder
               PROVE  Waiting(n)' = Waiting(n) /\ (n <= i => Waiting(n) = {})
    OBVIOUS
  <2>1. n \in Nat /\ i \in Nat  BY <1>3
  <2>2. CASE n < i
    <3>1. n < i + 1 /\ ~(n = i) BY <2>1, <2>2
    <3> QED  BY <1>1, <1>2, <2>2, <3>1 DEF Waiting
  <2>3. CASE n = i
    <3>1. n < i + 1 /\ ~(n < i)  BY <2>1, <2>3
    <3>2. {l[k] : k \in DOMAIN l} = {}  BY <1>2
    <3> QED  BY <1>1, <1>2, <2>3, <3>1, <3>2 DEF Waiting
  <2>4. CASE n = i + 1
    <3>1. n > i /\ ~(n <= i) /\ ~(n < i + 1) /\ ~(n < i) /\ ~(n = i)  BY <2>1, <2>4
    <3>2. {r[k] : k \in DOMAIN r} = DOMAIN pred[gtOrder[n]]  BY <1>5, <1>6, <2>4
    <3>3. Waiting(n)' = {r[k] : k \in DOMAIN r}
      BY <1>1, <1>2, <2>4, <3>1 DEF Waiting
    <3>4. Waiting(n) = DOMAIN pred[gtOrder[n]]
      BY <1>1, <3>1 DEF Waiting
    <3> QED  BY <3>1, <3>2, <3>3, <3>4
  <2>5. CASE n > i + 1
    <3>1. n > i /\ ~(n <= i) /\ ~(n < i + 1) /\ ~(n < i) /\ ~(n = i) /\ ~(n = i + 1)  BY <2>1, <2>5
    <3> QED  BY <1>1, <1>2, <2>5, <3>1 DEF Waiting
  <2> QED  BY <1>4, <2>2, <2>3, <2>4, <2>5
<1>8. MatchTypes'
  <2>1. Given'  BY <1>2 DEF Given
  <2>2. i + 1 \in 1..(Len(gtOrder) + 1)  BY <1>2, <1>3
  <2>3. r \in Seq(Nat) /\ (i + 1 > Len(gtOrder) => r = <<>>)
    BY <1>2, <1>3, <1>5
  <2>4. DOMAIN claimed = M!Reported  BY DEF Matching, MatchTypes
  <2> QED  BY <1>1, <1>2, <2>1, <2>2, <2>3, <2>4 DEF MatchTypes, M!Reported
<1>9. InTurn'
  <2>1. PICK w : w = [n \in DOMAIN gtOrder |-> Waiting(n)]  OBVIOUS
  <2>2. \A n \in DOMAIN gtOrder : Waiting(n)' = w[n]  BY <1>7, <2>1
  <2>3. \A n \in DOMAIN gtOrder : n = i + 1 =>
          /\ \A k \in DOMAIN r : r[k] \in DOMAIN pred[gtOrder[n]]
          /\ \A k, m \in DOMAIN r : k < m => M!Ahead(gtOrder[n], r[k], r[m])
          /\ \A e \in DOMAIN pred[gtOrder[n]] \ w[n], k \in DOMAIN r : M!Ahead(gtOrder[n], e, r[k])
    <3> SUFFICES ASSUME NEW n \in DOMAIN gtOrder, n = i + 1
                 PROVE  /\ \A k \in DOMAIN r : r[k] \in DOMAIN pred[gtOrder[n]]
                        /\ \A k, m \in DOMAIN r : k < m => M!Ahead(gtOrder[n], r[k], r[m])
                        /\ DOMAIN pred[gtOrder[n]] \ w[n] = {}
      OBVIOUS
    <3>1. ~(n < i) /\ ~(n = i) /\ n > i  BY <1>3
    <3>2. w[n] = DOMAIN pred[gtOrder[n]]  BY <1>1, <2>1, <3>1 DEF Waiting
    <3> QED  BY <1>5, <1>6, <3>2
  <2> QED  BY <1>1, <1>2, <2>2, <2>3 DEF InTurn, M!Ahead
<1> QED  BY <1>1, <1>2, <1>3, <1>7, <1>8, <1>9

LEMMA EndKeeps ==
  ASSUME Matching, M!EndImage
  PROVE  Matching'
<1>1. PICK w : w = [n \in DOMAIN gtOrder |-> Waiting(n)]  OBVIOUS
<1>2. /\ UNCHANGED <<gt, pred, claimed>> /\ MatchTypes' /\ InTurn'
      /\ \A n \in DOMAIN gtOrder : Waiting(n)' = w[n] /\ Waiting(n) = w[n]
  BY <1>1, EndIs
<1>3. ClaimsFit /\ FirstServed  BY DEF Matching
<1>4. ClaimsFit'  BY <1>2, <1>3 DEF ClaimsFit, Fits
<1>5. FirstServed'  BY <1>2, <1>3 DEF FirstServed, Refused, Fits, M!Ahead
<1> QED  BY <1>2, <1>4, <1>5 DEF Matching

LEMMA MatchingStays ==
  ASSUME Matching, UNCHANGED M!vars
  PROVE  Matching'
<1>1. UNCHANGED <<gt, pred, claimed, atM, dets>>  BY DEF M!vars
<1>2. \A n \in DOMAIN gtOrder : Waiting(n)' = Waiting(n)  BY <1>1 DEF Waiting
<1>3. PICK w : w = [n \in DOMAIN gtOrder |-> Waiting(n)]  OBVIOUS
<1>4. \A n \in DOMAIN gtOrder : Waiting(n)' = w[n] /\ Waiting(n) = w[n]  BY <1>2, <1>3
<1>5. MatchTypes'  BY <1>1 DEF Matching, MatchTypes, Given, M!Reported
<1>6. InTurn'  BY <1>1, <1>4 DEF Matching, InTurn, M!Ahead
<1>7. ClaimsFit'  BY <1>1, <1>4 DEF Matching, ClaimsFit, Fits
<1>8. FirstServed'  BY <1>1, <1>4 DEF Matching, FirstServed, Refused, Fits, M!Ahead
<1> QED  BY <1>5, <1>6, <1>7, <1>8 DEF Matching

\* Once every image is through, the matching is what it promises to be.
LEMMA GreedyIsFair ==
  ASSUME Matching
  PROVE  M!FirstRefusal
<1> DEFINE has(p, d) == {t \in DOMAIN gt[p] : claimed[p][t] = d}
<1> SUFFICES ASSUME M!Done, NEW p \in M!Reported, NEW d \in DOMAIN pred[p]
             PROVE  /\ M!Cardinality(has(p, d)) <= 1
                    /\ \A t \in has(p, d) : Fits(p, d, t)
                    /\ \A t \in DOMAIN gt[p] : Fits(p, d, t) =>
                         \/ \E u \in has(p, d) : M!AtLeast(M!IoU(pred[p][d].box, gt[p][u].box),
                                                         M!IoU(pred[p][d].box, gt[p][t].box))
                         \/ \E e \in DOMAIN pred[p] : M!Ahead(p, e, d) /\ claimed[p][t] = e
  BY DEF M!FirstRefusal, Fits
<1>0. PICK n \in DOMAIN gtOrder : p = gtOrder[n]  BY DEF M!Reported
<1>1. Waiting(n) = {}
  <2>1. n \in 1..Len(gtOrder) /\ Len(gtOrder) \in Nat  BY OrderIs
  <2>2. atM > Len(gtOrder) /\ atM \in Nat  BY <2>1 DEF M!Done, Matching, MatchTypes
  <2>3. n < atM /\ ~(n = atM) /\ ~(n > atM)  BY <2>1, <2>2
  <2> QED  BY <2>3 DEF Waiting
<1>2. d # 0
  <2>1. DOMAIN pred[p] = 1..Len(pred[p])  BY InputsAre DEF Matching, MatchTypes
  <2> QED  BY <2>1
<1>3. /\ \A t, u \in DOMAIN gt[p] : claimed[p][t] = claimed[p][u] /\ claimed[p][t] # 0 => t = u
      /\ \A t \in DOMAIN gt[p] : claimed[p][t] # 0 => Fits(p, claimed[p][t], t)
  BY <1>0 DEF Matching, ClaimsFit
<1>4. \A t \in DOMAIN gt[p] : Fits(p, d, t) => Refused(p, d, t)
  BY <1>0, <1>1 DEF Matching, FirstServed
<1>5. Cardinality(has(p, d)) <= 1
  <2>1. CASE has(p, d) = {}
    <3>1. Cardinality(has(p, d)) = 0  BY <2>1, FS_EmptySet
    <3> QED  BY <3>1
  <2>2. CASE \E t : t \in has(p, d)
    <3>1. PICK t : t \in has(p, d)  BY <2>2
    <3>2. has(p, d) = {t}  BY <1>2, <1>3, <3>1
    <3>3. Cardinality(has(p, d)) = 1  BY <3>2, FS_Singleton
    <3> QED  BY <3>3
  <2> QED  BY <2>1, <2>2
<1>6. M!Cardinality(has(p, d)) <= 1
  BY <1>5, ReportCounts
<1>7. \A t \in has(p, d) : Fits(p, d, t)  BY <1>2, <1>3
<1>8. \A t \in DOMAIN gt[p] : Fits(p, d, t) =>
        \/ \E u \in has(p, d) : M!AtLeast(M!IoU(pred[p][d].box, gt[p][u].box),
                                        M!IoU(pred[p][d].box, gt[p][t].box))
        \/ \E e \in DOMAIN pred[p] : M!Ahead(p, e, d) /\ claimed[p][t] = e
  BY <1>4 DEF Refused
<1> QED  BY <1>6, <1>7, <1>8

\* Sets that correspond one to one are of one size.
LEMMA OneToOne ==
  ASSUME NEW S, NEW T, IsFiniteSet(T), NEW g \in [S -> T],
         \A x, y \in S : g[x] = g[y] => x = y, \A y \in T : \E x \in S : g[x] = y
  PROVE  IsFiniteSet(S) /\ Cardinality(S) = Cardinality(T)
<1>1. g \in Injection(S, T)  BY DEF Injection, IsInjective
<1>2. g \in Surjection(S, T)  BY DEF Surjection
<1> QED  BY <1>1, <1>2, FS_Injection

\* The sum of the sizes of disjoint sets is the size of their union.
LEMMA Tallied ==
  ASSUME NEW D, NEW A, NEW All, IsFiniteSet(All),
         \A x \in D : A[x] \in SUBSET All, \A y \in All : \E x \in D : y \in A[x],
         \A x, z \in D : \A y \in A[x] : y \in A[z] => x = z,
         NEW f, DOMAIN f = D, \A x \in D : f[x] = Cardinality(A[x])
  PROVE  M!Total(f) = Cardinality(All)
<1>1. \A x \in D : IsFiniteSet(A[x]) /\ f[x] \in Nat /\ ExistsBijection(1..f[x], A[x])
  BY FS_Subset, FS_CardinalityType
<1>2. PICK h : h = [x \in D |-> CHOOSE g : g \in Bijection(1..f[x], A[x])]  OBVIOUS
<1>3. \A x \in D : h[x] \in Bijection(1..f[x], A[x])
  <2> SUFFICES ASSUME NEW x \in D  PROVE h[x] \in Bijection(1..f[x], A[x])
    OBVIOUS
  <2>1. \E g : g \in Bijection(1..f[x], A[x])  BY <1>1 DEF ExistsBijection
  <2>2. h[x] = CHOOSE g : g \in Bijection(1..f[x], A[x])  BY <1>2
  <2> QED  BY <2>1, <2>2
<1>4. \A x \in D : /\ h[x] \in [1..f[x] -> A[x]]
                   /\ \A k, m \in 1..f[x] : h[x][k] = h[x][m] => k = m
                   /\ \A y \in A[x] : \E k \in 1..f[x] : h[x][k] = y
  <2> TAKE x \in D
  <2>1. h[x] \in Injection(1..f[x], A[x]) /\ h[x] \in Surjection(1..f[x], A[x])
    BY <1>3 DEF Bijection
  <2>2. PICK g : g = h[x]  OBVIOUS
  <2>3. g \in [1..f[x] -> A[x]] /\ \A k, m \in 1..f[x] : g[k] = g[m] => k = m
    BY <2>1, <2>2 DEF Injection, IsInjective
  <2>4. \A y \in A[x] : \E k \in 1..f[x] : g[k] = y
    BY <2>1, <2>2 DEF Surjection
  <2> QED  BY <2>2, <2>3, <2>4
<1>5. PICK P : P = UNION {{x} \X (1..f[x]) : x \in D}  OBVIOUS
<1>6. /\ \A y \in P : y = <<y[1], y[2]>> /\ y[1] \in D /\ y[2] \in 1..f[y[1]]
      /\ \A x \in D : \A k \in 1..f[x] : <<x, k>> \in P
  BY <1>5
<1>7. PICK g : g = [y \in P |-> h[y[1]][y[2]]]  OBVIOUS
<1>8. \A y \in P : g[y] \in A[y[1]] /\ g[y] \in All
  <2> TAKE y \in P
  <2>1. y[1] \in D /\ y[2] \in 1..f[y[1]] /\ g[y] = h[y[1]][y[2]]  BY <1>6, <1>7
  <2>2. h[y[1]] \in [1..f[y[1]] -> A[y[1]]]  BY <1>4, <2>1
  <2>3. g[y] \in A[y[1]]  BY <2>1, <2>2
  <2> QED  BY <2>1, <2>3
<1>9. g \in [P -> All]  BY <1>7, <1>8
<1>10. \A y, z \in P : g[y] = g[z] => y = z
  <2> SUFFICES ASSUME NEW y \in P, NEW z \in P, g[y] = g[z]  PROVE y = z
    OBVIOUS
  <2>1. y[1] = z[1]  BY <1>6, <1>8
  <2>2. y[2] = z[2]  BY <1>4, <1>6, <1>7, <2>1
  <2>3. y = <<y[1], y[2]>> /\ z = <<z[1], z[2]>>  BY <1>6
  <2> QED  BY <2>1, <2>2, <2>3
<1>11. \A y \in All : \E z \in P : g[z] = y
  <2> SUFFICES ASSUME NEW y \in All  PROVE \E z \in P : g[z] = y
    OBVIOUS
  <2>1. PICK x \in D : y \in A[x]  OBVIOUS
  <2>2. PICK k \in 1..f[x] : h[x][k] = y  BY <1>4, <2>1
  <2>3. <<x, k>> \in P  BY <1>6
  <2>4. g[<<x, k>>] = y  BY <1>7, <2>2, <2>3
  <2> QED  BY <2>3, <2>4
<1>12. Cardinality(P) = Cardinality(All)  BY <1>9, <1>10, <1>11, OneToOne
<1>13. M!Total(f) = M!Cardinality(P)  BY <1>5 DEF M!Total
<1> QED  BY <1>12, <1>13, ReportCounts

\* Only a flawless run scores one.
LEMMA OneIsFlawless ==
  ASSUME NEW tp \in Nat, NEW fp \in Nat, NEW fn \in Nat, NEW s, s = M!prf(tp, fp, fn)
  PROVE  /\ s.tp = tp /\ s.fp = fp /\ s.fn = fn
         /\ s.f1[1] = s.f1[2] <=> fp = 0 /\ fn = 0 /\ tp > 0
<1>1. PICK p, r : p = M!Ratio(tp, tp + fp) /\ r = M!Ratio(tp, tp + fn)  OBVIOUS
<1>2. PICK a, b : a = 2 * p[1] * r[1] /\ b = p[1] * r[2] + r[1] * p[2]  OBVIOUS
<1>3. /\ s.tp = tp /\ s.fp = fp /\ s.fn = fn /\ s.f1 = IF b > 0 THEN <<a, b>> ELSE <<0, 1>>
  BY <1>1, <1>2 DEF M!prf, M!Ratio
<1>4. CASE tp = 0
  <2>1. p[1] = 0 /\ r[1] = 0 /\ p[2] \in Int /\ r[2] \in Int  BY <1>1, <1>4 DEF M!Ratio
  <2>2. b = 0  BY <1>2, <2>1
  <2> QED  BY <1>3, <1>4, <2>2
<1>5. CASE tp > 0
  <2>1. p = <<tp, tp + fp>> /\ r = <<tp, tp + fn>>  BY <1>1, <1>5 DEF M!Ratio
  <2>2. a = 2 * tp * tp /\ b = tp * (tp + fn) + tp * (tp + fp)  BY <1>2, <2>1
  <2>3. PICK q \in Nat, u \in Nat, v \in Nat : q = tp * tp /\ u = tp * fn /\ v = tp * fp  OBVIOUS
  <2>4. a = 2 * q /\ b = 2 * q + u + v  BY <2>2, <2>3
  <2>5. q > 0 /\ (u = 0 <=> fn = 0) /\ (v = 0 <=> fp = 0)  BY <1>5, <2>3
  <2>6. b > 0 /\ (a = b <=> u = 0 /\ v = 0)  BY <2>4, <2>5
  <2> QED  BY <1>3, <1>5, <2>5, <2>6
<1> QED  BY <1>4, <1>5

LEMMA PairsFinite ==
  ASSUME NEW P, IsFiniteSet(P), NEW f, \A p \in P : IsFiniteSet(f[p])
  PROVE  IsFiniteSet(UNION {{p} \X f[p] : p \in P})
<1>1. PICK g, T : g = [p \in P |-> {p} \X f[p]] /\ T = {{p} \X f[p] : p \in P}  OBVIOUS
<1>2. g \in Surjection(P, T)  BY <1>1 DEF Surjection
<1>3. IsFiniteSet(T)  BY <1>2, FS_Surjection
<1>4. \A p \in P : IsFiniteSet({p} \X f[p])  BY FS_Product, FS_Singleton
<1>5. \A U \in T : IsFiniteSet(U)  BY <1>1, <1>4
<1> QED  BY <1>1, <1>3, <1>5, FS_UNION

LEMMA Keyed ==
  ASSUME NEW S, IsFiniteSet(S), NEW p
  PROVE  IsFiniteSet({p} \X S) /\ Cardinality({p} \X S) = Cardinality(S)
<1>1. IsFiniteSet({p}) /\ Cardinality({p}) = 1  BY FS_Singleton
<1>2. Cardinality({p} \X S) = Cardinality({p}) * Cardinality(S) /\ IsFiniteSet({p} \X S)
  BY <1>1, FS_Product
<1>3. Cardinality(S) \in Nat  BY FS_CardinalityType
<1>4. \A n \in Nat : 1 * n = n  OBVIOUS
<1> QED  BY <1>1, <1>2, <1>3, <1>4

LEMMA BoxesAre ==
  ASSUME Given
  PROVE  /\ IsFiniteSet(Truths) /\ IsFiniteSet(Guesses)
         /\ \A x \in Truths : x = <<x[1], x[2]>> /\ x[1] \in M!Reported /\ x[2] \in DOMAIN gt[x[1]]
         /\ \A p \in M!Reported : \A t \in DOMAIN gt[p] : <<p, t>> \in Truths
         /\ \A x \in Guesses : x = <<x[1], x[2]>> /\ x[1] \in M!Reported /\ x[2] \in DOMAIN pred[x[1]]
         /\ \A p \in M!Reported : \A d \in DOMAIN pred[p] : <<p, d>> \in Guesses
<1>1. PICK Imgs : Imgs = M!Reported  OBVIOUS
<1>2. IsFiniteSet(Imgs) /\ \A p \in Imgs : IsFiniteSet(DOMAIN gt[p]) /\ IsFiniteSet(DOMAIN pred[p])
  BY <1>1, OrderIs, InputsAre
<1>3. PICK f, g : f = [p \in Imgs |-> DOMAIN gt[p]] /\ g = [p \in Imgs |-> DOMAIN pred[p]]  OBVIOUS
<1>4. \A p \in Imgs : f[p] = DOMAIN gt[p] /\ g[p] = DOMAIN pred[p]  BY <1>3
<1>5. Truths = UNION {{p} \X f[p] : p \in Imgs}  BY <1>1, <1>4 DEF Truths
<1>6. Guesses = UNION {{p} \X g[p] : p \in Imgs}  BY <1>1, <1>4 DEF Guesses
<1>7. IsFiniteSet(UNION {{p} \X f[p] : p \in Imgs})  BY <1>2, <1>4, PairsFinite
<1>8. IsFiniteSet(UNION {{p} \X g[p] : p \in Imgs})  BY <1>2, <1>4, PairsFinite
<1>9. /\ \A x \in Truths : x = <<x[1], x[2]>> /\ x[1] \in M!Reported /\ x[2] \in DOMAIN gt[x[1]]
      /\ \A p \in M!Reported : \A t \in DOMAIN gt[p] : <<p, t>> \in Truths
  BY DEF Truths
<1>10. /\ \A x \in Guesses : x = <<x[1], x[2]>> /\ x[1] \in M!Reported /\ x[2] \in DOMAIN pred[x[1]]
       /\ \A p \in M!Reported : \A d \in DOMAIN pred[p] : <<p, d>> \in Guesses
  BY DEF Guesses
<1> QED  BY <1>5, <1>6, <1>7, <1>8, <1>9, <1>10

LEMMA CountsFinite ==
  ASSUME Given
  PROVE  \A c : /\ IsFiniteSet(Hits(c)) /\ Cardinality(Hits(c)) \in Nat
                /\ IsFiniteSet(Misses(c)) /\ Cardinality(Misses(c)) \in Nat
                /\ IsFiniteSet(Wrong(c)) /\ Cardinality(Wrong(c)) \in Nat
<1> TAKE c
<1>1. IsFiniteSet(Truths) /\ IsFiniteSet(Guesses)  BY BoxesAre
<1>2. Hits(c) \in SUBSET Truths /\ Misses(c) \in SUBSET Truths /\ Wrong(c) \in SUBSET Guesses
  BY DEF Hits, Misses, Wrong
<1> QED  BY <1>1, <1>2, FS_Subset, FS_CardinalityType

Counting == Matching /\ Counted /\ RowsCount

LEMMA CountingBegins == ASSUME M!Init PROVE Counting
<1>1. Matching  BY MatchingBegins
<1>2. Given  BY <1>1 DEF Matching, MatchTypes
<1>3. /\ atM = 1 /\ dets = M!ByConfidence(gtOrder[1]) /\ perClass = <<>> /\ perImage = <<>>
      /\ claimed = [p \in DOMAIN gt |-> [t \in DOMAIN gt[p] |-> 0]]
  BY DEF M!Init
<1>4. DOMAIN gt = M!Reported
  BY <1>2, MetricsAssumption DEF M!Reported, Given
<1>5. \A n \in DOMAIN gtOrder : DOMAIN pred[gtOrder[n]] \ Waiting(n) = {}
  <2> TAKE n \in DOMAIN gtOrder
  <2>1. n \in Nat /\ (n = 1 \/ n > 1) /\ 1 \in DOMAIN gtOrder /\ gtOrder[1] \in M!Reported
    BY OrderIs
  <2>2. {dets[k] : k \in DOMAIN dets} = DOMAIN pred[gtOrder[1]]  BY <1>2, <1>3, <2>1, Lined
  <2> QED  BY <1>3, <2>1, <2>2 DEF Waiting
<1>6. \A c : Hits(c) = {} /\ Misses(c) = {} /\ Wrong(c) = {}
  <2> TAKE c
  <2>1. Hits(c) = {}  BY <1>2, <1>3, <1>4, BoxesAre DEF Hits, Hit
  <2>2. Misses(c) = {}  BY <1>3 DEF Misses, Ended
  <2>3. \A x \in Guesses : ~Passed(x)
    <3> SUFFICES ASSUME NEW x \in Guesses, NEW n \in DOMAIN gtOrder, gtOrder[n] = x[1]
                 PROVE  x[2] \in Waiting(n)
      BY DEF Passed
    <3> QED  BY <1>2, <1>5, BoxesAre
  <2>4. Wrong(c) = {}  BY <2>3 DEF Wrong
  <2> QED  BY <2>1, <2>2, <2>4
<1>7. Counted
  <2> SUFFICES ASSUME NEW c
               PROVE M!Bucket(c) = [tp |-> Cardinality(Hits(c)), fp |-> Cardinality(Wrong(c)),
                                    fn |-> Cardinality(Misses(c))]
    BY DEF Counted
  <2>1. c \notin DOMAIN perClass  BY <1>3
  <2>2. M!Bucket(c) = [tp |-> 0, fp |-> 0, fn |-> 0]  BY <2>1 DEF M!Bucket
  <2> QED  BY <1>6, <2>2, FS_EmptySet
<1>8. RowsCount  BY <1>3 DEF RowsCount
<1> QED  BY <1>1, <1>7, <1>8 DEF Counting

\* What a match does to the boxes that are hits, or wrong.
LEMMA MatchMoves ==
  ASSUME Matching, M!Match, NEW p, p = gtOrder[atM], NEW d, d = Head(dets), NEW t, t = M!best(d)
  PROVE  /\ <<p, d>> \in Guesses /\ ~Passed(<<p, d>>) /\ ~Right(<<p, d>>)
         /\ t # 0 => <<p, t>> \in Truths /\ ~Hit(<<p, t>>) /\ gt[p][t].cls = pred[p][d].cls
         /\ ~Ended(<<p, t>>)
         /\ \A x \in Truths : Hit(x)' <=> Hit(x) \/ (t # 0 /\ x = <<p, t>>)
         /\ \A x \in Guesses : Right(x)' <=> Right(x) \/ (t # 0 /\ x = <<p, d>>)
         /\ \A x \in Guesses : Passed(x)' <=> Passed(x) \/ x = <<p, d>>
<1>1. Matched(p, d, t)  BY MatchIs
<1>2. PICK nw, i, w, v :
        /\ nw = claimed' /\ i = atM
        /\ w = [n \in DOMAIN gtOrder |-> Waiting(n)]
        /\ v = [n \in DOMAIN gtOrder |-> IF n = i THEN w[n] \ {d} ELSE w[n]]
  OBVIOUS
<1>3. /\ i \in DOMAIN gtOrder /\ p = gtOrder[i] /\ p \in M!Reported /\ d \in DOMAIN pred[p] /\ d # 0
      /\ d \in w[i] /\ gt' = gt /\ pred' = pred /\ Given
      /\ \A n \in DOMAIN gtOrder : Waiting(n)' = v[n] /\ Waiting(n) = w[n]
  BY <1>1, <1>2 DEF Matched, Matching, MatchTypes
<1>4. /\ \A n \in DOMAIN gtOrder : \A u \in DOMAIN gt[gtOrder[n]] :
           nw[gtOrder[n]][u] = IF n = i /\ u = t THEN d ELSE claimed[gtOrder[n]][u]
      /\ t # 0 => t \in DOMAIN gt[p] /\ Fits(p, d, t) /\ claimed[p][t] = 0
  BY <1>1, <1>2, ClaimsGrow
<1>5. /\ \A x \in Truths : x = <<x[1], x[2]>> /\ x[1] \in M!Reported /\ x[2] \in DOMAIN gt[x[1]]
      /\ \A q \in M!Reported : \A u \in DOMAIN gt[q] : <<q, u>> \in Truths
      /\ \A x \in Guesses : x = <<x[1], x[2]>> /\ x[1] \in M!Reported /\ x[2] \in DOMAIN pred[x[1]]
      /\ \A q \in M!Reported : \A e \in DOMAIN pred[q] : <<q, e>> \in Guesses
  BY <1>3, BoxesAre
<1>6. \A q \in M!Reported : 0 \notin DOMAIN gt[q] /\ 0 \notin DOMAIN pred[q]
  BY <1>3, InputsAre
<1>7. \A m, n \in DOMAIN gtOrder : gtOrder[m] = gtOrder[n] => m = n
  BY OrderIs
<1>8. \A q \in M!Reported : \E n \in DOMAIN gtOrder : gtOrder[n] = q
  BY DEF M!Reported
<1>9. <<p, d>> \in Guesses /\ ~Passed(<<p, d>>)
  BY <1>3, <1>5, <1>7 DEF Passed
<1>10. ~Right(<<p, d>>)
  <2>1. \A u \in DOMAIN gt[p] : claimed[p][u] \in {0} \cup (DOMAIN pred[p] \ w[i])
    BY <1>3 DEF Matching, ClaimsFit
  <2> QED  BY <1>3, <2>1 DEF Right
<1>11. t # 0 => <<p, t>> \in Truths /\ ~Hit(<<p, t>>) /\ gt[p][t].cls = pred[p][d].cls
  BY <1>3, <1>4, <1>5 DEF Hit, Fits
<1>12. ~Ended(<<p, t>>)
  <2> SUFFICES ASSUME NEW n \in 1..(i - 1), gtOrder[n] = p  PROVE FALSE
    BY <1>2 DEF Ended
  <2>1. n \in DOMAIN gtOrder /\ n # i  BY <1>3, OrderIs
  <2> QED  BY <1>3, <1>7, <2>1
<1>13. \A x \in Truths : nw[x[1]][x[2]] # 0 <=> Hit(x) \/ (t # 0 /\ x = <<p, t>>)
  <2> SUFFICES ASSUME NEW x \in Truths
               PROVE  nw[x[1]][x[2]] # 0 <=> Hit(x) \/ (t # 0 /\ x = <<p, t>>)
    OBVIOUS
  <2>1. PICK n \in DOMAIN gtOrder : gtOrder[n] = x[1]  BY <1>5, <1>8
  <2>2. nw[x[1]][x[2]] = IF n = i /\ x[2] = t THEN d ELSE claimed[x[1]][x[2]]
    BY <1>4, <1>5, <2>1
  <2>3. n = i <=> x[1] = p  BY <1>3, <1>7, <2>1
  <2>4. x[2] # 0 /\ x = <<x[1], x[2]>>  BY <1>5, <1>6
  <2> QED  BY <1>3, <2>2, <2>3, <2>4 DEF Hit
<1>14. \A x \in Guesses : (\E u \in DOMAIN gt[x[1]] : nw[x[1]][u] = x[2])
                            <=> Right(x) \/ (t # 0 /\ x = <<p, d>>)
  <2> SUFFICES ASSUME NEW x \in Guesses
               PROVE  (\E u \in DOMAIN gt[x[1]] : nw[x[1]][u] = x[2])
                        <=> Right(x) \/ (t # 0 /\ x = <<p, d>>)
    OBVIOUS
  <2>1. PICK n \in DOMAIN gtOrder : gtOrder[n] = x[1]  BY <1>5, <1>8
  <2>2. \A u \in DOMAIN gt[x[1]] : nw[x[1]][u] = IF n = i /\ u = t THEN d ELSE claimed[x[1]][u]
    BY <1>4, <2>1
  <2>3. n = i <=> x[1] = p  BY <1>3, <1>7, <2>1
  <2>4. x[2] # 0 /\ x = <<x[1], x[2]>> /\ 0 \notin DOMAIN gt[x[1]]  BY <1>5, <1>6
  <2>5. ASSUME NEW u \in DOMAIN gt[x[1]], nw[x[1]][u] = x[2]
        PROVE  Right(x) \/ (t # 0 /\ x = <<p, d>>)
    BY <2>2, <2>3, <2>4, <2>5 DEF Right
  <2>6. ASSUME NEW u \in DOMAIN gt[x[1]], claimed[x[1]][u] = x[2]
        PROVE  nw[x[1]][u] = x[2]
    BY <1>4, <2>2, <2>3, <2>4, <2>6
  <2>7. t # 0 /\ x = <<p, d>> => t \in DOMAIN gt[x[1]] /\ nw[x[1]][t] = x[2]
    BY <1>4, <2>2, <2>3, <2>4
  <2> QED  BY <2>5, <2>6, <2>7 DEF Right
<1>15. \A x \in Guesses : (\E n \in DOMAIN gtOrder : gtOrder[n] = x[1] /\ x[2] \notin v[n])
                            <=> Passed(x) \/ x = <<p, d>>
  <2> SUFFICES ASSUME NEW x \in Guesses
               PROVE  (\E n \in DOMAIN gtOrder : gtOrder[n] = x[1] /\ x[2] \notin v[n])
                        <=> Passed(x) \/ x = <<p, d>>
    OBVIOUS
  <2>1. PICK m \in DOMAIN gtOrder : gtOrder[m] = x[1]  BY <1>5, <1>8
  <2>2. \A n \in DOMAIN gtOrder : gtOrder[n] = x[1] <=> n = m  BY <1>7, <2>1
  <2>3. Passed(x) <=> x[2] \notin w[m]  BY <1>3, <2>2 DEF Passed
  <2>4. m = i <=> x[1] = p  BY <1>3, <2>2
  <2>5. v[m] = IF m = i THEN w[m] \ {d} ELSE w[m]  BY <1>2
  <2>6. x = <<x[1], x[2]>>  BY <1>5
  <2> QED  BY <2>2, <2>3, <2>4, <2>5, <2>6
<1>16. \A x \in Truths : Hit(x)' <=> Hit(x) \/ (t # 0 /\ x = <<p, t>>)
  BY <1>2, <1>13 DEF Hit
<1>17. \A x \in Guesses : Right(x)' <=> Right(x) \/ (t # 0 /\ x = <<p, d>>)
  BY <1>2, <1>3, <1>14 DEF Right
<1>18. \A x \in Guesses : Passed(x)' <=> Passed(x) \/ x = <<p, d>>
  BY <1>3, <1>15 DEF Passed
<1> QED  BY <1>9, <1>10, <1>11, <1>12, <1>16, <1>17, <1>18

LEMMA MatchBuckets ==
  ASSUME M!Match, NEW p, p = gtOrder[atM], NEW d, d = Head(dets), NEW t, t = M!best(d), NEW c
  PROVE  M!Bucket(c)' = IF c # pred[p][d].cls THEN M!Bucket(c)
                        ELSE IF t = 0 THEN [M!Bucket(c) EXCEPT !.fp = @ + 1]
                        ELSE [M!Bucket(c) EXCEPT !.tp = @ + 1]
<1>1. PICK k, D, b : k = pred[p][d].cls /\ D = DOMAIN perClass /\ b = M!Bucket(k)  OBVIOUS
<1>2. perClass' = [x \in D \cup {k} |->
                     IF x # k THEN perClass[x]
                     ELSE IF t = 0 THEN [b EXCEPT !.fp = @ + 1] ELSE [b EXCEPT !.tp = @ + 1]]
  BY <1>1 DEF M!Match, M!image
<1>3. PICK nc : nc = perClass'  OBVIOUS
<1>4. M!Bucket(c)' = IF c \in DOMAIN nc THEN nc[c] ELSE [tp |-> 0, fp |-> 0, fn |-> 0]
  BY <1>3 DEF M!Bucket
<1>5. /\ DOMAIN nc = D \cup {k}
      /\ \A x \in D \cup {k} : nc[x] = IF x # k THEN perClass[x]
           ELSE IF t = 0 THEN [b EXCEPT !.fp = @ + 1] ELSE [b EXCEPT !.tp = @ + 1]
  BY <1>2, <1>3
<1>6. M!Bucket(c) = IF c \in D THEN perClass[c] ELSE [tp |-> 0, fp |-> 0, fn |-> 0]
  BY <1>1 DEF M!Bucket
<1>7. CASE c = k  BY <1>1, <1>4, <1>5, <1>7
<1>8. CASE c # k
  <2>1. M!Bucket(c)' = M!Bucket(c)  BY <1>4, <1>5, <1>6, <1>8
  <2> QED  BY <1>1, <1>8, <2>1
<1> QED  BY <1>7, <1>8

LEMMA OneMore ==
  ASSUME NEW S, NEW x, IsFiniteSet(S), x \notin S
  PROVE  Cardinality(S \cup {x}) = Cardinality(S) + 1
BY FS_AddElement

LEMMA MatchCounts ==
  ASSUME Counting, M!Match
  PROVE  Counting'
<1>1. PICK p, d, t, i, k : /\ p = gtOrder[atM] /\ d = Head(dets) /\ t = M!best(d)
                           /\ i = atM /\ k = pred[p][d].cls
  OBVIOUS
<1>2. Matching /\ Counted /\ RowsCount /\ Given  BY DEF Counting, Matching, MatchTypes
<1>3. Matching'  BY <1>2, MatchKeeps
<1>4. Matched(p, d, t)  BY <1>1, <1>2, MatchIs
<1>5. gt' = gt /\ pred' = pred /\ atM' = i /\ atM = i /\ perImage' = perImage /\ i \in DOMAIN gtOrder
  BY <1>1, <1>4 DEF Matched
<1>6. /\ <<p, d>> \in Guesses /\ ~Passed(<<p, d>>) /\ ~Right(<<p, d>>)
      /\ t # 0 => <<p, t>> \in Truths /\ ~Hit(<<p, t>>) /\ gt[p][t].cls = k
      /\ ~Ended(<<p, t>>)
      /\ \A x \in Truths : Hit(x)' <=> Hit(x) \/ (t # 0 /\ x = <<p, t>>)
      /\ \A x \in Guesses : Right(x)' <=> Right(x) \/ (t # 0 /\ x = <<p, d>>)
      /\ \A x \in Guesses : Passed(x)' <=> Passed(x) \/ x = <<p, d>>
  BY <1>1, <1>2, MatchMoves
<1>7. Truths' = Truths /\ Guesses' = Guesses  BY <1>5 DEF Truths, Guesses, M!Reported
<1>8. \A x : Ended(x)' <=> Ended(x)  BY <1>5 DEF Ended
<1>9. Counted'
  <2> SUFFICES ASSUME NEW c
               PROVE  (M!Bucket(c) = [tp |-> Cardinality(Hits(c)), fp |-> Cardinality(Wrong(c)),
                                      fn |-> Cardinality(Misses(c))])'
    BY DEF Counted
  <2>1. Hits(c)' = IF t # 0 /\ c = k THEN Hits(c) \cup {<<p, t>>} ELSE Hits(c)
    BY <1>5, <1>6, <1>7 DEF Hits
  <2>2. Wrong(c)' = IF t = 0 /\ c = k THEN Wrong(c) \cup {<<p, d>>} ELSE Wrong(c)
    BY <1>1, <1>5, <1>6, <1>7 DEF Wrong
  <2>3. Misses(c)' = Misses(c)
    BY <1>5, <1>6, <1>7, <1>8 DEF Misses
  <2>4. (t # 0 => <<p, t>> \notin Hits(c)) /\ <<p, d>> \notin Wrong(c)
    BY <1>6 DEF Hits, Wrong
  <2>5. PICK a, b, e, a2, b2, e2 :
          /\ a = Hits(c) /\ b = Wrong(c) /\ e = Misses(c)
          /\ a2 = Hits(c)' /\ b2 = Wrong(c)' /\ e2 = Misses(c)'
    OBVIOUS
  <2>6. IsFiniteSet(a) /\ IsFiniteSet(b)  BY <1>2, <2>5, CountsFinite
  <2>7. M!Bucket(c) = [tp |-> Cardinality(a), fp |-> Cardinality(b), fn |-> Cardinality(e)]
    BY <1>2, <2>5 DEF Counted
  <2>8. M!Bucket(c)' = IF c # k THEN M!Bucket(c)
                       ELSE IF t = 0 THEN [M!Bucket(c) EXCEPT !.fp = @ + 1]
                       ELSE [M!Bucket(c) EXCEPT !.tp = @ + 1]
    BY <1>1, MatchBuckets
  <2>9. Cardinality(a2) = IF t # 0 /\ c = k THEN Cardinality(a) + 1 ELSE Cardinality(a)
    BY <2>1, <2>4, <2>5, <2>6, OneMore
  <2>10. Cardinality(b2) = IF t = 0 /\ c = k THEN Cardinality(b) + 1 ELSE Cardinality(b)
    BY <2>2, <2>4, <2>5, <2>6, OneMore
  <2>11. M!Bucket(c)' = [tp |-> Cardinality(a2), fp |-> Cardinality(b2), fn |-> Cardinality(e)]
    BY <2>7, <2>8, <2>9, <2>10
  <2> QED  BY <2>3, <2>5, <2>11
<1>10. RowsCount'
  <2>1. PICK nw : nw = claimed'  OBVIOUS
  <2>2. ASSUME NEW n \in 1..(i - 1)  PROVE {u \in DOMAIN gt[gtOrder[n]] : nw[gtOrder[n]][u] # 0}
             = {u \in DOMAIN gt[gtOrder[n]] : claimed[gtOrder[n]][u] # 0}
    <3>1. n \in DOMAIN gtOrder /\ n # i  BY <1>5, OrderIs
    <3>2. \A u \in DOMAIN gt[gtOrder[n]] :
            nw[gtOrder[n]][u] = IF n = i /\ u = t THEN d ELSE claimed[gtOrder[n]][u]
      BY <1>1, <1>2, <1>4, <2>1, <3>1, ClaimsGrow
    <3> QED  BY <3>1, <3>2
  <2>3. RowsCount  BY <1>2
  <2> QED  BY <1>5, <2>1, <2>2, <2>3 DEF RowsCount, M!Reported
<1> QED  BY <1>3, <1>9, <1>10 DEF Counting

LEMMA EndBuckets ==
  ASSUME M!EndImage, NEW p, p = gtOrder[atM], NEW free,
         \A t : t \in free <=> t \in DOMAIN gt[p] /\ claimed[p][t] = 0,
         NEW c, NEW x, NEW y, NEW z, M!Bucket(c) = [tp |-> x, fp |-> y, fn |-> z],
         NEW F, \A t : t \in F <=> t \in free /\ gt[p][t].cls = c
  PROVE  \/ M!Bucket(c)' = [tp |-> x, fp |-> y, fn |-> z + Cardinality(F)]
         \/ M!Bucket(c)' = M!Bucket(c) /\ F = {}
<1>1. PICK D, nc, K : D = DOMAIN perClass /\ nc = perClass' /\ K = {gt[p][t].cls : t \in free}  OBVIOUS
<1>0. /\ free = {t \in DOMAIN gt[p] : claimed[p][t] = 0}
      /\ F = {t \in free : gt[p][t].cls = c}
  OBVIOUS
<1>2. nc = [k \in D \cup K |->
              [M!Bucket(k) EXCEPT !.fn = @ + M!Cardinality({t \in free : gt[p][t].cls = k})]]
  BY <1>0, <1>1 DEF M!EndImage, M!image
<1>3. M!Bucket(c)' = IF c \in DOMAIN nc THEN nc[c] ELSE [tp |-> 0, fp |-> 0, fn |-> 0]
  BY <1>1 DEF M!Bucket
<1>4. M!Bucket(c) = IF c \in D THEN perClass[c] ELSE [tp |-> 0, fp |-> 0, fn |-> 0]
  BY <1>1 DEF M!Bucket
<1>5. DOMAIN nc = D \cup K  BY <1>2
<1>6. CASE c \in D \cup K
  <2>1. nc[c] = [M!Bucket(c) EXCEPT !.fn = @ + M!Cardinality({t \in free : gt[p][t].cls = c})]
    BY <1>2, <1>6
  <2>2. M!Cardinality({t \in free : gt[p][t].cls = c}) = Cardinality(F)
    BY <1>0, ReportCounts
  <2>3. nc[c] = [tp |-> x, fp |-> y, fn |-> z + Cardinality(F)]
    BY <2>1, <2>2
  <2> QED  BY <1>3, <1>5, <1>6, <2>3
<1>7. CASE c \notin D \cup K
  <2>1. F = {}  BY <1>0, <1>1, <1>7
  <2> QED  BY <1>3, <1>4, <1>5, <1>7, <2>1
<1> QED  BY <1>6, <1>7

LEMMA EndCounts ==
  ASSUME Counting, M!EndImage
  PROVE  Counting'
<1>1. PICK p, i, free : /\ p = gtOrder[atM] /\ i = atM
                        /\ free = {t \in DOMAIN gt[p] : claimed[p][t] = 0}
  OBVIOUS
<1>2. Matching /\ Counted /\ RowsCount /\ Given  BY DEF Counting, Matching, MatchTypes
<1>3. Matching'  BY <1>2, EndKeeps
<1>4. /\ i \in DOMAIN gtOrder /\ atM' = i + 1 /\ gt' = gt /\ pred' = pred /\ claimed' = claimed
      /\ \A n \in DOMAIN gtOrder : Waiting(n)' = Waiting(n)
  BY <1>1, <1>2, EndIs
<1>5. p \in M!Reported /\ i \in Nat \ {0}  BY <1>1, <1>4, OrderIs
<1>6. IsFiniteSet(free) /\ IsFiniteSet(DOMAIN gt[p]) /\ Cardinality(DOMAIN gt[p]) = Len(gt[p])
  BY <1>1, <1>2, <1>5, InputsAre, FS_Subset
<1>7. Truths' = Truths /\ Guesses' = Guesses  BY <1>4 DEF Truths, Guesses, M!Reported
<1>8. /\ \A x \in Truths : x = <<x[1], x[2]>> /\ x[2] \in DOMAIN gt[x[1]]
      /\ \A t \in DOMAIN gt[p] : <<p, t>> \in Truths
  BY <1>2, <1>5, BoxesAre
<1>9. \A x : Ended(x)' <=> Ended(x) \/ x[1] = p
  <2>1. PICK j : j = i + 1  OBVIOUS
  <2>2. \A n : n \in 1..(j - 1) <=> n \in 1..(i - 1) \/ n = i  BY <1>5, <2>1
  <2>3. \A x : (\E n \in 1..(j - 1) : gtOrder[n] = x[1])
                 <=> (\E n \in 1..(i - 1) : gtOrder[n] = x[1]) \/ x[1] = p
    BY <1>1, <2>2
  <2> QED  BY <1>1, <1>4, <2>1, <2>3 DEF Ended
<1>10. \A x : x[1] = p => ~Ended(x)
  <2> SUFFICES ASSUME NEW x, x[1] = p, NEW n \in 1..(i - 1), gtOrder[n] = x[1]  PROVE FALSE
    BY <1>1 DEF Ended
  <2>1. n \in DOMAIN gtOrder /\ n # i  BY <1>4, OrderIs
  <2> QED  BY <1>1, <1>4, <2>1, OnePlace
<1>11. Counted'
  <2> SUFFICES ASSUME NEW c
               PROVE  (M!Bucket(c) = [tp |-> Cardinality(Hits(c)), fp |-> Cardinality(Wrong(c)),
                                      fn |-> Cardinality(Misses(c))])'
    BY DEF Counted
  <2>1. PICK F, G : F = {t \in free : gt[p][t].cls = c} /\ G = {p} \X F  OBVIOUS
  <2>2. Hits(c)' = Hits(c)  BY <1>4, <1>7 DEF Hits, Hit
  <2>3. Wrong(c)' = Wrong(c)
    <3>1. \A x : (Right(x)' <=> Right(x)) /\ (Passed(x)' <=> Passed(x))
      BY <1>4 DEF Right, Passed
    <3> QED  BY <1>4, <1>7, <3>1 DEF Wrong
  <2>4. Misses(c)' = Misses(c) \cup G
    <3>1. \A x \in Truths : Hit(x)' <=> Hit(x)  BY <1>4 DEF Hit
    <3>2. \A x \in Truths : gt[x[1]][x[2]].cls = c /\ ~Hit(x) /\ x[1] = p <=> x \in G
      BY <1>1, <1>8, <2>1 DEF Hit
    <3>3. G \subseteq Truths  BY <1>1, <1>8, <2>1
    <3> QED  BY <1>4, <1>7, <1>9, <3>1, <3>2, <3>3 DEF Misses
  <2>5. Misses(c) \cap G = {}  BY <1>10, <2>1 DEF Misses
  <2>6. IsFiniteSet(F)  BY <1>6, <2>1, FS_Subset
  <2>7. PICK a, b, e, e2 : a = Hits(c) /\ b = Wrong(c) /\ e = Misses(c) /\ e2 = e \cup G  OBVIOUS
  <2>8. IsFiniteSet(G) /\ Cardinality(G) = Cardinality(F)  BY <2>1, <2>6, Keyed
  <2>9. IsFiniteSet(e) /\ Cardinality(e) \in Nat /\ Cardinality(F) \in Nat
    BY <1>2, <2>6, <2>7, CountsFinite, FS_CardinalityType
  <2>10. Cardinality(e2) = Cardinality(e) + Cardinality(F)
    <3>1. Cardinality(e2) = Cardinality(e) + Cardinality(G) - Cardinality(e \cap G)
      BY <2>7, <2>8, <2>9, FS_Union
    <3>2. Cardinality(e \cap G) = 0  BY <2>5, <2>7, FS_EmptySet
    <3> QED  BY <2>8, <2>9, <3>1, <3>2
  <2>11. M!Bucket(c) = [tp |-> Cardinality(a), fp |-> Cardinality(b), fn |-> Cardinality(e)]
    BY <1>2, <2>7 DEF Counted
  <2>12. /\ \A t : t \in free <=> t \in DOMAIN gt[p] /\ claimed[p][t] = 0
         /\ \A t : t \in F <=> t \in free /\ gt[p][t].cls = c
    BY <1>1, <2>1
  <2>13. PICK x, y, z : x = Cardinality(a) /\ y = Cardinality(b) /\ z = Cardinality(e)  OBVIOUS
  <2>14. M!Bucket(c)' = [tp |-> Cardinality(a), fp |-> Cardinality(b), fn |-> Cardinality(e2)]
    <3>1. M!Bucket(c) = [tp |-> x, fp |-> y, fn |-> z]  BY <2>11, <2>13
    <3>2. \/ M!Bucket(c)' = [tp |-> x, fp |-> y, fn |-> z + Cardinality(F)]
          \/ M!Bucket(c)' = M!Bucket(c) /\ F = {}
      BY <1>1, <2>12, <3>1, EndBuckets
    <3>3. F = {} => Cardinality(e2) = z  BY <2>9, <2>10, <2>13, FS_EmptySet
    <3> QED  BY <2>10, <2>11, <2>13, <3>2, <3>3
  <2>15. PICK u, v, w : u = Hits(c)' /\ v = Wrong(c)' /\ w = Misses(c)'  OBVIOUS
  <2>16. u = a /\ v = b /\ w = e2  BY <2>2, <2>3, <2>4, <2>7, <2>15
  <2> QED  BY <2>14, <2>15, <2>16
<1>12. RowsCount'
  <2>1. PICK rws, h, nr, row :
          /\ rws = perImage /\ nr = perImage'
          /\ h = Cardinality(DOMAIN gt[p] \ free)
          /\ row = [image |-> p, tp |-> h, fp |-> Len(pred[p]) - h, fn |-> Len(gt[p]) - h]
    OBVIOUS
  <2>2. nr = Append(rws, row)
    <3>1. nr = Append(rws, [image |-> p, tp |-> M!Cardinality(DOMAIN gt[p] \ free),
                fp |-> Len(pred[p]) - M!Cardinality(DOMAIN gt[p] \ free),
                fn |-> Len(gt[p]) - M!Cardinality(DOMAIN gt[p] \ free)])
      BY <1>1, <2>1 DEF M!EndImage, M!image
    <3>2. M!Cardinality(DOMAIN gt[p] \ free) = h  BY <2>1, ReportCounts
    <3> QED  BY <2>1, <3>1, <3>2
  <2>3. DOMAIN gt[p] \ free = {t \in DOMAIN gt[p] : claimed[p][t] # 0}  BY <1>1
  <2>4. PICK Rec : Rec = [image : M!Reported, tp : Nat, fp : Nat, fn : Nat]  OBVIOUS
  <2>5. /\ rws \in Seq(Rec) /\ Len(rws) = i - 1
        /\ \A n \in 1..(i - 1) :
             /\ rws[n].tp = Cardinality({t \in DOMAIN gt[gtOrder[n]] : claimed[gtOrder[n]][t] # 0})
             /\ rws[n].fp = Len(pred[gtOrder[n]]) - rws[n].tp
             /\ rws[n].fn = Len(gt[gtOrder[n]]) - rws[n].tp
    BY <1>1, <1>2, <2>1, <2>4 DEF RowsCount
  <2>6. row \in Rec
    <3>1. h \in Nat /\ Len(gt[p]) - h \in Nat
      <4>1. DOMAIN gt[p] \ free \in SUBSET DOMAIN gt[p]  OBVIOUS
      <4>2. IsFiniteSet(DOMAIN gt[p] \ free) /\ h <= Len(gt[p])  BY <1>6, <2>1, <4>1, FS_Subset
      <4>3. h \in Nat /\ Len(gt[p]) \in Nat
        BY <1>2, <1>5, <2>1, <4>2, FS_CardinalityType, InputsAre
      <4> QED  BY <4>2, <4>3
    <3>2. Len(pred[p]) - h \in Nat
      <4>1. PICK T, g : /\ T = {t \in DOMAIN gt[p] : claimed[p][t] # 0}
                        /\ g = [t \in T |-> claimed[p][t]]
        OBVIOUS
      <4>2. /\ claimed[p] \in [DOMAIN gt[p] -> {0} \cup (DOMAIN pred[p] \ Waiting(i))]
            /\ \A t, u \in DOMAIN gt[p] : claimed[p][t] = claimed[p][u] /\ claimed[p][t] # 0 => t = u
        BY <1>1, <1>2, <1>4 DEF Matching, ClaimsFit
      <4>3. g \in [T -> DOMAIN pred[p]]  BY <4>1, <4>2
      <4>4. g \in Injection(T, DOMAIN pred[p])  BY <4>1, <4>2, <4>3 DEF Injection, IsInjective
      <4>5. /\ IsFiniteSet(DOMAIN pred[p]) /\ Cardinality(DOMAIN pred[p]) = Len(pred[p])
            /\ Len(pred[p]) \in Nat
        BY <1>2, <1>5, InputsAre
      <4>6. Cardinality(T) <= Len(pred[p])  BY <4>4, <4>5, FS_Injection
      <4>7. h = Cardinality(T)  BY <2>1, <2>3, <4>1
      <4> QED  BY <3>1, <4>5, <4>6, <4>7
    <3> QED  BY <1>5, <2>1, <2>4, <3>1, <3>2
  <2>7. /\ nr \in Seq(Rec) /\ Len(nr) = i /\ nr[i] = row
        /\ \A n \in 1..(i - 1) : nr[n] = rws[n]
    BY <1>5, <2>2, <2>5, <2>6, AppendProperties
  <2>8. \A n \in 1..i :
          /\ nr[n].tp = Cardinality({t \in DOMAIN gt[gtOrder[n]] : claimed[gtOrder[n]][t] # 0})
          /\ nr[n].fp = Len(pred[gtOrder[n]]) - nr[n].tp
          /\ nr[n].fn = Len(gt[gtOrder[n]]) - nr[n].tp
    <3> TAKE n \in 1..i
    <3>1. CASE n = i
      <4>1. gtOrder[n] = p /\ nr[n] = row  BY <1>1, <2>7, <3>1
      <4>2. row.tp = h /\ row.fp = Len(pred[p]) - h /\ row.fn = Len(gt[p]) - h  BY <2>1
      <4> QED  BY <2>1, <2>3, <4>1, <4>2
    <3>2. CASE n # i
      <4>1. n \in 1..(i - 1)  BY <1>5, <3>2
      <4> QED  BY <2>5, <2>7, <4>1
    <3> QED  BY <3>1, <3>2
  <2>9. PICK j : j = i + 1  OBVIOUS
  <2>10. j - 1 = i  BY <1>5, <2>9
  <2>11. /\ nr \in Seq(Rec) /\ Len(nr) = j - 1
         /\ \A n \in 1..(j - 1) :
              /\ nr[n].tp = Cardinality({t \in DOMAIN gt[gtOrder[n]] : claimed[gtOrder[n]][t] # 0})
              /\ nr[n].fp = Len(pred[gtOrder[n]]) - nr[n].tp
              /\ nr[n].fn = Len(gt[gtOrder[n]]) - nr[n].tp
    BY <2>7, <2>8, <2>10
  <2>12. atM' = j /\ perImage' = nr  BY <1>4, <2>1, <2>9
  <2>13. Rec = [image : M!Reported, tp : Nat, fp : Nat, fn : Nat]'  BY <2>4 DEF M!Reported
  <2> QED  BY <1>4, <2>11, <2>12, <2>13 DEF RowsCount
<1> QED  BY <1>3, <1>11, <1>12 DEF Counting

LEMMA CountingStays ==
  ASSUME Counting, UNCHANGED M!vars
  PROVE  Counting'
<1>1. /\ gt' = gt /\ pred' = pred /\ atM' = atM /\ dets' = dets /\ claimed' = claimed
      /\ perClass' = perClass /\ perImage' = perImage
  BY DEF M!vars
<1>2. Matching'  BY MatchingStays DEF Counting
<1>3. \A n : Waiting(n)' = Waiting(n)  BY <1>1 DEF Waiting
<1>4. \A x : (Hit(x)' <=> Hit(x)) /\ (Right(x)' <=> Right(x)) /\ (Ended(x)' <=> Ended(x))
  BY <1>1 DEF Hit, Right, Ended
<1>5. \A x : Passed(x)' <=> Passed(x)  BY <1>3 DEF Passed
<1>6. Truths' = Truths /\ Guesses' = Guesses  BY <1>1 DEF Truths, Guesses, M!Reported
<1>7. \A c : Hits(c)' = Hits(c)  BY <1>1, <1>4, <1>6 DEF Hits
<1>8. \A c : Misses(c)' = Misses(c)  BY <1>1, <1>4, <1>6 DEF Misses
<1>9. \A c : Wrong(c)' = Wrong(c)  BY <1>1, <1>4, <1>5, <1>6 DEF Wrong
<1>10. \A c : M!Bucket(c)' = M!Bucket(c)  BY <1>1 DEF M!Bucket
<1>11. Counted'  BY <1>7, <1>8, <1>9, <1>10 DEF Counting, Counted
<1>12. RowsCount'  BY <1>1 DEF Counting, RowsCount, M!Reported
<1> QED  BY <1>2, <1>11, <1>12 DEF Counting

\* What every box has come to in the end.
LEMMA AtTheEnd ==
  ASSUME Counting, M!Done
  PROVE  /\ Given /\ atM = Len(gtOrder) + 1 /\ Len(gtOrder) \in Nat
         /\ DOMAIN perImage = DOMAIN gtOrder /\ DOMAIN gtOrder = 1..Len(gtOrder)
         /\ \A x \in Truths : Ended(x)
         /\ \A x \in Guesses : Passed(x)
         /\ \A p \in M!Reported :
              /\ claimed[p] \in [DOMAIN gt[p] -> {0} \cup DOMAIN pred[p]]
              /\ \A t, u \in DOMAIN gt[p] : claimed[p][t] = claimed[p][u] /\ claimed[p][t] # 0 => t = u
              /\ \A t \in DOMAIN gt[p] : claimed[p][t] # 0 => Fits(p, claimed[p][t], t)
<1>1. Given /\ atM \in 1..(Len(gtOrder) + 1) /\ atM > Len(gtOrder)
  BY DEF Counting, Matching, MatchTypes, M!Done
<1>2. /\ Len(gtOrder) \in Nat /\ DOMAIN gtOrder = 1..Len(gtOrder) /\ atM = Len(gtOrder) + 1
      /\ 1..(atM - 1) = DOMAIN gtOrder
  BY <1>1, OrderIs
<1>3. DOMAIN perImage = DOMAIN gtOrder
  <2>1. perImage \in Seq([image : M!Reported, tp : Nat, fp : Nat, fn : Nat]) /\ Len(perImage) = atM - 1
    BY DEF Counting, RowsCount
  <2> QED  BY <1>2, <2>1
<1>4. \A n \in DOMAIN gtOrder : Waiting(n) = {}
  <2> TAKE n \in DOMAIN gtOrder
  <2>1. n < atM /\ ~(n = atM) /\ ~(n > atM)  BY <1>2
  <2> QED  BY <2>1 DEF Waiting
<1>5. \A x \in Truths : Ended(x)
  BY <1>1, <1>2, BoxesAre DEF Ended, M!Reported
<1>6. \A x \in Guesses : Passed(x)
  BY <1>1, <1>4, BoxesAre DEF Passed, M!Reported
<1>7. ASSUME NEW p \in M!Reported
      PROVE  /\ claimed[p] \in [DOMAIN gt[p] -> {0} \cup DOMAIN pred[p]]
             /\ \A t, u \in DOMAIN gt[p] : claimed[p][t] = claimed[p][u] /\ claimed[p][t] # 0 => t = u
             /\ \A t \in DOMAIN gt[p] : claimed[p][t] # 0 => Fits(p, claimed[p][t], t)
  <2>1. PICK n \in DOMAIN gtOrder : gtOrder[n] = p  BY DEF M!Reported
  <2>2. /\ claimed[p] \in [DOMAIN gt[p] -> {0} \cup (DOMAIN pred[p] \ Waiting(n))]
        /\ \A t, u \in DOMAIN gt[p] : claimed[p][t] = claimed[p][u] /\ claimed[p][t] # 0 => t = u
        /\ \A t \in DOMAIN gt[p] : claimed[p][t] # 0 => Fits(p, claimed[p][t], t)
    BY <2>1 DEF Counting, Matching, ClaimsFit
  <2>3. DOMAIN pred[p] \ Waiting(n) = DOMAIN pred[p]  BY <1>4
  <2> QED  BY <2>2, <2>3
<1> QED  BY <1>1, <1>2, <1>3, <1>5, <1>6, <1>7

\* The right predictions of an image are as many as its hits.
LEMMA AsManyRight ==
  ASSUME Counting, M!Done, NEW p \in M!Reported,
         NEW T, \A t : t \in T <=> t \in DOMAIN gt[p] /\ claimed[p][t] # 0,
         NEW Rs, \A d : d \in Rs <=> d \in DOMAIN pred[p] /\ Right(<<p, d>>)
  PROVE  Cardinality(Rs) = Cardinality(T) /\ IsFiniteSet(Rs)
<1>1. /\ Given
      /\ claimed[p] \in [DOMAIN gt[p] -> {0} \cup DOMAIN pred[p]]
      /\ \A t, u \in DOMAIN gt[p] : claimed[p][t] = claimed[p][u] /\ claimed[p][t] # 0 => t = u
  BY AtTheEnd
<1>2. 0 \notin DOMAIN pred[p] /\ IsFiniteSet(DOMAIN pred[p])  BY <1>1, InputsAre
<1>3. IsFiniteSet(Rs)
  <2>1. Rs \in SUBSET DOMAIN pred[p]  OBVIOUS
  <2> QED  BY <1>2, <2>1, FS_Subset
<1>4. PICK g : g = [t \in T |-> claimed[p][t]]  OBVIOUS
<1>5. \A d \in DOMAIN pred[p] : Right(<<p, d>>) <=> \E t \in T : claimed[p][t] = d
  BY <1>2 DEF Right
<1>6. g \in [T -> Rs]  BY <1>1, <1>4, <1>5
<1>7. \A t, u \in T : g[t] = g[u] => t = u  BY <1>1, <1>4
<1>8. \A d \in Rs : \E t \in T : g[t] = d  BY <1>4, <1>5
<1>9. Cardinality(T) = Cardinality(Rs)  BY <1>3, <1>6, <1>7, <1>8, OneToOne, Zenon
<1> QED  BY <1>3, <1>9

\* And so are those of a class.
LEMMA AsManyRightOf ==
  ASSUME Counting, M!Done, NEW c, NEW Rs,
         Rs = {x \in Guesses : pred[x[1]][x[2]].cls = c /\ Right(x)}
  PROVE  Cardinality(Rs) = Cardinality(Hits(c)) /\ IsFiniteSet(Rs)
<1>1. /\ Given
      /\ \A p \in M!Reported :
           /\ claimed[p] \in [DOMAIN gt[p] -> {0} \cup DOMAIN pred[p]]
           /\ \A t, u \in DOMAIN gt[p] : claimed[p][t] = claimed[p][u] /\ claimed[p][t] # 0 => t = u
           /\ \A t \in DOMAIN gt[p] : claimed[p][t] # 0 => Fits(p, claimed[p][t], t)
  BY AtTheEnd
<1>2. /\ IsFiniteSet(Guesses)
      /\ \A x \in Truths : x = <<x[1], x[2]>> /\ x[1] \in M!Reported /\ x[2] \in DOMAIN gt[x[1]]
      /\ \A p \in M!Reported : \A t \in DOMAIN gt[p] : <<p, t>> \in Truths
      /\ \A x \in Guesses : x = <<x[1], x[2]>> /\ x[1] \in M!Reported /\ x[2] \in DOMAIN pred[x[1]]
      /\ \A p \in M!Reported : \A d \in DOMAIN pred[p] : <<p, d>> \in Guesses
  BY <1>1, BoxesAre
<1>3. IsFiniteSet(Rs)  BY <1>2, FS_Subset
<1>4. \A p \in M!Reported : 0 \notin DOMAIN pred[p]  BY <1>1, InputsAre
<1>5. PICK Hs, g : Hs = Hits(c) /\ g = [x \in Hs |-> <<x[1], claimed[x[1]][x[2]]>>]  OBVIOUS
<1>6. \A x \in Hs : /\ x \in Truths /\ gt[x[1]][x[2]].cls = c /\ claimed[x[1]][x[2]] # 0
  BY <1>5 DEF Hits, Hit
<1>7. \A x \in Hs : g[x] \in Rs
  <2> SUFFICES ASSUME NEW x \in Hs  PROVE g[x] \in Rs
    OBVIOUS
  <2>1. PICK p, t, d : p = x[1] /\ t = x[2] /\ d = claimed[p][t]  OBVIOUS
  <2>2. p \in M!Reported /\ t \in DOMAIN gt[p] /\ d # 0 /\ gt[p][t].cls = c
    BY <1>2, <1>6, <2>1
  <2>3. d \in DOMAIN pred[p] /\ Fits(p, d, t)  BY <1>1, <2>1, <2>2
  <2>4. pred[p][d].cls = c  BY <2>2, <2>3 DEF Fits
  <2>5. Right(<<p, d>>)  BY <2>1, <2>2 DEF Right
  <2>6. <<p, d>> \in Guesses  BY <1>2, <2>2, <2>3
  <2>7. <<p, d>> \in Rs  BY <2>4, <2>5, <2>6
  <2> QED  BY <1>5, <2>1, <2>7
<1>8. g \in [Hs -> Rs]  BY <1>5, <1>7
<1>9. \A x, y \in Hs : g[x] = g[y] => x = y
  <2> SUFFICES ASSUME NEW x \in Hs, NEW y \in Hs, g[x] = g[y]  PROVE x = y
    OBVIOUS
  <2>1. x[1] = y[1] /\ claimed[x[1]][x[2]] = claimed[y[1]][y[2]]  BY <1>5
  <2>2. x[2] = y[2]  BY <1>1, <1>2, <1>6, <2>1
  <2> QED  BY <1>2, <1>6, <2>1, <2>2
<1>10. \A y \in Rs : \E x \in Hs : g[x] = y
  <2> SUFFICES ASSUME NEW y \in Rs  PROVE \E x \in Hs : g[x] = y
    OBVIOUS
  <2>1. PICK p, d : p = y[1] /\ d = y[2]  OBVIOUS
  <2>2. p \in M!Reported /\ d \in DOMAIN pred[p] /\ y = <<p, d>> /\ pred[p][d].cls = c
    BY <1>2, <2>1
  <2>3. PICK t \in DOMAIN gt[p] : claimed[p][t] = d  BY <2>1 DEF Right
  <2>4. d # 0  BY <1>4, <2>2
  <2>5. gt[p][t].cls = c  BY <1>1, <2>2, <2>3, <2>4 DEF Fits
  <2>6. <<p, t>> \in Hs  BY <1>2, <1>5, <2>2, <2>3, <2>4, <2>5 DEF Hits, Hit
  <2>7. g[<<p, t>>] = y  BY <1>5, <2>2, <2>3, <2>6
  <2> QED  BY <2>6, <2>7
<1>11. Cardinality(Hs) = Cardinality(Rs)  BY <1>3, <1>8, <1>9, <1>10, OneToOne, Zenon
<1> QED  BY <1>3, <1>5, <1>11

AllHits   == {x \in Truths : Hit(x)}
AllMisses == {x \in Truths : ~Hit(x)}
AllWrong  == {x \in Guesses : ~Right(x)}

LEMMA AllFinite ==
  ASSUME Given
  PROVE  /\ IsFiniteSet(AllHits) /\ IsFiniteSet(AllMisses) /\ IsFiniteSet(AllWrong)
         /\ {Cardinality(AllHits), Cardinality(AllMisses), Cardinality(AllWrong)} \subseteq Nat
<1>1. IsFiniteSet(Truths) /\ IsFiniteSet(Guesses)  BY BoxesAre
<1>2. AllHits \in SUBSET Truths /\ AllMisses \in SUBSET Truths /\ AllWrong \in SUBSET Guesses
  BY DEF AllHits, AllMisses, AllWrong
<1>3. IsFiniteSet(AllHits) /\ IsFiniteSet(AllMisses) /\ IsFiniteSet(AllWrong)
  BY <1>1, <1>2, FS_Subset
<1> QED  BY <1>3, FS_CardinalityType

\* The buckets count every box once.
LEMMA ClassTotals ==
  ASSUME Counting, M!Done
  PROVE  /\ M!Total([c \in DOMAIN perClass |-> perClass[c].tp]) = Cardinality(AllHits)
         /\ M!Total([c \in DOMAIN perClass |-> perClass[c].fp]) = Cardinality(AllWrong)
         /\ M!Total([c \in DOMAIN perClass |-> perClass[c].fn]) = Cardinality(AllMisses)
<1>1. Given /\ (\A x \in Truths : Ended(x)) /\ (\A x \in Guesses : Passed(x))  BY AtTheEnd
<1>2. PICK D : D = DOMAIN perClass  OBVIOUS
<1>3. \A c : M!Bucket(c) = [tp |-> Cardinality(Hits(c)), fp |-> Cardinality(Wrong(c)),
                            fn |-> Cardinality(Misses(c))]
  BY DEF Counting, Counted
<1>4. \A c \in D : /\ perClass[c].tp = Cardinality(Hits(c)) /\ perClass[c].fp = Cardinality(Wrong(c))
                   /\ perClass[c].fn = Cardinality(Misses(c))
  <2> TAKE c \in D
  <2>1. M!Bucket(c) = perClass[c]  BY <1>2 DEF M!Bucket
  <2> QED  BY <1>3, <2>1
<1>5. \A c : c \notin D => Hits(c) = {} /\ Wrong(c) = {} /\ Misses(c) = {}
  <2> SUFFICES ASSUME NEW c, c \notin D  PROVE Hits(c) = {} /\ Wrong(c) = {} /\ Misses(c) = {}
    OBVIOUS
  <2>1. M!Bucket(c) = [tp |-> 0, fp |-> 0, fn |-> 0]  BY <1>2 DEF M!Bucket
  <2>2. Cardinality(Hits(c)) = 0 /\ Cardinality(Wrong(c)) = 0 /\ Cardinality(Misses(c)) = 0
    BY <1>3, <2>1
  <2> QED  BY <1>1, <2>2, CountsFinite, FS_EmptySet
<1>6. IsFiniteSet(AllHits) /\ IsFiniteSet(AllMisses) /\ IsFiniteSet(AllWrong)  BY <1>1, AllFinite
<1>7. M!Total([c \in DOMAIN perClass |-> perClass[c].tp]) = Cardinality(AllHits)
  <2>1. PICK f, A, All : f = [c \in D |-> perClass[c].tp] /\ A = [c \in D |-> Hits(c)] /\ All = AllHits
    OBVIOUS
  <2>2. DOMAIN f = D /\ \A c \in D : f[c] = Cardinality(A[c]) /\ A[c] = Hits(c)  BY <1>4, <2>1
  <2>3. \A c : \A x : x \in Hits(c) <=> x \in All /\ gt[x[1]][x[2]].cls = c
    BY <2>1 DEF Hits, AllHits
  <2>4. \A c \in D : A[c] \in SUBSET All  BY <2>2, <2>3
  <2>5. \A x \in All : \E c \in D : x \in A[c]
    <3> TAKE x \in All
    <3>1. PICK c : c = gt[x[1]][x[2]].cls  OBVIOUS
    <3>2. x \in Hits(c)  BY <2>3, <3>1
    <3>3. c \in D  BY <1>5, <3>2
    <3> QED  BY <2>2, <3>2, <3>3
  <2>6. \A c, e \in D : \A x \in A[c] : x \in A[e] => c = e  BY <2>2, <2>3
  <2>7. \A c \in D : f[c] = Cardinality(A[c])  BY <2>2
  <2>8. IsFiniteSet(All) /\ DOMAIN f = D  BY <1>6, <2>1, <2>2
  <2>9. M!Total(f) = Cardinality(All)  BY <2>4, <2>5, <2>6, <2>7, <2>8, Tallied
  <2> QED  BY <1>2, <2>1, <2>9
<1>8. M!Total([c \in DOMAIN perClass |-> perClass[c].fp]) = Cardinality(AllWrong)
  <2>1. PICK f, A, All : f = [c \in D |-> perClass[c].fp] /\ A = [c \in D |-> Wrong(c)] /\ All = AllWrong
    OBVIOUS
  <2>2. DOMAIN f = D /\ \A c \in D : f[c] = Cardinality(A[c]) /\ A[c] = Wrong(c)  BY <1>4, <2>1
  <2>3. \A c : \A x : x \in Wrong(c) <=> x \in All /\ pred[x[1]][x[2]].cls = c
    BY <1>1, <2>1 DEF Wrong, AllWrong
  <2>4. \A c \in D : A[c] \in SUBSET All  BY <2>2, <2>3
  <2>5. \A x \in All : \E c \in D : x \in A[c]
    <3> TAKE x \in All
    <3>1. PICK c : c = pred[x[1]][x[2]].cls  OBVIOUS
    <3>2. x \in Wrong(c)  BY <2>3, <3>1
    <3>3. c \in D  BY <1>5, <3>2
    <3> QED  BY <2>2, <3>2, <3>3
  <2>6. \A c, e \in D : \A x \in A[c] : x \in A[e] => c = e  BY <2>2, <2>3
  <2>7. \A c \in D : f[c] = Cardinality(A[c])  BY <2>2
  <2>8. IsFiniteSet(All) /\ DOMAIN f = D  BY <1>6, <2>1, <2>2
  <2>9. M!Total(f) = Cardinality(All)  BY <2>4, <2>5, <2>6, <2>7, <2>8, Tallied
  <2> QED  BY <1>2, <2>1, <2>9
<1>9. M!Total([c \in DOMAIN perClass |-> perClass[c].fn]) = Cardinality(AllMisses)
  <2>1. PICK f, A, All : f = [c \in D |-> perClass[c].fn] /\ A = [c \in D |-> Misses(c)] /\ All = AllMisses
    OBVIOUS
  <2>2. DOMAIN f = D /\ \A c \in D : f[c] = Cardinality(A[c]) /\ A[c] = Misses(c)  BY <1>4, <2>1
  <2>3. \A c : \A x : x \in Misses(c) <=> x \in All /\ gt[x[1]][x[2]].cls = c
    BY <1>1, <2>1 DEF Misses, AllMisses
  <2>4. \A c \in D : A[c] \in SUBSET All  BY <2>2, <2>3
  <2>5. \A x \in All : \E c \in D : x \in A[c]
    <3> TAKE x \in All
    <3>1. PICK c : c = gt[x[1]][x[2]].cls  OBVIOUS
    <3>2. x \in Misses(c)  BY <2>3, <3>1
    <3>3. c \in D  BY <1>5, <3>2
    <3> QED  BY <2>2, <3>2, <3>3
  <2>6. \A c, e \in D : \A x \in A[c] : x \in A[e] => c = e  BY <2>2, <2>3
  <2>7. \A c \in D : f[c] = Cardinality(A[c])  BY <2>2
  <2>8. IsFiniteSet(All) /\ DOMAIN f = D  BY <1>6, <2>1, <2>2
  <2>9. M!Total(f) = Cardinality(All)  BY <2>4, <2>5, <2>6, <2>7, <2>8, Tallied
  <2> QED  BY <1>2, <2>1, <2>9
<1> QED  BY <1>7, <1>8, <1>9

\* What the n-th row says of its image.
LEMMA RowIs ==
  ASSUME Counting, M!Done, NEW n \in DOMAIN gtOrder, NEW p, p = gtOrder[n]
  PROVE  /\ perImage[n].tp = Cardinality({p} \X {t \in DOMAIN gt[p] : claimed[p][t] # 0})
         /\ perImage[n].fp = Cardinality({p} \X {d \in DOMAIN pred[p] : ~Right(<<p, d>>)})
         /\ perImage[n].fn = Cardinality({p} \X {t \in DOMAIN gt[p] : claimed[p][t] = 0})
<1>1. Given /\ atM = Len(gtOrder) + 1 /\ Len(gtOrder) \in Nat /\ n \in 1..Len(gtOrder)
  BY AtTheEnd
<1>2. p \in M!Reported  BY OrderIs
<1>3. PICK DG, DP, T, Rs : /\ DG = DOMAIN gt[p] /\ DP = DOMAIN pred[p]
                           /\ T = {t \in DOMAIN gt[p] : claimed[p][t] # 0}
                           /\ Rs = {d \in DOMAIN pred[p] : Right(<<p, d>>)}
  OBVIOUS
<1>4. /\ perImage[n].tp = Cardinality(T)
      /\ perImage[n].fp = Len(pred[p]) - perImage[n].tp
      /\ perImage[n].fn = Len(gt[p]) - perImage[n].tp
  <2>1. n \in 1..(atM - 1)  BY <1>1
  <2> QED  BY <1>3, <2>1 DEF Counting, RowsCount
<1>5. /\ IsFiniteSet(DG) /\ Cardinality(DG) = Len(gt[p])
      /\ IsFiniteSet(DP) /\ Cardinality(DP) = Len(pred[p])
  BY <1>1, <1>2, <1>3, InputsAre
<1>6. Cardinality(Rs) = Cardinality(T)
  <2>1. /\ \A t : t \in T <=> t \in DOMAIN gt[p] /\ claimed[p][t] # 0
        /\ \A d : d \in Rs <=> d \in DOMAIN pred[p] /\ Right(<<p, d>>)
    BY <1>3
  <2> QED  BY <1>2, <2>1, AsManyRight
<1>7. DG \cap T = T /\ DP \cap Rs = Rs  BY <1>3
<1>8. IsFiniteSet(DG \ T) /\ Cardinality(DG \ T) = Cardinality(DG) - Cardinality(T)
  <2>1. IsFiniteSet(DG \ T) /\ Cardinality(DG \ T) = Cardinality(DG) - Cardinality(DG \cap T)
    BY <1>5, FS_Difference
  <2> QED  BY <1>7, <2>1
<1>9. IsFiniteSet(DP \ Rs) /\ Cardinality(DP \ Rs) = Cardinality(DP) - Cardinality(Rs)
  <2>1. IsFiniteSet(DP \ Rs) /\ Cardinality(DP \ Rs) = Cardinality(DP) - Cardinality(DP \cap Rs)
    BY <1>5, FS_Difference
  <2> QED  BY <1>7, <2>1
<1>10. IsFiniteSet(T)
  <2>1. T \in SUBSET DG  BY <1>3
  <2> QED  BY <1>5, <2>1, FS_Subset
<1>11. /\ perImage[n].tp = Cardinality({p} \X T) /\ perImage[n].fp = Cardinality({p} \X (DP \ Rs))
       /\ perImage[n].fn = Cardinality({p} \X (DG \ T))
  BY <1>4, <1>5, <1>6, <1>8, <1>9, <1>10, Keyed
<1>12. /\ DP \ Rs = {d \in DOMAIN pred[p] : ~Right(<<p, d>>)}
       /\ DG \ T = {t \in DOMAIN gt[p] : claimed[p][t] = 0}
  BY <1>3
<1> QED  BY <1>3, <1>11, <1>12

\* So do the rows.
LEMMA RowTotals ==
  ASSUME Counting, M!Done
  PROVE  /\ M!Total([n \in DOMAIN perImage |-> perImage[n].tp]) = Cardinality(AllHits)
         /\ M!Total([n \in DOMAIN perImage |-> perImage[n].fp]) = Cardinality(AllWrong)
         /\ M!Total([n \in DOMAIN perImage |-> perImage[n].fn]) = Cardinality(AllMisses)
<1>1. PICK D : D = DOMAIN gtOrder  OBVIOUS
<1>2. Given /\ DOMAIN perImage = D  BY <1>1, AtTheEnd
<1>3. /\ \A n \in D : gtOrder[n] \in M!Reported
      /\ \A q \in M!Reported : \E n \in D : gtOrder[n] = q
      /\ \A m, n \in D : gtOrder[m] = gtOrder[n] => m = n
  BY <1>1, OrderIs DEF M!Reported
<1>4. /\ \A x \in Truths : x = <<x[1], x[2]>> /\ x[1] \in M!Reported /\ x[2] \in DOMAIN gt[x[1]]
      /\ \A p \in M!Reported : \A t \in DOMAIN gt[p] : <<p, t>> \in Truths
      /\ \A x \in Guesses : x = <<x[1], x[2]>> /\ x[1] \in M!Reported /\ x[2] \in DOMAIN pred[x[1]]
      /\ \A p \in M!Reported : \A d \in DOMAIN pred[p] : <<p, d>> \in Guesses
  BY <1>2, BoxesAre
<1>5. IsFiniteSet(AllHits) /\ IsFiniteSet(AllMisses) /\ IsFiniteSet(AllWrong)  BY <1>2, AllFinite
<1> DEFINE hits(p)   == {p} \X {t \in DOMAIN gt[p] : claimed[p][t] # 0}
           wrong(p)  == {p} \X {d \in DOMAIN pred[p] : ~Right(<<p, d>>)}
           misses(p) == {p} \X {t \in DOMAIN gt[p] : claimed[p][t] = 0}
<1>6. \A n \in D : /\ perImage[n].tp = Cardinality(hits(gtOrder[n]))
                   /\ perImage[n].fp = Cardinality(wrong(gtOrder[n]))
                   /\ perImage[n].fn = Cardinality(misses(gtOrder[n]))
  BY <1>1, RowIs
<1>7. \A p \in M!Reported : \A x : x \in hits(p) <=> x \in AllHits /\ x[1] = p
  BY <1>4 DEF AllHits, Hit
<1>8. \A p \in M!Reported : \A x : x \in wrong(p) <=> x \in AllWrong /\ x[1] = p
  BY <1>4 DEF AllWrong
<1>9. \A p \in M!Reported : \A x : x \in misses(p) <=> x \in AllMisses /\ x[1] = p
  BY <1>4 DEF AllMisses, Hit
<1>10. (\A x \in AllHits : x[1] \in M!Reported) /\ (\A x \in AllWrong : x[1] \in M!Reported)
       /\ \A x \in AllMisses : x[1] \in M!Reported
  BY <1>4 DEF AllHits, AllWrong, AllMisses
<1> HIDE DEF hits, wrong, misses
<1>11. M!Total([n \in DOMAIN perImage |-> perImage[n].tp]) = Cardinality(AllHits)
  <2>1. PICK f, A, All : /\ f = [n \in D |-> perImage[n].tp] /\ A = [n \in D |-> hits(gtOrder[n])]
                         /\ All = AllHits
    OBVIOUS
  <2>2. DOMAIN f = D /\ \A n \in D : f[n] = Cardinality(A[n])  BY <1>6, <2>1
  <2>3. \A n \in D : \A x : x \in A[n] <=> x \in All /\ x[1] = gtOrder[n]
    BY <1>3, <1>7, <2>1
  <2>4. \A n \in D : A[n] \in SUBSET All  BY <2>3
  <2>5. \A x \in All : \E n \in D : x \in A[n]  BY <1>3, <1>10, <2>1, <2>3
  <2>6. \A n, m \in D : \A x \in A[n] : x \in A[m] => n = m  BY <1>3, <2>3
  <2>7. IsFiniteSet(All)  BY <1>5, <2>1
  <2>8. M!Total(f) = Cardinality(All)  BY <2>2, <2>4, <2>5, <2>6, <2>7, Tallied
  <2> QED  BY <1>2, <2>1, <2>8
<1>12. M!Total([n \in DOMAIN perImage |-> perImage[n].fp]) = Cardinality(AllWrong)
  <2>1. PICK f, A, All : /\ f = [n \in D |-> perImage[n].fp] /\ A = [n \in D |-> wrong(gtOrder[n])]
                         /\ All = AllWrong
    OBVIOUS
  <2>2. DOMAIN f = D /\ \A n \in D : f[n] = Cardinality(A[n])  BY <1>6, <2>1
  <2>3. \A n \in D : \A x : x \in A[n] <=> x \in All /\ x[1] = gtOrder[n]
    BY <1>3, <1>8, <2>1
  <2>4. \A n \in D : A[n] \in SUBSET All  BY <2>3
  <2>5. \A x \in All : \E n \in D : x \in A[n]  BY <1>3, <1>10, <2>1, <2>3
  <2>6. \A n, m \in D : \A x \in A[n] : x \in A[m] => n = m  BY <1>3, <2>3
  <2>7. IsFiniteSet(All)  BY <1>5, <2>1
  <2>8. M!Total(f) = Cardinality(All)  BY <2>2, <2>4, <2>5, <2>6, <2>7, Tallied
  <2> QED  BY <1>2, <2>1, <2>8
<1>13. M!Total([n \in DOMAIN perImage |-> perImage[n].fn]) = Cardinality(AllMisses)
  <2>1. PICK f, A, All : /\ f = [n \in D |-> perImage[n].fn] /\ A = [n \in D |-> misses(gtOrder[n])]
                         /\ All = AllMisses
    OBVIOUS
  <2>2. DOMAIN f = D /\ \A n \in D : f[n] = Cardinality(A[n])  BY <1>6, <2>1
  <2>3. \A n \in D : \A x : x \in A[n] <=> x \in All /\ x[1] = gtOrder[n]
    BY <1>3, <1>9, <2>1
  <2>4. \A n \in D : A[n] \in SUBSET All  BY <2>3
  <2>5. \A x \in All : \E n \in D : x \in A[n]  BY <1>3, <1>10, <2>1, <2>3
  <2>6. \A n, m \in D : \A x \in A[n] : x \in A[m] => n = m  BY <1>3, <2>3
  <2>7. IsFiniteSet(All)  BY <1>5, <2>1
  <2>8. M!Total(f) = Cardinality(All)  BY <2>2, <2>4, <2>5, <2>6, <2>7, Tallied
  <2> QED  BY <1>2, <2>1, <2>8
<1> QED  BY <1>11, <1>12, <1>13

LEMMA CountingAddsUp ==
  ASSUME Counting
  PROVE  M!AddsUp
<1> DEFINE boxes(of, c) == UNION {{p} \X {b \in DOMAIN of[p] : of[p][b].cls = c} : p \in M!Reported}
<1> SUFFICES ASSUME M!Done
             PROVE  /\ M!Total([n \in DOMAIN perImage |-> perImage[n].tp]) = M!overall.tp
                    /\ M!Total([n \in DOMAIN perImage |-> perImage[n].fp]) = M!overall.fp
                    /\ M!Total([n \in DOMAIN perImage |-> perImage[n].fn]) = M!overall.fn
                    /\ \A c \in DOMAIN perClass :
                         /\ M!Cardinality(boxes(gt, c)) = perClass[c].tp + perClass[c].fn
                         /\ M!Cardinality(boxes(pred, c)) = perClass[c].tp + perClass[c].fp
                    /\ M!overall.f1[1] = M!overall.f1[2] <=>
                         M!overall.fp = 0 /\ M!overall.fn = 0 /\ M!overall.tp > 0
  BY DEF M!AddsUp
<1>1. Given /\ (\A x \in Truths : Ended(x)) /\ (\A x \in Guesses : Passed(x))  BY AtTheEnd
<1>2. PICK tp, fp, fn, s : /\ tp = Cardinality(AllHits) /\ fp = Cardinality(AllWrong)
                           /\ fn = Cardinality(AllMisses) /\ s = M!prf(tp, fp, fn)
  OBVIOUS
<1>3. tp \in Nat /\ fp \in Nat /\ fn \in Nat  BY <1>1, <1>2, AllFinite
<1>4. M!overall = s
  BY <1>2, ClassTotals DEF M!overall
<1>5. /\ s.tp = tp /\ s.fp = fp /\ s.fn = fn
      /\ s.f1[1] = s.f1[2] <=> fp = 0 /\ fn = 0 /\ tp > 0
  BY <1>2, <1>3, OneIsFlawless
<1>6. /\ M!Total([n \in DOMAIN perImage |-> perImage[n].tp]) = tp
      /\ M!Total([n \in DOMAIN perImage |-> perImage[n].fp]) = fp
      /\ M!Total([n \in DOMAIN perImage |-> perImage[n].fn]) = fn
  BY <1>2, RowTotals
<1>7. ASSUME NEW c \in DOMAIN perClass
      PROVE  /\ Cardinality(boxes(gt, c)) = perClass[c].tp + perClass[c].fn
             /\ Cardinality(boxes(pred, c)) = perClass[c].tp + perClass[c].fp
  <2>1. PICK Hs, U, Es, Rs : /\ Hs = Hits(c) /\ U = Misses(c) /\ Es = Wrong(c)
                             /\ Rs = {x \in Guesses : pred[x[1]][x[2]].cls = c /\ Right(x)}
    OBVIOUS
  <2>2. /\ perClass[c].tp = Cardinality(Hs) /\ perClass[c].fn = Cardinality(U)
        /\ perClass[c].fp = Cardinality(Es)
    <3>1. M!Bucket(c) = perClass[c]  BY <1>7 DEF M!Bucket
    <3>2. M!Bucket(c) = [tp |-> Cardinality(Hs), fp |-> Cardinality(Es), fn |-> Cardinality(U)]
      BY <2>1 DEF Counting, Counted
    <3> QED  BY <3>1, <3>2
  <2>3. /\ IsFiniteSet(Hs) /\ IsFiniteSet(U) /\ IsFiniteSet(Es)
        /\ Cardinality(Hs) \in Nat /\ Cardinality(U) \in Nat /\ Cardinality(Es) \in Nat
    BY <1>1, <2>1, CountsFinite
  <2>4. Cardinality(Rs) = Cardinality(Hs) /\ IsFiniteSet(Rs)  BY <2>1, AsManyRightOf
  <2>5. boxes(gt, c) = Hs \cup U
    <3>1. \A x : x \in boxes(gt, c) <=> x \in Truths /\ gt[x[1]][x[2]].cls = c
      BY DEF Truths
    <3>2. \A x : x \in Hs \cup U <=> x \in Truths /\ gt[x[1]][x[2]].cls = c
      BY <1>1, <2>1 DEF Hits, Misses
    <3> QED  BY <3>1, <3>2
  <2>6. boxes(pred, c) = Rs \cup Es
    <3>1. \A x : x \in boxes(pred, c) <=> x \in Guesses /\ pred[x[1]][x[2]].cls = c
      BY DEF Guesses
    <3>2. \A x : x \in Rs \cup Es <=> x \in Guesses /\ pred[x[1]][x[2]].cls = c
      BY <1>1, <2>1 DEF Wrong
    <3> QED  BY <3>1, <3>2
  <2>7. Hs \cap U = {} /\ Rs \cap Es = {}  BY <2>1 DEF Hits, Misses, Wrong
  <2>8. Cardinality(Hs \cup U) = Cardinality(Hs) + Cardinality(U)
    <3>1. Cardinality(Hs \cup U) = Cardinality(Hs) + Cardinality(U) - Cardinality(Hs \cap U)
      BY <2>3, FS_Union
    <3>2. Cardinality(Hs \cap U) = 0  BY <2>7, FS_EmptySet
    <3> QED  BY <2>3, <3>1, <3>2
  <2>9. Cardinality(Rs \cup Es) = Cardinality(Rs) + Cardinality(Es)
    <3>1. Cardinality(Rs \cup Es) = Cardinality(Rs) + Cardinality(Es) - Cardinality(Rs \cap Es)
      BY <2>3, <2>4, FS_Union
    <3>2. Cardinality(Rs \cap Es) = 0  BY <2>7, FS_EmptySet
    <3> QED  BY <2>3, <2>4, <3>1, <3>2
  <2> HIDE DEF boxes
  <2> QED  BY <2>2, <2>4, <2>5, <2>6, <2>8, <2>9
<1>8. \A c \in DOMAIN perClass :
        /\ M!Cardinality(boxes(gt, c)) = perClass[c].tp + perClass[c].fn
        /\ M!Cardinality(boxes(pred, c)) = perClass[c].tp + perClass[c].fp
  <2> HIDE DEF boxes
  <2> QED  BY <1>7, ReportCounts
<1> HIDE DEF boxes
<1> QED  BY <1>4, <1>5, <1>6, <1>8

LEMMA ReportTyped == Counting => M!TypeOK
<1> SUFFICES ASSUME Counting  PROVE M!TypeOK
  OBVIOUS
<1>1. Given /\ atM \in 1..(Len(gtOrder) + 1) /\ DOMAIN gt = M!Reported
  <2>1. Given /\ atM \in 1..(Len(gtOrder) + 1)  BY DEF Counting, Matching, MatchTypes
  <2> QED  BY <2>1, MetricsAssumption DEF M!Reported, Given
<1>2. Len(perImage) = atM - 1  BY DEF Counting, RowsCount
<1>3. \A p \in DOMAIN gt : claimed[p] \in [DOMAIN gt[p] -> 0..Len(pred[p])]
  <2> TAKE p \in DOMAIN gt
  <2>1. PICK n \in DOMAIN gtOrder : gtOrder[n] = p  BY <1>1 DEF M!Reported
  <2>2. claimed[p] \in [DOMAIN gt[p] -> {0} \cup (DOMAIN pred[p] \ Waiting(n))]
    BY <2>1 DEF Counting, Matching, ClaimsFit
  <2>3. DOMAIN pred[p] = 1..Len(pred[p]) /\ Len(pred[p]) \in Nat  BY <1>1, InputsAre
  <2>4. {0} \cup (DOMAIN pred[p] \ Waiting(n)) \subseteq 0..Len(pred[p])  BY <2>3
  <2> QED  BY <2>2, <2>4
<1>4. \A c \in DOMAIN perClass : perClass[c] \in [tp : Nat, fp : Nat, fn : Nat]
  <2> TAKE c \in DOMAIN perClass
  <2>1. M!Bucket(c) = perClass[c]  BY DEF M!Bucket
  <2>2. M!Bucket(c) = [tp |-> Cardinality(Hits(c)), fp |-> Cardinality(Wrong(c)),
                       fn |-> Cardinality(Misses(c))]
    BY DEF Counting, Counted
  <2>3. /\ Cardinality(Hits(c)) \in Nat /\ Cardinality(Misses(c)) \in Nat
        /\ Cardinality(Wrong(c)) \in Nat
    BY <1>1, CountsFinite
  <2> QED  BY <2>1, <2>2, <2>3
<1>5. ~M!Done => \A k \in DOMAIN dets : dets[k] \in DOMAIN pred[M!image]
  <2> SUFFICES ASSUME ~M!Done  PROVE \A k \in DOMAIN dets : dets[k] \in DOMAIN pred[gtOrder[atM]]
    BY DEF M!image
  <2>1. atM \in DOMAIN gtOrder  BY <1>1, OrderIs DEF M!Done
  <2> QED  BY <2>1 DEF Counting, Matching, InTurn
<1> QED  BY <1>1, <1>2, <1>3, <1>4, <1>5 DEF M!TypeOK

LEMMA ReportStep == ASSUME Counting, M!Next PROVE Counting'
BY MatchCounts, EndCounts DEF M!Next

LEMMA ReportStays == ASSUME Counting, UNCHANGED report PROVE Counting'
BY CountingStays DEF M!vars, report

LEMMA ReportAlways == Spec => [](screen = "report" => Counting)
<1>1. Init => (screen = "report" => Counting)
  BY CountingBegins DEF Init
<1>2. (screen = "report" => Counting) /\ [Next]_vars => (screen = "report" => Counting)'
  <2> SUFFICES ASSUME Counting, [Next]_vars, screen = "report"  PROVE Counting'
    BY DEF Next, vars
  <2> QED  BY ReportStep, ReportStays DEF Next, vars
<1> QED  BY <1>1, <1>2, PTL DEF Spec, vars

(* Report: whatever was predicted, the greedy matching gives every box to  *)
(* whom it should, and its rows, classes and overall score add up          *)
(* (metrics.go:84-182).                                                    *)
THEOREM GradesAreFair == Spec => []GradedFairly
<1>1. (screen = "report" => Counting) => GradedFairly
  BY GreedyIsFair, CountingAddsUp DEF GradedFairly, Counting
<1> QED  BY <1>1, ReportAlways, PTL

-----------------------------------------------------------------------------
(***************************************************************************)
(* Together.                                                               *)
(***************************************************************************)
OneOfThem ==
  screen \in {"benchmark", "readiness", "workspace", "labels", "home", "report", "download"}

(* Each screen keeps its state of its types, the others untouched.         *)
THEOREM ScreensAreTyped == Spec => []ScreensTypeOK
<1>1. Spec => []OneOfThem
  <2>1. Init => OneOfThem  BY DEF Init, OneOfThem
  <2>2. OneOfThem /\ [Next]_vars => OneOfThem'  BY DEF OneOfThem, Next, vars
  <2> QED  BY <2>1, <2>2, PTL DEF Spec, vars
<1>2. /\ OneOfThem
      /\ screen = "benchmark" => BInv
      /\ screen = "readiness" => RInv
      /\ screen = "workspace" => WInv
      /\ screen = "labels" => LInv
      /\ screen = "home" => HInv
      /\ screen = "report" => Counting
      /\ screen = "download" => EInv
      => ScreensTypeOK
  BY ReadinessTyped, WorkspaceTyped, LabelsTyped, ReportTyped, ExportTyped
     DEF OneOfThem, ScreensTypeOK, BInv, HInv, RInv
<1> QED
  BY <1>1, <1>2, BenchmarkAlways, ReadinessAlways, WorkspaceAlways, LabelsAlways, HomeAlways,
     ReportAlways, ExportAlways, PTL

=============================================================================
