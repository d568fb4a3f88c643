------------------------------- MODULE Screens -------------------------------
(***************************************************************************)
(* Five screens of the application, and the two computations whose results *)
(* people take away, the report and the export: they share no state that   *)
(* their properties are about, so a behaviour picks one of them and stays  *)
(* there.  The variables of the others are Unused.                         *)
(***************************************************************************)
EXTENDS Integers, Sequences, FiniteSets

CONSTANTS
  None, Unused,
  TestImages, MaxOpsB, MaxOthersB,                        \* Benchmark
  Models, MaxOpsR, MaxOthersR,                            \* Readiness
  Content, Blank, Limit, MaxEdits,                        \* Workspace
  ClassNames, Palette, MaxSaves,                          \* Labels
  People, ProjectNames, MaxProjects, MaxCalls, MaxAsked,  \* Home
  gtOrder, Inputs, iouThr,                                \* Metrics
  Paths, Stem, Class, Starts, Budget, MaxWrites, MaxMoves \* Export

\* null is no path, model, person or project, in the browser and in Go.
ASSUME BenchmarkAssumption == None \notin TestImages /\ MaxOpsB \in Nat /\ MaxOthersB \in Nat
ASSUME ReadinessAssumption == None \notin Models /\ MaxOpsR \in Nat /\ MaxOthersR \in Nat
\* What a canvas holds is a list.
ASSUME WorkspaceAssumption ==
  /\ Blank \in Content /\ Limit \in Nat \ {0} /\ MaxEdits \in Nat
  /\ \A c \in Content : DOMAIN c \subseteq Nat

ASSUME LabelsAssumption == IsFiniteSet(ClassNames) /\ Palette \in Nat /\ MaxSaves \in Nat

ASSUME HomeAssumption ==
  /\ None \notin People /\ None \notin [owner : People \cup {None}, name : ProjectNames]
  /\ None \notin ProjectNames /\ {MaxProjects, MaxCalls, MaxAsked} \subseteq Nat
  /\ MaxCalls > 0

\* The images are listed once each, and there is one; their boxes have
\* coordinates, and the overlap that counts is a fraction.
ASSUME MetricsAssumption ==
  LET images == {gtOrder[n] : n \in DOMAIN gtOrder}
  IN  /\ gtOrder \in Seq(images) /\ gtOrder # <<>>
      /\ \A m, n \in DOMAIN gtOrder : gtOrder[m] = gtOrder[n] => m = n
      /\ iouThr \in Int \X (Nat \ {0})
      /\ \A input \in Inputs : DOMAIN input.gt = images /\ \A p \in images :
           /\ DOMAIN input.gt[p] = 1..Len(input.gt[p]) /\ Len(input.gt[p]) \in Nat
           /\ DOMAIN input.pred[p] = 1..Len(input.pred[p]) /\ Len(input.pred[p]) \in Nat
           /\ \A t \in DOMAIN input.gt[p] : input.gt[p][t].box \in Int \X Int
           /\ \A d \in DOMAIN input.pred[p] :
                input.pred[p][d].box \in Int \X Int /\ input.pred[p][d].conf \in Int

\* The images are in the order of their paths; a box only has a class of
\* its kind, and a class is listed once.
ASSUME ExportAssumption ==
  /\ IsFiniteSet(Paths) /\ Paths = 1..Cardinality(Paths) /\ DOMAIN Stem = Paths
  /\ Budget \in Nat /\ MaxWrites \in Nat /\ MaxMoves \in Nat
  /\ \A s \in Starts :
       /\ s.classes \in [{"pool", "testset"} -> Seq(Class)]
       /\ s.rows \in [{"pool", "testset"} -> [Paths -> Seq(Class)]]
       /\ \A k \in {"pool", "testset"} :
            /\ \A m, n \in DOMAIN s.classes[k] : s.classes[k][m] = s.classes[k][n] => m = n
            /\ \A i \in Paths : \A b \in DOMAIN s.rows[k][i] :
                 \E n \in DOMAIN s.classes[k] : s.classes[k][n] = s.rows[k][i][b]

VARIABLES
  screen,
  \* Benchmark
  tsImages, tsLabeled, tsCurrent, drawn, poolPick, tsPick, busyB, opsB,
  flagged, key, opCountB, othersB, leapt,
  \* Readiness
  bank, evalResult, staleScores, left, confirmR, target, busyR, opsR,
  srvBank, opCountR, othersR, raced, lost,
  \* Workspace
  poolW, ts, panel, selW, focus, dialogW, shortcuts, editsW, opened, trimmed,
  \* Labels
  taught, bankNames, planned, chosen, cls, boxesL, isReview, answers, saves, turned,
  \* Home
  projects, made, rows, renaming, error, confirmH, dialogH, calls, at, asked,
  \* Metrics
  gt, pred, atM, dets, claimed, perClass, perImage,
  \* Export
  classes, rowsE, files, ask, pc, names, byImage, leftE, archive, writes, moves, grew, first

benchmark == <<tsImages, tsLabeled, tsCurrent, drawn, poolPick, tsPick, busyB, opsB,
               flagged, key, opCountB, othersB, leapt>>
readiness == <<bank, evalResult, staleScores, left, confirmR, target, busyR, opsR,
               srvBank, opCountR, othersR, raced, lost>>
workspace == <<poolW, ts, panel, selW, focus, dialogW, shortcuts, editsW, opened, trimmed>>
labels    == <<taught, bankNames, planned, chosen, cls, boxesL, isReview, answers, saves, turned>>
home      == <<projects, made, rows, renaming, error, confirmH, dialogH, calls, at, asked>>
report    == <<gt, pred, atM, dets, claimed, perClass, perImage>>
download  == <<classes, rowsE, files, ask, pc, names, byImage, leftE, archive, writes, moves,
               grew, first>>

B == INSTANCE Benchmark WITH
       Images <- TestImages, MaxOps <- MaxOpsB, MaxOthers <- MaxOthersB,
       busy <- busyB, ops <- opsB, opCount <- opCountB, others <- othersB

R == INSTANCE Readiness WITH
       MaxOps <- MaxOpsR, MaxOthers <- MaxOthersR,
       confirm <- confirmR, busy <- busyR, ops <- opsR, opCount <- opCountR, others <- othersR

W == INSTANCE Workspace WITH
       pool <- poolW, sel <- selW, dialog <- dialogW, edits <- editsW

L == INSTANCE Labels WITH Names <- ClassNames, boxes <- boxesL

H == INSTANCE Home WITH Names <- ProjectNames, confirm <- confirmH, dialog <- dialogH

M == INSTANCE Metrics WITH at <- atM

E == INSTANCE Export WITH Images <- Paths, rows <- rowsE, left <- leftE

Init ==
  /\ screen \in {"benchmark", "readiness", "workspace", "labels", "home", "report", "download"}
  /\ IF screen = "benchmark" THEN B!Init ELSE
       /\ tsImages = Unused /\ tsLabeled = Unused /\ tsCurrent = Unused /\ drawn = Unused
       /\ poolPick = Unused /\ tsPick = Unused /\ busyB = Unused /\ opsB = Unused
       /\ flagged = Unused /\ key = Unused /\ opCountB = Unused /\ othersB = Unused
       /\ leapt = Unused
  /\ IF screen = "readiness" THEN R!Init ELSE
       /\ bank = Unused /\ evalResult = Unused /\ staleScores = Unused /\ left = Unused
       /\ confirmR = Unused /\ target = Unused /\ busyR = Unused /\ opsR = Unused
       /\ srvBank = Unused /\ opCountR = Unused /\ othersR = Unused /\ raced = Unused
       /\ lost = Unused
  /\ IF screen = "workspace" THEN W!Init ELSE
       /\ poolW = Unused /\ ts = Unused /\ panel = Unused /\ selW = Unused /\ focus = Unused
       /\ dialogW = Unused /\ shortcuts = Unused /\ editsW = Unused /\ opened = Unused
       /\ trimmed = Unused
  /\ IF screen = "labels" THEN L!Init ELSE
       /\ taught = Unused /\ bankNames = Unused /\ planned = Unused /\ chosen = Unused
       /\ cls = Unused /\ boxesL = Unused /\ isReview = Unused /\ answers = Unused
       /\ saves = Unused /\ turned = Unused
  /\ IF screen = "home" THEN H!Init ELSE
       /\ projects = Unused /\ made = Unused /\ rows = Unused /\ renaming = Unused
       /\ error = Unused
       /\ confirmH = Unused /\ dialogH = Unused /\ calls = Unused /\ at = Unused
       /\ asked = Unused
  /\ IF screen = "report" THEN M!Init ELSE
       /\ gt = Unused /\ pred = Unused /\ atM = Unused /\ dets = Unused /\ claimed = Unused
       /\ perClass = Unused /\ perImage = Unused
  /\ IF screen = "download" THEN E!Init ELSE
       /\ classes = Unused /\ rowsE = Unused /\ files = Unused /\ ask = Unused /\ pc = Unused
       /\ names = Unused /\ byImage = Unused /\ leftE = Unused /\ archive = Unused
       /\ writes = Unused /\ moves = Unused /\ grew = Unused /\ first = Unused

Next ==
  /\ UNCHANGED screen
  /\ \/ screen = "benchmark" /\ B!Next
        /\ UNCHANGED <<readiness, workspace, labels, home, report, download>>
     \/ screen = "readiness" /\ R!Next
        /\ UNCHANGED <<benchmark, workspace, labels, home, report, download>>
     \/ screen = "workspace" /\ W!Next
        /\ UNCHANGED <<benchmark, readiness, labels, home, report, download>>
     \/ screen = "labels" /\ L!Next
        /\ UNCHANGED <<benchmark, readiness, workspace, home, report, download>>
     \/ screen = "home" /\ H!Next
        /\ UNCHANGED <<benchmark, readiness, workspace, labels, report, download>>
     \/ screen = "report" /\ M!Next
        /\ UNCHANGED <<benchmark, readiness, workspace, labels, home, download>>
     \/ screen = "download" /\ E!Next
        /\ UNCHANGED <<benchmark, readiness, workspace, labels, home, report>>

Spec == Init /\ [][Next]_<<screen, benchmark, readiness, workspace, labels, home, report, download>>

-----------------------------------------------------------------------------
(* Each screen's state is of its types; among them, a name is planned only *)
(* once (LabelsDialog.tsx:41-49).                                          *)
ScreensTypeOK ==
  CASE screen = "benchmark" -> B!TypeOK
    [] screen = "readiness" -> R!TypeOK
    [] screen = "workspace" -> W!TypeOK
    [] screen = "labels"    -> L!TypeOK
    [] screen = "home"      -> H!TypeOK
    [] screen = "report"    -> M!TypeOK
    [] screen = "download"  -> E!TypeOK

(* Benchmark: every answer key was drawn on the image it grades            *)
(* (session.ts:787, 794-819).                                              *)
KeyStraysOnlyByImport == screen = "benchmark" => B!KeyStraysOnlyByImport

(* Workspace: the page is left without a warning only when the canvas      *)
(* holds what it opened with (page.tsx:70-74).                             *)
CleanMeansOpened == screen = "workspace" => W!CleanMeansOpened

(* Labels: a review would be taken by the server (PoolPanel.tsx:23-27,     *)
(* 200-205).                                                               *)
ReviewIsSavable == screen = "labels" => L!ReviewIsSavable

(* Home: nobody who creates a project joins somebody else's                *)
(* (projects.go:69-75).                                                    *)
NeverAdopted == screen = "home" => H!NeverAdopted

(* Metrics: the model's best guess gets first refusal, and every box is    *)
(* counted once in rows, classes and overall (metrics.go:84-182).          *)
GradedFairly == screen = "report" => M!FirstRefusal /\ M!AddsUp

(* Export: the archive says what the database said                         *)
(* (httpapi/export.go:37-164, core export.go:74-290).                      *)
ExportFaithful == screen = "download" => E!Faithful

(* Readiness: the rest of the pool only goes to the model that was         *)
(* measured (session.ts:759-774).                                          *)
AutoAsMeasured == [][screen = "readiness" => R!HandsToMeasured]_readiness

(* Labels: a taught class keeps its colour (session.ts:266-280, 353-358).  *)
TaughtColourStays == [][screen = "labels" => L!KeepsColours]_labels

(* Home: a project is deleted by its owner, or by somebody who asked while *)
(* it had none (projects.go:166-181).                                      *)
DeletedByOwner == [][screen = "home" => H!DeletesOwn]_home
=============================================================================
