----------------------------- MODULE Benchmark -----------------------------
(***************************************************************************)
(* The benchmark set in one browser tab: TestsetPanel.tsx and the test-set *)
(* part of session.ts, against the server's handlers and a second          *)
(* annotator.  An action's answer is applied with what the tab showed when *)
(* the action was clicked, not with what it shows when the answer arrives. *)
(* Boxes are known by the image they were drawn on.                        *)
(***************************************************************************)
EXTENDS Naturals, FiniteSets

CONSTANTS Images, None,
          MaxOps,       \* bound: requests of this tab
          MaxOthers     \* bound: imports and removals of the other annotator

VARIABLES
  tsImages, tsLabeled, tsCurrent,
  drawn,                \* the image the boxes on the canvas were drawn on, or None
  poolPick, tsPick,     \* the ticked rows of both lists
  busy, ops,
  flagged, key,         \* the server: the set, and whose boxes each answer key holds
  opCount, others,
  leapt                 \* history: an import's answer replaced an image on screen

tab    == <<tsImages, tsLabeled, tsCurrent, drawn, poolPick, tsPick, busy>>
server == <<flagged, key>>
vars   == <<tab, ops, server, opCount, others, leapt>>

Keyed == {i \in flagged : key[i] # None}
poolCandidates == Images \ tsImages

Op == [id : 1..MaxOps, kind : {"import", "save", "remove"}, paths : SUBSET Images,
       drawn : Images \cup {None},
       current : Images \cup {None}, list : SUBSET Images,
       st : {"sent", "served"}, images : SUBSET Images, labeled : SUBSET Images]

TypeOK ==
  /\ {tsImages, tsLabeled, poolPick, tsPick, flagged} \subseteq SUBSET Images
  /\ {tsCurrent, drawn} \subseteq Images \cup {None}
  /\ {busy, leapt} \subseteq BOOLEAN /\ ops \subseteq Op
  /\ key \in [Images -> Images \cup {None}]
  /\ opCount \in 0..MaxOps /\ others \in 0..MaxOthers

\* The first of a list that is ordered by path: any of it, or nothing.
FirstOf(S) == IF S = {} THEN {None} ELSE S

-----------------------------------------------------------------------------
\* The canvas and the two lists.

Draw  == /\ tsCurrent # None /\ drawn = None /\ drawn' = tsCurrent
         /\ UNCHANGED <<tsImages, tsLabeled, tsCurrent, poolPick, tsPick, busy, ops, server,
                        opCount, others, leapt>>

Clear == /\ drawn # None /\ drawn' = None
         /\ UNCHANGED <<tsImages, tsLabeled, tsCurrent, poolPick, tsPick, busy, ops, server,
                        opCount, others, leapt>>

goToTsImage(p) ==
  /\ tsCurrent' = p /\ drawn' = None
  /\ UNCHANGED <<tsImages, tsLabeled, poolPick, tsPick, busy, ops, server, opCount, others, leapt>>

Skip == tsImages # {} /\ \E p \in FirstOf(tsImages \ {tsCurrent}) : goToTsImage(p)

TickPool(p) ==
  /\ p \in poolCandidates
  /\ poolPick' = IF p \in poolPick THEN poolPick \ {p} ELSE poolPick \cup {p}
  /\ UNCHANGED <<tsImages, tsLabeled, tsCurrent, drawn, tsPick, busy, ops, server, opCount, others, leapt>>

TickTest(pick) ==
  /\ tsPick' = pick
  /\ UNCHANGED <<tsImages, tsLabeled, tsCurrent, drawn, poolPick, busy, ops, server, opCount, others, leapt>>

\* Select all goes by the number of ticks.
SelectAll == /\ tsImages # {}
             /\ TickTest(IF Cardinality(tsPick) = Cardinality(tsImages) THEN {} ELSE tsImages)

-----------------------------------------------------------------------------
\* The guarded actions.  Buttons are disabled while one runs, Enter is not.

guard(kind, paths) ==
  /\ opCount < MaxOps /\ opCount' = opCount + 1
  /\ ops' = ops \cup {[id |-> opCount + 1, kind |-> kind, paths |-> paths, drawn |-> drawn,
                       current |-> tsCurrent, list |-> tsImages,
                       st |-> "sent", images |-> {}, labeled |-> {}]}
  /\ busy' = TRUE
  /\ UNCHANGED <<tsImages, tsLabeled, tsCurrent, drawn, poolPick, tsPick, server, others, leapt>>

importToTestset == poolPick # {} /\ ~busy /\ guard("import", poolPick)

addRandomFromPool ==
  ~busy /\ \E paths \in SUBSET poolCandidates \ {{}} : guard("import", paths)

removeFromTestset == tsPick # {} /\ ~busy /\ guard("remove", tsPick)

saveTestset == tsCurrent # None /\ drawn # None /\ guard("save", {tsCurrent})

SaveNothing ==
  /\ busy /\ (tsCurrent = None \/ drawn = None) /\ busy' = FALSE
  /\ UNCHANGED <<tsImages, tsLabeled, tsCurrent, drawn, poolPick, tsPick, ops, server,
                 opCount, others, leapt>>

\* The server flags, unflags, or writes the key of a flagged image.
Serve(op) ==
  /\ op.st = "sent"
  /\ CASE op.kind = "import" -> flagged' = flagged \cup op.paths /\ UNCHANGED key
       [] op.kind = "remove" -> /\ flagged' = flagged \ op.paths
                                /\ key' = [i \in Images |-> IF i \in op.paths THEN None ELSE key[i]]
       [] op.kind = "save"   -> /\ op.paths \subseteq flagged
                                /\ key' = [i \in Images |-> IF i \in op.paths THEN op.drawn ELSE key[i]]
                                /\ UNCHANGED flagged
  /\ ops' = (ops \ {op}) \cup
       {[op EXCEPT !.st = "served", !.images = flagged', !.labeled = {i \in flagged' : key'[i] # None}]}
  /\ UNCHANGED <<tab, opCount, others, leapt>>

Answered(op) == /\ op.st = "served" /\ ops' = ops \ {op} /\ busy' = FALSE
                /\ tsLabeled' = op.labeled
                /\ UNCHANGED <<server, opCount, others>>

\* With nothing on screen when it was clicked, an import opens an image.
ImportAnswer(op) ==
  /\ op.kind = "import" /\ Answered(op)
  /\ tsImages' = op.images /\ poolPick' = {}
  /\ IF op.current = None THEN tsCurrent' \in FirstOf(op.images) ELSE UNCHANGED tsCurrent
  /\ leapt' = (leapt \/ (tsCurrent # None /\ op.current = None))
  /\ UNCHANGED <<drawn, tsPick>>

SaveAnswer(op) ==
  /\ op.kind = "save" /\ Answered(op)
  /\ drawn' = None
  /\ tsCurrent' \in FirstOf(op.list \ op.labeled)
  /\ UNCHANGED <<tsImages, poolPick, tsPick, leapt>>

\* Deliberate bug: the boxes of a removed image stay.
RemoveAnswerKeeping(op) ==
  /\ op.kind = "remove" /\ Answered(op)
  /\ tsImages' = op.images /\ tsPick' = {}
  /\ IF op.current \in op.paths THEN tsCurrent' \in FirstOf(op.images)
     ELSE UNCHANGED tsCurrent
  /\ UNCHANGED <<drawn, poolPick, leapt>>

RemoveAnswer(op) ==
  /\ op.kind = "remove" /\ Answered(op)
  /\ tsImages' = op.images /\ tsPick' = {}
  /\ IF op.current \in op.paths THEN drawn' = None /\ tsCurrent' \in FirstOf(op.images)
     ELSE UNCHANGED <<drawn, tsCurrent>>
  /\ UNCHANGED <<poolPick, leapt>>

\* Refused, or lost on either way.
OpFails(op) == /\ ops' = ops \ {op} /\ busy' = FALSE
               /\ UNCHANGED <<tsImages, tsLabeled, tsCurrent, drawn, poolPick, tsPick, server,
                              opCount, others, leapt>>

-----------------------------------------------------------------------------
\* A poll brings whose key is written, not which images are in the set.
Poll == /\ tsLabeled' = Keyed
        /\ UNCHANGED <<tsImages, tsCurrent, drawn, poolPick, tsPick, busy, ops, server,
                       opCount, others, leapt>>

OtherChanges(i) ==
  /\ others < MaxOthers /\ others' = others + 1
  /\ flagged' = IF i \in flagged THEN flagged \ {i} ELSE flagged \cup {i}
  /\ key' = [key EXCEPT ![i] = None]
  /\ UNCHANGED <<tab, ops, opCount, leapt>>

Init ==
  /\ flagged \in SUBSET Images
  /\ \E k \in SUBSET flagged : key = [i \in Images |-> IF i \in k THEN i ELSE None]
  /\ tsImages = flagged /\ tsLabeled = Keyed
  /\ tsCurrent \in IF Keyed = flagged THEN FirstOf(flagged) ELSE flagged \ Keyed
  /\ drawn = None /\ poolPick = {} /\ tsPick = {} /\ busy = FALSE
  /\ ops = {} /\ opCount = 0 /\ others = 0 /\ leapt = FALSE

Next ==
  \/ Draw \/ Clear \/ Skip \/ SelectAll
  \/ (\E p \in tsImages : goToTsImage(p)) \/ (\E p \in Images : TickPool(p))
  \/ (\E p \in tsImages : TickTest((tsPick \ {p}) \cup ({p} \ tsPick)))
  \/ importToTestset \/ addRandomFromPool \/ removeFromTestset \/ saveTestset \/ SaveNothing
  \/ (\E op \in ops : Serve(op) \/ ImportAnswer(op) \/ SaveAnswer(op) \/ RemoveAnswer(op) \/ OpFails(op))
  \/ Poll \/ (\E i \in Images : OtherChanges(i))

Spec == Init /\ [][Next]_vars

-----------------------------------------------------------------------------
(* Every answer key was drawn on the image it grades, whatever answers,    *)
(* removals and saves by Enter overlap -- unless an import clicked with    *)
(* nothing on screen answered after an image was opened: it puts another   *)
(* image under the boxes (session.ts:787, 794-819).                        *)
KeyStraysOnlyByImport ==
  leapt \/ /\ drawn \in {None, tsCurrent}
           /\ \A op \in ops : op.kind = "save" => op.paths = {op.drawn}
           /\ \A i \in Images : key[i] \in {None, i}
=============================================================================
