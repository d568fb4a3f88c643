------------------------------- MODULE Labels -------------------------------
(***************************************************************************)
(* The names boxes are drawn under: the label list of session.ts, the      *)
(* labels dialog, the swatches and class field of PoolPanel.tsx and the    *)
(* digit keys, in one tab of a project in which others teach classes too.  *)
(*                                                                         *)
(* The server's list of classes only grows (see Labeling).  This tab sees  *)
(* it when a save is answered, and adds to it the names planned in this    *)
(* browser.  A label saved on an image that has one teaches nothing, so    *)
(* the server refuses a class nobody has taught there (Labeling, Check).   *)
(***************************************************************************)
EXTENDS Filtering, SequencesExt

CONSTANTS Names,       \* without "item", the field's first content, and ""
          Palette,     \* how many colours the server offers
          MaxSaves     \* bound: saves of this tab

VARIABLES
  taught,          \* the server's classes, in their order
  bankNames,       \* as of the last answer heard
  planned, chosen, \* plan.planned and plan.colors (0: none chosen)
  cls,             \* the class of the next box
  boxes,           \* the names of the boxes on the canvas
  isReview,        \* the image on screen has a label
  answers,         \* the lists in the answers under way
  saves,
  turned           \* history: it got its label while boxes were on the canvas

vars == <<taught, bankNames, planned, chosen, cls, boxes, isReview, answers, saves, turned>>

Classes == Names \cup {"item"}
Lists   == {l \in SeqOf(Classes, Cardinality(Classes)) : IsInjective(l)}

TypeOK ==
  /\ taught \in Lists /\ bankNames \in Lists /\ planned \in Lists
  /\ chosen \in [Classes -> 0..Palette]
  /\ cls \in Classes \cup {""} /\ boxes \subseteq Classes
  /\ {isReview, turned} \subseteq BOOLEAN
  /\ answers \subseteq Lists /\ saves \in 0..MaxSaves

-----------------------------------------------------------------------------
\* Deliberate bug: planned names come first.
planFirst  == planned \o Keep(bankNames, Classes \ ToSet(planned))

\* What the bank has, then what is only planned.
classNames == bankNames \o Keep(planned, Classes \ ToSet(bankNames))

\* A review may only pick what is taught.
swatchNames == IF isReview THEN bankNames ELSE classNames

\* The chosen colour, else the palette's by place in the list.
color(n) ==
  LET place == IF Contains(classNames, n) THEN SelectInSeq(classNames, LAMBDA m : m = n) - 1
               ELSE Len(classNames)
  IN  IF chosen[n] # 0 THEN chosen[n] ELSE 1 + (place % Palette)

-----------------------------------------------------------------------------
\* The labels dialog.

\* Deliberate bug: a name may be planned twice.
addAgain(n) ==
  /\ ~isReview /\ planned' = Append(planned, n)
  /\ cls' = IF cls = "" THEN n ELSE cls
  /\ UNCHANGED <<taught, bankNames, chosen, boxes, isReview, answers, saves, turned>>

add(n) ==
  /\ ~isReview /\ ~Contains(classNames, n)
  /\ planned' = Append(planned, n)
  /\ cls' = IF cls = "" THEN n ELSE cls
  /\ UNCHANGED <<taught, bankNames, chosen, boxes, isReview, answers, saves, turned>>

\* Its button is disabled for a class with examples.
removeClass(n) ==
  /\ ~isReview /\ Contains(planned, n) /\ ~Contains(bankNames, n)
  /\ planned' = Keep(planned, Classes \ {n})
  /\ chosen' = [chosen EXCEPT ![n] = 0]
  /\ UNCHANGED <<taught, bankNames, cls, boxes, isReview, answers, saves, turned>>

setClassColor(n, c) ==
  /\ ~isReview /\ Contains(classNames, n)
  /\ chosen' = [chosen EXCEPT ![n] = c]
  /\ UNCHANGED <<taught, bankNames, planned, cls, boxes, isReview, answers, saves, turned>>

-----------------------------------------------------------------------------
\* Picking and drawing.

\* A swatch or its digit.
PickClass(n) ==
  /\ Contains(swatchNames, n) /\ cls' = n
  /\ UNCHANGED <<taught, bankNames, planned, chosen, boxes, isReview, answers, saves, turned>>

\* The class field, shown beside the swatches.
TypeClass(n) ==
  /\ ~isReview /\ classNames # <<>> /\ cls' = n
  /\ UNCHANGED <<taught, bankNames, planned, chosen, boxes, isReview, answers, saves, turned>>

\* Deliberate bug: a review takes the typed name.
onAddTyped ==
  /\ boxes' = boxes \cup {IF cls = "" THEN "item" ELSE cls}
  /\ UNCHANGED <<taught, bankNames, planned, chosen, cls, isReview, answers, saves, turned>>

onAdd ==
  LET name == IF ~isReview THEN IF cls = "" THEN "item" ELSE cls
              ELSE IF Contains(bankNames, cls) THEN cls
              ELSE IF bankNames # <<>> THEN bankNames[1] ELSE "item"
  IN  /\ boxes' = boxes \cup {name}
      /\ UNCHANGED <<taught, bankNames, planned, chosen, cls, isReview, answers, saves, turned>>

\* Clear, undo: boxes go.
Erase ==
  /\ boxes # {} /\ \E rest \in SUBSET boxes \ {boxes} : boxes' = rest
  /\ UNCHANGED <<taught, bankNames, planned, chosen, cls, isReview, answers, saves, turned>>

\* Another image: one with a label comes with its boxes, all of taught
\* classes; so do guesses and copies.
GoToImage ==
  /\ isReview' \in BOOLEAN /\ (isReview' => taught # <<>>)
  /\ boxes' \in SUBSET (IF isReview' THEN ToSet(taught) ELSE {})
  /\ turned' = FALSE
  /\ UNCHANGED <<taught, bankNames, planned, chosen, cls, answers, saves>>

\* A poll says that somebody labeled the image on screen, or an older
\* answer that nobody did.  The boxes stay.
Turn ==
  /\ (isReview \/ taught # <<>>) /\ isReview' = ~isReview
  /\ turned' = (turned \/ boxes # {})
  /\ UNCHANGED <<taught, bankNames, planned, chosen, cls, boxes, answers, saves>>

\* Save on an image without a label teaches its classes, in any order; the
\* canvas stays as it is until the answer.
saveLabel ==
  /\ ~isReview /\ boxes # {} /\ saves < MaxSaves /\ saves' = saves + 1
  /\ \E order \in SetToSeqs(boxes \ ToSet(taught)) : taught' = taught \o order
  /\ answers' = answers \cup {taught'}
  /\ UNCHANGED <<bankNames, planned, chosen, cls, boxes, isReview, turned>>

\* Answers of two saves in any order.
SaveAnswer(list) ==
  /\ bankNames' = list /\ answers' = answers \ {list}
  /\ boxes' = {} /\ isReview' \in BOOLEAN /\ turned' = FALSE
  /\ UNCHANGED <<taught, planned, chosen, cls, saves>>

OtherTeaches(n) ==
  /\ ~Contains(taught, n) /\ taught' = Append(taught, n)
  /\ UNCHANGED <<bankNames, planned, chosen, cls, boxes, isReview, answers, saves, turned>>

\* The plan is what this browser kept.
Init ==
  /\ taught \in {l \in Lists : Len(l) <= 1} /\ bankNames = taught
  /\ planned \in {l \in Lists : Len(l) <= 1 /\ ToSet(l) \subseteq Names}
  /\ chosen = [n \in Classes |-> 0]
  /\ cls = "item" /\ boxes = {} /\ isReview = FALSE
  /\ answers = {} /\ saves = 0 /\ turned = FALSE

Next ==
  \/ (\E n \in Classes : add(n) \/ removeClass(n) \/ (\E c \in 0..Palette : setClassColor(n, c)))
  \/ (\E n \in Classes : PickClass(n)) \/ (\E n \in Classes \cup {""} : TypeClass(n))
  \/ onAdd \/ Erase \/ GoToImage \/ Turn
  \/ saveLabel \/ (\E list \in answers : SaveAnswer(list)) \/ (\E n \in Classes : OtherTeaches(n))

Spec == Init /\ [][Next]_vars

-----------------------------------------------------------------------------
(* The boxes a review would save are all of classes that are taught, so    *)
(* the server takes them (PoolPanel.tsx:23-27, 200-205), whatever is       *)
(* planned, picked or answered late -- unless the image got its label      *)
(* while boxes were on the canvas, or this tab has heard of no class yet.  *)
ReviewIsSavable ==
  isReview /\ ~turned /\ bankNames # <<>> => boxes \subseteq ToSet(taught)

(* A class that is taught keeps its colour on screen until somebody picks  *)
(* another: neither planning, removing, teaching nor an answer out of      *)
(* order changes it (session.ts:266-280, 353-358).                         *)
KeepsColours ==
  \A n \in ToSet(bankNames) \cap ToSet(bankNames') :
    chosen'[n] = chosen[n] => color(n)' = color(n)
=============================================================================
