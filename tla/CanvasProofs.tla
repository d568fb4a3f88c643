---------------------------- MODULE CanvasProofs ----------------------------
(***************************************************************************)
(* For any pool of images and any number of saves, polls and passes: what  *)
(* the canvas shows, and what leaves it, belongs to the image on screen.   *)
(***************************************************************************)
EXTENDS Canvas, TimelineProofs

\* The saved boxes under way are those of a labeled image.
LoadFits == load => current \in done

\* A save is one of an image.
Saves  == {"label", "review", "teach"}
OpsFit == \A op \in ops : op.kind \in Saves => op.img \in Images

TypeInv == TypeOK /\ OpsFit /\ LoadFits /\ GuessesFit

-----------------------------------------------------------------------------
(***************************************************************************)
(* Shapes of steps.                                                        *)
(***************************************************************************)
\* An edit of the canvas, with the guesses kept or taken in.
LEMMA EditShape ==
  ASSUME TypeOK, Draw \/ Erase \/ Clear \/ CopyLast \/ acceptDrafts
  PROVE  \E next \in Content :
           /\ Set(next) /\ edits' = edits + 1 /\ edits < MaxEdits
           /\ drafts' \in {drafts, {}}
           /\ UNCHANGED <<current, hand, auto, opened, busy, asked, server, opCount, others, refusals>>
           /\ current \in Images
           /\ next \subseteq pool.boxes \cup drafts \cup {current}
<1>1. pool.boxes \in SUBSET Images /\ drafts \in SUBSET Images /\ Content = SUBSET Images
  BY CanvasAssumption DEF TypeOK, TimelineType
<1>2. ASSUME NEW next, Edit(next) PROVE current \in Images
  BY <1>2 DEF Edit, TypeOK
<1>3. CASE Draw BY <1>1, <1>2, <1>3 DEF Draw, Edit
<1>4. CASE Erase BY <1>1, <1>2, <1>4 DEF Erase, Edit
<1>5. CASE Clear BY <1>1, <1>2, <1>5 DEF Clear, Edit
<1>6. CASE CopyLast BY <1>1, <1>2, <1>6 DEF CopyLast, Edit
<1>7. CASE acceptDrafts BY <1>1, <1>2, <1>7 DEF acceptDrafts, Edit
<1>8. QED BY <1>3, <1>4, <1>5, <1>6, <1>7

\* The next image is an image, or none.
LEMMA NextTodoType ==
  ASSUME NEW finished, NEW exclude
  PROVE  nextTodo(finished, exclude) \subseteq Images \cup {None}
BY DEF nextTodo

\* Going to another image.
LEMMA GoShape ==
  ASSUME TypeOK, Skip \/ \E p \in Images : goToImage(p)
  PROVE  \E p \in Images \cup {None} : goToImage(p)
<1>1. CASE Skip
  <2>1. auto \subseteq Images BY DEF TypeOK
  <2>2. QED BY <1>1, <2>1, NextTodoType DEF Skip
<1>2. QED BY <1>1

\* The effects of a step.
LEMMA EffectsType ==
  ASSUME TypeOK, NEW newBank \in BOOLEAN, Effects(newBank)
  PROVE  /\ load' \in BOOLEAN /\ guess' \in BOOLEAN
         /\ drafts' \in {drafts, {}}
<1>1. load \in BOOLEAN /\ guess \in BOOLEAN BY DEF TypeOK
<1>2. load' \in BOOLEAN
  <2>1. CASE current' # current
    <3>1. load' = (current' \in hand' \cup auto') BY <2>1 DEF Effects
    <3>2. CASE current' \in hand' \cup auto'
      <4>1. load' = TRUE BY <3>1, <3>2
      <4>2. QED BY <4>1
    <3>3. CASE current' \notin hand' \cup auto'
      <4>1. (current' \in hand' \cup auto') = FALSE BY <3>3
      <4>2. QED BY <3>1, <4>1
    <3>4. QED BY <3>2, <3>3
  <2>2. CASE current' = current /\ newBank
    <3>1. load' = FALSE BY <2>2 DEF Effects
    <3>2. QED BY <3>1
  <2>3. CASE current' = current /\ ~newBank
    <3>1. load' = load BY <1>1, <2>3 DEF Effects
    <3>2. QED BY <1>1, <3>1
  <2>4. QED BY <2>1, <2>2, <2>3
<1>3. guess' \in BOOLEAN
  <2>1. CASE current' # current \/ newBank
    <3>1. guess' = (current' \in Images \ (hand' \cup auto')) BY <2>1 DEF Effects
    <3>2. CASE current' \in Images \ (hand' \cup auto')
      <4>1. guess' = TRUE BY <3>1, <3>2
      <4>2. QED BY <4>1
    <3>3. CASE current' \notin Images \ (hand' \cup auto')
      <4>1. (current' \in Images \ (hand' \cup auto')) = FALSE BY <3>3
      <4>2. QED BY <3>1, <4>1
    <3>4. QED BY <3>2, <3>3
  <2>2. CASE ~(current' # current \/ newBank)
    <3>1. guess' = guess BY <2>2 DEF Effects
    <3>2. QED BY <1>1, <3>1
  <2>3. QED BY <2>1, <2>2
<1>4. drafts' \in {drafts, {}} BY DEF Effects
<1>5. QED BY <1>2, <1>3, <1>4

\* What a step leaves of what is asked for an image: the effects ask for the
\* image on screen, and keep an answer only for the same image and sets.
LEMMA EffectsFit ==
  ASSUME TypeInv, NEW newBank \in BOOLEAN, Effects(newBank),
         hand' # hand \/ auto' # auto => newBank
  PROVE  LoadFits' /\ GuessesFit'
<1>1. CASE current' # current
  <2>1. load' = (current' \in hand' \cup auto') /\ guess' = (current' \in Images \ (hand' \cup auto'))
        /\ drafts' = {}
    BY <1>1 DEF Effects
  <2>2. QED BY <2>1 DEF LoadFits, GuessesFit, done
<1>2. CASE current' = current /\ newBank
  <2>1. load' = FALSE /\ guess' = (current' \in Images \ (hand' \cup auto')) /\ drafts' = {}
    BY <1>2 DEF Effects
  <2>2. QED BY <2>1 DEF LoadFits, GuessesFit, done
<1>3. CASE current' = current /\ ~newBank
  <2>1. hand' = hand /\ auto' = auto BY <1>3
  <2>2. load' = load /\ guess' = guess /\ drafts' = drafts
    BY <1>3 DEF Effects, TypeInv, TypeOK
  <2>3. QED BY <1>3, <2>1, <2>2 DEF TypeInv, LoadFits, GuessesFit, done
<1>4. QED BY <1>1, <1>2, <1>3

\* The three things a step can do to the timeline.
LEMMA Keeps ==
  ASSUME TimelineType,
         \/ \E next \in Content : Set(next) \/ Reset(next)
         \/ Undo \/ Redo \/ UNCHANGED pool
  PROVE  TimelineType'
BY StepKeeps DEF TimelineNext, TimelineType, IsTimeline

\* The empty canvas.
LEMMA NothingDrawn == {} \in Content /\ {} \subseteq Images
BY CanvasAssumption

-----------------------------------------------------------------------------
(***************************************************************************)
(* Types.                                                                  *)
(***************************************************************************)
\* Edits, undo and redo, guesses thrown away.
LEMMA CanvasType ==
  ASSUME TypeOK, Draw \/ Erase \/ Clear \/ CopyLast \/ acceptDrafts \/ dropDraft \/ UndoRedo
  PROVE  TypeOK'
<1>1. TimelineType BY DEF TypeOK
<1>2. CASE Draw \/ Erase \/ Clear \/ CopyLast \/ acceptDrafts
  <2>1. PICK next \in Content :
          /\ Set(next) /\ edits' = edits + 1 /\ edits < MaxEdits
          /\ drafts' \in {drafts, {}}
          /\ UNCHANGED <<current, hand, auto, opened, busy, asked, server, opCount, others, refusals>>
    BY <1>2, EditShape
  <2>2. TimelineType' BY <1>1, <2>1, Keeps
  <2>3. edits' \in 0..MaxEdits BY <2>1, CanvasAssumption DEF TypeOK
  <2>4. drafts' \in Content BY <2>1, NothingDrawn DEF TypeOK
  <2>5. QED BY <2>1, <2>2, <2>3, <2>4 DEF TypeOK, asked, server
<1>3. CASE dropDraft
  <2>1. drafts' \in Content BY <1>3, CanvasAssumption DEF dropDraft, TypeOK
  <2>2. UNCHANGED <<pool, current, hand, auto, opened, busy, asked, server, used>> BY <1>3 DEF dropDraft
  <2>3. QED BY <2>1, <2>2 DEF TypeOK, TimelineType, asked, server, used
<1>4. CASE UndoRedo
  <2>1. UNCHANGED <<current, hand, auto, opened, drafts, busy, asked, server, used>> /\ (Undo \/ Redo)
    BY <1>4 DEF UndoRedo
  <2>2. TimelineType' BY <1>1, <2>1, Keeps
  <2>3. QED BY <2>1, <2>2 DEF TypeOK, asked, server, used
<1>5. QED BY <1>2, <1>3, <1>4

\* Going to another image.
LEMMA GoType ==
  ASSUME TypeOK, NEW p \in Images \cup {None}, goToImage(p)
  PROVE  TypeOK'
<1>1. /\ Reset({}) /\ current' = p /\ edits' = 0
      /\ UNCHANGED <<hand, auto, opened, busy, poll, ops, server, opCount, others, refusals>>
      /\ Effects(FALSE)
  BY DEF goToImage
<1>2. TimelineType' BY <1>1, Keeps, NothingDrawn DEF TypeOK
<1>3. load' \in BOOLEAN /\ guess' \in BOOLEAN /\ drafts' \in {drafts, {}} BY <1>1, EffectsType
<1>4. drafts' \in Content BY <1>3, NothingDrawn DEF TypeOK
<1>5. edits' \in 0..MaxEdits BY <1>1, CanvasAssumption
<1>6. QED BY <1>1, <1>2, <1>3, <1>4, <1>5 DEF TypeOK, server

\* What arrives for the image on screen.
LEMMA LoadType ==
  ASSUME TypeInv, getBoxesAnswer \/ getBoxesFails \/ predictAnswer
  PROVE  TypeOK'
<1>1. TypeOK BY DEF TypeInv
<1>2. CASE getBoxesAnswer
  <2>1. /\ load /\ load' = FALSE /\ Reset(stored[current]) /\ edits' = 0
        /\ UNCHANGED <<current, hand, auto, opened, drafts, busy, guess, poll, ops, server,
                       opCount, others, refusals>>
    BY <1>2 DEF getBoxesAnswer
  <2>2. current \in Images BY <2>1 DEF TypeInv, LoadFits, done, TypeOK
  <2>3. stored[current] \in Content BY <1>1, <2>2 DEF TypeOK
  <2>4. TimelineType' BY <1>1, <2>1, <2>3, Keeps DEF TypeOK
  <2>5. edits' \in 0..MaxEdits BY <2>1, CanvasAssumption
  <2>6. QED BY <1>1, <2>1, <2>4, <2>5 DEF TypeOK, server
<1>3. CASE getBoxesFails
  <2>1. load' = FALSE /\ UNCHANGED <<tab, guess, poll, ops, server, used>>
    BY <1>3 DEF getBoxesFails
  <2>2. QED BY <1>1, <2>1 DEF TypeOK, TimelineType, tab, server, used
<1>4. CASE predictAnswer
  <2>1. /\ guess /\ guess' = FALSE /\ drafts' \in {drafts, {}, {current}}
        /\ UNCHANGED <<pool, current, hand, auto, opened, busy, load, poll, ops, server, used>>
    BY <1>4 DEF predictAnswer
  <2>2. current \in Images BY <2>1 DEF TypeInv, GuessesFit
  <2>3. drafts' \in Content BY <1>1, <2>1, <2>2, NothingDrawn, CanvasAssumption DEF TypeOK
  <2>4. QED BY <1>1, <2>1, <2>3 DEF TypeOK, TimelineType, server, used
<1>5. QED BY <1>2, <1>3, <1>4

\* Polls.
LEMMA PollType ==
  ASSUME TypeOK, pull \/ ServePoll \/ getStateAnswer
  PROVE  TypeOK'
<1>1. CASE pull
  <2>1. poll' \in PollReq BY <1>1 DEF pull, PollReq, States
  <2>2. UNCHANGED <<tab, load, guess, ops, server, used>> BY <1>1 DEF pull
  <2>3. QED BY <2>1, <2>2 DEF TypeOK, TimelineType, tab, server, used
<1>2. CASE ServePoll
  <2>1. poll' \in PollReq BY <1>2 DEF ServePoll, PollReq, States, TypeOK
  <2>2. UNCHANGED <<tab, load, guess, ops, server, used>> BY <1>2 DEF ServePoll
  <2>3. QED BY <2>1, <2>2 DEF TypeOK, TimelineType, tab, server, used
<1>3. CASE getStateAnswer
  <2>1. /\ poll # None /\ poll' = None
        /\ UNCHANGED <<pool, current, opened, busy, ops, server, used>>
        /\ Effects(hand' # hand \/ auto' # auto)
    BY <1>3 DEF getStateAnswer
  <2>2. poll \in PollReq BY <2>1 DEF TypeOK
  <2>3. hand' \in SUBSET Images /\ auto' \in SUBSET Images
    BY <1>3, <2>2 DEF getStateAnswer, PollReq, TypeOK
  <2> DEFINE changed == hand' # hand \/ auto' # auto
  <2>4. changed \in BOOLEAN OBVIOUS
  <2>5. Effects(changed) BY <2>1
  <2> HIDE DEF changed
  <2>6. load' \in BOOLEAN /\ guess' \in BOOLEAN /\ drafts' \in {drafts, {}}
    BY <2>4, <2>5, EffectsType
  <2>7. drafts' \in Content BY <2>6, NothingDrawn DEF TypeOK
  <2>8. QED BY <2>1, <2>3, <2>6, <2>7 DEF TypeOK, TimelineType, server, used
<1>4. QED BY <1>1, <1>2, <1>3

\* A refused claim.
LEMMA RefusedType ==
  ASSUME TypeOK, claimRefused
  PROVE  TypeOK'
<1>1. /\ refusals < MaxRefusals /\ refusals' = refusals + 1
      /\ current' \in nextTodo(done, current)
      /\ UNCHANGED <<pool, hand, auto, opened, busy, poll, ops, server, edits, opCount, others>>
      /\ Effects(FALSE)
  BY DEF claimRefused
<1>2. load' \in BOOLEAN /\ guess' \in BOOLEAN /\ drafts' \in {drafts, {}} BY <1>1, EffectsType
<1>3. drafts' \in Content BY <1>2, NothingDrawn DEF TypeOK
<1>4. refusals' \in 0..MaxRefusals BY <1>1, CanvasAssumption DEF TypeOK
<1>5. current' \in Images \cup {None} BY <1>1, NextTodoType
<1>6. QED BY <1>1, <1>2, <1>3, <1>4, <1>5 DEF TypeOK, TimelineType, server

\* A guarded operation begins.
LEMMA GuardShape ==
  ASSUME TypeOK, saveLabel \/ saveReview \/ teachFromReview \/ runAuto
  PROVE  \E op \in Op : guard(op) /\ op.boxes \subseteq pool.boxes /\ op.img = current /\ op.st = "sent"
<1>1. pool.boxes \in Content /\ current \in Images \cup {None} BY DEF TypeOK, TimelineType
<1>2. ASSUME NEW kind \in Kinds, NEW boxes \in Content, NEW mode \in {"replace", "update"},
             opCount < MaxOps
      PROVE  NewOp(kind, boxes, mode) \in Op
  <2>1. opCount + 1 \in 0..MaxOps BY <1>2, CanvasAssumption DEF TypeOK
  <2>2. QED BY <1>1, <2>1 DEF NewOp, Op, States
<1>3. CASE saveLabel
  <2>1. PICK mode \in {"replace", "update"} : guard(NewOp("label", pool.boxes, mode))
    BY <1>3 DEF saveLabel
  <2>2. NewOp("label", pool.boxes, mode) \in Op BY <1>1, <1>2, <2>1 DEF guard, Kinds
  <2>3. QED BY <2>1, <2>2 DEF NewOp
<1>4. CASE saveReview
  <2>1. PICK mode \in {"replace", "update"} : guard(NewOp("review", pool.boxes, mode))
    BY <1>4 DEF saveReview
  <2>2. NewOp("review", pool.boxes, mode) \in Op BY <1>1, <1>2, <2>1 DEF guard, Kinds
  <2>3. QED BY <2>1, <2>2 DEF NewOp
<1>5. CASE teachFromReview
  <2>1. guard(NewOp("teach", pool.boxes, "replace")) BY <1>5 DEF teachFromReview
  <2>2. NewOp("teach", pool.boxes, "replace") \in Op BY <1>1, <1>2, <2>1 DEF guard, Kinds
  <2>3. QED BY <2>1, <2>2 DEF NewOp
<1>6. CASE runAuto
  <2> DEFINE op == [NewOp("auto", {}, "replace") EXCEPT !.hand = Images \ done]
  <2>1. guard(op) BY <1>6 DEF runAuto
  <2>2. NewOp("auto", {}, "replace") \in Op BY <1>2, <2>1, NothingDrawn DEF guard, Kinds
  <2>3. op \in Op BY <2>2 DEF Op
  <2>4. op.boxes = {} /\ op.img = current /\ op.st = "sent" BY DEF NewOp
  <2>5. QED BY <2>1, <2>3, <2>4
<1>7. QED BY <1>3, <1>4, <1>5, <1>6

LEMMA GuardType ==
  ASSUME TypeOK, saveLabel \/ saveReview \/ teachFromReview \/ runAuto \/ saveNothing
  PROVE  TypeOK'
<1>1. CASE saveNothing
  BY <1>1 DEF saveNothing, TypeOK, TimelineType, asked, server, used
<1>2. CASE saveLabel \/ saveReview \/ teachFromReview \/ runAuto
  <2>1. PICK op \in Op : guard(op) BY <1>2, GuardShape
  <2>2. opCount' \in 0..MaxOps BY <2>1, CanvasAssumption DEF guard, TypeOK
  <2>3. ops' \subseteq Op BY <2>1 DEF guard, TypeOK
  <2>4. QED BY <2>1, <2>2, <2>3 DEF guard, TypeOK, TimelineType, server
<1>3. QED BY <1>1, <1>2

\* The server's side of an operation.
LEMMA ServeType ==
  ASSUME TypeInv, NEW op \in ops, ServeOp(op)
  PROVE  TypeOK'
<1>1. op \in Op /\ TypeOK BY DEF TypeInv, TypeOK
<1>2. /\ stored' \in [Images -> Content] /\ srvHand' \in SUBSET Images /\ srvAuto' \in SUBSET Images
  <2>1. CASE op.kind = "open" BY <1>1, <2>1 DEF ServeOp, TypeOK, server
  <2>2. CASE op.kind \in Saves
    <3>1. /\ stored' = [stored EXCEPT ![op.img] =
                          IF op.mode = "update" THEN @ \cup op.boxes ELSE op.boxes]
          /\ srvHand' = srvHand \cup {op.img} /\ srvAuto' = srvAuto \ {op.img}
      BY <2>2 DEF ServeOp, Saves
    <3>2. op.img \in Images BY <2>2 DEF TypeInv, OpsFit
    <3>3. (IF op.mode = "update" THEN stored[op.img] \cup op.boxes ELSE op.boxes) \in Content
      BY <1>1, <3>2, CanvasAssumption DEF TypeOK, Op
    <3>4. stored' \in [Images -> Content] BY <1>1, <3>1, <3>2, <3>3 DEF TypeOK
    <3>5. QED BY <1>1, <3>1, <3>2, <3>4 DEF TypeOK
  <2>3. CASE op.kind = "auto"
    <3>1. PICK found \in SUBSET op.hand :
            /\ stored' = [i \in Images |-> IF i \in found THEN {i} ELSE stored[i]]
            /\ srvAuto' = srvAuto \cup (found \ srvHand)
            /\ srvHand' = srvHand
      BY <2>3 DEF ServeOp
    <3>2. found \subseteq Images BY <1>1, <3>1 DEF Op
    <3>3. \A i \in Images : {i} \in Content BY CanvasAssumption
    <3>4. QED BY <1>1, <3>1, <3>2, <3>3 DEF TypeOK
  <2>4. QED BY <2>1, <2>2, <2>3 DEF ServeOp, Saves
<1>3. ops' \subseteq Op
  <2>1. [op EXCEPT !.st = "served", !.hand = srvHand', !.auto = srvAuto'] \in Op
    BY <1>1, <1>2 DEF Op, States
  <2>2. QED BY <1>1, <2>1 DEF ServeOp, TypeOK
<1>4. UNCHANGED <<tab, load, guess, poll, used>> BY DEF ServeOp
<1>5. QED BY <1>1, <1>2, <1>3, <1>4 DEF TypeOK, TimelineType, tab, used

\* The answer of an operation: the canvas is kept, or cleared for an image
\* that comes up.
LEMMA AnswerShape ==
  ASSUME TypeOK, NEW op \in ops, OpAnswer(op)
  PROVE  /\ \/ UNCHANGED <<pool, current, edits>>
            \/ Reset({}) /\ edits' = 0 /\ current' \in Images \cup {None}
         /\ hand' = op.hand /\ auto' = op.auto /\ ops' = ops \ {op} /\ op \in Op
         /\ busy' = FALSE /\ opened' = TRUE
         /\ UNCHANGED <<poll, server, opCount, others, refusals>>
         /\ Effects(TRUE)
<1>1. op \in Op BY DEF TypeOK
<1>2. op.hand \subseteq Images /\ op.auto \subseteq Images /\ op.kind \in Kinds BY <1>1 DEF Op
<1>3. \/ UNCHANGED <<pool, current, edits>>
      \/ Reset({}) /\ edits' = 0 /\ current' \in Images \cup {None}
  <2>1. CASE op.kind = "open" BY <1>2, <2>1 DEF OpAnswer
  <2>2. CASE op.kind = "label" BY <2>2, NextTodoType DEF OpAnswer
  <2>3. CASE op.kind \in {"review", "teach"} BY <1>2, <2>3 DEF OpAnswer, afterCorrection
  <2>4. CASE op.kind = "auto" BY <1>2, <2>4 DEF OpAnswer
  <2>5. QED BY <1>2, <2>1, <2>2, <2>3, <2>4 DEF Kinds
<1>4. QED BY <1>1, <1>3 DEF OpAnswer

LEMMA AnswerType ==
  ASSUME TypeOK, NEW op \in ops, OpAnswer(op)
  PROVE  TypeOK'
<1>1. /\ \/ UNCHANGED <<pool, current, edits>>
         \/ Reset({}) /\ edits' = 0 /\ current' \in Images \cup {None}
      /\ hand' = op.hand /\ auto' = op.auto /\ ops' = ops \ {op} /\ op \in Op
      /\ busy' = FALSE /\ opened' = TRUE
      /\ UNCHANGED <<poll, server, opCount, others, refusals>>
      /\ Effects(TRUE)
  BY AnswerShape
<1>2. TimelineType' BY <1>1, Keeps, NothingDrawn DEF TypeOK
<1>3. current' \in Images \cup {None} /\ edits' \in 0..MaxEdits
  BY <1>1, CanvasAssumption DEF TypeOK
<1>4. load' \in BOOLEAN /\ guess' \in BOOLEAN /\ drafts' \in {drafts, {}} BY <1>1, EffectsType
<1>5. drafts' \in Content BY <1>4, NothingDrawn DEF TypeOK
<1>6. hand' \in SUBSET Images /\ auto' \in SUBSET Images BY <1>1 DEF Op
<1>7. QED BY <1>1, <1>2, <1>3, <1>4, <1>5, <1>6 DEF TypeOK, server

\* A lost operation, and the other annotator.
LEMMA RestType ==
  ASSUME TypeOK, (\E op \in ops : OpFails(op)) \/ (\E i \in Images : OtherLabels(i))
  PROVE  TypeOK'
<1>1. CASE \E op \in ops : OpFails(op)
  BY <1>1 DEF OpFails, TypeOK, TimelineType, server, used
<1>2. ASSUME NEW i \in Images, OtherLabels(i) PROVE TypeOK'
  <2>1. /\ stored' = [stored EXCEPT ![i] = {i}] /\ others < MaxOthers /\ others' = others + 1
        /\ srvHand' = srvHand \cup {i} /\ srvAuto' = srvAuto \ {i}
        /\ UNCHANGED <<tab, asked, edits, opCount, refusals>>
    BY <1>2 DEF OtherLabels
  <2>2. {i} \in Content BY CanvasAssumption
  <2>3. stored' \in [Images -> Content] BY <2>1, <2>2 DEF TypeOK
  <2>4. others' \in 0..MaxOthers BY <2>1, CanvasAssumption DEF TypeOK
  <2>5. QED BY <2>1, <2>3, <2>4 DEF TypeOK, TimelineType, tab, asked
<1>3. QED BY <1>1, <1>2

-----------------------------------------------------------------------------
(***************************************************************************)
(* What is asked for fits the image on screen.                             *)
(***************************************************************************)
\* Saves are of images.
LEMMA OpsStep == ASSUME TypeInv, [Next]_vars PROVE OpsFit'
<1>1. CASE UNCHANGED ops BY <1>1 DEF TypeInv, OpsFit
<1>2. CASE saveLabel \/ saveReview \/ teachFromReview \/ runAuto
  <2>1. PICK op : ops' = ops \cup {op} /\ (op.kind \in Saves => op.img \in Images)
    <3>1. CASE saveLabel \/ saveReview \/ teachFromReview
      <4>1. current \in Images
        BY <3>1 DEF saveLabel, saveReview, teachFromReview, TypeInv, TypeOK
      <4>2. CASE saveLabel
        <5>1. PICK mode : guard(NewOp("label", pool.boxes, mode)) BY <4>2 DEF saveLabel
        <5>2. NewOp("label", pool.boxes, mode).img = current BY DEF NewOp
        <5>3. QED BY <4>1, <5>1, <5>2 DEF guard
      <4>3. CASE saveReview
        <5>1. PICK mode : guard(NewOp("review", pool.boxes, mode)) BY <4>3 DEF saveReview
        <5>2. NewOp("review", pool.boxes, mode).img = current BY DEF NewOp
        <5>3. QED BY <4>1, <5>1, <5>2 DEF guard
      <4>4. CASE teachFromReview
        <5>1. guard(NewOp("teach", pool.boxes, "replace")) BY <4>4 DEF teachFromReview
        <5>2. NewOp("teach", pool.boxes, "replace").img = current BY DEF NewOp
        <5>3. QED BY <4>1, <5>1, <5>2 DEF guard
      <4>5. QED BY <3>1, <4>2, <4>3, <4>4
    <3>2. CASE runAuto
      <4> DEFINE op == [NewOp("auto", {}, "replace") EXCEPT !.hand = Images \ done]
      <4>1. guard(op) BY <3>2 DEF runAuto
      <4>2. op.kind = "auto" BY DEF NewOp
      <4> HIDE DEF op
      <4>3. op.kind \notin Saves BY <4>2 DEF Saves
      <4>4. QED BY <4>1, <4>3 DEF guard
    <3>3. QED BY <1>2, <3>1, <3>2
  <2>2. \A o \in ops' : o \in ops \/ o = op BY <2>1
  <2>3. QED BY <2>1, <2>2 DEF TypeInv, OpsFit
<1>3. CASE \E op \in ops : ServeOp(op)
  <2>1. PICK op \in ops : ServeOp(op) BY <1>3
  <2> DEFINE new == [op EXCEPT !.st = "served", !.hand = srvHand', !.auto = srvAuto']
  <2>2. ops' = (ops \ {op}) \cup {new} BY <2>1 DEF ServeOp
  <2>3. op \in Op BY DEF TypeInv, TypeOK
  <2>4. new.kind = op.kind /\ new.img = op.img BY <2>3 DEF Op
  <2> HIDE DEF new
  <2>5. QED BY <2>2, <2>4 DEF TypeInv, OpsFit
<1>4. CASE \E op \in ops : OpAnswer(op) \/ OpFails(op)
  BY <1>4 DEF OpAnswer, OpFails, TypeInv, OpsFit
<1>5. CASE Draw \/ Erase \/ Clear \/ CopyLast \/ acceptDrafts
  BY <1>1, <1>5, EditShape DEF asked, TypeInv
<1>6. CASE dropDraft \/ UndoRedo BY <1>1, <1>6 DEF dropDraft, UndoRedo, asked
<1>7. CASE Skip \/ \E p \in Images : goToImage(p)
  BY <1>1, <1>7 DEF Skip, goToImage
<1>8. CASE \/ getBoxesAnswer \/ getBoxesFails \/ predictAnswer \/ pull \/ ServePoll
           \/ getStateAnswer \/ claimRefused \/ saveNothing
  BY <1>1, <1>8 DEF getBoxesAnswer, getBoxesFails, predictAnswer, pull, ServePoll,
                    getStateAnswer, claimRefused, saveNothing, asked
<1>9. CASE (\E i \in Images : OtherLabels(i)) \/ UNCHANGED vars
  BY <1>1, <1>9 DEF OtherLabels, asked, vars
<1>10. QED BY <1>2, <1>3, <1>4, <1>5, <1>6, <1>7, <1>8, <1>9 DEF Next

\* Steps that ask for nothing and leave the image alone.
LEMMA FitKept ==
  ASSUME TypeInv, UNCHANGED <<current, hand, auto, load, guess>>,
         drafts' \in {drafts, {}}
  PROVE  LoadFits' /\ GuessesFit'
BY DEF TypeInv, LoadFits, GuessesFit, done

\* What arrives is for the image on screen.
LEMMA FitArrived ==
  ASSUME TypeInv, getBoxesAnswer \/ getBoxesFails \/ predictAnswer \/ dropDraft
  PROVE  LoadFits' /\ GuessesFit'
<1>1. CASE getBoxesAnswer
  BY <1>1 DEF getBoxesAnswer, TypeInv, LoadFits, GuessesFit, done
<1>2. CASE getBoxesFails
  BY <1>2 DEF getBoxesFails, tab, TypeInv, LoadFits, GuessesFit, done
<1>3. CASE predictAnswer
  BY <1>3 DEF predictAnswer, TypeInv, LoadFits, GuessesFit, done
<1>4. CASE dropDraft
  <2>1. PICK d \in drafts : drafts' = drafts \ {d} BY <1>4 DEF dropDraft
  <2>2. drafts = {current} BY <2>1 DEF TypeInv, GuessesFit
  <2>3. drafts' = {} BY <2>1, <2>2
  <2>4. UNCHANGED <<current, hand, auto, load, guess>> BY <1>4 DEF dropDraft, asked
  <2>5. QED BY <2>3, <2>4, FitKept
<1>5. QED BY <1>1, <1>2, <1>3, <1>4

LEMMA FitStep == ASSUME TypeInv, [Next]_vars PROVE LoadFits' /\ GuessesFit'
<1>1. CASE UNCHANGED <<current, hand, auto, load, guess>> /\ drafts' \in {drafts, {}}
  BY <1>1, FitKept
<1>2. CASE Draw \/ Erase \/ Clear \/ CopyLast \/ acceptDrafts
  BY <1>1, <1>2, EditShape DEF asked, TypeInv
<1>3. CASE getBoxesAnswer \/ getBoxesFails \/ predictAnswer \/ dropDraft
  BY <1>3, FitArrived
<1>4. CASE Skip \/ \E p \in Images : goToImage(p)
  <2>1. PICK p \in Images \cup {None} : goToImage(p) BY <1>4, GoShape DEF TypeInv
  <2>2. Effects(FALSE) /\ hand' = hand /\ auto' = auto BY <2>1 DEF goToImage
  <2>3. QED BY <2>2, EffectsFit
<1>5. CASE claimRefused
  <2>1. Effects(FALSE) /\ hand' = hand /\ auto' = auto BY <1>5 DEF claimRefused
  <2>2. QED BY <2>1, EffectsFit
<1>6. CASE getStateAnswer
  <2> DEFINE changed == hand' # hand \/ auto' # auto
  <2>1. Effects(changed) BY <1>6 DEF getStateAnswer
  <2>2. changed \in BOOLEAN OBVIOUS
  <2>3. hand' # hand \/ auto' # auto => changed OBVIOUS
  <2> HIDE DEF changed
  <2>4. QED BY <2>1, <2>2, <2>3, EffectsFit
<1>7. CASE \E op \in ops : OpAnswer(op)
  <2>1. Effects(TRUE) BY <1>7 DEF OpAnswer
  <2>2. QED BY <2>1, EffectsFit
<1>8. CASE \E op \in ops : ServeOp(op) \/ OpFails(op)
  BY <1>1, <1>8 DEF ServeOp, OpFails, tab
<1>9. CASE saveLabel \/ saveReview \/ teachFromReview \/ runAuto
  BY <1>1, <1>9, GuardShape DEF TypeInv, guard
<1>10. CASE saveNothing \/ pull \/ ServePoll \/ UndoRedo \/ (\E i \in Images : OtherLabels(i))
  BY <1>1, <1>10 DEF saveNothing, pull, ServePoll, UndoRedo, OtherLabels, asked, tab
<1>11. CASE UNCHANGED vars BY <1>1, <1>11 DEF vars, tab, asked
<1>12. QED
  BY <1>2, <1>3, <1>4, <1>5, <1>6, <1>7, <1>8, <1>9, <1>10, <1>11 DEF Next

\* Types.
LEMMA TypeStep == ASSUME TypeInv, [Next]_vars PROVE TypeOK'
<1>1. TypeOK BY DEF TypeInv
<1>2. CASE Draw \/ Erase \/ Clear \/ CopyLast \/ acceptDrafts \/ dropDraft \/ UndoRedo
  BY <1>1, <1>2, CanvasType
<1>3. CASE Skip \/ \E p \in Images : goToImage(p) BY <1>1, <1>3, GoShape, GoType
<1>4. CASE getBoxesAnswer \/ getBoxesFails \/ predictAnswer BY <1>4, LoadType
<1>5. CASE pull \/ ServePoll \/ getStateAnswer BY <1>1, <1>5, PollType
<1>6. CASE claimRefused BY <1>1, <1>6, RefusedType
<1>7. CASE saveLabel \/ saveReview \/ teachFromReview \/ runAuto \/ saveNothing
  BY <1>1, <1>7, GuardType
<1>8. CASE \E op \in ops : ServeOp(op) BY <1>8, ServeType
<1>9. CASE \E op \in ops : OpAnswer(op) BY <1>1, <1>9, AnswerType
<1>10. CASE (\E op \in ops : OpFails(op)) \/ (\E i \in Images : OtherLabels(i))
  BY <1>1, <1>10, RestType
<1>11. CASE UNCHANGED vars
  BY <1>1, <1>11 DEF vars, tab, asked, server, used, TypeOK, TimelineType
<1>12. QED
  BY <1>2, <1>3, <1>4, <1>5, <1>6, <1>7, <1>8, <1>9, <1>10, <1>11 DEF Next

LEMMA TypeInvInit == Init => TypeInv
<1> SUFFICES ASSUME Init PROVE TypeInv OBVIOUS
<1>1. TimelineType BY EmptyIsTimeline, TypeIsTimeline, TimelineAssumption DEF Init
<1> DEFINE first == [id |-> 0, kind |-> "open", img |-> None, boxes |-> {}, mode |-> "replace",
                     st |-> "sent", hand |-> {}, auto |-> {}]
<1>2. ops = {first} BY DEF Init
<1>3. first \in Op BY NothingDrawn, CanvasAssumption DEF Op, Kinds, States
<1>4. first.kind = "open" OBVIOUS
<1> HIDE DEF first
<1>5. PICK h \in SUBSET Images : \E a \in SUBSET (Images \ h) :
        /\ srvHand = h /\ srvAuto = a
        /\ stored = [i \in Images |-> IF i \in h \cup a THEN {i} ELSE {}]
  BY DEF Init
<1>6. srvHand \in SUBSET Images /\ srvAuto \in SUBSET Images BY <1>5
<1>7. stored \in [Images -> Content] BY <1>5, CanvasAssumption
<1>8. TypeOK
  <2>1. /\ current = None /\ hand = {} /\ auto = {} /\ opened = FALSE /\ busy = TRUE
        /\ drafts = {} /\ load = FALSE /\ guess = FALSE /\ poll = None
        /\ edits = 0 /\ opCount = 0 /\ others = 0 /\ refusals = 0
    BY DEF Init
  <2>2. {hand, auto, srvHand, srvAuto} \subseteq SUBSET Images BY <1>6, <2>1
  <2>3. edits \in 0..MaxEdits /\ opCount \in 0..MaxOps /\ others \in 0..MaxOthers
        /\ refusals \in 0..MaxRefusals
    BY <2>1, CanvasAssumption
  <2>4. ops \subseteq Op BY <1>2, <1>3
  <2>5. drafts \in Content BY <2>1, NothingDrawn
  <2>6. QED BY <1>1, <1>7, <2>1, <2>2, <2>3, <2>4, <2>5 DEF TypeOK
<1>9. OpsFit BY <1>2, <1>4 DEF OpsFit, Saves
<1>10. LoadFits /\ GuessesFit BY DEF Init, LoadFits, GuessesFit
<1>11. QED BY <1>8, <1>9, <1>10 DEF TypeInv

LEMMA TypeInvStep == TypeInv /\ [Next]_vars => TypeInv'
BY TypeStep, OpsStep, FitStep DEF TypeInv

LEMMA TypeInvHolds == Spec => []TypeInv
BY TypeInvInit, TypeInvStep, PTL DEF Spec

\* The state of the tab, its requests and the server are well-typed in every
\* reachable state (session.ts:130-225).
THEOREM TypeCorrect == Spec => []TypeOK
<1>1. TypeInv => TypeOK BY DEF TypeInv
<1>2. QED BY <1>1, TypeInvHolds, PTL

\* Guesses are shown, and asked for, only for the image on screen and only
\* while nobody has labeled it (session.ts:501-512).
THEOREM GuessesAlwaysFit == Spec => []GuessesFit
<1>1. TypeInv => GuessesFit BY DEF TypeInv
<1>2. QED BY <1>1, TypeInvHolds, PTL

-----------------------------------------------------------------------------
(***************************************************************************)
(* Every box belongs to its image.                                         *)
(***************************************************************************)
PoolOn   == IsTimeline(pool, SUBSET {current})
OpsOn    == \A op \in ops : op.boxes \subseteq {op.img}
StoredOn == \A i \in Images : stored[i] \subseteq {i}

OnIt == PoolOn /\ OpsOn /\ StoredOn

StrayInv == TypeInv /\ (refusals = 0 => OnIt)

\* A sequence of boxes of an image, seen as a whole or one by one.
LEMMA SeqOneByOne ==
  ASSUME NEW S, NEW T, NEW s \in Seq(S), \A k \in DOMAIN s : s[k] \in T
  PROVE  s \in Seq(T)
<1>1. Len(s) \in Nat /\ DOMAIN s = 1..Len(s) /\ s \in [1..Len(s) -> S] BY LenProperties
<1>2. s \in [1..Len(s) -> T] BY <1>1
<1>3. QED BY <1>1, <1>2, SeqDef

LEMMA OnItIsOnItsImage == TypeInv => (OnIt <=> OnItsImage)
<1> SUFFICES ASSUME TypeInv PROVE OnIt <=> OnItsImage OBVIOUS
<1> DEFINE C == SUBSET {current}
<1> DEFINE Part == \A c \in {pool.boxes} \cup {pool.past[k] : k \in DOMAIN pool.past}
                           \cup {pool.future[k] : k \in DOMAIN pool.future} : c \subseteq {current}
<1>1. /\ pool \in [boxes : Content, past : Seq(Content), future : Seq(Content)]
      /\ Len(pool.past) + Len(pool.future) <= Limit
  BY DEF TypeInv, TypeOK, TimelineType
<1>2. ASSUME PoolOn PROVE Part
  <2>1. pool.boxes \in C /\ pool.past \in Seq(C) /\ pool.future \in Seq(C)
    BY <1>2, PartsOfTimeline DEF PoolOn
  <2>2. /\ DOMAIN pool.past = 1..Len(pool.past) /\ DOMAIN pool.future = 1..Len(pool.future)
    BY <2>1, LenProperties
  <2>3. (\A k \in DOMAIN pool.past : pool.past[k] \in C) /\ (\A k \in DOMAIN pool.future : pool.future[k] \in C)
    BY <2>1, <2>2, ElementOfSeq
  <2>4. QED BY <2>1, <2>3
<1>3. ASSUME Part PROVE PoolOn
  <2>1. pool.boxes \in C /\ (\A k \in DOMAIN pool.past : pool.past[k] \in C)
        /\ (\A k \in DOMAIN pool.future : pool.future[k] \in C)
    BY <1>3
  <2>2. pool.past \in Seq(C) /\ pool.future \in Seq(C) BY <1>1, <2>1, SeqOneByOne
  <2>3. pool \in [boxes : C, past : Seq(C), future : Seq(C)] BY <1>1, <2>1, <2>2
  <2>4. QED BY <1>1, <2>3 DEF PoolOn, IsTimeline
<1>4. OnItsImage <=> Part /\ OpsOn /\ StoredOn BY DEF OnItsImage, OpsOn, StoredOn
<1> HIDE DEF Part
<1>5. QED BY <1>2, <1>3, <1>4 DEF OnIt

\* The canvas, while nothing strays.
LEMMA PoolOnStep ==
  ASSUME TypeInv, OnIt, [Next]_vars, ~claimRefused
  PROVE  PoolOn'
<1> DEFINE C == SUBSET {current}
<1>1. TypeOK /\ IsTimeline(pool, C) BY DEF TypeInv, OnIt, PoolOn
<1>2. pool.boxes \in C BY <1>1, PartsOfTimeline
<1>3. CASE UNCHANGED <<pool, current>> BY <1>3 DEF OnIt, PoolOn
<1>4. CASE Draw \/ Erase \/ Clear \/ CopyLast \/ acceptDrafts
  <2>1. PICK next \in Content :
          /\ Set(next) /\ current' = current
          /\ next \subseteq pool.boxes \cup drafts \cup {current}
    BY <1>1, <1>4, EditShape
  <2>2. drafts \subseteq {current} BY DEF TypeInv, GuessesFit
  <2>3. next \in C BY <1>2, <2>1, <2>2
  <2>4. IsTimeline(pool', C) BY <1>1, <2>1, <2>3, SetKeeps
  <2>5. QED BY <2>1, <2>4 DEF PoolOn
<1>5. CASE UndoRedo
  <2>1. (Undo \/ Redo) /\ current' = current BY <1>5 DEF UndoRedo
  <2>2. IsTimeline(pool', C) BY <1>1, <2>1, UndoKeeps, RedoKeeps
  <2>3. QED BY <2>1, <2>2 DEF PoolOn
<1>6. ASSUME Reset({}) PROVE PoolOn'
  <2>1. PICK c : c = current' OBVIOUS
  <2>2. {} \in SUBSET {c} OBVIOUS
  <2>3. IsTimeline(pool', SUBSET {c}) BY <1>6, <2>2, ResetKeeps
  <2>4. QED BY <2>1, <2>3 DEF PoolOn
<1>7. CASE Skip \/ \E p \in Images : goToImage(p)
  BY <1>1, <1>6, <1>7, GoShape DEF goToImage
<1>8. CASE \E op \in ops : OpAnswer(op)
  <2>1. UNCHANGED <<pool, current>> \/ Reset({}) BY <1>1, <1>8, AnswerShape
  <2>2. QED BY <1>3, <1>6, <2>1
<1>9. CASE getBoxesAnswer
  <2>1. load /\ Reset(stored[current]) /\ current' = current BY <1>9 DEF getBoxesAnswer
  <2>2. current \in Images BY <2>1 DEF TypeInv, LoadFits, done, TypeOK
  <2>3. stored[current] \in C BY <2>2 DEF OnIt, StoredOn
  <2>4. IsTimeline(pool', C) BY <2>1, <2>3, ResetKeeps
  <2>5. QED BY <2>1, <2>4 DEF PoolOn
<1>10. CASE saveLabel \/ saveReview \/ teachFromReview \/ runAuto
  BY <1>1, <1>3, <1>10, GuardShape DEF guard
<1>11. CASE \E op \in ops : ServeOp(op) \/ OpFails(op)
  BY <1>3, <1>11 DEF ServeOp, OpFails, tab
<1>12. CASE \/ dropDraft \/ getBoxesFails \/ predictAnswer \/ pull \/ ServePoll
            \/ getStateAnswer \/ saveNothing
  BY <1>3, <1>12 DEF dropDraft, getBoxesFails, predictAnswer, pull, ServePoll,
                     getStateAnswer, saveNothing, tab
<1>13. CASE (\E i \in Images : OtherLabels(i)) \/ UNCHANGED vars
  BY <1>3, <1>13 DEF OtherLabels, vars, tab
<1>14. QED
  BY <1>4, <1>5, <1>7, <1>8, <1>9, <1>10, <1>11, <1>12, <1>13 DEF Next

\* What is on its way to the server.
LEMMA OpsOnStep ==
  ASSUME TypeInv, OnIt, [Next]_vars
  PROVE  OpsOn'
<1>1. CASE UNCHANGED ops BY <1>1 DEF OnIt, OpsOn
<1>2. CASE saveLabel \/ saveReview \/ teachFromReview \/ runAuto
  <2>1. PICK op \in Op : guard(op) /\ op.boxes \subseteq pool.boxes /\ op.img = current
    BY <1>2, GuardShape DEF TypeInv
  <2>2. pool.boxes \in SUBSET {current} BY PartsOfTimeline DEF OnIt, PoolOn
  <2>3. ops' = ops \cup {op} /\ op.boxes \subseteq {op.img} BY <2>1, <2>2 DEF guard
  <2>4. QED BY <2>3 DEF OnIt, OpsOn
<1>3. CASE \E op \in ops : ServeOp(op)
  <2>1. PICK op \in ops : ServeOp(op) BY <1>3
  <2> DEFINE new == [op EXCEPT !.st = "served", !.hand = srvHand', !.auto = srvAuto']
  <2>2. ops' = (ops \ {op}) \cup {new} BY <2>1 DEF ServeOp
  <2>3. op \in Op BY DEF TypeInv, TypeOK
  <2>4. new.boxes = op.boxes /\ new.img = op.img BY <2>3 DEF Op
  <2> HIDE DEF new
  <2>5. QED BY <2>2, <2>4 DEF OnIt, OpsOn
<1>4. CASE \E op \in ops : OpAnswer(op) \/ OpFails(op)
  BY <1>4 DEF OpAnswer, OpFails, OnIt, OpsOn
<1>5. CASE Draw \/ Erase \/ Clear \/ CopyLast \/ acceptDrafts
  BY <1>1, <1>5, EditShape DEF asked, TypeInv
<1>6. CASE dropDraft \/ UndoRedo BY <1>1, <1>6 DEF dropDraft, UndoRedo, asked
<1>7. CASE Skip \/ \E p \in Images : goToImage(p)
  BY <1>1, <1>7 DEF Skip, goToImage
<1>8. CASE \/ getBoxesAnswer \/ getBoxesFails \/ predictAnswer \/ pull \/ ServePoll
           \/ getStateAnswer \/ claimRefused \/ saveNothing
  BY <1>1, <1>8 DEF getBoxesAnswer, getBoxesFails, predictAnswer, pull, ServePoll,
                    getStateAnswer, claimRefused, saveNothing, asked
<1>9. CASE (\E i \in Images : OtherLabels(i)) \/ UNCHANGED vars
  BY <1>1, <1>9 DEF OtherLabels, asked, vars
<1>10. QED BY <1>2, <1>3, <1>4, <1>5, <1>6, <1>7, <1>8, <1>9 DEF Next

\* What the server keeps.
LEMMA StoredOnStep ==
  ASSUME TypeInv, OnIt, [Next]_vars
  PROVE  StoredOn'
<1>1. CASE UNCHANGED stored BY <1>1 DEF OnIt, StoredOn
<1>2. ASSUME NEW op \in ops, ServeOp(op) PROVE StoredOn'
  <2>1. op \in Op BY DEF TypeInv, TypeOK
  <2>2. CASE op.kind = "open" BY <1>1, <1>2, <2>2 DEF ServeOp, server
  <2>3. CASE op.kind \in Saves
    <3>1. stored' = [stored EXCEPT ![op.img] =
                       IF op.mode = "update" THEN @ \cup op.boxes ELSE op.boxes]
      BY <1>2, <2>3 DEF ServeOp, Saves
    <3>2. op.boxes \subseteq {op.img} BY DEF OnIt, OpsOn
    <3>3. stored \in [Images -> Content] /\ op.img \in Images
      BY <2>3 DEF TypeInv, TypeOK, OpsFit
    <3>4. \A i \in Images : stored'[i] \subseteq {i}
      BY <3>1, <3>2, <3>3 DEF OnIt, StoredOn
    <3>5. QED BY <3>4 DEF StoredOn
  <2>4. CASE op.kind = "auto"
    <3>1. PICK found \in SUBSET op.hand :
            stored' = [i \in Images |-> IF i \in found THEN {i} ELSE stored[i]]
      BY <1>2, <2>4 DEF ServeOp
    <3>2. QED BY <3>1 DEF OnIt, StoredOn
  <2>5. QED BY <2>1, <2>2, <2>3, <2>4 DEF Op, Kinds, Saves
<1>3. ASSUME NEW i \in Images, OtherLabels(i) PROVE StoredOn'
  <2>1. stored' = [stored EXCEPT ![i] = {i}] BY <1>3 DEF OtherLabels
  <2>2. stored \in [Images -> Content] BY DEF TypeInv, TypeOK
  <2>3. QED BY <2>1, <2>2 DEF OnIt, StoredOn
<1>4. CASE Draw \/ Erase \/ Clear \/ CopyLast \/ acceptDrafts
  BY <1>1, <1>4, EditShape DEF server, TypeInv
<1>5. CASE dropDraft \/ UndoRedo BY <1>1, <1>5 DEF dropDraft, UndoRedo, server
<1>6. CASE Skip \/ \E p \in Images : goToImage(p)
  BY <1>1, <1>6 DEF Skip, goToImage, server
<1>7. CASE \/ getBoxesAnswer \/ getBoxesFails \/ predictAnswer \/ pull \/ ServePoll
           \/ getStateAnswer \/ claimRefused \/ saveNothing
  BY <1>1, <1>7 DEF getBoxesAnswer, getBoxesFails, predictAnswer, pull, ServePoll,
                    getStateAnswer, claimRefused, saveNothing, server
<1>8. CASE saveLabel \/ saveReview \/ teachFromReview \/ runAuto
  BY <1>1, <1>8, GuardShape DEF TypeInv, guard, server
<1>9. CASE \E op \in ops : OpAnswer(op) \/ OpFails(op)
  BY <1>1, <1>9 DEF OpAnswer, OpFails, server
<1>10. CASE UNCHANGED vars BY <1>1, <1>10 DEF vars, server
<1>11. QED BY <1>2, <1>3, <1>4, <1>5, <1>6, <1>7, <1>8, <1>9, <1>10 DEF Next

\* A refusal is counted and never forgotten.
LEMMA RefusalsStep ==
  ASSUME TypeInv, [Next]_vars, refusals' = 0
  PROVE  refusals = 0 /\ ~claimRefused
<1>1. refusals \in Nat BY CanvasAssumption DEF TypeInv, TypeOK
<1>2. ~claimRefused
  <2>1. SUFFICES ASSUME claimRefused PROVE FALSE OBVIOUS
  <2>2. refusals' = refusals + 1 BY <2>1 DEF claimRefused
  <2>3. refusals + 1 # 0 BY <1>1
  <2>4. QED BY <2>2, <2>3
<1>3. CASE UNCHANGED refusals BY <1>2, <1>3
<1>4. CASE Draw \/ Erase \/ Clear \/ CopyLast \/ acceptDrafts
  BY <1>3, <1>4, EditShape DEF TypeInv
<1>5. CASE dropDraft \/ UndoRedo BY <1>3, <1>5 DEF dropDraft, UndoRedo, used
<1>6. CASE Skip \/ \E p \in Images : goToImage(p)
  BY <1>3, <1>6 DEF Skip, goToImage
<1>7. CASE \/ getBoxesAnswer \/ getBoxesFails \/ predictAnswer \/ pull \/ ServePoll
           \/ getStateAnswer \/ saveNothing
  BY <1>3, <1>7 DEF getBoxesAnswer, getBoxesFails, predictAnswer, pull, ServePoll,
                    getStateAnswer, saveNothing, used
<1>8. CASE saveLabel \/ saveReview \/ teachFromReview \/ runAuto
  BY <1>3, <1>8, GuardShape DEF TypeInv, guard
<1>9. CASE \E op \in ops : ServeOp(op) \/ OpAnswer(op) \/ OpFails(op)
  BY <1>3, <1>9 DEF ServeOp, OpAnswer, OpFails, used
<1>10. CASE (\E i \in Images : OtherLabels(i)) \/ UNCHANGED vars
  BY <1>3, <1>10 DEF OtherLabels, vars, used
<1>11. QED BY <1>2, <1>4, <1>5, <1>6, <1>7, <1>8, <1>9, <1>10 DEF Next

LEMMA StrayInvStep == StrayInv /\ [Next]_vars => StrayInv'
<1> SUFFICES ASSUME StrayInv, [Next]_vars PROVE StrayInv' OBVIOUS
<1>1. TypeInv /\ TypeInv' BY TypeInvStep DEF StrayInv
<1>2. ASSUME refusals' = 0 PROVE OnIt'
  <2>1. OnIt /\ ~claimRefused BY <1>1, <1>2, RefusalsStep DEF StrayInv
  <2>2. QED BY <1>1, <2>1, PoolOnStep, OpsOnStep, StoredOnStep DEF OnIt
<1>3. QED BY <1>1, <1>2 DEF StrayInv

LEMMA StrayInvInit == Init => StrayInv
<1> SUFFICES ASSUME Init PROVE StrayInv OBVIOUS
<1>1. PoolOn
  <2>1. Blank \in SUBSET {current} BY CanvasAssumption
  <2>2. QED BY <2>1, EmptyIsTimeline DEF PoolOn, Init
<1>2. OpsOn BY DEF Init, OpsOn
<1>3. StoredOn
  <2>1. PICK h \in SUBSET Images : \E a \in SUBSET (Images \ h) :
          stored = [i \in Images |-> IF i \in h \cup a THEN {i} ELSE {}]
    BY DEF Init
  <2>2. QED BY <2>1 DEF StoredOn
<1>4. QED BY <1>1, <1>2, <1>3, TypeInvInit DEF StrayInv, OnIt

\* As long as the server refuses no claim, every box on screen, in what undo
\* can bring back, on its way to the server and in a stored label was drawn on
\* the image it is kept for, in every order of answers, polls and passes
\* (session.ts:488, 632-636, 654-668, 744-748).
THEOREM NothingStrays == Spec => []StraysOnlyByRefusal
<1>1. StrayInv => StraysOnlyByRefusal
  BY OnItIsOnItsImage DEF StrayInv, StraysOnlyByRefusal
<1>2. QED BY <1>1, StrayInvInit, StrayInvStep, PTL DEF Spec

-----------------------------------------------------------------------------
(***************************************************************************)
(* The canvas keeps the promise of undo and redo.                          *)
(***************************************************************************)
LEMMA CanvasStep ==
  ASSUME TypeInv, [Next]_vars
  PROVE  [TimelineNext]_pool
<1>1. TypeOK BY DEF TypeInv
<1>2. CASE UNCHANGED pool BY <1>2
<1>3. CASE Draw \/ Erase \/ Clear \/ CopyLast \/ acceptDrafts
  <2>1. PICK next \in Content : Set(next) BY <1>1, <1>3, EditShape
  <2>2. QED BY <2>1 DEF TimelineNext
<1>4. CASE UndoRedo BY <1>4 DEF UndoRedo, TimelineNext
<1>5. ASSUME Reset({}) PROVE TimelineNext BY <1>5, NothingDrawn DEF TimelineNext
<1>6. CASE Skip \/ \E p \in Images : goToImage(p)
  BY <1>1, <1>5, <1>6, GoShape DEF goToImage
<1>7. CASE \E op \in ops : OpAnswer(op)
  <2>1. UNCHANGED pool \/ Reset({}) BY <1>1, <1>7, AnswerShape
  <2>2. QED BY <1>5, <2>1
<1>8. CASE getBoxesAnswer
  <2>1. load /\ Reset(stored[current]) BY <1>8 DEF getBoxesAnswer
  <2>2. current \in Images BY <2>1 DEF TypeInv, LoadFits, done, TypeOK
  <2>3. stored[current] \in Content BY <1>1, <2>2 DEF TypeOK
  <2>4. QED BY <2>1, <2>3 DEF TimelineNext
<1>9. CASE saveLabel \/ saveReview \/ teachFromReview \/ runAuto
  BY <1>1, <1>2, <1>9, GuardShape DEF guard
<1>10. CASE \E op \in ops : ServeOp(op) \/ OpFails(op)
  BY <1>2, <1>10 DEF ServeOp, OpFails, tab
<1>11. CASE \/ dropDraft \/ getBoxesFails \/ predictAnswer \/ pull \/ ServePoll
            \/ getStateAnswer \/ saveNothing \/ claimRefused
  BY <1>2, <1>11 DEF dropDraft, getBoxesFails, predictAnswer, pull, ServePoll,
                     getStateAnswer, saveNothing, claimRefused, tab
<1>12. CASE (\E i \in Images : OtherLabels(i)) \/ UNCHANGED vars
  BY <1>2, <1>12 DEF OtherLabels, vars, tab
<1>13. QED
  BY <1>3, <1>4, <1>6, <1>7, <1>8, <1>9, <1>10, <1>11, <1>12 DEF Next

\* Whatever arrives, whatever the other annotator does: to the canvas it is an
\* edit, an opening, or a move along the line of states. An answer never
\* reorders what undo brings back (session.ts:42-84 under all of useSession).
THEOREM CanvasIsHistory == Spec => History!HSpec
<1>1. Init => History!HInit BY InitRefines DEF Init
<1>2. TypeInv /\ [Next]_vars => [History!HNext]_(History!hvars)
  BY CanvasStep, StepRefines DEF TypeInv, TypeOK
<1>3. QED BY <1>1, <1>2, TypeInvHolds, PTL DEF Spec, History!HSpec
=============================================================================
