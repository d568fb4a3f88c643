------------------------------- MODULE Canvas -------------------------------
(***************************************************************************)
(* The labeling canvas of one browser tab: useSession of session.ts with   *)
(* the buttons of PoolPanel and the keys of the page, against the server   *)
(* and another annotator of the same project.                              *)
(*                                                                         *)
(* React runs a handler, the state updates it makes and the effects they   *)
(* trigger before the next event, so a handler with its effects is one     *)
(* step; what awaits an answer is a request that is sent, served and       *)
(* answered in steps of their own, in any order with all others.           *)
(*                                                                         *)
(* All that the properties ask of a box is the image it was drawn on (or   *)
(* found on, by the model), so a box is that image and a canvas is the set *)
(* of images its boxes come from.  The bank already holds a class; which   *)
(* class a box gets is modelled in Labels.                                 *)
(***************************************************************************)
EXTENDS Timeline, FiniteSets

CONSTANTS Images,        \* the pool, without the benchmark set
          None,          \* no image, no request
          MaxEdits,      \* bound: edits of the canvas between two resets
          MaxOps,        \* bound: saves and auto-label passes of this tab
          MaxOthers,     \* bound: saves of the other annotator
          MaxRefusals    \* bound: claims the server refuses

ASSUME CanvasAssumption ==
  /\ Content = SUBSET Images /\ Blank = {}
  /\ None \notin Images
  /\ {MaxEdits, MaxOps, MaxOthers, MaxRefusals} \subseteq Nat

VARIABLES
  \* the tab
  current,     \* the image on screen
  hand, auto,  \* bank.labeled and bank.auto as last heard
  opened,      \* the bank has arrived
  drafts,      \* the model's guesses on screen, not part of the canvas
  busy,        \* a guarded operation disables the buttons
  \* requests; one whose effect was cleaned up has no answer and is dropped
  load,        \* GET /api/boxes is under way for the image on screen
  guess,       \* POST /api/predict is under way for the image on screen
  poll,        \* GET /api/state
  ops,         \* the guarded operations under way
  \* the server
  stored,      \* the label of each image
  srvHand, srvAuto,
  \* how much of each bound is used
  edits, opCount, others, refusals

tab    == <<pool, current, hand, auto, opened, drafts, busy>>
asked  == <<load, guess, poll, ops>>
server == <<stored, srvHand, srvAuto>>
used   == <<edits, opCount, others, refusals>>
vars   == <<tab, asked, server, used>>

States == {"sent", "served"}
PollReq  == [st : States, hand : SUBSET Images, auto : SUBSET Images]
Kinds    == {"open", "label", "review", "teach", "auto"}
Op       == [id : 0..MaxOps, kind : Kinds, img : Images \cup {None}, boxes : Content,
             mode : {"replace", "update"}, st : States,
             hand : SUBSET Images, auto : SUBSET Images]

TypeOK ==
  /\ TimelineType
  /\ current \in Images \cup {None}
  /\ {hand, auto, srvHand, srvAuto} \subseteq SUBSET Images
  /\ {opened, busy, load, guess} \subseteq BOOLEAN
  /\ drafts \in Content
  /\ poll \in PollReq \cup {None}
  /\ ops \subseteq Op
  /\ stored \in [Images -> Content]
  /\ edits \in 0..MaxEdits /\ opCount \in 0..MaxOps
  /\ others \in 0..MaxOthers /\ refusals \in 0..MaxRefusals

-----------------------------------------------------------------------------
(* What follows from the state on screen.                                  *)

done     == hand \cup auto
isReview == current \in done

(* The next image worth opening: any that is not done and not the one      *)
(* left.  The order of the queue (confidence, spread, claims) is left open. *)
nextTodo(finished, exclude) ==
  LET todo == Images \ (finished \cup {exclude})
  IN  IF todo = {} THEN {None} ELSE todo

\* Deliberate bug: the effects are keyed on the image only.
EffectsOfImage(newBank) ==
  LET finished == hand' \cup auto'
      moved    == current' # current
  IN  /\ load' = IF moved THEN current' \in finished ELSE load /\ ~newBank
      /\ guess' = IF moved THEN current' \in Images \ finished ELSE guess
      /\ drafts' = IF moved THEN {} ELSE drafts

(* The effects keyed on the image and on the bank.  The saved boxes are     *)
(* asked for only when the image changes, but their request is dropped by  *)
(* a new bank too; guesses are asked for anew after both.                  *)
Effects(newBank) ==
  LET finished == hand' \cup auto'
      moved    == current' # current
      refreshed == moved \/ newBank
  IN  /\ load' = IF moved THEN current' \in finished ELSE load /\ ~newBank
      /\ guess' = IF refreshed THEN current' \in Images \ finished ELSE guess
      /\ drafts' = IF refreshed THEN {} ELSE drafts

-----------------------------------------------------------------------------
(* The canvas.                                                             *)

Edit(next) ==
  /\ current # None /\ edits < MaxEdits
  /\ Set(next) /\ edits' = edits + 1
  /\ UNCHANGED <<current, hand, auto, opened, busy, asked, server, opCount, others, refusals>>

(* onAdd and onRemove of the canvas. *)
Draw  == Edit(pool.boxes \cup {current}) /\ UNCHANGED drafts
Erase == \E b \in pool.boxes : Edit(pool.boxes \ {b}) /\ UNCHANGED drafts

(* Escape and the Clear button. *)
Clear == Edit({}) /\ UNCHANGED drafts

(* Copy last: the boxes saved before, put on this image by hand. *)
CopyLast == opCount > 0 /\ Edit({current}) /\ UNCHANGED drafts

acceptDrafts == drafts # {} /\ Edit(pool.boxes \cup drafts) /\ drafts' = {}

dropDraft == /\ \E d \in drafts : drafts' = drafts \ {d}
             /\ UNCHANGED <<pool, current, hand, auto, opened, busy, asked, server, used>>

UndoRedo ==
  /\ Undo \/ Redo
  /\ UNCHANGED <<current, hand, auto, opened, drafts, busy, asked, server, used>>

(* goToImage: the queue, Skip and the arrow keys.  An image that is already *)
(* on screen triggers no effect.                                           *)
goToImage(p) ==
  /\ opened
  /\ Reset({}) /\ current' = p /\ edits' = 0
  /\ UNCHANGED <<hand, auto, opened, busy, poll, ops, server, opCount, others, refusals>>
  /\ Effects(FALSE)

Skip == \E p \in IF current \in auto /\ auto # {current}
                   THEN auto \ {current}
                   ELSE nextTodo(done, current) : goToImage(p)

-----------------------------------------------------------------------------
(* Requests of the effects.  Nothing here depends on when the server looks *)
(* a label up, so an answer carries the label of the moment it arrives.    *)

getBoxesAnswer ==
  /\ load /\ load' = FALSE
  /\ Reset(stored[current]) /\ edits' = 0
  /\ UNCHANGED <<current, hand, auto, opened, drafts, busy, guess, poll, ops, server,
                 opCount, others, refusals>>

getBoxesFails ==
  /\ load /\ load' = FALSE
  /\ UNCHANGED <<tab, guess, poll, ops, server, used>>

(* The model's boxes, or none, or a failure that is not shown. *)
predictAnswer ==
  /\ guess /\ guess' = FALSE
  /\ drafts' \in {drafts, {}, {current}}
  /\ UNCHANGED <<pool, current, hand, auto, opened, busy, load, poll, ops, server, used>>

(* Every 15 seconds while the tab is looked at. *)
pull ==
  /\ poll = None
  /\ poll' = [st |-> "sent", hand |-> {}, auto |-> {}]
  /\ UNCHANGED <<tab, load, guess, ops, server, used>>

ServePoll ==
  /\ poll # None /\ poll.st = "sent"
  /\ poll' = [st |-> "served", hand |-> srvHand, auto |-> srvAuto]
  /\ UNCHANGED <<tab, load, guess, ops, server, used>>

\* Deliberate bug: a poll only adds.
getStateMerged ==
  /\ poll # None /\ poll.st = "served"
  /\ poll' = None
  /\ IF opened THEN hand' = hand \cup poll.hand /\ auto' = auto \cup poll.auto
     ELSE UNCHANGED <<hand, auto>>
  /\ UNCHANGED <<pool, current, opened, busy, ops, server, used>>
  /\ Effects(hand' # hand \/ auto' # auto)

getStateAnswer ==
  /\ poll # None /\ poll.st = "served"
  /\ poll' = None
  /\ IF opened THEN hand' = poll.hand /\ auto' = poll.auto ELSE UNCHANGED <<hand, auto>>
  /\ UNCHANGED <<pool, current, opened, busy, ops, server, used>>
  /\ Effects(hand' # hand \/ auto' # auto)

(* A claim that fails moves on without clearing the canvas. *)
claimRefused ==
  /\ current \in Images \ done /\ refusals < MaxRefusals
  /\ refusals' = refusals + 1
  /\ current' \in nextTodo(done, current)
  /\ UNCHANGED <<pool, hand, auto, opened, busy, poll, ops, server, edits, opCount, others>>
  /\ Effects(FALSE)

-----------------------------------------------------------------------------
(* Guarded operations: busy while they run.  The buttons are disabled by   *)
(* busy, the Enter key is not.                                             *)

guard(op) ==
  /\ opCount < MaxOps /\ opCount' = opCount + 1
  /\ ops' = ops \cup {op}
  /\ busy' = TRUE
  /\ UNCHANGED <<pool, current, hand, auto, opened, drafts, load, guess, poll, server,
                 edits, others, refusals>>

NewOp(kind, boxes, mode) ==
  [id |-> opCount + 1, kind |-> kind, img |-> current, boxes |-> boxes, mode |-> mode,
   st |-> "sent", hand |-> {}, auto |-> {}]

saveLabel ==
  /\ current # None /\ ~isReview /\ pool.boxes # {}
  /\ \E mode \in {"replace", "update"} : guard(NewOp("label", pool.boxes, mode))

saveReview ==
  /\ current # None /\ isReview
  /\ \E mode \in {"replace", "update"} : guard(NewOp("review", pool.boxes, mode))

(* Enter with nothing to save: the guard runs to its end at once. *)
saveNothing ==
  /\ busy /\ (current = None \/ (~isReview /\ pool.boxes = {}))
  /\ busy' = FALSE
  /\ UNCHANGED <<pool, current, hand, auto, opened, drafts, asked, server, used>>

teachFromReview ==
  /\ ~busy /\ current # None /\ isReview /\ pool.boxes # {}
  /\ guard(NewOp("teach", pool.boxes, "replace"))

(* The batch is what is not done on screen now. *)
runAuto ==
  /\ ~busy /\ opened /\ Images \ done # {}
  /\ guard([NewOp("auto", {}, "replace") EXCEPT !.hand = Images \ done])

(* The server's side.  A save makes the image a hand label; the pass       *)
(* replaces the boxes of the images it finds something in and leaves the   *)
(* status of a hand label alone.                                           *)
ServeOp(op) ==
  /\ op.st = "sent"
  /\ \/ /\ op.kind = "open" /\ UNCHANGED server
     \/ /\ op.kind \in {"label", "review", "teach"}
        /\ stored' = [stored EXCEPT ![op.img] =
                        IF op.mode = "update" THEN @ \cup op.boxes ELSE op.boxes]
        /\ srvHand' = srvHand \cup {op.img}
        /\ srvAuto' = srvAuto \ {op.img}
     \/ /\ op.kind = "auto"
        /\ \E found \in SUBSET op.hand :
             /\ stored' = [i \in Images |->
                             IF i \in found THEN {i} ELSE stored[i]]
             /\ srvAuto' = srvAuto \cup (found \ srvHand)
        /\ UNCHANGED srvHand
  /\ ops' = (ops \ {op}) \cup {[op EXCEPT !.st = "served", !.hand = srvHand', !.auto = srvAuto']}
  /\ UNCHANGED <<tab, load, guess, poll, used>>

\* Deliberate bug: the next correction opens without a reset.
afterCorrectionKeeping(op) ==
  LET machine == op.auto \ {op.img}
  IN  IF machine = {} THEN UNCHANGED <<pool, current, edits>>
      ELSE current' \in machine /\ UNCHANGED <<pool, edits>>

(* afterCorrection: on to the next machine label if there is one, else stay. *)
afterCorrection(op) ==
  LET machine == op.auto \ {op.img}
  IN  IF machine = {} THEN UNCHANGED <<pool, current, edits>>
      ELSE Reset({}) /\ edits' = 0 /\ current' \in machine

OpAnswer(op) ==
  /\ op.st = "served"
  /\ ops' = ops \ {op} /\ busy' = FALSE
  /\ hand' = op.hand /\ auto' = op.auto /\ opened' = TRUE
  /\ CASE op.kind = "open" ->
            /\ Reset({}) /\ edits' = 0
            /\ current' \in IF Images \ (op.hand \cup op.auto) # {}
                              THEN Images \ (op.hand \cup op.auto) ELSE Images
       [] op.kind = "label" ->
            /\ Reset({}) /\ edits' = 0
            /\ current' \in nextTodo(op.hand \cup op.auto, op.img)
       [] op.kind \in {"review", "teach"} -> afterCorrection(op)
       [] op.kind = "auto" ->
            IF op.auto = {} THEN UNCHANGED <<pool, current, edits>>
            ELSE Reset({}) /\ edits' = 0 /\ current' \in op.auto
  /\ UNCHANGED <<poll, server, opCount, others, refusals>>
  /\ Effects(TRUE)

(* The request or its answer is lost, or the server refuses. *)
OpFails(op) ==
  /\ ops' = ops \ {op} /\ busy' = FALSE
  /\ UNCHANGED <<pool, current, hand, auto, opened, drafts, load, guess, poll, server, used>>

(* The other annotator labels an image. *)
OtherLabels(i) ==
  /\ others < MaxOthers /\ others' = others + 1
  /\ stored' = [stored EXCEPT ![i] = {i}]
  /\ srvHand' = srvHand \cup {i} /\ srvAuto' = srvAuto \ {i}
  /\ UNCHANGED <<tab, asked, edits, opCount, refusals>>

-----------------------------------------------------------------------------
Init ==
  /\ pool = EMPTY /\ current = None /\ hand = {} /\ auto = {} /\ opened = FALSE
  /\ drafts = {} /\ busy = TRUE
  /\ load = FALSE /\ guess = FALSE /\ poll = None
  /\ ops = {[id |-> 0, kind |-> "open", img |-> None, boxes |-> {}, mode |-> "replace",
             st |-> "sent", hand |-> {}, auto |-> {}]}
  /\ \E h \in SUBSET Images : \E a \in SUBSET (Images \ h) :
       /\ srvHand = h /\ srvAuto = a
       /\ stored = [i \in Images |-> IF i \in h \cup a THEN {i} ELSE {}]
  /\ edits = 0 /\ opCount = 0 /\ others = 0 /\ refusals = 0

Next ==
  \/ Draw \/ Erase \/ Clear \/ CopyLast \/ acceptDrafts \/ dropDraft \/ UndoRedo
  \/ Skip \/ \E p \in Images : goToImage(p)
  \/ getBoxesAnswer \/ getBoxesFails \/ predictAnswer
  \/ pull \/ ServePoll \/ getStateAnswer \/ claimRefused
  \/ saveLabel \/ saveReview \/ saveNothing \/ teachFromReview \/ runAuto
  \/ \E op \in ops : ServeOp(op) \/ OpAnswer(op) \/ OpFails(op)
  \/ \E i \in Images : OtherLabels(i)

Spec == Init /\ [][Next]_vars

(* The timer polls as long as the tab is looked at, and the server answers. *)
Fairness == WF_vars(pull) /\ WF_vars(ServePoll) /\ WF_vars(getStateAnswer)

FairSpec == Spec /\ Fairness

-----------------------------------------------------------------------------
(* Every box on the canvas, in its history, on its way to the server and   *)
(* in a label was drawn on the image it is kept for: what goToImage's      *)
(* reset is for.                                                           *)
OnItsImage ==
  /\ \A c \in {pool.boxes} \cup {pool.past[k] : k \in DOMAIN pool.past}
                           \cup {pool.future[k] : k \in DOMAIN pool.future} : c \subseteq {current}
  /\ \A op \in ops : op.boxes \subseteq {op.img}
  /\ \A i \in Images : stored[i] \subseteq {i}

(* As long as no claim is refused, no order of answers, polls and passes   *)
(* puts a box under another image: late answers of saves and of getBoxes   *)
(* included (session.ts:488, 654-668, 744-748).                            *)
StraysOnlyByRefusal == refusals = 0 => OnItsImage

(* The guesses on screen, and the ones asked for, are for the image on     *)
(* screen and only while nobody has labeled it: an answer for an image     *)
(* left behind, or labeled in the meantime, is dropped (session.ts:501-512). *)
GuessesFit ==
  /\ drafts # {} => drafts = {current} /\ current \notin done
  /\ guess => current \in Images \ done

(* The saved boxes of an image are on the canvas before a save replaces    *)
(* them (session.ts:468-470 opens a labeled image with its boxes).         *)
NoBlindSave ==
  [][\A op \in ops' \ ops : op.kind = "review" /\ op.mode = "replace" => ~load]_vars

(* Once nobody saves any more, what the tab believes to be labeled is what *)
(* the server holds, whatever older answers still arrived after newer ones *)
(* (session.ts:589-613).                                                   *)
TabCatchesUp == <>[](opened => hand = srvHand /\ auto = srvAuto)
=============================================================================
