------------------------------ MODULE Timeline ------------------------------
(***************************************************************************)
(* useBoxStack of session.ts: the boxes on a canvas with what undo and     *)
(* redo can bring back.  The three parts are one value, so every operation *)
(* replaces the whole timeline.  The module that extends this one owns     *)
(* the canvas; its steps say which operation happens when.                 *)
(***************************************************************************)
EXTENDS Naturals, Sequences

CONSTANTS Content,   \* what a canvas can hold: a list of boxes
          Blank,     \* the empty list
          Limit      \* the bound on past and on future (40)

ASSUME TimelineAssumption == Blank \in Content /\ Limit \in Nat \ {0}

VARIABLE pool        \* [boxes, past, future]

EMPTY == [boxes |-> Blank, past |-> <<>>, future |-> <<>>]

(* Array.slice(-n) and Array.slice(0, n). *)
LastN(s, n)  == IF Len(s) > n THEN SubSeq(s, Len(s) - n + 1, Len(s)) ELSE s
FirstN(s, n) == IF Len(s) > n THEN SubSeq(s, 1, n) ELSE s

canUndo == pool.past # <<>>
canRedo == pool.future # <<>>

\* Deliberate bug: an edit keeps what was undone.
SetKeepingFuture(next) ==
  pool' = [boxes  |-> next,
           past   |-> LastN(Append(pool.past, pool.boxes), Limit),
           future |-> pool.future]

(* An edit: the state before it can come back, what was undone cannot. *)
Set(next) ==
  pool' = [boxes  |-> next,
           past   |-> LastN(Append(pool.past, pool.boxes), Limit),
           future |-> <<>>]

(* Another image: not an edit, the timeline starts over. *)
Reset(next) == pool' = [EMPTY EXCEPT !.boxes = next]

Undo ==
  /\ canUndo
  /\ pool' = [boxes  |-> pool.past[Len(pool.past)],
              past   |-> SubSeq(pool.past, 1, Len(pool.past) - 1),
              future |-> FirstN(<<pool.boxes>> \o pool.future, Limit)]

Redo ==
  /\ canRedo
  /\ pool' = [boxes  |-> pool.future[1],
              past   |-> LastN(Append(pool.past, pool.boxes), Limit),
              future |-> Tail(pool.future)]

TimelineType ==
  /\ pool \in [boxes : Content, past : Seq(Content), future : Seq(Content)]
  /\ Len(pool.past) + Len(pool.future) <= Limit

TimelineNext == (\E c \in Content : Set(c) \/ Reset(c)) \/ Undo \/ Redo

TimelineSpec == pool = EMPTY /\ [][TimelineNext]_pool

(* The line of states a timeline stands for, and where it is on it. *)
LineOf == Append(pool.past, pool.boxes) \o pool.future
MarkOf == Len(pool.past) + 1

History == INSTANCE EditHistory WITH line <- LineOf, mark <- MarkOf
=============================================================================
