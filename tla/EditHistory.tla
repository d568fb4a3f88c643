---------------------------- MODULE EditHistory ----------------------------
(***************************************************************************)
(* What undo and redo promise, apart from how session.ts keeps it: a line  *)
(* of states and a mark on one of them.  Undo and redo only move the mark; *)
(* an edit forgets what lay ahead of it and goes one further; opening      *)
(* another image starts a new line.  The line holds the state on screen    *)
(* and at most Limit others.                                               *)
(***************************************************************************)
EXTENDS Naturals, Sequences

CONSTANTS Content,   \* what a canvas can hold
          Blank,     \* an empty canvas
          Limit      \* how many other states the line may hold

VARIABLES line,      \* the states, oldest first
          mark       \* the one on screen

hvars == <<line, mark>>

HTypeOK == /\ line \in Seq(Content)
           /\ mark \in 1..Len(line)
           /\ Len(line) <= Limit + 1

HInit == line = <<Blank>> /\ mark = 1

(* The newest n elements of a sequence. *)
Newest(s, n) == IF Len(s) > n THEN SubSeq(s, Len(s) - n + 1, Len(s)) ELSE s

HEdit(c) ==
  LET kept == Newest(SubSeq(line, 1, mark), Limit)
  IN  /\ line' = Append(kept, c)
      /\ mark' = Len(kept) + 1

HUndo == mark > 1 /\ mark' = mark - 1 /\ UNCHANGED line

HRedo == mark < Len(line) /\ mark' = mark + 1 /\ UNCHANGED line

HOpen(c) == line' = <<c>> /\ mark' = 1

(* An edit or an opening is known by what it puts on screen. *)
HNext ==
  \/ LET c == line'[mark'] IN c \in Content /\ (HEdit(c) \/ HOpen(c))
  \/ HUndo \/ HRedo

HSpec == HInit /\ [][HNext]_hvars
=============================================================================
