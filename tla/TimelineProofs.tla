--------------------------- MODULE TimelineProofs ---------------------------
(***************************************************************************)
(* For every content and every limit: the timeline keeps its bound, and it *)
(* implements the line of states with a mark on it.                        *)
(***************************************************************************)
EXTENDS Timeline, SequenceTheorems, TLAPS

-----------------------------------------------------------------------------
(***************************************************************************)
(* Slices.                                                                 *)
(***************************************************************************)
\* slice(-n): a suffix, of at most n elements.
LEMMA LastNProperties ==
  ASSUME NEW S, NEW s \in Seq(S), NEW n \in Nat
  PROVE  /\ LastN(s, n) \in Seq(S)
         /\ Len(LastN(s, n)) = IF Len(s) > n THEN n ELSE Len(s)
<1>1. Len(s) \in Nat BY LenProperties
<1>2. CASE Len(s) > n
  <2>1. /\ SubSeq(s, Len(s) - n + 1, Len(s)) \in Seq(S)
        /\ Len(SubSeq(s, Len(s) - n + 1, Len(s))) = n
    BY <1>1, <1>2, SubSeqProperties
  <2>2. QED BY <1>2, <2>1 DEF LastN
<1>3. CASE ~(Len(s) > n) BY <1>3 DEF LastN
<1>4. QED BY <1>2, <1>3

\* A sequence within the limit is not cut.
LEMMA NothingToCut ==
  ASSUME NEW S, NEW s \in Seq(S), NEW n \in Nat, Len(s) <= n
  PROVE  LastN(s, n) = s /\ FirstN(s, n) = s
<1>1. Len(s) \in Nat BY LenProperties
<1>2. ~(Len(s) > n) BY <1>1
<1>3. QED BY <1>2 DEF LastN, FirstN

\* The elements before the mark, with the one under it.
LEMMA UpToMark ==
  ASSUME NEW S, NEW p \in Seq(S), NEW b \in S, NEW f \in Seq(S)
  PROVE  SubSeq(Append(p, b) \o f, 1, Len(p) + 1) = Append(p, b)
<1>1. Append(p, b) \in Seq(S) /\ Len(Append(p, b)) = Len(p) + 1
  BY AppendProperties
<1>2. SubSeq(Append(p, b) \o f, 1, Len(Append(p, b))) = Append(p, b)
  BY <1>1, SubSeqOfConcat1, SubSeqFull
<1>3. QED BY <1>1, <1>2

\* The first n elements.
LEMMA PrefixProperties ==
  ASSUME NEW S, NEW s \in Seq(S), NEW n \in Nat, n <= Len(s)
  PROVE  /\ SubSeq(s, 1, n) \in Seq(S)
         /\ Len(SubSeq(s, 1, n)) = n
         /\ \A i \in 1..n : SubSeq(s, 1, n)[i] = s[i]
<1>1. \A i \in 1..n : s[i] \in S BY LenProperties, ElementOfSeq
<1>2. QED BY <1>1, SubSeqProperties

\* Taking the last element off and putting it back.
LEMMA FrontAndLast ==
  ASSUME NEW S, NEW p \in Seq(S), p # <<>>
  PROVE  /\ SubSeq(p, 1, Len(p) - 1) \in Seq(S)
         /\ Len(SubSeq(p, 1, Len(p) - 1)) = Len(p) - 1
         /\ p[Len(p)] \in S
         /\ Append(SubSeq(p, 1, Len(p) - 1), p[Len(p)]) = p
<1>1. Len(p) \in Nat /\ Len(p) >= 1 BY EmptySeq, LenProperties
<1>2. p[Len(p)] \in S BY <1>1, ElementOfSeq
<1> DEFINE q == SubSeq(p, 1, Len(p) - 1)
<1>3. q \in Seq(S) /\ Len(q) = Len(p) - 1 /\ \A i \in 1..Len(p) - 1 : q[i] = p[i]
  <2>1. Len(p) - 1 \in Nat /\ Len(p) - 1 <= Len(p) BY <1>1
  <2>2. QED BY <2>1, PrefixProperties
<1> HIDE DEF q
<1>4. /\ Append(q, p[Len(p)]) \in Seq(S) /\ Len(Append(q, p[Len(p)])) = Len(q) + 1
      /\ \A i \in 1..Len(q) : Append(q, p[Len(p)])[i] = q[i]
      /\ Append(q, p[Len(p)])[Len(q) + 1] = p[Len(p)]
  BY <1>2, <1>3, AppendProperties
<1>5. \A i \in 1..Len(p) : Append(q, p[Len(p)])[i] = p[i]
  BY <1>1, <1>3, <1>4
<1>6. Append(q, p[Len(p)]) = p BY <1>1, <1>3, <1>4, <1>5, SeqEqual
<1>7. QED BY <1>2, <1>3, <1>6 DEF q

\* Appending after taking the rest in front: where an element is put last in
\* one part or first in the other is the same line.
LEMMA MoveOver ==
  ASSUME NEW S, NEW p \in Seq(S), NEW b \in S, NEW f \in Seq(S)
  PROVE  Append(p, b) \o f = p \o (<<b>> \o f)
<1>1. <<b>> \in Seq(S) BY SMT
<1>2. Append(p, b) = p \o <<b>> BY AppendIsConcat
<1>3. QED BY <1>1, <1>2, ConcatAssociative

\* The first element and the rest.
LEMMA HeadAndTail ==
  ASSUME NEW S, NEW f \in Seq(S), f # <<>>
  PROVE  /\ f[1] \in S /\ Tail(f) \in Seq(S) /\ Len(Tail(f)) = Len(f) - 1
         /\ <<f[1]>> \o Tail(f) = f
<1>1. Len(f) \in Nat /\ Len(f) >= 1 BY EmptySeq, LenProperties
<1>2. f[1] \in S BY <1>1, ElementOfSeq
<1>3. Tail(f) \in Seq(S) /\ Len(Tail(f)) = Len(f) - 1 BY HeadTailProperties
<1>4. SubSeq(f, 1, Len(f)) = <<f[1]>> \o SubSeq(f, 1 + 1, Len(f))
  <2>1. 1 \in 1..Len(f) /\ Len(f) \in 1..Len(f) BY <1>1
  <2>2. QED BY <2>1, SubSeqRecursiveFirst
<1>5. SubSeq(f, 1, Len(f)) = f /\ Tail(f) = SubSeq(f, 2, Len(f))
  BY SubSeqFull, TailIsSubSeq
<1>6. 1 + 1 = 2 OBVIOUS
<1>7. QED BY <1>2, <1>3, <1>4, <1>5, <1>6

-----------------------------------------------------------------------------
(***************************************************************************)
(* The operations keep the type, the bound included: undo and redo only    *)
(* move a state from one side to the other.                                *)
(***************************************************************************)
\* A timeline of contents of C, within its limit.
IsTimeline(t, C) ==
  /\ t \in [boxes : C, past : Seq(C), future : Seq(C)]
  /\ Len(t.past) + Len(t.future) <= Limit

\* The parts of a timeline.
LEMMA PartsOfTimeline ==
  ASSUME NEW C, IsTimeline(pool, C)
  PROVE  /\ pool.boxes \in C /\ pool.past \in Seq(C) /\ pool.future \in Seq(C)
         /\ Len(pool.past) \in Nat /\ Len(pool.future) \in Nat
         /\ Len(pool.past) + Len(pool.future) <= Limit
<1>1. pool.boxes \in C /\ pool.past \in Seq(C) /\ pool.future \in Seq(C)
  BY DEF IsTimeline
<1>2. QED BY <1>1, LenProperties DEF IsTimeline

\* A timeline made of three parts.
LEMMA TimelineOfParts ==
  ASSUME NEW C, NEW b \in C, NEW p \in Seq(C), NEW f \in Seq(C),
         Len(p) + Len(f) <= Limit,
         pool' = [boxes |-> b, past |-> p, future |-> f]
  PROVE  IsTimeline(pool', C)
BY DEF IsTimeline

\* An edit.
LEMMA SetKeeps ==
  ASSUME NEW C, IsTimeline(pool, C), NEW next \in C, Set(next)
  PROVE  IsTimeline(pool', C)
<1> DEFINE p == LastN(Append(pool.past, pool.boxes), Limit)
<1>1. Append(pool.past, pool.boxes) \in Seq(C)
  BY PartsOfTimeline, AppendProperties
<1>2. p \in Seq(C) /\ Len(p) <= Limit
  <2>1. Limit \in Nat BY TimelineAssumption
  <2> DEFINE all == Append(pool.past, pool.boxes)
  <2>2. all \in Seq(C) /\ Len(all) \in Nat BY <1>1, LenProperties
  <2> HIDE DEF all
  <2>3. /\ LastN(all, Limit) \in Seq(C)
        /\ Len(LastN(all, Limit)) = IF Len(all) > Limit THEN Limit ELSE Len(all)
    BY <2>1, <2>2, LastNProperties
  <2>4. Len(LastN(all, Limit)) <= Limit BY <2>1, <2>2, <2>3
  <2>5. QED BY <2>3, <2>4 DEF all
<1>3. pool' = [boxes |-> next, past |-> p, future |-> <<>>] BY DEF Set
<1> HIDE DEF p
<1>4. <<>> \in Seq(C) /\ Len(<<>>) = 0 BY EmptySeq
<1>5. Len(p) + Len(<<>>) <= Limit BY <1>2, <1>4, LenProperties, TimelineAssumption
<1>6. QED BY <1>2, <1>3, <1>4, <1>5, TimelineOfParts

\* Another image.
LEMMA ResetKeeps ==
  ASSUME NEW C, NEW next \in C, Reset(next)
  PROVE  IsTimeline(pool', C)
<1>1. pool' = [boxes |-> next, past |-> <<>>, future |-> <<>>] BY DEF Reset, EMPTY
<1>2. <<>> \in Seq(C) /\ Len(<<>>) = 0 BY EmptySeq
<1>3. Len(<<>>) + Len(<<>>) <= Limit BY <1>2, TimelineAssumption
<1>4. QED BY <1>1, <1>2, <1>3, TimelineOfParts

\* What undo does, when nothing needs to be cut.
LEMMA UndoParts ==
  ASSUME NEW C, IsTimeline(pool, C), Undo
  PROVE  LET n == Len(pool.past)
             q == SubSeq(pool.past, 1, n - 1)
             f == <<pool.boxes>> \o pool.future
         IN  /\ n \in Nat \ {0} /\ Len(pool.future) \in Nat
             /\ pool.past[n] \in C
             /\ q \in Seq(C) /\ Len(q) = n - 1 /\ Append(q, pool.past[n]) = pool.past
             /\ f \in Seq(C) /\ Len(f) = Len(pool.future) + 1
             /\ pool' = [boxes |-> pool.past[n], past |-> q, future |-> f]
<1> DEFINE n == Len(pool.past)
           q == SubSeq(pool.past, 1, n - 1)
           f == <<pool.boxes>> \o pool.future
<1>1. pool.past # <<>> BY DEF Undo, canUndo
<1>2. n \in Nat \ {0} BY <1>1, PartsOfTimeline, EmptySeq
<1>3. /\ pool.past[n] \in C
      /\ q \in Seq(C) /\ Len(q) = n - 1 /\ Append(q, pool.past[n]) = pool.past
  BY <1>1, PartsOfTimeline, FrontAndLast
<1>4. pool.boxes \in C /\ pool.future \in Seq(C) BY PartsOfTimeline
<1>5. f \in Seq(C) /\ Len(f) = 1 + Len(pool.future)
  <2>1. <<pool.boxes>> \in Seq(C) /\ Len(<<pool.boxes>>) = 1 BY <1>4, SMT
  <2>2. QED BY <1>4, <2>1, ConcatProperties
<1>6. pool' = [boxes |-> pool.past[n], past |-> q, future |-> FirstN(f, Limit)]
  BY DEF Undo
<1>7. n + Len(pool.future) <= Limit BY PartsOfTimeline
<1>8. pool.past \in Seq(C) /\ Len(pool.future) \in Nat BY PartsOfTimeline
<1> HIDE DEF f, q, n
<1>9. Len(f) <= Limit BY <1>2, <1>5, <1>7, <1>8, TimelineAssumption
<1>10. FirstN(f, Limit) = f BY <1>5, <1>9, NothingToCut, TimelineAssumption
<1>11. /\ n \in Nat \ {0} /\ Len(pool.future) \in Nat
       /\ pool.past[n] \in C
       /\ q \in Seq(C) /\ Len(q) = n - 1 /\ Append(q, pool.past[n]) = pool.past
       /\ f \in Seq(C) /\ Len(f) = Len(pool.future) + 1
       /\ pool' = [boxes |-> pool.past[n], past |-> q, future |-> f]
  BY <1>2, <1>3, <1>5, <1>6, <1>8, <1>10
<1>12. QED BY <1>11, Zenon DEF f, q, n

\* What redo does, when nothing needs to be cut.
LEMMA RedoParts ==
  ASSUME NEW C, IsTimeline(pool, C), Redo
  PROVE  LET n == Len(pool.past)
             m == Len(pool.future)
             p == Append(pool.past, pool.boxes)
             f == Tail(pool.future)
         IN  /\ n \in Nat /\ m \in Nat \ {0}
             /\ pool.future[1] \in C
             /\ f \in Seq(C) /\ Len(f) = m - 1 /\ <<pool.future[1]>> \o f = pool.future
             /\ p \in Seq(C) /\ Len(p) = n + 1
             /\ pool' = [boxes |-> pool.future[1], past |-> p, future |-> f]
<1> DEFINE n == Len(pool.past)
           m == Len(pool.future)
           p == Append(pool.past, pool.boxes)
           f == Tail(pool.future)
<1>1. pool.future # <<>> BY DEF Redo, canRedo
<1>2. m \in Nat \ {0} BY <1>1, PartsOfTimeline, EmptySeq
<1>3. /\ pool.future[1] \in C
      /\ f \in Seq(C) /\ Len(f) = m - 1 /\ <<pool.future[1]>> \o f = pool.future
  BY <1>1, PartsOfTimeline, HeadAndTail
<1>4. p \in Seq(C) /\ Len(p) = n + 1
  <2>1. pool.past \in Seq(C) /\ pool.boxes \in C BY PartsOfTimeline
  <2>2. QED BY <2>1, AppendProperties
<1>5. pool' = [boxes |-> pool.future[1], past |-> LastN(p, Limit), future |-> f]
  BY DEF Redo
<1>6. n \in Nat /\ n + m <= Limit BY PartsOfTimeline
<1> HIDE DEF n, m, p, f
<1>7. Len(p) <= Limit BY <1>2, <1>4, <1>6, TimelineAssumption
<1>8. LastN(p, Limit) = p BY <1>4, <1>7, NothingToCut, TimelineAssumption
<1>9. /\ n \in Nat /\ m \in Nat \ {0}
      /\ pool.future[1] \in C
      /\ f \in Seq(C) /\ Len(f) = m - 1 /\ <<pool.future[1]>> \o f = pool.future
      /\ p \in Seq(C) /\ Len(p) = n + 1
      /\ pool' = [boxes |-> pool.future[1], past |-> p, future |-> f]
  BY <1>2, <1>3, <1>4, <1>5, <1>6, <1>8
<1>10. QED BY <1>9, Zenon DEF n, m, p, f

\* Undo and redo.
LEMMA UndoKeeps == ASSUME NEW C, IsTimeline(pool, C), Undo PROVE IsTimeline(pool', C)
<1> DEFINE n == Len(pool.past)
           q == SubSeq(pool.past, 1, n - 1)
           f == <<pool.boxes>> \o pool.future
<1>1. /\ n \in Nat \ {0} /\ Len(pool.future) \in Nat
      /\ pool.past[n] \in C
      /\ q \in Seq(C) /\ Len(q) = n - 1
      /\ f \in Seq(C) /\ Len(f) = Len(pool.future) + 1
      /\ pool' = [boxes |-> pool.past[n], past |-> q, future |-> f]
  BY UndoParts
<1>2. n + Len(pool.future) <= Limit BY PartsOfTimeline
<1> HIDE DEF n, q, f
<1>3. Len(q) + Len(f) <= Limit BY <1>1, <1>2, TimelineAssumption
<1>4. QED BY <1>1, <1>3, TimelineOfParts

LEMMA RedoKeeps == ASSUME NEW C, IsTimeline(pool, C), Redo PROVE IsTimeline(pool', C)
<1> DEFINE n == Len(pool.past)
           m == Len(pool.future)
           p == Append(pool.past, pool.boxes)
           f == Tail(pool.future)
<1>1. /\ n \in Nat /\ m \in Nat \ {0}
      /\ pool.future[1] \in C
      /\ f \in Seq(C) /\ Len(f) = m - 1
      /\ p \in Seq(C) /\ Len(p) = n + 1
      /\ pool' = [boxes |-> pool.future[1], past |-> p, future |-> f]
  BY RedoParts, Zenon
<1>2. n + m <= Limit BY PartsOfTimeline
<1> HIDE DEF n, m, p, f
<1>3. Len(p) + Len(f) <= Limit BY <1>1, <1>2, TimelineAssumption
<1>4. QED BY <1>1, <1>3, TimelineOfParts

\* So the type of the module that owns the timeline is kept.
LEMMA TypeIsTimeline == TimelineType <=> IsTimeline(pool, Content)
BY DEF TimelineType, IsTimeline

LEMMA StepKeeps ==
  ASSUME TimelineType, [TimelineNext]_pool
  PROVE  IsTimeline(pool', Content)
<1>1. IsTimeline(pool, Content) BY TypeIsTimeline
<1>2. CASE \E c \in Content : Set(c) \/ Reset(c) BY <1>1, <1>2, SetKeeps, ResetKeeps
<1>3. CASE Undo BY <1>1, <1>3, UndoKeeps
<1>4. CASE Redo BY <1>1, <1>4, RedoKeeps
<1>5. CASE UNCHANGED pool BY <1>1, <1>5
<1>6. QED BY <1>2, <1>3, <1>4, <1>5 DEF TimelineNext

\* The empty timeline.
LEMMA EmptyIsTimeline ==
  ASSUME NEW C, Blank \in C, pool = EMPTY
  PROVE  IsTimeline(pool, C)
<1>1. <<>> \in Seq(C) /\ Len(<<>>) = 0 BY EmptySeq
<1>2. QED BY <1>1, TimelineAssumption DEF EMPTY, IsTimeline

\* The timeline is a timeline, within its limit, for every content and limit
\* (session.ts:42-84).
THEOREM TimelineCorrect == TimelineSpec => []TimelineType
<1>1. pool = EMPTY => TimelineType
  BY EmptyIsTimeline, TypeIsTimeline, TimelineAssumption
<1>2. TimelineType /\ [TimelineNext]_pool => TimelineType'
  BY StepKeeps DEF TimelineType, IsTimeline
<1>3. QED BY <1>1, <1>2, PTL DEF TimelineSpec

-----------------------------------------------------------------------------
(***************************************************************************)
(* The refinement: a timeline is a line of states, its past in front of    *)
(* the state on screen and its future behind it.                           *)
(***************************************************************************)
\* The mark is on the state on screen.
LEMMA AtMark ==
  ASSUME NEW S, NEW p \in Seq(S), NEW b \in S, NEW f \in Seq(S)
  PROVE  /\ Append(p, b) \o f \in Seq(S)
         /\ Len(Append(p, b) \o f) = Len(p) + 1 + Len(f)
         /\ (Append(p, b) \o f)[Len(p) + 1] = b
<1>1. Len(p) \in Nat /\ Len(f) \in Nat BY LenProperties
<1>2. /\ Append(p, b) \in Seq(S) /\ Len(Append(p, b)) = Len(p) + 1
      /\ Append(p, b)[Len(p) + 1] = b
  BY AppendProperties
<1> DEFINE a == Append(p, b)
<1> HIDE DEF a
<1>3. a \in Seq(S) /\ Len(a) = Len(p) + 1 /\ a[Len(p) + 1] = b BY <1>2 DEF a
<1>4. /\ a \o f \in Seq(S) /\ Len(a \o f) = Len(a) + Len(f)
      /\ \A i \in 1..Len(a) + Len(f) : (a \o f)[i] = IF i <= Len(a) THEN a[i] ELSE f[i - Len(a)]
  BY <1>3, ConcatProperties
<1>5. Len(p) + 1 \in 1..Len(a) + Len(f) BY <1>1, <1>3
<1>6. QED BY <1>1, <1>3, <1>4, <1>5 DEF a

\* The line and the mark after a step.
LEMMA LineAfter ==
  ASSUME NEW b \in Content, NEW p \in Seq(Content), NEW f \in Seq(Content),
         pool' = [boxes |-> b, past |-> p, future |-> f]
  PROVE  /\ LineOf' = Append(p, b) \o f /\ MarkOf' = Len(p) + 1
         /\ LineOf'[MarkOf'] = b
<1>1. LineOf' = Append(p, b) \o f /\ MarkOf' = Len(p) + 1 BY DEF LineOf, MarkOf
<1>2. QED BY <1>1, AtMark

\* An edit goes one further than what is kept up to the mark.
LEMMA SetIsEdit ==
  ASSUME TimelineType, NEW next \in Content, Set(next)
  PROVE  History!HNext
<1> DEFINE all == Append(pool.past, pool.boxes)
           p == LastN(all, Limit)
<1>1. all \in Seq(Content) BY TypeIsTimeline, PartsOfTimeline, AppendProperties
<1>2. p \in Seq(Content) BY <1>1, LastNProperties, TimelineAssumption
<1>3. pool' = [boxes |-> next, past |-> p, future |-> <<>>] BY DEF Set
<1>4. SubSeq(LineOf, 1, MarkOf) = all BY TypeIsTimeline, PartsOfTimeline, UpToMark DEF LineOf, MarkOf
<1>5. History!Newest(SubSeq(LineOf, 1, MarkOf), Limit) = p
  BY <1>4 DEF History!Newest, LastN
<1> HIDE DEF all, p
<1>6. <<>> \in Seq(Content) BY EmptySeq
<1>7. LineOf' = Append(p, next) \o <<>> /\ MarkOf' = Len(p) + 1 /\ LineOf'[MarkOf'] = next
  BY <1>2, <1>3, <1>6, LineAfter
<1>8. Append(p, next) \o <<>> = Append(p, next)
  BY <1>2, AppendProperties, ConcatEmptySeq
<1>9. History!HEdit(next) BY <1>5, <1>7, <1>8 DEF History!HEdit
<1>10. QED BY <1>7, <1>9 DEF History!HNext

\* Another image starts a new line.
LEMMA ResetIsOpen ==
  ASSUME NEW next \in Content, Reset(next)
  PROVE  History!HNext
<1>1. pool' = [boxes |-> next, past |-> <<>>, future |-> <<>>] BY DEF Reset, EMPTY
<1>2. <<>> \in Seq(Content) /\ Len(<<>>) = 0 BY EmptySeq
<1>3. LineOf' = Append(<<>>, next) \o <<>> /\ MarkOf' = Len(<<>>) + 1 /\ LineOf'[MarkOf'] = next
  BY <1>1, <1>2, LineAfter
<1>4. Append(<<>>, next) \o <<>> = <<next>>
  BY <1>2, AppendProperties, ConcatEmptySeq, AppendIsConcat
<1>5. History!HOpen(next) BY <1>2, <1>3, <1>4 DEF History!HOpen
<1>6. QED BY <1>3, <1>5 DEF History!HNext

\* Undo moves the mark one back.
LEMMA UndoIsUndo == ASSUME TimelineType, Undo PROVE History!HNext
<1> DEFINE n == Len(pool.past)
           q == SubSeq(pool.past, 1, n - 1)
           b == pool.past[n]
           f == <<pool.boxes>> \o pool.future
<1>1. /\ n \in Nat \ {0}
      /\ b \in Content
      /\ q \in Seq(Content) /\ Len(q) = n - 1 /\ Append(q, b) = pool.past
      /\ f \in Seq(Content)
      /\ pool' = [boxes |-> b, past |-> q, future |-> f]
  BY TypeIsTimeline, UndoParts, Zenon
<1>2. LineOf = pool.past \o f
  <2> DEFINE p == pool.past
             c == pool.boxes
             g == pool.future
  <2>1. p \in Seq(Content) /\ c \in Content /\ g \in Seq(Content) BY TypeIsTimeline, PartsOfTimeline
  <2>2. LineOf = Append(p, c) \o g /\ f = <<c>> \o g BY DEF LineOf
  <2> HIDE DEF p, c, g, f
  <2>3. Append(p, c) \o g = p \o (<<c>> \o g) BY <2>1, MoveOver
  <2>4. LineOf = p \o f BY <2>2, <2>3
  <2>5. QED BY <2>4 DEF p
<1>3. MarkOf = n + 1 BY DEF MarkOf
<1> HIDE DEF n, q, b, f
<1>4. LineOf' = Append(q, b) \o f /\ MarkOf' = Len(q) + 1 BY <1>1, LineAfter
<1>5. LineOf' = LineOf BY <1>1, <1>2, <1>4
<1>6. MarkOf > 1 /\ MarkOf' = MarkOf - 1 BY <1>1, <1>3, <1>4
<1>7. QED BY <1>5, <1>6 DEF History!HNext, History!HUndo

\* Redo moves it one on.
LEMMA RedoIsRedo == ASSUME TimelineType, Redo PROVE History!HNext
<1> DEFINE n == Len(pool.past)
           m == Len(pool.future)
           p == Append(pool.past, pool.boxes)
           b == pool.future[1]
           f == Tail(pool.future)
<1>1. /\ n \in Nat /\ m \in Nat \ {0}
      /\ b \in Content
      /\ f \in Seq(Content) /\ <<b>> \o f = pool.future
      /\ p \in Seq(Content) /\ Len(p) = n + 1
      /\ pool' = [boxes |-> b, past |-> p, future |-> f]
  BY TypeIsTimeline, RedoParts, Zenon
<1>2. LineOf = p \o pool.future /\ MarkOf = n + 1 BY DEF LineOf, MarkOf
<1>3. Len(LineOf) = n + 1 + m BY TypeIsTimeline, PartsOfTimeline, AtMark DEF LineOf
<1> HIDE DEF n, m, p, b, f
<1>4. LineOf' = Append(p, b) \o f /\ MarkOf' = Len(p) + 1 BY <1>1, LineAfter
<1>5. LineOf' = LineOf
  <2>1. Append(p, b) \o f = p \o (<<b>> \o f) BY <1>1, MoveOver
  <2>2. QED BY <1>1, <1>2, <1>4, <2>1, Zenon
<1>6. MarkOf < Len(LineOf) /\ MarkOf' = MarkOf + 1 BY <1>1, <1>2, <1>3, <1>4
<1>7. QED BY <1>5, <1>6 DEF History!HNext, History!HRedo

\* Every step of a timeline is a step of the line, or none.
LEMMA StepRefines ==
  ASSUME TimelineType, [TimelineNext]_pool
  PROVE  [History!HNext]_(History!hvars)
<1>1. CASE \E c \in Content : Set(c) \/ Reset(c) BY <1>1, SetIsEdit, ResetIsOpen
<1>2. CASE Undo BY <1>2, UndoIsUndo
<1>3. CASE Redo BY <1>3, RedoIsRedo
<1>4. CASE UNCHANGED pool BY <1>4 DEF History!hvars, LineOf, MarkOf
<1>5. QED BY <1>1, <1>2, <1>3, <1>4 DEF TimelineNext

\* The empty timeline is the line of one empty canvas.
LEMMA InitRefines == ASSUME pool = EMPTY PROVE History!HInit
<1>1. <<>> \in Seq(Content) /\ Len(<<>>) = 0 BY EmptySeq
<1>2. Append(<<>>, Blank) \o <<>> = <<Blank>>
  BY <1>1, TimelineAssumption, AppendProperties, ConcatEmptySeq, AppendIsConcat
<1>3. LineOf = <<Blank>> /\ MarkOf = 1 BY <1>1, <1>2 DEF LineOf, MarkOf, EMPTY
<1>4. QED BY <1>3 DEF History!HInit

\* A timeline is a line of states with a mark on one of them: undo and redo
\* bring back exactly what was there, an edit forgets what lay ahead
\* (session.ts:42-84).
THEOREM TimelineIsHistory == TimelineSpec => History!HSpec
<1>1. pool = EMPTY => History!HInit BY InitRefines
<1>2. TimelineType /\ [TimelineNext]_pool => [History!HNext]_(History!hvars)
  BY StepRefines
<1>3. QED BY <1>1, <1>2, TimelineCorrect, PTL DEF TimelineSpec, History!HSpec
=============================================================================
