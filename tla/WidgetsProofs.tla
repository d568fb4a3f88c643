---------------------------- MODULE WidgetsProofs ---------------------------
(***************************************************************************)
(* For an image of any width, any grip and any number of boxes: no box is  *)
(* ever inside out, arrow keys keep boxes inside, undo is a history.       *)
(***************************************************************************)
EXTENDS Widgets, TimelineProofs, WellFoundedInduction, FiniteSetTheorems

\* The lists whose boxes are the right way round.
Ordered == {list \in Lists : OrderedIn(list)}

\* A box list by its length and its boxes.
LEMMA ListOfBoxes ==
  ASSUME NEW list \in Lists
  PROVE  /\ \E n \in 0..MaxBoxes : DOMAIN list = 1..n
         /\ DOMAIN list \subseteq 1..MaxBoxes
         /\ \A i \in DOMAIN list : list[i] \in Rect /\ list[i][1] \in Int /\ list[i][2] \in Int
<1>1. PICK n \in 0..MaxBoxes : list \in [1..n -> Rect] BY DEF Lists
<1>2. DOMAIN list = 1..n BY <1>1
<1>3. 1..n \subseteq 1..MaxBoxes BY BoxCanvasAssumption
<1>4. \A r \in Rect : r[1] \in Int /\ r[2] \in Int BY BoxCanvasAssumption DEF Rect, Ends
<1>5. QED BY <1>1, <1>2, <1>3, <1>4

\* A set of indices has a highest one.
LEMMA HighestExists ==
  ASSUME NEW n \in Nat, NEW S, S \subseteq 1..n, S # {}
  PROVE  \E i \in S : \A j \in S : j <= i
<1> DEFINE T == {n - i : i \in S}
           R == {ss \in Nat \X Nat : ss[1] < ss[2]}
<1>1. T \subseteq Nat
  <2> SUFFICES ASSUME NEW i \in S PROVE n - i \in Nat OBVIOUS
  <2>1. i \in 1..n OBVIOUS
  <2>2. QED BY <2>1
<1>2. T # {} OBVIOUS
<1>3. IsWellFoundedOn(R, Nat) BY NatLessThanWellFounded DEF OpToRel
<1> HIDE DEF R
<1>4. PICK x \in T : \A y \in T : ~(<<y, x>> \in R) BY <1>1, <1>2, <1>3, WFMin
<1>5. \A y \in T : ~(y < x) BY <1>1, <1>4 DEF R
<1>6. PICK i \in S : x = n - i BY <1>4
<1>7. ASSUME NEW j \in S PROVE j <= i
  <2>1. i \in 1..n /\ j \in 1..n OBVIOUS
  <2>2. n - j \in T OBVIOUS
  <2>3. ~(n - j < n - i) BY <1>5, <1>6, <2>2
  <2>4. QED BY <2>1, <2>3
<1>8. QED BY <1>7

\* A press that hits something hits a box of the list.
LEMMA HitIsABox ==
  ASSUME TypeOK, NEW x, hits(x) # {}
  PROVE  hitTest(x) \in DOMAIN boxes
<1>1. boxes \in Lists
  BY BoxCanvasAssumption, TypeIsTimeline, PartsOfTimeline DEF TypeOK, boxes
<1>2. hits(x) \subseteq 1..MaxBoxes BY <1>1, ListOfBoxes DEF hits
<1>3. \E i \in hits(x) : \A j \in hits(x) : j <= i
  BY <1>2, HighestExists, BoxCanvasAssumption
<1>4. hitTest(x) \in hits(x) BY <1>3 DEF hitTest
<1>5. QED BY <1>4 DEF hits

-----------------------------------------------------------------------------
(***************************************************************************)
(* The timeline's part: every step is one of the timeline's operations.    *)
(***************************************************************************)
\* What a step does to the timeline.
LEMMA PoolStep ==
  ASSUME [Next]_vars
  PROVE  \/ \E next \in Lists : Set(next)
         \/ \E next \in Lists : Reset(next)
         \/ Undo \/ Redo \/ UNCHANGED pool
<1>1. CASE \E x \in 0..Width : pointerDown(x) BY <1>1 DEF pointerDown
<1>2. CASE \E x \in Points : pointerUp(x) BY <1>2 DEF pointerUp, Edit
<1>3. CASE ByKey BY <1>3 DEF ByKey, arrow, Edit
<1>4. CASE \E back \in BOOLEAN : tab(back) BY <1>4 DEF tab
<1>5. CASE remove \/ pageClear BY <1>5 DEF remove, pageClear, Edit
<1>6. CASE escape \/ UNCHANGED vars BY <1>6 DEF escape, vars
<1>7. CASE pageUndo \/ pageRedo BY <1>7 DEF pageUndo, pageRedo
<1>8. CASE loaded
  <2>1. PICK n \in 0..MaxBoxes : Reset([k \in 1..n |-> <<0, Width>>]) BY <1>8 DEF loaded
  <2>2. <<0, Width>> \in Rect BY BoxCanvasAssumption DEF Rect, Ends
  <2>3. [k \in 1..n |-> <<0, Width>>] \in Lists BY <2>2 DEF Lists
  <2>4. QED BY <2>1, <2>3
<1>9. CASE newImage
  <2>1. <<>> \in Lists BY BoxCanvasAssumption, TimelineAssumption
  <2>2. QED BY <1>9, <2>1 DEF newImage
<1>10. QED BY <1>1, <1>2, <1>3, <1>4, <1>5, <1>6, <1>7, <1>8, <1>9 DEF Next

\* The type of the timeline.
LEMMA PoolTypeStep ==
  ASSUME TimelineType, [Next]_vars
  PROVE  TimelineType'
<1>1. [TimelineNext]_pool BY PoolStep, BoxCanvasAssumption DEF TimelineNext
<1>2. QED BY <1>1, StepKeeps DEF TimelineType, IsTimeline

\* The variables keep their types: a press holds a box of the list.
THEOREM TypeCorrect == Spec => []TypeOK
<1>1. Init => TypeOK
  <2>1. Init => TimelineType BY EmptyIsTimeline, TypeIsTimeline, TimelineAssumption DEF Init
  <2>2. 0 \in 0..MaxEdits BY BoxCanvasAssumption
  <2>3. QED BY <2>1, <2>2 DEF Init, TypeOK
<1>2. TypeOK /\ [Next]_vars => TypeOK'
  <2> SUFFICES ASSUME TypeOK, [Next]_vars PROVE TypeOK' OBVIOUS
  <2>1. TimelineType' BY PoolTypeStep DEF TypeOK
  <2>2. boxes \in Lists
    BY BoxCanvasAssumption, TypeIsTimeline, PartsOfTimeline DEF TypeOK, boxes
  <2>3. DOMAIN boxes \subseteq 1..MaxBoxes BY <2>2, ListOfBoxes
  <2>4. 0..Width \subseteq Points BY BoxCanvasAssumption DEF Points
  <2>5. ASSUME NEW next, Edit(next) PROVE edits' \in 0..MaxEdits
    BY <2>5, BoxCanvasAssumption DEF Edit, TypeOK
  <2>6. 0 \in 0..MaxEdits BY BoxCanvasAssumption
  <2>7. ASSUME NEW x \in 0..Width, pointerDown(x) PROVE TypeOK'
    <3>1. x \in Points BY <2>4
    <3>2. CASE grabbedCorner(x) # "all" \/ hits(x) # {}
      <4> DEFINE hit == IF grabbedCorner(x) # "all" THEN sel ELSE hitTest(x)
      <4>1. hit \in 1..MaxBoxes
        <5>1. CASE grabbedCorner(x) # "all"
          BY <5>1, <2>3 DEF grabbedCorner
        <5>2. CASE grabbedCorner(x) = "all" BY <3>2, <5>2, <2>3, HitIsABox
        <5>3. QED BY <5>1, <5>2
      <4>2. grabbedCorner(x) \in Grip BY DEF grabbedCorner, Grip
      <4>3. /\ sel' = hit /\ live' = [i |-> hit, grab |-> grabbedCorner(x), from |-> x]
            /\ down' = TRUE /\ drag' = drag /\ edits' = edits
        BY <2>7, <3>2 DEF pointerDown
      <4> HIDE DEF hit
      <4>4. QED BY <2>1, <3>1, <4>1, <4>2, <4>3 DEF TypeOK
    <3>3. CASE ~(grabbedCorner(x) # "all" \/ hits(x) # {})
      BY <2>1, <2>7, <3>1, <3>3 DEF pointerDown, TypeOK
    <3>4. QED BY <3>2, <3>3
  <2>8. ASSUME NEW x \in Points, pointerUp(x) PROVE TypeOK'
    <3>1. /\ down' = FALSE /\ live' \in {live, None} /\ drag' \in {drag, None} /\ sel' = sel
      BY <2>8 DEF pointerUp
    <3>2. edits' \in 0..MaxEdits BY <2>5, <2>8 DEF pointerUp, TypeOK
    <3>3. QED BY <2>1, <3>1, <3>2 DEF TypeOK
  <2>9. CASE ByKey BY <2>1, <2>5, <2>9 DEF ByKey, arrow, TypeOK
  <2>10. ASSUME NEW back \in BOOLEAN, tab(back) PROVE TypeOK'
    <3>1. sel' \in DOMAIN boxes \/ sel' = None BY <2>10 DEF tab
    <3>2. QED BY <2>1, <2>3, <2>10, <3>1 DEF tab, TypeOK
  <2>11. CASE remove \/ pageClear BY <2>1, <2>5, <2>11 DEF remove, pageClear, TypeOK
  <2>12. CASE escape \/ UNCHANGED vars BY <2>1, <2>12 DEF escape, vars, TypeOK
  <2>13. CASE pageUndo \/ pageRedo BY <2>1, <2>13 DEF pageUndo, pageRedo, TypeOK
  <2>14. CASE loaded \/ newImage BY <2>1, <2>6, <2>14 DEF loaded, newImage, TypeOK
  <2>15. QED BY <2>7, <2>8, <2>9, <2>10, <2>11, <2>12, <2>13, <2>14 DEF Next
<1>3. QED BY <1>1, <1>2, PTL DEF Spec

\* Undo and redo on the canvas are those of a line of states with a mark
\* (session.ts:42-84), whatever the pointer and the keys do.
THEOREM UndoCorrect == Spec => UndoIsHistory
<1>1. Init => History!HInit BY InitRefines DEF Init
<1>2. TypeOK /\ [Next]_vars => [History!HNext]_(History!hvars)
  <2> SUFFICES ASSUME TypeOK, [Next]_vars PROVE [History!HNext]_(History!hvars) OBVIOUS
  <2>1. [TimelineNext]_pool BY PoolStep, BoxCanvasAssumption DEF TimelineNext
  <2>2. QED BY <2>1, StepRefines DEF TypeOK
<1>3. QED BY <1>1, <1>2, TypeCorrect, PTL DEF Spec, UndoIsHistory, History!HSpec

-----------------------------------------------------------------------------
(***************************************************************************)
(* The boxes.                                                              *)
(***************************************************************************)
\* A box the pointer leaves behind is the right way round, wherever it was
\* dragged.
LEMMA NormOrdered ==
  ASSUME NEW b, b[1] \in Int, b[2] \in Int
  PROVE  norm(b)[1] <= norm(b)[2]
BY DEF norm, LowerOf, HigherOf

\* A dragged end is a number.
LEMMA DraggedInt ==
  ASSUME NEW l, NEW x \in Points, l.i \in DOMAIN boxes, l.from \in Points, l.grab \in Grip,
         boxes \in Lists
  PROVE  dragged(l, x)[1] \in Int /\ dragged(l, x)[2] \in Int
<1>1. x \in Int /\ l.from \in Int BY BoxCanvasAssumption DEF Points
<1>2. boxes[l.i][1] \in Int /\ boxes[l.i][2] \in Int BY ListOfBoxes
<1>3. CASE l.grab = "low" BY <1>1, <1>2, <1>3 DEF dragged
<1>4. CASE l.grab = "high" BY <1>1, <1>2, <1>4 DEF dragged
<1>5. CASE l.grab = "all" BY <1>1, <1>2, <1>5 DEF dragged
<1>6. QED BY <1>3, <1>4, <1>5 DEF Grip

\* What an arrow key makes of a box.
LEMMA NudgeOrdered ==
  ASSUME NEW b, b[1] \in Int, b[2] \in Int, b[1] <= b[2], NEW d \in Int, NEW resize \in BOOLEAN
  PROVE  nudge(b, d, resize)[1] <= nudge(b, d, resize)[2]
<1>1. Width \in Int /\ Pixel \in Int /\ Pixel > 0 BY BoxCanvasAssumption
<1>2. CASE resize BY <1>1, <1>2 DEF nudge, clamp, LowerOf, HigherOf
<1>3. CASE ~resize BY <1>1, <1>3 DEF nudge, clamp, LowerOf, HigherOf
<1>4. QED BY <1>2, <1>3

\* A row of arrow keys: a moved box is inside, a resized one overshoots by less
\* than a pixel.
LEMMA NudgeInside ==
  ASSUME NEW b, b[1] \in Int, b[2] \in Int, Fits(b), NEW d \in Int, NEW resize \in BOOLEAN
  PROVE  /\ Fits(nudge(b, d, resize))
         /\ nudge(b, d, resize)[1] # b[1] => Inside(nudge(b, d, resize))
<1>1. Width \in Int /\ Pixel \in Int /\ Pixel > 0 /\ Pixel <= Width BY BoxCanvasAssumption
<1>2. CASE resize BY <1>1, <1>2 DEF nudge, clamp, LowerOf, HigherOf, Inside, Fits
<1>3. CASE ~resize BY <1>1, <1>3 DEF nudge, clamp, LowerOf, HigherOf, Inside, Fits
<1>4. QED BY <1>2, <1>3

\* One box of a list replaced by one that is the right way round.
LEMMA ReplaceOrdered ==
  ASSUME NEW list \in Ordered, NEW i \in DOMAIN list, NEW b, b[1] <= b[2],
         [list EXCEPT ![i] = b] \in Lists
  PROVE  [list EXCEPT ![i] = b] \in Ordered
<1> DEFINE new == [list EXCEPT ![i] = b]
<1>1. DOMAIN new = DOMAIN list /\ new[i] = b OBVIOUS
<1>2. \A j \in DOMAIN list : j # i => new[j] = list[j] OBVIOUS
<1>3. \A j \in DOMAIN list : list[j][1] <= list[j][2] BY DEF Ordered, OrderedIn
<1>4. \A j \in DOMAIN new : new[j][1] <= new[j][2] BY <1>1, <1>2, <1>3
<1>5. QED BY <1>4 DEF Ordered, OrderedIn

\* A list is a sequence.
LEMMA ListIsSeq ==
  ASSUME NEW list \in Lists
  PROVE  list \in Seq(Rect)
<1>1. PICK n \in 0..MaxBoxes : list \in [1..n -> Rect] BY DEF Lists
<1>2. n \in Nat BY BoxCanvasAssumption
<1>3. QED BY <1>1, <1>2, SeqDef

\* One box more.
LEMMA AppendOrdered ==
  ASSUME NEW list \in Ordered, NEW b \in Rect, b[1] <= b[2], Append(list, b) \in Lists
  PROVE  Append(list, b) \in Ordered
<1>1. list \in Seq(Rect) BY ListIsSeq DEF Ordered
<1>2. Len(list) \in Nat /\ DOMAIN list = 1..Len(list) BY <1>1, LenProperties
<1> DEFINE new == Append(list, b)
<1>3. /\ new \in Seq(Rect) /\ Len(new) = Len(list) + 1
      /\ \A j \in 1..Len(list) : new[j] = list[j]
      /\ new[Len(list) + 1] = b
  BY <1>1, AppendProperties
<1>4. DOMAIN new = 1..Len(new) BY <1>3, LenProperties
<1> HIDE DEF new
<1>5. \A j \in 1..Len(list) : list[j][1] <= list[j][2] BY <1>2 DEF Ordered, OrderedIn
<1>6. ASSUME NEW j \in DOMAIN new PROVE new[j][1] <= new[j][2]
  <2>1. j \in 1..Len(list) \/ j = Len(list) + 1 BY <1>2, <1>3, <1>4
  <2>2. QED BY <1>3, <1>5, <2>1
<1>7. QED BY <1>6 DEF new, Ordered, OrderedIn

\* One box less.
LEMMA WithoutOrdered ==
  ASSUME NEW list \in Ordered, NEW i \in DOMAIN list, Without(list, i) \in Lists
  PROVE  Without(list, i) \in Ordered
<1>1. list \in Seq(Rect) BY ListIsSeq DEF Ordered
<1>2. Len(list) \in Nat /\ DOMAIN list = 1..Len(list) BY <1>1, LenProperties
<1>3. i \in 1..Len(list) BY <1>2
<1> DEFINE n == Len(list)
           a == SubSeq(list, 1, i - 1)
           c == SubSeq(list, i + 1, n)
<1>4. \A j \in 1..n : list[j] \in Rect BY <1>1, ElementOfSeq
<1>5. a \in Seq(Rect) /\ Len(a) = i - 1 /\ \A j \in 1..i - 1 : a[j] = list[j]
  <2>1. i - 1 \in Nat /\ i - 1 <= Len(list) BY <1>2, <1>3
  <2>2. QED BY <1>1, <2>1, PrefixProperties
<1>6. c \in Seq(Rect) /\ \A j \in 1..Len(c) : i + j \in 1..n /\ c[j] = list[i + j]
  <2> DEFINE m == i + 1
  <2>1. m \in Int /\ n \in Int /\ \A j \in m..n : list[j] \in Rect BY <1>2, <1>3, <1>4
  <2> HIDE DEF m, n
  <2>2. /\ SubSeq(list, m, n) \in Seq(Rect)
        /\ Len(SubSeq(list, m, n)) = IF m <= n THEN n - m + 1 ELSE 0
        /\ \A j \in 1..n - m + 1 : SubSeq(list, m, n)[j] = list[m + j - 1]
    BY <2>1, SubSeqProperties
  <2> DEFINE e == SubSeq(list, m, n)
  <2> HIDE DEF e
  <2>3. /\ e \in Seq(Rect) /\ Len(e) = (IF m <= n THEN n - m + 1 ELSE 0)
        /\ \A j \in 1..n - m + 1 : e[j] = list[m + j - 1]
    BY <2>2 DEF e
  <2>4. i \in Int /\ i >= 1 BY <1>3
  <2>5. ASSUME NEW j \in 1..Len(e) PROVE i + j \in 1..n /\ e[j] = list[i + j]
    <3>1. m <= n /\ j \in 1..n - m + 1 BY <2>1, <2>3, <2>5
    <3>2. m + j - 1 = i + j BY <2>4, <3>1 DEF m
    <3>3. i + j \in 1..n BY <2>1, <2>4, <3>1, <3>2
    <3>4. QED BY <2>3, <3>1, <3>2, <3>3
  <2>6. QED BY <2>3, <2>5 DEF e, m, n
<1> HIDE DEF a, c
<1>7. /\ a \o c \in Seq(Rect) /\ Len(a \o c) = Len(a) + Len(c)
      /\ \A j \in 1..Len(a) + Len(c) : (a \o c)[j] = IF j <= Len(a) THEN a[j] ELSE c[j - Len(a)]
  BY <1>5, <1>6, ConcatProperties
<1> DEFINE new == a \o c
<1>8. DOMAIN new = 1..Len(a) + Len(c) BY <1>7, LenProperties
<1>9. \A j \in 1..n : list[j][1] <= list[j][2] BY <1>2 DEF Ordered, OrderedIn
<1>10. Len(a) \in Nat /\ Len(c) \in Nat BY <1>5, <1>6, LenProperties
<1>11. ASSUME NEW j \in DOMAIN new PROVE new[j][1] <= new[j][2]
  <2>1. j \in 1..Len(a) + Len(c) BY <1>8
  <2>2. CASE j <= Len(a)
    <3>1. j \in 1..i - 1 /\ j \in 1..n BY <1>2, <1>3, <1>5, <1>10, <2>1, <2>2
    <3>2. new[j] = list[j] BY <1>5, <1>7, <2>1, <2>2, <3>1
    <3>3. QED BY <1>9, <3>1, <3>2
  <2>3. CASE ~(j <= Len(a))
    <3>1. j - Len(a) \in 1..Len(c) BY <1>10, <2>1, <2>3
    <3>2. new[j] = c[j - Len(a)] BY <1>7, <2>1, <2>3
    <3>3. QED BY <1>6, <1>9, <3>1, <3>2
  <2>4. QED BY <2>2, <2>3
<1>12. new = Without(list, i) BY DEF a, c, n, Without
<1> HIDE DEF new
<1>13. QED BY <1>11, <1>12 DEF Ordered, OrderedIn

\* An arrow key keeps every box the right way round.
LEMMA ArrowOrdered ==
  ASSUME TypeOK, boxes \in Ordered, NEW d \in Int, NEW resize \in BOOLEAN, arrow(d, resize)
  PROVE  \E next \in Ordered : Set(next)
<1> DEFINE next == [boxes EXCEPT ![sel] = nudge(@, d, resize)]
<1>1. sel \in DOMAIN boxes /\ next \in Lists /\ Set(next) BY DEF arrow, Edit
<1>2. boxes \in Lists BY DEF Ordered
<1>3. /\ boxes[sel][1] \in Int /\ boxes[sel][2] \in Int
      /\ boxes[sel][1] <= boxes[sel][2]
  BY <1>1, <1>2, ListOfBoxes DEF Ordered, OrderedIn
<1>4. nudge(boxes[sel], d, resize)[1] <= nudge(boxes[sel], d, resize)[2]
  BY <1>3, NudgeOrdered
<1>5. next = [boxes EXCEPT ![sel] = nudge(boxes[sel], d, resize)] OBVIOUS
<1>6. next \in Ordered BY <1>1, <1>4, <1>5, ReplaceOrdered
<1>7. QED BY <1>1, <1>6

\* So does the release of the pointer, whatever was dragged wherever.
LEMMA UpOrdered ==
  ASSUME TypeOK, boxes \in Ordered, NEW x \in Points, pointerUp(x)
  PROVE  (\E next \in Ordered : Set(next)) \/ pool' = pool
<1>1. boxes \in Lists BY DEF Ordered
<1>2. CASE pool' = pool BY <1>2
<1>3. CASE live # None /\ pool' # pool
  <2> DEFINE b == norm(dragged(live, x))
             next == [boxes EXCEPT ![live.i] = b]
  <2>1. live.i \in DOMAIN boxes /\ next \in Lists /\ Set(next)
    BY <1>3 DEF pointerUp, Edit
  <2>2. live.from \in Points /\ live.grab \in Grip BY <1>3 DEF TypeOK
  <2>3. b[1] <= b[2] BY <1>1, <2>1, <2>2, DraggedInt, NormOrdered
  <2> HIDE DEF b
  <2>4. next \in Ordered BY <2>1, <2>3, ReplaceOrdered
  <2>5. QED BY <2>1, <2>4
<1>4. CASE live = None /\ pool' # pool
  <2> DEFINE b == norm(<<drag, x>>)
             next == Append(boxes, b)
  <2>1. drag # None /\ next \in Lists /\ Set(next) BY <1>4 DEF pointerUp, Edit
  <2>2. drag \in Int /\ x \in Int BY <2>1, BoxCanvasAssumption DEF TypeOK, Points
  <2>3. b[1] <= b[2] BY <2>2, NormOrdered
  <2>4. b \in Rect
    <3>1. drag \in Points BY <2>1 DEF TypeOK
    <3>2. b[1] \in {drag, x} /\ b[2] \in {drag, x} /\ b = <<b[1], b[2]>>
      BY DEF norm, LowerOf, HigherOf
    <3>3. Points \subseteq Ends BY BoxCanvasAssumption DEF Points, Ends
    <3>4. QED BY <3>1, <3>2, <3>3 DEF Rect
  <2> HIDE DEF b
  <2>5. next \in Ordered BY <2>1, <2>3, <2>4, AppendOrdered
  <2>6. QED BY <2>1, <2>5
<1>5. QED BY <1>2, <1>3, <1>4

\* The Delete key takes a box out.
LEMMA RemoveOrdered ==
  ASSUME boxes \in Ordered, remove
  PROVE  \E next \in Ordered : Set(next)
<1>1. CASE sel \in DOMAIN boxes BY <1>1, WithoutOrdered DEF remove, Edit
<1>2. CASE sel \notin DOMAIN boxes BY <1>2 DEF remove, Edit
<1>3. QED BY <1>1, <1>2

\* What a step puts on the canvas is the right way round, or was kept.
LEMMA StepOrdered ==
  ASSUME TypeOK, boxes \in Ordered, [Next]_vars
  PROVE  \/ \E next \in Ordered : Set(next)
         \/ \E next \in Ordered : Reset(next)
         \/ Undo \/ Redo \/ UNCHANGED pool
<1>0. <<>> \in Ordered
  <2>1. <<>> \in Lists BY BoxCanvasAssumption, TimelineAssumption
  <2>2. DOMAIN <<>> = {} OBVIOUS
  <2>3. QED BY <2>1, <2>2 DEF Ordered, OrderedIn
<1>1. CASE \E x \in 0..Width : pointerDown(x) BY <1>1 DEF pointerDown
<1>2. CASE \E x \in Points : pointerUp(x) BY <1>2, UpOrdered
<1>3. CASE ByKey
  <2>1. PICK d \in Nudges, resize \in BOOLEAN : arrow(d, resize) \/ arrow(0 - d, resize)
    BY <1>3 DEF ByKey
  <2>2. d \in Int /\ 0 - d \in Int BY BoxCanvasAssumption
  <2>3. QED BY <2>1, <2>2, ArrowOrdered
<1>4. CASE \E back \in BOOLEAN : tab(back) BY <1>4 DEF tab
<1>5. CASE remove BY <1>5, RemoveOrdered
<1>6. CASE pageClear BY <1>0, <1>6 DEF pageClear, Edit
<1>7. CASE escape \/ UNCHANGED vars BY <1>7 DEF escape, vars
<1>8. CASE pageUndo \/ pageRedo BY <1>8 DEF pageUndo, pageRedo
<1>9. CASE loaded
  <2>1. PICK n \in 0..MaxBoxes : Reset([k \in 1..n |-> <<0, Width>>]) BY <1>9 DEF loaded
  <2> DEFINE list == [k \in 1..n |-> <<0, Width>>]
  <2>2. <<0, Width>> \in Rect /\ 0 <= Width BY BoxCanvasAssumption DEF Rect, Ends
  <2>3. list \in Lists BY <2>2 DEF Lists
  <2>4. \A i \in DOMAIN list : list[i][1] <= list[i][2] BY <2>2
  <2>5. list \in Ordered BY <2>3, <2>4 DEF Ordered, OrderedIn
  <2>6. QED BY <2>1, <2>5
<1>10. CASE newImage BY <1>0, <1>10 DEF newImage
<1>11. QED BY <1>1, <1>2, <1>3, <1>4, <1>5, <1>6, <1>7, <1>8, <1>9, <1>10 DEF Next

\* The boxes on the canvas and in its history are the right way round: an
\* invariant of the timeline over the lists that are.
LEMMA OrderedStep ==
  ASSUME TypeOK, IsTimeline(pool, Ordered), [Next]_vars
  PROVE  IsTimeline(pool', Ordered)
<1>1. boxes \in Ordered BY PartsOfTimeline DEF boxes
<1>2. CASE \E next \in Ordered : Set(next) BY <1>2, SetKeeps
<1>3. CASE \E next \in Ordered : Reset(next) BY <1>3, ResetKeeps
<1>4. CASE Undo BY <1>4, UndoKeeps
<1>5. CASE Redo BY <1>5, RedoKeeps
<1>6. CASE UNCHANGED pool BY <1>6
<1>7. QED BY <1>1, <1>2, <1>3, <1>4, <1>5, <1>6, StepOrdered

\* No box is ever inside out (BoxCanvas.tsx:186-188), for any image, any
\* number of boxes and any drag.
THEOREM NeverInsideOut == Spec => []BoxesOrdered
<1>1. Init => IsTimeline(pool, Ordered)
  <2>1. Blank \in Ordered
    <3>1. Blank \in Lists /\ Blank = <<>> BY BoxCanvasAssumption, TimelineAssumption
    <3>2. DOMAIN <<>> = {} OBVIOUS
    <3>3. QED BY <3>1, <3>2 DEF Ordered, OrderedIn
  <2>2. QED BY <2>1, EmptyIsTimeline DEF Init
<1> DEFINE J == IsTimeline(pool, Ordered)
<1>2. TypeOK /\ J /\ [Next]_vars => J'
  BY OrderedStep
<1>3. J => BoxesOrdered
  <2> SUFFICES ASSUME J PROVE BoxesOrdered OBVIOUS
  <2>1. /\ pool.boxes \in Ordered /\ pool.past \in Seq(Ordered) /\ pool.future \in Seq(Ordered)
    BY PartsOfTimeline
  <2>2. \A k \in DOMAIN pool.past : pool.past[k] \in Ordered BY <2>1, LenProperties, ElementOfSeq
  <2>3. \A k \in DOMAIN pool.future : pool.future[k] \in Ordered BY <2>1, LenProperties, ElementOfSeq
  <2>4. QED BY <2>1, <2>2, <2>3 DEF BoxesOrdered, Ordered
<1> HIDE DEF J
<1>4. Init => J BY <1>1 DEF J
<1>5. QED BY <1>2, <1>3, <1>4, TypeCorrect, PTL DEF Spec

\* No row of arrow keys takes a box out of the image, but for the rest of a last
\* pixel, or makes it empty (BoxCanvas.tsx:213-220), for positions as fine as the
\* pointer's and for any step and any width.
THEOREM KeysKeepInside == Spec => KeysStayInside
<1> DEFINE Stays(i) == Fits(boxes[i]) =>
                         /\ Fits(boxes'[i])
                         /\ boxes'[i][1] # boxes[i][1] => Inside(boxes'[i])
<1>1. TypeOK /\ [Next]_vars => [ByKey => \A i \in DOMAIN boxes : Stays(i)]_vars
  <2> SUFFICES ASSUME TypeOK, ByKey, NEW i \in DOMAIN boxes, Fits(boxes[i])
               PROVE  Fits(boxes'[i]) /\ (boxes'[i][1] # boxes[i][1] => Inside(boxes'[i]))
    OBVIOUS
  <2>1. PICK d \in Nudges, resize \in BOOLEAN : arrow(d, resize) \/ arrow(0 - d, resize)
    BY DEF ByKey
  <2>2. d \in Int /\ 0 - d \in Int BY BoxCanvasAssumption
  <2>3. PICK e \in Int : arrow(e, resize) BY <2>1, <2>2
  <2>4. boxes \in Lists
    BY BoxCanvasAssumption, TypeIsTimeline, PartsOfTimeline DEF TypeOK, boxes
  <2>5. boxes' = [boxes EXCEPT ![sel] = nudge(boxes[sel], e, resize)]
    BY <2>3 DEF arrow, Edit, Set, boxes
  <2>6. boxes[i][1] \in Int /\ boxes[i][2] \in Int BY <2>4, ListOfBoxes
  <2>7. CASE i = sel
    <3>1. boxes'[i] = nudge(boxes[i], e, resize) BY <2>5, <2>7
    <3>2. QED BY <2>6, <3>1, NudgeInside
  <2>8. CASE i # sel
    <3>1. boxes'[i] = boxes[i] BY <2>5, <2>8
    <3>2. QED BY <3>1
  <2>9. QED BY <2>7, <2>8
<1>2. QED BY <1>1, TypeCorrect, PTL DEF Spec, KeysStayInside

-----------------------------------------------------------------------------
(***************************************************************************)
(* The gallery.  First the list the server pages through, whatever the     *)
(* statuses are.                                                           *)
(***************************************************************************)
LEMMA GalleryCounts == \A S : G!Cardinality(S) = Cardinality(S)
BY DEF G!Cardinality, Cardinality

\* The places of a finite set of places are numbered from 1 on, without gaps.
LEMMA PlaceNumbers ==
  ASSUME NEW K, NEW n \in Nat, K \subseteq 1..n
  PROVE  /\ Cardinality(K) \in Nat
         /\ \A j \in 1..Cardinality(K) :
              G!Nth(K, j) \in K /\ Cardinality({i \in K : i <= G!Nth(K, j)}) = j
         /\ \A k \in K : \E j \in 1..Cardinality(K) : G!Nth(K, j) = k
<1> DEFINE C == Cardinality(K)
           upTo(k) == {i \in K : i <= k}
           rank == [k \in K |-> Cardinality(upTo(k))]
<1>1. IsFiniteSet(K) /\ C \in Nat /\ IsFiniteSet(1..C) /\ Cardinality(1..C) = C
  <2>1. IsFiniteSet(1..n)  BY FS_Interval
  <2>2. IsFiniteSet(K)  BY <2>1, FS_Subset
  <2>3. C \in Nat  BY <2>2, FS_CardinalityType
  <2>4. IsFiniteSet(1..C) /\ Cardinality(1..C) = IF 1 > C THEN 0 ELSE C - 1 + 1
    BY <2>3, FS_Interval
  <2> QED  BY <2>2, <2>3, <2>4
<1>2. \A k \in K : IsFiniteSet(upTo(k)) /\ Cardinality(upTo(k)) \in 1..C
  <2> SUFFICES ASSUME NEW k \in K  PROVE IsFiniteSet(upTo(k)) /\ Cardinality(upTo(k)) \in 1..C
    OBVIOUS
  <2>1. upTo(k) \in SUBSET K  OBVIOUS
  <2>2. IsFiniteSet(upTo(k)) /\ Cardinality(upTo(k)) <= C  BY <1>1, <2>1, FS_Subset
  <2>3. Cardinality(upTo(k)) \in Nat  BY <2>2, FS_CardinalityType
  <2>4. k \in upTo(k)  OBVIOUS
  <2>5. Cardinality(upTo(k)) # 0  BY <2>2, <2>4, FS_EmptySet
  <2> QED  BY <1>1, <2>2, <2>3, <2>5
<1>3. \A k, m \in K : k < m => Cardinality(upTo(k)) # Cardinality(upTo(m))
  <2> SUFFICES ASSUME NEW k \in K, NEW m \in K, k < m,
                      Cardinality(upTo(k)) = Cardinality(upTo(m))
               PROVE  FALSE
    OBVIOUS
  <2>1. upTo(k) \in SUBSET upTo(m)
    <3>1. \A i \in K : i \in Int  OBVIOUS
    <3>2. \A i \in K : i <= k => i <= m  BY <3>1
    <3> QED  BY <3>2
  <2>2. upTo(m) = upTo(k)  BY <1>2, <2>1, FS_Subset
  <2>3. m \in upTo(m) /\ m \notin upTo(k)  OBVIOUS
  <2> QED  BY <2>2, <2>3
<1>4. rank \in Injection(K, 1..C)
  <2>1. rank \in [K -> 1..C]  BY <1>2
  <2>2. \A k, m \in K : rank[k] = rank[m] => k = m
    <3> SUFFICES ASSUME NEW k \in K, NEW m \in K, rank[k] = rank[m], k # m  PROVE FALSE
      OBVIOUS
    <3>1. k < m \/ m < k  OBVIOUS
    <3> QED  BY <1>3, <3>1
  <2> QED  BY <2>1, <2>2 DEF Injection, IsInjective
<1>5. rank \in Surjection(K, 1..C)  BY <1>1, <1>4, FS_Injection
<1>6. \A j \in 1..C : G!Nth(K, j) \in K /\ Cardinality(upTo(G!Nth(K, j))) = j
  <2> SUFFICES ASSUME NEW j \in 1..C
               PROVE  G!Nth(K, j) \in K /\ Cardinality(upTo(G!Nth(K, j))) = j
    OBVIOUS
  <2>1. PICK k \in K : rank[k] = j  BY <1>5 DEF Surjection
  <2>2. Cardinality(upTo(k)) = j  BY <2>1
  <2>3. G!Nth(K, j) = CHOOSE i \in K : Cardinality({h \in K : h <= i}) = j
    BY GalleryCounts DEF G!Nth
  <2> QED  BY <2>2, <2>3
<1>7. \A k \in K : \E j \in 1..C : G!Nth(K, j) = k
  <2> SUFFICES ASSUME NEW k \in K  PROVE \E j \in 1..C : G!Nth(K, j) = k
    OBVIOUS
  <2>1. rank[k] \in 1..C  BY <1>2
  <2>2. G!Nth(K, rank[k]) \in K /\ rank[G!Nth(K, rank[k])] = rank[k]  BY <1>6, <2>1
  <2>3. G!Nth(K, rank[k]) = k  BY <1>4, <2>2 DEF Injection, IsInjective
  <2> QED  BY <2>1, <2>3
<1> QED  BY <1>1, <1>6, <1>7


LEMMA MatchingIsList ==
  \A f : G!Matching(f) \in Seq(G!Images) /\ Len(G!Matching(f)) \in 0..Count
<1> SUFFICES ASSUME NEW f
             PROVE  G!Matching(f) \in Seq(G!Images) /\ Len(G!Matching(f)) \in 0..Count
  OBVIOUS
<1> DEFINE all == [i \in G!Images |-> i]
           S == {i \in G!Images : f \in {"all", status[i]}}
           K == {k \in DOMAIN all : all[k] \in S}
           C == Cardinality(K)
<1>1. PICK m : m = G!Matching(f)  OBVIOUS
<1>2. K \subseteq 1..Count /\ Count \in Nat  BY GalleryAssumption DEF G!Images
<1>3. C \in Nat /\ \A j \in 1..C : G!Nth(K, j) \in K  BY <1>2, PlaceNumbers
<1>4. C <= Count
  <2>1. 1 \in Int /\ Count \in Int  BY <1>2
  <2>2. /\ IsFiniteSet(1..Count)
        /\ Cardinality(1..Count) = IF 1 > Count THEN 0 ELSE Count - 1 + 1
    BY <2>1, FS_Interval
  <2>3. Cardinality(1..Count) = Count  BY <1>2, <2>2
  <2>4. C <= Cardinality(1..Count)  BY <1>2, <2>2, FS_Subset
  <2> QED  BY <2>3, <2>4
<1>5. m = [j \in 1..C |-> all[G!Nth(K, j)]]
  BY <1>1, GalleryCounts DEF G!Matching, G!Keep
<1>6. \A k \in K : all[k] \in G!Images  OBVIOUS
<1> HIDE DEF all, S, K, C
<1>7. \A j \in 1..C : all[G!Nth(K, j)] \in G!Images  BY <1>3, <1>6
<1>8. m \in Seq(G!Images) /\ Len(m) = C  BY <1>3, <1>5, <1>7
<1> QED  BY <1>1, <1>2, <1>3, <1>4, <1>8

\* A page is a piece of it, and the next page continues a beginning.
LEMMA PageContinues ==
  ASSUME NEW T, NEW m \in Seq(T), NEW s \in Seq(T), NEW o \in Nat, NEW last \in Nat,
         last = IF o + PAGE > Len(m) THEN Len(m) ELSE o + PAGE
  PROVE  /\ SubSeq(m, o + 1, last) \in Seq(T)
         /\ Len(s) = o /\ G!IsPrefix(s, m) => G!IsPrefix(s \o SubSeq(m, o + 1, last), m)
<1>1. PAGE \in Nat /\ PAGE > 0 /\ Len(m) \in Nat /\ Len(s) \in Nat  BY GalleryAssumption
<1>2. last <= Len(m)  BY <1>1
<1>3. PICK p : p = SubSeq(m, o + 1, last)  OBVIOUS
<1>4. p \in Seq(T) /\ Len(p) = IF o + 1 <= last THEN last - o ELSE 0
  BY <1>1, <1>2, <1>3
<1>5. \A i \in 1..Len(p) : o + i \in 1..Len(m) /\ p[i] = m[o + i]
  BY <1>1, <1>2, <1>3, <1>4
<1>6. ASSUME Len(s) = o, G!IsPrefix(s, m)  PROVE G!IsPrefix(s \o p, m)
  <2>1. Len(s) <= Len(m) /\ SubSeq(s, 1, Len(s)) = SubSeq(m, 1, Len(s))
    BY <1>6 DEF G!IsPrefix
  <2>2. \A i \in 1..Len(s) : s[i] = m[i]
    <3> SUFFICES ASSUME NEW i \in 1..Len(s)  PROVE s[i] = m[i]
      OBVIOUS
    <3>1. SubSeq(s, 1, Len(s))[i] = s[i]  BY <1>1
    <3>2. SubSeq(m, 1, Len(s))[i] = m[i]  BY <1>1, <2>1
    <3> QED  BY <2>1, <3>1, <3>2
  <2>3. PICK u : u = s \o p  OBVIOUS
  <2>4. u \in Seq(T) /\ Len(u) = o + Len(p) /\ Len(p) \in Nat
    <3>1. p \in Seq(T)  BY <1>4
    <3>2. s \o p \in Seq(T) /\ Len(s \o p) = Len(s) + Len(p)  BY <3>1
    <3> QED  BY <1>6, <2>3, <3>1, <3>2
  <2>5. \A i \in 1..Len(u) : u[i] = m[i]
    <3> SUFFICES ASSUME NEW i \in 1..Len(u)  PROVE u[i] = m[i]
      OBVIOUS
    <3>1. CASE i <= o
      <4>1. i \in 1..Len(s)  BY <1>6, <2>4, <3>1
      <4>2. u[i] = s[i]  BY <1>4, <2>3, <4>1
      <4> QED  BY <2>2, <4>1, <4>2
    <3>2. CASE i > o
      <4>1. i - o \in 1..Len(p)  BY <2>4, <3>2
      <4>2. u[i] = p[i - o]  BY <1>4, <1>6, <2>3, <2>4, <3>2
      <4>3. p[i - o] = m[o + (i - o)] /\ o + (i - o) = i  BY <1>5, <4>1
      <4> QED  BY <4>2, <4>3
    <3> QED  BY <3>1, <3>2, <2>4
  <2>6. Len(u) <= Len(m)  BY <1>1, <1>2, <1>4, <1>6, <2>1, <2>4
  <2>7. SubSeq(u, 1, Len(u)) = SubSeq(m, 1, Len(u))
    BY <1>1, <2>4, <2>5, <2>6
  <2> QED  BY <2>3, <2>6, <2>7 DEF G!IsPrefix
<1> QED  BY <1>3, <1>4, <1>6

LEMMA Pages ==
  \A f : \A o \in Nat :
    /\ G!Page(f, o) \in Seq(G!Images)
    /\ \A s \in Seq(G!Images) :
         Len(s) = o /\ G!IsPrefix(s, G!Matching(f)) => G!IsPrefix(s \o G!Page(f, o), G!Matching(f))
    /\ G!IsPrefix(G!Page(f, 0), G!Matching(f))
<1> SUFFICES ASSUME NEW f, NEW o \in Nat
             PROVE  /\ G!Page(f, o) \in Seq(G!Images)
                    /\ \A s \in Seq(G!Images) :
                         Len(s) = o /\ G!IsPrefix(s, G!Matching(f))
                           => G!IsPrefix(s \o G!Page(f, o), G!Matching(f))
                    /\ G!IsPrefix(G!Page(f, 0), G!Matching(f))
  OBVIOUS
<1>1. PICK m : m = G!Matching(f)  OBVIOUS
<1>2. m \in Seq(G!Images) /\ Len(m) \in Nat  BY <1>1, MatchingIsList, GalleryAssumption
<1>3. PAGE \in Nat  BY GalleryAssumption
<1>4. ASSUME NEW n \in Nat
      PROVE  /\ G!Page(f, n) \in Seq(G!Images)
             /\ \A s \in Seq(G!Images) :
                  Len(s) = n /\ G!IsPrefix(s, m) => G!IsPrefix(s \o G!Page(f, n), m)
  <2>1. PICK last : last = IF n + PAGE > Len(m) THEN Len(m) ELSE n + PAGE  OBVIOUS
  <2>2. last \in Nat  BY <1>2, <1>3, <2>1
  <2>3. G!Page(f, n) = SubSeq(m, n + 1, last)  BY <1>1, <2>1 DEF G!Page
  <2> QED  BY <1>2, <2>1, <2>2, <2>3, PageContinues
<1>5. G!IsPrefix(G!Page(f, 0), m)
  <2>1. PICK p : p = G!Page(f, 0)  OBVIOUS
  <2>2. p \in Seq(G!Images)  BY <1>4, <2>1
  <2>3. <<>> \in Seq(G!Images) /\ Len(<<>>) = 0  OBVIOUS
  <2>4. G!IsPrefix(<<>>, m)  BY <1>2 DEF G!IsPrefix
  <2>5. G!IsPrefix(<<>> \o p, m)  BY <1>4, <2>1, <2>3, <2>4
  <2>6. <<>> \o p = p  BY <2>2
  <2> QED  BY <2>1, <2>5, <2>6
<1> QED  BY <1>1, <1>4, <1>5

\* A request under way: what it asked for, and once served what it brings.
IsRequest(r) ==
  /\ r = [id |-> r.id, kind |-> r.kind, filter |-> r.filter, offset |-> r.offset, live |-> r.live,
          st |-> r.st, items |-> r.items, total |-> r.total, seen |-> r.seen]
  /\ r.kind \in {"reload", "more"} /\ r.filter \in G!Filters /\ r.offset \in Nat
  /\ r.live \in BOOLEAN /\ r.st \in {"sent", "served"}
  /\ r.items \in Seq(G!Images) /\ r.total \in 0..Count /\ r.seen \in 0..MaxChanges

GalleryTypes ==
  /\ filter \in G!Filters /\ items \in Seq(G!Images) /\ total \in 0..Count
  /\ error \in BOOLEAN /\ busy \in BOOLEAN /\ due \in BOOLEAN /\ skewed \in BOOLEAN
  /\ status \in [G!Images -> Statuses] /\ heard \in [G!Images -> Statuses]
  /\ changes \in 0..MaxChanges

IsLive(r) == r.kind = "reload" /\ r.live

\* What holds of every request: only a reload is ever cancelled; one that is
\* not asked for the whole list of the filter shown; what was served since
\* the last change is what the server would answer now.
Asked(r) ==
  /\ IsRequest(r)
  /\ r.kind = "more" => r.live
  /\ IsLive(r) => r.filter = filter /\ r.offset = 0
  /\ r.st = "served" =>
       r.seen <= changes /\ (r.seen = changes => r.items = G!Page(r.filter, r.offset))

OneLive == \A a, b \in reqs : IsLive(a) /\ IsLive(b) => a = b

\* As long as pages are of one list, at most one page is under way, the next,
\* and no reload with it.
NextPage(r) ==
  /\ busy /\ r.filter = filter /\ r.offset = Len(items)
  /\ r.st = "served" => r.items = G!Page(filter, Len(items))
  /\ \A other \in reqs : other = r

PagesFit ==
  ~skewed => /\ \A r \in reqs : r.kind = "more" => NextPage(r)
             /\ ~error /\ (\A r \in reqs : ~IsLive(r)) => G!IsPrefix(items, G!Matching(filter))

GInv == GalleryTypes /\ (\A r \in reqs : Asked(r)) /\ OneLive /\ PagesFit

\* The records the steps make of a request.
NewWith(n, kind, f, o) ==
  [id |-> n, kind |-> kind, filter |-> f, offset |-> o, live |-> TRUE, st |-> "sent",
   items |-> <<>>, total |-> 0, seen |-> 0]

LEMMA NewRequest ==
  ASSUME NEW n, NEW kind \in {"reload", "more"}, NEW f \in G!Filters, NEW o \in Nat
  PROVE  IsRequest(NewWith(n, kind, f, o))
<1> DEFINE q == NewWith(n, kind, f, o)
<1>1. PICK e : e = <<>>  OBVIOUS
<1>2. e \in Seq(G!Images)  BY <1>1
<1>3. q = [id |-> n, kind |-> kind, filter |-> f, offset |-> o, live |-> TRUE, st |-> "sent",
           items |-> e, total |-> 0, seen |-> 0]
  BY <1>1 DEF NewWith
<1>4. 0 \in 0..Count /\ 0 \in 0..MaxChanges  BY GalleryAssumption
<1> HIDE DEF q
<1>5. /\ q.id = n /\ q.kind = kind /\ q.filter = f /\ q.offset = o /\ q.st = "sent"
      /\ q.items = e /\ q.total = 0 /\ q.seen = 0
  BY <1>3
<1>6. q.live = TRUE  BY <1>3
<1>7. q = [id |-> q.id, kind |-> q.kind, filter |-> q.filter, offset |-> q.offset,
           live |-> q.live, st |-> q.st, items |-> q.items, total |-> q.total, seen |-> q.seen]
  BY <1>3
<1>8. IsRequest(q)  BY <1>2, <1>4, <1>5, <1>6, <1>7 DEF IsRequest
<1> QED  BY <1>8 DEF q

LEMMA CancelledRequest ==
  ASSUME NEW r, IsRequest(r), NEW q, q = [r EXCEPT !.live = @ /\ r.kind = "more"]
  PROVE  /\ IsRequest(q)
         /\ q.kind = r.kind /\ q.filter = r.filter /\ q.offset = r.offset /\ q.st = r.st
         /\ q.items = r.items /\ q.total = r.total /\ q.seen = r.seen
         /\ q.live = (r.live /\ r.kind = "more")
<1>1. PICK b : b = (r.live /\ r.kind = "more")  OBVIOUS
<1>2. b \in BOOLEAN  BY <1>1
<1>3. q = [r EXCEPT !.live = b]  BY <1>1
<1>4. r = [id |-> r.id, kind |-> r.kind, filter |-> r.filter, offset |-> r.offset,
           live |-> r.live, st |-> r.st, items |-> r.items, total |-> r.total, seen |-> r.seen]
  BY DEF IsRequest
<1>5. q = [id |-> r.id, kind |-> r.kind, filter |-> r.filter, offset |-> r.offset,
           live |-> b, st |-> r.st, items |-> r.items, total |-> r.total, seen |-> r.seen]
  BY <1>3, <1>4
<1>6. /\ q.id = r.id /\ q.kind = r.kind /\ q.filter = r.filter /\ q.offset = r.offset
      /\ q.st = r.st /\ q.items = r.items /\ q.total = r.total /\ q.seen = r.seen
  BY <1>5
<1>7. q.live = b  BY <1>5
<1>8. q = [id |-> q.id, kind |-> q.kind, filter |-> q.filter, offset |-> q.offset,
           live |-> q.live, st |-> q.st, items |-> q.items, total |-> q.total, seen |-> q.seen]
  BY <1>5
<1>9. IsRequest(q)  BY <1>2, <1>6, <1>7, <1>8 DEF IsRequest
<1> QED  BY <1>1, <1>6, <1>7, <1>9

ServedWith(r, is, n, c) ==
  [r EXCEPT !.st = "served", !.items = is, !.total = n, !.seen = c]

LEMMA ServedRequest ==
  ASSUME NEW r, IsRequest(r), NEW is \in Seq(G!Images), NEW n \in 0..Count,
         NEW c \in 0..MaxChanges
  PROVE  LET q == ServedWith(r, is, n, c)
         IN  /\ IsRequest(q)
             /\ q.kind = r.kind /\ q.filter = r.filter /\ q.offset = r.offset /\ q.live = r.live
             /\ q.st = "served" /\ q.items = is /\ q.total = n /\ q.seen = c
<1> DEFINE q == ServedWith(r, is, n, c)
<1>1. r = [id |-> r.id, kind |-> r.kind, filter |-> r.filter, offset |-> r.offset,
           live |-> r.live, st |-> r.st, items |-> r.items, total |-> r.total, seen |-> r.seen]
  BY DEF IsRequest
<1>2. q = [id |-> r.id, kind |-> r.kind, filter |-> r.filter, offset |-> r.offset,
           live |-> r.live, st |-> "served", items |-> is, total |-> n, seen |-> c]
  <2>1. q = [r EXCEPT !.st = "served", !.items = is, !.total = n, !.seen = c]
    BY DEF ServedWith
  <2> HIDE DEF q
  <2> QED  BY <1>1, <2>1
<1> HIDE DEF q
<1>3. /\ q.id = r.id /\ q.kind = r.kind /\ q.filter = r.filter /\ q.offset = r.offset
      /\ q.st = "served" /\ q.items = is /\ q.total = n /\ q.seen = c
  BY <1>2
<1>4. q.live = r.live  BY <1>2
<1>5. q = [id |-> q.id, kind |-> q.kind, filter |-> q.filter, offset |-> q.offset,
           live |-> q.live, st |-> q.st, items |-> q.items, total |-> q.total, seen |-> q.seen]
  BY <1>2
<1>6. r.live \in BOOLEAN  BY DEF IsRequest
<1>7. IsRequest(q)  BY <1>3, <1>4, <1>5, <1>6 DEF IsRequest
<1> QED  BY <1>3, <1>4, <1>7 DEF q

LEMMA GalleryBegins == G!Init => GInv
<1> SUFFICES ASSUME G!Init  PROVE GInv
  OBVIOUS
<1>1. PICK q : q = [id |-> 1, kind |-> "reload", filter |-> "all", offset |-> 0, live |-> TRUE,
                    st |-> "sent", items |-> <<>>, total |-> 0, seen |-> 0]
  OBVIOUS
<1>2. reqs = {q}  BY <1>1 DEF G!Init
<1>3. 0 \in 0..Count /\ 0 \in 0..MaxChanges  BY GalleryAssumption
<1>4. "all" \in G!Filters  BY DEF G!Filters
<1>5. /\ q.kind = "reload" /\ q.filter = "all" /\ q.offset = 0 /\ q.st = "sent"
      /\ q.items = <<>> /\ q.total = 0 /\ q.seen = 0
  BY <1>1
<1>6. q.live = TRUE  BY <1>1
<1>7. q = [id |-> q.id, kind |-> q.kind, filter |-> q.filter, offset |-> q.offset,
           live |-> q.live, st |-> q.st, items |-> q.items, total |-> q.total, seen |-> q.seen]
  BY <1>1
<1>8. IsRequest(q)
  <2>1. q.items \in Seq(G!Images)  BY <1>5
  <2>2. q.filter \in G!Filters /\ q.total \in 0..Count /\ q.seen \in 0..MaxChanges
    BY <1>3, <1>4, <1>5
  <2>3. q.live \in BOOLEAN  BY <1>6
  <2> QED  BY <1>5, <1>7, <2>1, <2>2, <2>3 DEF IsRequest
<1>9. Asked(q)  BY <1>5, <1>8 DEF Asked, IsLive, G!Init
<1>10. OneLive /\ PagesFit  BY <1>2, <1>5, <1>6 DEF OneLive, PagesFit, IsLive
<1>11. GalleryTypes
  <2>1. filter \in G!Filters /\ items \in Seq(G!Images) /\ total \in 0..Count
    BY <1>3, <1>4 DEF G!Init
  <2>2. error \in BOOLEAN /\ busy \in BOOLEAN /\ due \in BOOLEAN /\ skewed \in BOOLEAN
    BY DEF G!Init
  <2>3. /\ status \in [G!Images -> Statuses] /\ heard \in [G!Images -> Statuses]
        /\ changes \in 0..MaxChanges
    BY <1>3 DEF G!Init
  <2> QED  BY <2>1, <2>2, <2>3 DEF GalleryTypes
<1> QED  BY <1>2, <1>9, <1>10, <1>11 DEF GInv

LEMMA DueTyped ==
  ASSUME due \in BOOLEAN, G!Observe
  PROVE  due' \in BOOLEAN
BY DEF G!Observe

\* A reload cancels the reloads before it; it is the one that lives.
LEMMA ReloadStep ==
  ASSUME GInv, NEW f \in G!Filters, G!Reload(f), filter' = f,
         UNCHANGED <<items, total, status, changes>>
  PROVE  /\ \A q \in reqs' : Asked(q)'
         /\ OneLive' /\ PagesFit'
         /\ busy' \in BOOLEAN /\ error' \in BOOLEAN /\ skewed' \in BOOLEAN
<1> DEFINE dead(r) == [r EXCEPT !.live = @ /\ r.kind = "more"]
<1>1. PICK new : new = G!Request("reload", f, 0)  OBVIOUS
<1>2. /\ IsRequest(new) /\ new.kind = "reload" /\ new.filter = f /\ new.offset = 0
      /\ new.live = TRUE /\ new.st = "sent"
  <2>1. PICK k, o : k = "reload" /\ o = 0  OBVIOUS
  <2>2. k \in {"reload", "more"} /\ o \in Nat  BY <2>1
  <2>3. PICK n : new = NewWith(n, k, f, o)  BY <1>1, <2>1 DEF G!Request, NewWith
  <2>4. /\ IsRequest(new) /\ new.kind = k /\ new.filter = f /\ new.offset = o
        /\ new.live = TRUE /\ new.st = "sent"
    <3>1. IsRequest(new)  BY <2>2, <2>3, NewRequest
    <3>2. new.kind = k /\ new.filter = f /\ new.offset = o /\ new.st = "sent"
      BY <2>3 DEF NewWith
    <3>3. new.live = TRUE  BY <2>3 DEF NewWith
    <3> QED  BY <3>1, <3>2, <3>3
  <2> QED  BY <2>1, <2>4
<1>3. new.live = TRUE  BY <1>2
<1>4. reqs' = {dead(r) : r \in reqs} \cup {new}  BY <1>1 DEF G!Reload
<1>5. ASSUME NEW r \in reqs, NEW q, q = dead(r)
      PROVE  /\ Asked(q)' /\ ~IsLive(q) /\ q.kind = r.kind
  <2>1. Asked(r)  BY DEF GInv
  <2>2. IsRequest(r)  BY <2>1 DEF Asked
  <2>3. /\ IsRequest(q)
        /\ q.kind = r.kind /\ q.filter = r.filter /\ q.offset = r.offset /\ q.st = r.st
        /\ q.items = r.items /\ q.total = r.total /\ q.seen = r.seen
    BY <1>5, <2>2, CancelledRequest
  <2>4. q.live = (r.live /\ r.kind = "more")  BY <1>5, <2>2, CancelledRequest
  <2>5. ~IsLive(q)  BY <2>3, <2>4 DEF IsLive
  <2>6. q.kind = "more" => q.live  BY <2>1, <2>3, <2>4 DEF Asked
  <2>7. q.st = "served" =>
          q.seen <= changes /\ (q.seen = changes => q.items = G!Page(q.filter, q.offset))
    BY <2>1, <2>3 DEF Asked
  <2>8. G!Page(q.filter, q.offset)' = G!Page(q.filter, q.offset)
    BY DEF G!Page, G!Matching
  <2>9. IsRequest(q)'  BY <2>3 DEF IsRequest
  <2>10. Asked(q)'  BY <2>5, <2>6, <2>7, <2>8, <2>9 DEF Asked, IsLive
  <2> QED  BY <2>3, <2>5, <2>10
<1>6. Asked(new)'
  <2>1. IsRequest(new)'  BY <1>2 DEF IsRequest
  <2> QED  BY <1>2, <2>1 DEF Asked, IsLive
<1>7. \A q \in reqs' : Asked(q)'
  <2> SUFFICES ASSUME NEW q \in reqs'  PROVE Asked(q)'
    OBVIOUS
  <2>1. q = new \/ \E r \in reqs : q = dead(r)  BY <1>4
  <2> HIDE DEF dead
  <2> QED  BY <1>5, <1>6, <2>1
<1>8. \A q \in reqs' : IsLive(q) => q = new
  <2> SUFFICES ASSUME NEW q \in reqs', IsLive(q)  PROVE q = new
    OBVIOUS
  <2>1. q = new \/ \E r \in reqs : q = dead(r)  BY <1>4
  <2> HIDE DEF dead
  <2> QED  BY <1>5, <2>1
<1>9. OneLive'  BY <1>8 DEF OneLive, IsLive
<1>10. PagesFit'
  <2> SUFFICES ASSUME ~skewed'
               PROVE  /\ \A q \in reqs' : q.kind # "more"
                      /\ \E q \in reqs' : IsLive(q)
    BY DEF PagesFit, IsLive
  <2>1. G!Mores = {}  BY DEF G!Reload
  <2>2. \A q \in reqs' : q.kind # "more"
    <3> SUFFICES ASSUME NEW q \in reqs'  PROVE q.kind # "more"
      OBVIOUS
    <3>1. q = new \/ \E r \in reqs : q = dead(r)  BY <1>4
    <3>2. \A r \in reqs : r.kind # "more"  BY <2>1 DEF G!Mores
    <3> HIDE DEF dead
    <3> QED  BY <1>2, <1>5, <3>1, <3>2
  <2>3. new \in reqs' /\ IsLive(new)  BY <1>2, <1>3, <1>4 DEF IsLive
  <2> QED  BY <2>2, <2>3
<1>11. busy' \in BOOLEAN /\ error' \in BOOLEAN /\ skewed' \in BOOLEAN
  BY DEF G!Reload, GInv, GalleryTypes
<1> QED  BY <1>7, <1>9, <1>10, <1>11

LEMMA FilterStep ==
  ASSUME GInv, NEW f \in G!Filters, G!setFilter(f)
  PROVE  GInv'
<1>1. G!Reload(f) /\ filter' = f /\ UNCHANGED <<items, total, heard, status, changes>>
  BY DEF G!setFilter
<1>2. due' \in BOOLEAN  BY DueTyped DEF G!setFilter, GInv, GalleryTypes
<1>3. /\ \A q \in reqs' : Asked(q)'
      /\ OneLive' /\ PagesFit'
      /\ busy' \in BOOLEAN /\ error' \in BOOLEAN /\ skewed' \in BOOLEAN
  BY <1>1, ReloadStep
<1>4. GalleryTypes'  BY <1>1, <1>2, <1>3 DEF GalleryTypes, GInv
<1> QED  BY <1>3, <1>4 DEF GInv

LEMMA HearStep ==
  ASSUME GInv, G!Hear
  PROVE  GInv'
<1>1. /\ G!Reload(filter) /\ filter' = filter /\ filter \in G!Filters
      /\ UNCHANGED <<items, total, due, status, changes>> /\ heard' = status
  BY DEF G!Hear, G!used, GInv, GalleryTypes
<1>2. /\ \A q \in reqs' : Asked(q)'
      /\ OneLive' /\ PagesFit'
      /\ busy' \in BOOLEAN /\ error' \in BOOLEAN /\ skewed' \in BOOLEAN
  BY <1>1, ReloadStep
<1>3. GalleryTypes'  BY <1>1, <1>2 DEF GalleryTypes, GInv
<1> QED  BY <1>2, <1>3 DEF GInv

\* A step that leaves the filter, the rows, the statuses and the count of
\* changes alone leaves what was asked as it is.
LEMMA AskedStays ==
  ASSUME NEW r, Asked(r), UNCHANGED <<filter, status, changes>>
  PROVE  Asked(r)'
<1>1. G!Page(r.filter, r.offset)' = G!Page(r.filter, r.offset)
  BY DEF G!Page, G!Matching
<1>2. IsRequest(r)'  BY DEF Asked, IsRequest
<1> QED  BY <1>1, <1>2 DEF Asked, IsLive

LEMMA PrefixStays ==
  ASSUME UNCHANGED <<filter, items, status>>
  PROVE  /\ G!IsPrefix(items, G!Matching(filter))' = G!IsPrefix(items, G!Matching(filter))
         /\ \A n : G!Page(filter, n)' = G!Page(filter, n)
BY DEF G!IsPrefix, G!Matching, G!Page

LEMMA MoreStep ==
  ASSUME GInv, G!loadMore
  PROVE  GInv'
<1>1. UNCHANGED <<filter, items, total, error, heard, status, changes>> /\ due' = FALSE
  BY DEF G!loadMore, G!used
<1>2. CASE busy
  <2>1. UNCHANGED <<busy, reqs, skewed>>  BY <1>2 DEF G!loadMore
  <2>2. \A r \in reqs' : Asked(r)'  BY <1>1, <2>1, AskedStays DEF GInv
  <2>3. OneLive'  BY <2>1 DEF GInv, OneLive, IsLive
  <2>4. PagesFit'
    BY <1>1, <2>1, PrefixStays DEF GInv, PagesFit, NextPage, IsLive
  <2>5. GalleryTypes'  BY <1>1, <2>1 DEF GInv, GalleryTypes
  <2> QED  BY <2>2, <2>3, <2>4, <2>5 DEF GInv
<1>3. CASE ~busy
  <2>1. PICK new : new = G!Request("more", filter, Len(items))  OBVIOUS
  <2>2. filter \in G!Filters /\ Len(items) \in Nat  BY DEF GInv, GalleryTypes
  <2>3. /\ IsRequest(new) /\ new.kind = "more" /\ new.filter = filter
        /\ new.offset = Len(items) /\ new.live = TRUE /\ new.st = "sent"
    <3>1. PICK k, f, o : k = "more" /\ f = filter /\ o = Len(items)  OBVIOUS
    <3>2. k \in {"reload", "more"} /\ f \in G!Filters /\ o \in Nat  BY <2>2, <3>1
    <3>3. PICK n : new = NewWith(n, k, f, o)  BY <2>1, <3>1 DEF G!Request, NewWith
    <3>4. /\ IsRequest(new) /\ new.kind = k /\ new.filter = f /\ new.offset = o
          /\ new.live = TRUE /\ new.st = "sent"
      <4>1. IsRequest(new)  BY <3>2, <3>3, NewRequest
      <4>2. new.kind = k /\ new.filter = f /\ new.offset = o /\ new.st = "sent"
        BY <3>3 DEF NewWith
      <4>3. new.live = TRUE  BY <3>3 DEF NewWith
      <4> QED  BY <4>1, <4>2, <4>3
    <3> QED  BY <3>1, <3>4
  <2>4. new.live = TRUE  BY <2>3
  <2>5. /\ reqs' = reqs \cup {new} /\ busy' = TRUE
        /\ skewed' = (skewed \/ G!Reloads # {})
    BY <1>3, <2>1 DEF G!loadMore
  <2>6. Asked(new)  BY <2>3, <2>4 DEF Asked, IsLive
  <2>7. \A r \in reqs' : Asked(r)'  BY <1>1, <2>5, <2>6, AskedStays DEF GInv
  <2>8. OneLive'  BY <2>3, <2>5 DEF GInv, OneLive, IsLive
  <2>9. PagesFit'
    <3> SUFFICES ASSUME ~skewed'
                 PROVE  /\ NextPage(new)' /\ reqs' = {new}
                        /\ ~error' => G!IsPrefix(items, G!Matching(filter))'
      BY DEF PagesFit
    <3>1. ~skewed /\ G!Reloads = {}  BY <2>5 DEF GInv, GalleryTypes
    <3>2. \A r \in reqs : r.kind = "more"
      BY <3>1 DEF G!Reloads, GInv, Asked, IsRequest
    <3>3. reqs = {}  BY <1>3, <3>1, <3>2 DEF GInv, PagesFit, NextPage
    <3>4. reqs' = {new}  BY <2>5, <3>3
    <3>5. NextPage(new)'  BY <1>1, <2>3, <2>5, <3>4 DEF NextPage
    <3>6. ~error => G!IsPrefix(items, G!Matching(filter))
      BY <3>1, <3>3 DEF GInv, PagesFit
    <3> QED  BY <1>1, <3>4, <3>5, <3>6, PrefixStays
  <2>10. GalleryTypes'
    <3>1. skewed' \in BOOLEAN /\ busy' \in BOOLEAN  BY <2>5 DEF GInv, GalleryTypes
    <3> QED  BY <1>1, <3>1 DEF GInv, GalleryTypes
  <2> QED  BY <2>7, <2>8, <2>9, <2>10 DEF GInv
<1> QED  BY <1>2, <1>3

\* The server answers with the page it has now.
LEMMA ServeStep ==
  ASSUME GInv, NEW r \in reqs, G!Serve(r)
  PROVE  GInv'
<1>1. UNCHANGED <<filter, items, total, error, busy, due, heard, status, changes, skewed>>
  BY DEF G!Serve, G!panel, G!used
<1>2. PICK is, n, c : is = G!Page(r.filter, r.offset) /\ n = Len(G!Matching(r.filter)) /\ c = changes
  OBVIOUS
<1>3. PICK q : q = ServedWith(r, is, n, c)  OBVIOUS
<1>4. reqs' = (reqs \ {r}) \cup {q}  BY <1>2, <1>3 DEF G!Serve, ServedWith
<1>5. Asked(r) /\ IsRequest(r) /\ r.offset \in Nat  BY DEF GInv, Asked, IsRequest
<1>6. is \in Seq(G!Images) /\ n \in 0..Count /\ c \in 0..MaxChanges
  <2>1. is \in Seq(G!Images)  BY <1>2, <1>5, Pages
  <2>2. n \in 0..Count  BY <1>2, MatchingIsList
  <2>3. c \in 0..MaxChanges  BY <1>2 DEF GInv, GalleryTypes
  <2> QED  BY <2>1, <2>2, <2>3
<1>7. /\ IsRequest(q)
      /\ q.kind = r.kind /\ q.filter = r.filter /\ q.offset = r.offset
      /\ q.st = "served" /\ q.items = is /\ q.total = n /\ q.seen = c
  BY <1>3, <1>5, <1>6, ServedRequest
<1>8. q.live = r.live  BY <1>3, <1>5, <1>6, ServedRequest
<1>9. Asked(q)
  <2>1. c <= changes  BY <1>2, <1>6, GalleryAssumption
  <2> QED  BY <1>2, <1>5, <1>7, <1>8, <2>1 DEF Asked, IsLive
<1>10. \A p \in reqs' : Asked(p)'  BY <1>1, <1>4, <1>9, AskedStays DEF GInv
<1>11. IsLive(q) <=> IsLive(r)  BY <1>7, <1>8 DEF IsLive
<1>12. OneLive'
  <2> SUFFICES ASSUME NEW a \in reqs', NEW b \in reqs', IsLive(a), IsLive(b)  PROVE a = b
    BY DEF OneLive, IsLive
  <2>1. (a = q \/ a \in reqs \ {r}) /\ (b = q \/ b \in reqs \ {r})  BY <1>4
  <2>2. \A p \in reqs \ {r} : ~(IsLive(p) /\ IsLive(r))  BY DEF GInv, OneLive
  <2>3. \A p1, p2 \in reqs : IsLive(p1) /\ IsLive(p2) => p1 = p2  BY DEF GInv, OneLive
  <2> QED  BY <1>11, <2>1, <2>2, <2>3
<1>13. PagesFit'
  <2> SUFFICES ASSUME ~skewed'
               PROVE  /\ \A p \in reqs' : p.kind = "more" => NextPage(p)'
                      /\ ~error' /\ (\A p \in reqs' : ~IsLive(p))
                           => G!IsPrefix(items, G!Matching(filter))'
    BY DEF PagesFit, IsLive
  <2>1. /\ \A p \in reqs : p.kind = "more" => NextPage(p)
        /\ ~error /\ (\A p \in reqs : ~IsLive(p)) => G!IsPrefix(items, G!Matching(filter))
    BY <1>1 DEF GInv, PagesFit
  <2>2. ASSUME NEW p \in reqs', p.kind = "more"  PROVE NextPage(p)'
    <3>1. p = q \/ p \in reqs \ {r}  BY <1>4
    <3>2. \A o \in reqs : o.kind = "more" => reqs = {o}  BY <2>1 DEF NextPage
    <3>3. p = q /\ NextPage(r) /\ reqs' = {q}  BY <1>4, <1>7, <2>1, <2>2, <3>1, <3>2
    <3>4. /\ busy' /\ q.filter = filter' /\ q.offset = Len(items')
      BY <1>1, <1>7, <3>3 DEF NextPage
    <3>5. q.items = G!Page(filter, Len(items))  BY <1>2, <1>7, <3>3 DEF NextPage
    <3>6. G!Page(filter, Len(items))' = G!Page(filter, Len(items))
      BY <1>1 DEF G!Page, G!Matching
    <3> QED  BY <3>3, <3>4, <3>5, <3>6 DEF NextPage
  <2>3. ASSUME ~error', \A p \in reqs' : ~IsLive(p)
        PROVE  G!IsPrefix(items, G!Matching(filter))'
    <3>1. \A p \in reqs : ~IsLive(p)  BY <1>4, <1>11, <2>3
    <3> QED  BY <1>1, <2>1, <2>3, <3>1, PrefixStays
  <2> QED  BY <2>2, <2>3
<1>14. GalleryTypes'  BY <1>1 DEF GInv, GalleryTypes
<1> QED  BY <1>10, <1>12, <1>13, <1>14 DEF GInv

\* An answer to a reload that still lives puts its page on screen; that of a
\* cancelled one only clears the flag.
LEMMA ReloadAnswered ==
  ASSUME GInv, NEW r \in reqs, G!ReloadAnswer(r)
  PROVE  GInv'
<1>1. /\ r.st = "served" /\ r.kind = "reload" /\ reqs' = reqs \ {r} /\ busy' = FALSE
      /\ UNCHANGED <<filter, error, heard, status, changes>>
  BY DEF G!ReloadAnswer, G!used
<1>2. due' \in BOOLEAN  BY DueTyped DEF G!ReloadAnswer, GInv, GalleryTypes
<1>3. \A q \in reqs' : Asked(q)'  BY <1>1, AskedStays DEF GInv
<1>4. OneLive'  BY <1>1 DEF GInv, OneLive, IsLive
<1>5. Asked(r)  BY DEF GInv
<1>6. CASE r.live
  <2>1. /\ items' = r.items /\ total' = r.total
        /\ skewed' = (G!Mores # {} \/ r.seen # changes)
    BY <1>6 DEF G!ReloadAnswer
  <2>2. PagesFit'
    <3> SUFFICES ASSUME ~skewed'
                 PROVE  /\ \A q \in reqs' : q.kind # "more"
                        /\ G!IsPrefix(items, G!Matching(filter))'
      BY DEF PagesFit
    <3>1. G!Mores = {} /\ r.seen = changes  BY <2>1
    <3>2. \A q \in reqs' : q.kind # "more"  BY <1>1, <3>1 DEF G!Mores
    <3>3. r.items = G!Page(filter, 0)  BY <1>1, <1>5, <1>6, <3>1 DEF Asked, IsLive
    <3>4. G!IsPrefix(items', G!Matching(filter))  BY <2>1, <3>3, Pages
    <3>5. G!Matching(filter)' = G!Matching(filter)  BY <1>1 DEF G!Matching
    <3> QED  BY <3>2, <3>4, <3>5 DEF G!IsPrefix
  <2>3. GalleryTypes'
    <3>1. items' \in Seq(G!Images) /\ total' \in 0..Count
      BY <1>5, <2>1 DEF Asked, IsRequest
    <3>2. skewed' \in BOOLEAN  BY <2>1
    <3> QED  BY <1>1, <1>2, <3>1, <3>2 DEF GInv, GalleryTypes
  <2> QED  BY <1>3, <1>4, <2>2, <2>3 DEF GInv
<1>7. CASE ~r.live
  <2>1. UNCHANGED <<items, total, skewed>>  BY <1>7 DEF G!ReloadAnswer
  <2>2. PagesFit'
    <3> SUFFICES ASSUME ~skewed'
                 PROVE  /\ \A q \in reqs' : q.kind # "more"
                        /\ ~error' /\ (\A q \in reqs' : ~IsLive(q))
                             => G!IsPrefix(items, G!Matching(filter))'
      BY DEF PagesFit, IsLive
    <3>1. ~skewed  BY <2>1
    <3>2. \A q \in reqs : q.kind # "more"
      BY <1>1, <3>1 DEF GInv, PagesFit, NextPage
    <3>3. (\A q \in reqs' : ~IsLive(q)) => \A q \in reqs : ~IsLive(q)
      BY <1>1, <1>7 DEF IsLive
    <3>4. ~error /\ (\A q \in reqs : ~IsLive(q)) => G!IsPrefix(items, G!Matching(filter))
      BY <3>1 DEF GInv, PagesFit
    <3> QED  BY <1>1, <2>1, <3>2, <3>3, <3>4, PrefixStays
  <2>3. GalleryTypes'  BY <1>1, <1>2, <2>1 DEF GInv, GalleryTypes
  <2> QED  BY <1>3, <1>4, <2>2, <2>3 DEF GInv
<1> QED  BY <1>6, <1>7

\* The next page is appended to the rows it was asked for after.
LEMMA PageAnswered ==
  ASSUME GInv, NEW r \in reqs, G!MoreAnswer(r)
  PROVE  GInv'
<1>1. /\ r.st = "served" /\ r.kind = "more" /\ reqs' = reqs \ {r} /\ busy' = FALSE
      /\ items' = items \o r.items /\ total' = r.total
      /\ UNCHANGED <<filter, error, heard, status, changes, skewed>>
  BY DEF G!MoreAnswer, G!used
<1>2. due' \in BOOLEAN  BY DueTyped DEF G!MoreAnswer, GInv, GalleryTypes
<1>3. \A q \in reqs' : Asked(q)'  BY <1>1, AskedStays DEF GInv
<1>4. OneLive'  BY <1>1 DEF GInv, OneLive, IsLive
<1>5. r.items \in Seq(G!Images) /\ r.total \in 0..Count /\ items \in Seq(G!Images)
  BY DEF GInv, Asked, IsRequest, GalleryTypes
<1>6. PagesFit'
  <2> SUFFICES ASSUME ~skewed'
               PROVE  /\ reqs' = {}
                      /\ ~error' => G!IsPrefix(items, G!Matching(filter))'
    BY DEF PagesFit
  <2>1. ~skewed  BY <1>1
  <2>2. NextPage(r)  BY <1>1, <2>1 DEF GInv, PagesFit
  <2>3. reqs = {r}  BY <2>2 DEF NextPage
  <2>4. reqs' = {}  BY <1>1, <2>3
  <2>5. ASSUME ~error'  PROVE G!IsPrefix(items', G!Matching(filter))
    <3>1. ~IsLive(r)  BY <1>1 DEF IsLive
    <3>2. G!IsPrefix(items, G!Matching(filter))
      BY <1>1, <2>1, <2>3, <2>5, <3>1 DEF GInv, PagesFit
    <3>3. r.items = G!Page(filter, Len(items))  BY <1>1, <2>2 DEF NextPage
    <3>4. PICK n, f : n = Len(items) /\ f = filter  OBVIOUS
    <3>5. n \in Nat  BY <1>5, <3>4
    <3>6. G!IsPrefix(items \o G!Page(f, n), G!Matching(f))
      BY <1>5, <3>2, <3>4, <3>5, Pages
    <3> QED  BY <1>1, <3>3, <3>4, <3>6
  <2>6. G!Matching(filter)' = G!Matching(filter)  BY <1>1 DEF G!Matching
  <2> QED  BY <2>4, <2>5, <2>6 DEF G!IsPrefix
<1>7. GalleryTypes'
  <2>1. items \o r.items \in Seq(G!Images)  BY <1>5
  <2>2. items' \in Seq(G!Images) /\ total' \in 0..Count  BY <1>1, <1>5, <2>1
  <2> QED  BY <1>1, <1>2, <2>2 DEF GInv, GalleryTypes
<1> QED  BY <1>3, <1>4, <1>6, <1>7 DEF GInv

LEMMA FailStep ==
  ASSUME GInv, NEW r \in reqs, G!Fails(r)
  PROVE  GInv'
<1>1. /\ reqs' = reqs \ {r} /\ busy' = FALSE
      /\ UNCHANGED <<filter, items, total, due, heard, status, changes, skewed>>
  BY DEF G!Fails
<1>2. error' = (error \/ r.live)  BY DEF G!Fails
<1>3. \A q \in reqs' : Asked(q)'  BY <1>1, AskedStays DEF GInv
<1>4. OneLive'  BY <1>1 DEF GInv, OneLive, IsLive
<1>5. PagesFit'
  <2> SUFFICES ASSUME ~skewed'
               PROVE  /\ \A q \in reqs' : q.kind # "more"
                      /\ ~error' /\ (\A q \in reqs' : ~IsLive(q))
                           => G!IsPrefix(items, G!Matching(filter))'
    BY DEF PagesFit, IsLive
  <2>1. ~skewed  BY <1>1
  <2>2. \A q \in reqs : q.kind = "more" => reqs = {q}
    BY <2>1 DEF GInv, PagesFit, NextPage
  <2>3. \A q \in reqs' : q.kind # "more"  BY <1>1, <2>2
  <2>4. ASSUME ~error', \A q \in reqs' : ~IsLive(q)
        PROVE  G!IsPrefix(items, G!Matching(filter))'
    <3>1. ~error /\ ~IsLive(r)  BY <1>2, <2>4 DEF IsLive
    <3>2. \A q \in reqs : ~IsLive(q)  BY <1>1, <2>4, <3>1
    <3>3. G!IsPrefix(items, G!Matching(filter))  BY <2>1, <3>1, <3>2 DEF GInv, PagesFit
    <3> QED  BY <1>1, <3>3, PrefixStays
  <2> QED  BY <2>3, <2>4
<1>6. GalleryTypes'
  <2>1. r.live \in BOOLEAN  BY DEF GInv, Asked, IsRequest
  <2>2. error' \in BOOLEAN  BY <1>2
  <2> QED  BY <1>1, <2>2 DEF GInv, GalleryTypes
<1> QED  BY <1>3, <1>4, <1>5, <1>6 DEF GInv

\* After a change nothing served before is trusted any more.
LEMMA LabeledStep ==
  ASSUME GInv, NEW i \in G!Images, G!Labeled(i)
  PROVE  GInv'
<1>1. /\ changes < MaxChanges /\ changes' = changes + 1 /\ skewed' = TRUE
      /\ UNCHANGED <<filter, items, total, error, busy, due, reqs, heard>>
  BY DEF G!Labeled, G!panel
<1>2. PICK s \in Statuses : status' = [status EXCEPT ![i] = s]  BY DEF G!Labeled
<1>3. \A r \in reqs' : Asked(r)'
  <2> SUFFICES ASSUME NEW r \in reqs  PROVE Asked(r)'
    BY <1>1
  <2>1. Asked(r)  BY DEF GInv
  <2>2. IsRequest(r)'  BY <2>1 DEF Asked, IsRequest
  <2>3. r.st = "served" => r.seen <= changes' /\ r.seen # changes'
    <3>1. PICK n, c, d : n = r.seen /\ c = changes /\ d = changes'  OBVIOUS
    <3>2. n \in 0..MaxChanges /\ c \in 0..MaxChanges /\ d = c + 1
      BY <1>1, <2>1, <3>1 DEF GInv, GalleryTypes, Asked, IsRequest
    <3>3. r.st = "served" => n <= c  BY <2>1, <3>1 DEF Asked
    <3>4. r.st = "served" => n <= d /\ n # d  BY <3>2, <3>3, GalleryAssumption
    <3> QED  BY <3>1, <3>4
  <2> QED  BY <1>1, <2>1, <2>2, <2>3 DEF Asked, IsLive
<1>4. OneLive'  BY <1>1 DEF GInv, OneLive, IsLive
<1>5. PagesFit'  BY <1>1 DEF PagesFit
<1>6. GalleryTypes'
  <2>1. status' \in [G!Images -> Statuses]  BY <1>2 DEF GInv, GalleryTypes
  <2>2. changes' \in 0..MaxChanges
    <3>1. PICK c, d : c = changes /\ d = changes'  OBVIOUS
    <3>2. c \in 0..MaxChanges /\ c < MaxChanges /\ d = c + 1
      BY <1>1, <3>1 DEF GInv, GalleryTypes
    <3>3. d \in 0..MaxChanges  BY <3>2, GalleryAssumption
    <3> QED  BY <3>1, <3>3
  <2> QED  BY <1>1, <2>1, <2>2 DEF GInv, GalleryTypes
<1> QED  BY <1>3, <1>4, <1>5, <1>6 DEF GInv

LEMMA GalleryStays == GInv /\ UNCHANGED gallery => GInv'
<1> SUFFICES ASSUME GInv, UNCHANGED gallery  PROVE GInv'
  OBVIOUS
<1> USE DEF gallery
<1>1. \A r \in reqs' : Asked(r)'  BY AskedStays DEF GInv
<1>2. OneLive'  BY DEF GInv, OneLive, IsLive
<1>3. PagesFit'  BY PrefixStays DEF GInv, PagesFit, NextPage, IsLive
<1>4. GalleryTypes'  BY DEF GInv, GalleryTypes
<1> QED  BY <1>1, <1>2, <1>3, <1>4 DEF GInv

LEMMA GalleryStep == GInv /\ G!Next => GInv'
<1> SUFFICES ASSUME GInv, G!Next  PROVE GInv'
  OBVIOUS
<1>1. CASE G!Scroll
  <2>1. /\ due' = TRUE
        /\ UNCHANGED <<filter, items, total, error, busy, reqs, heard, status, changes, skewed>>
    BY <1>1 DEF G!Scroll, G!used
  <2>2. \A r \in reqs' : Asked(r)'  BY <2>1, AskedStays DEF GInv
  <2>3. OneLive'  BY <2>1 DEF GInv, OneLive, IsLive
  <2>4. PagesFit'  BY <2>1, PrefixStays DEF GInv, PagesFit, NextPage, IsLive
  <2>5. GalleryTypes'  BY <2>1 DEF GInv, GalleryTypes
  <2> QED  BY <2>2, <2>3, <2>4, <2>5 DEF GInv
<1> QED
  BY <1>1, FilterStep, HearStep, MoreStep, ServeStep, ReloadAnswered, PageAnswered, FailStep,
     LabeledStep
     DEF G!Next, G!Answer

\* A set in which any two are the same has at most one member.
LEMMA AtMostOne ==
  ASSUME NEW S, \A a, b \in S : a = b
  PROVE  Cardinality(S) <= 1
<1>1. CASE S = {}  BY <1>1, FS_EmptySet
<1>2. CASE S # {}
  <2>1. PICK a \in S : S = {a}  BY <1>2
  <2> QED  BY <2>1, FS_Singleton
<1> QED  BY <1>1, <1>2

LEMMA GalleryHolds == GInv => Coherent
<1> SUFFICES ASSUME GInv  PROVE G!TypeOK /\ G!Coherent
  BY DEF Coherent
<1>1. G!TypeOK
  <2>1. \A r \in reqs :
          /\ r.kind \in {"reload", "more"} /\ r.filter \in G!Filters /\ r.offset \in Nat
          /\ r.live \in BOOLEAN /\ r.st \in {"sent", "served"}
          /\ r.items \in Seq(G!Images) /\ r.total \in 0..Count /\ r.seen \in 0..MaxChanges
    BY DEF GInv, Asked, IsRequest
  <2>2. Cardinality(G!Live) <= 1
    <3>1. \A a, b \in G!Live : a = b
      BY DEF G!Live, G!Reloads, GInv, OneLive, IsLive
    <3> QED  BY <3>1, AtMostOne
  <2>3. G!Cardinality(G!Live) <= 1  BY <2>2, GalleryCounts
  <2>4. {error, busy, due, skewed} \subseteq BOOLEAN  BY DEF GInv, GalleryTypes
  <2>5. /\ filter \in G!Filters /\ items \in Seq(G!Images) /\ total \in 0..Count
        /\ status \in [G!Images -> Statuses] /\ heard \in [G!Images -> Statuses]
    BY DEF GInv, GalleryTypes
  <2> QED  BY <2>1, <2>3, <2>4, <2>5 DEF G!TypeOK
<1>2. G!Coherent
  <2>1. G!Live = {} => \A r \in reqs : ~IsLive(r)  BY DEF G!Live, G!Reloads, IsLive
  <2> QED  BY <2>1 DEF G!Coherent, GInv, PagesFit
<1> QED  BY <1>1, <1>2

(* For a folder of any size and pages of any length: the rows on screen    *)
(* are the beginning of the list that was asked for, with no image missing *)
(* or twice, wherever nothing is awaited, no page and reload were under    *)
(* way together and the list has not changed since (~skewed), and the last *)
(* request has not failed (~error) -- whatever was cancelled, failed or    *)
(* overlapped before that (GalleryPanel.tsx:61-103).                       *)
THEOREM GalleryCoherent == WidgetsSpec => []Coherent
<1>1. WidgetsInit => GInv  BY GalleryBegins DEF WidgetsInit
<1>2. GInv /\ [WidgetsNext]_<<widget, vars, gallery>> => GInv'
  BY GalleryStep, GalleryStays DEF WidgetsNext, InGallery
<1> QED  BY <1>1, <1>2, GalleryHolds, PTL DEF WidgetsSpec
=============================================================================
