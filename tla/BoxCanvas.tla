----------------------------- MODULE BoxCanvas -----------------------------
(***************************************************************************)
(* Drawing, moving and resizing boxes with the pointer and the keyboard:   *)
(* BoxCanvas.tsx over the box list that useBoxStack keeps.  The two axes   *)
(* are handled alike and apart from each other, so a box is the interval   *)
(* <<low, high>> it covers on one axis, and a corner is one end of it.     *)
(* The pointer is not bound to whole pixels: a coordinate is a number of    *)
(* positions, Pixel of which make a pixel, and so are all distances here.  *)
(*                                                                         *)
(* A drag lives in the component, from press to release; the box list can  *)
(* change under it: undo keys, an answer that loads or clears the canvas,  *)
(* another image.                                                          *)
(***************************************************************************)
EXTENDS Timeline, Integers

CONSTANTS None,
          Pixel,       \* positions to a pixel
          Width,       \* of the image
          Margin,      \* how far beyond the image the captured pointer goes
          GRAB,        \* how near the outline a press must be
          MinDraw,     \* a drawn box must be wider than this
          Nudges,      \* how far an arrow key moves: 1 or 10 pixels
          MaxBoxes,    \* bound: boxes on the canvas
          MaxEdits     \* bound: edits between two resets

Points == (0 - Margin)..(Width + Margin)
Ends   == (0 - Margin - Width)..(Margin + 2 * Width)   \* bound: where an end may be
Rect   == Ends \X Ends
Lists  == UNION {[1..n -> Rect] : n \in 0..MaxBoxes}

ASSUME BoxCanvasAssumption ==
  /\ Content = Lists /\ Blank = <<>>
  /\ {Width, Margin, GRAB, MinDraw, MaxBoxes, MaxEdits} \subseteq Nat
  /\ Pixel \in Nat \ {0} /\ Pixel <= Width /\ Nudges \subseteq Nat \ {0}
  /\ None \notin Nat

VARIABLES sel,    \* the selected index
          live,   \* a move or resize in progress
          drag,   \* where a new box was begun
          down,   \* the pointer is pressed
          edits   \* how much of MaxEdits is used

vars == <<pool, sel, live, drag, down, edits>>

boxes == pool.boxes

Grip == {"low", "high", "all"}     \* the end that follows the pointer, or the box

TypeOK ==
  /\ TimelineType
  /\ sel \in (1..MaxBoxes) \cup {None}
  /\ live \in [i : 1..MaxBoxes, grab : Grip, from : Points] \cup {None}
  /\ drag \in Points \cup {None}
  /\ down \in BOOLEAN
  /\ edits \in 0..MaxEdits

-----------------------------------------------------------------------------
LowerOf(x, y)  == IF x < y THEN x ELSE y
HigherOf(x, y) == IF x < y THEN y ELSE x

clamp(v, hi) == HigherOf(0, LowerOf(hi, v))
\* Deliberate bug: a drag past the other corner is kept as it is.
normNot(b)   == b
norm(b)      == <<LowerOf(b[1], b[2]), HigherOf(b[1], b[2])>>

Near(x, y) == x - y \in (0 - GRAB)..GRAB

(* On the outline, not anywhere inside: a box can be drawn within another. *)
onOutline(x, b) ==
  /\ x >= b[1] - GRAB /\ x <= b[2] + GRAB
  /\ ~(x >= b[1] + GRAB /\ x <= b[2] - GRAB)

(* The topmost box under the pointer: the last in the list. *)
hits(x)    == {i \in DOMAIN boxes : onOutline(x, boxes[i])}
hitTest(x) == CHOOSE i \in hits(x) : \A j \in hits(x) : j <= i

(* Which end of the selected box is under the pointer. *)
grabbedCorner(x) ==
  IF sel = None \/ sel \notin DOMAIN boxes THEN "all"
  ELSE IF Near(x, boxes[sel][2]) THEN "high"
  ELSE IF Near(x, boxes[sel][1]) THEN "low"
  ELSE "all"

(* Where a move or resize puts its box, given the pointer. *)
dragged(l, x) ==
  LET b == boxes[l.i]
  IN  CASE l.grab = "low"  -> <<x, b[2]>>
        [] l.grab = "high" -> <<b[1], x>>
        [] l.grab = "all"  -> <<b[1] + (x - l.from), b[2] + (x - l.from)>>

\* Deliberate bug: the far end of a moved box may leave.
nudgeLow(b, d, resize) ==
  IF resize THEN <<b[1], HigherOf(b[1] + Pixel, clamp(b[2] + d, Width))>>
  ELSE LET low == clamp(b[1] + d, Width) IN <<low, low + (b[2] - b[1])>>

(* An arrow key: a move keeps the size, a resize the low end and at least a *)
(* pixel. *)
nudge(b, d, resize) ==
  IF resize THEN <<b[1], HigherOf(b[1] + Pixel, clamp(b[2] + d, Width))>>
  ELSE LET w   == b[2] - b[1]
           low == clamp(b[1] + d, Width - w)
       IN  <<low, low + w>>

Without(s, i) == SubSeq(s, 1, i - 1) \o SubSeq(s, i + 1, Len(s))

-----------------------------------------------------------------------------
Edit(next) == /\ edits < MaxEdits /\ edits' = edits + 1
              /\ next \in Lists /\ Set(next)

(* A press grabs an end of the selected box, or the topmost box on whose   *)
(* outline it is, or selects a guess, or begins a new box.                 *)
pointerDown(x) ==
  LET corner == grabbedCorner(x)
      hit    == IF corner # "all" THEN sel ELSE hitTest(x)
  IN  /\ ~down /\ down' = TRUE
      /\ IF corner # "all" \/ hits(x) # {}
           THEN /\ sel' = hit /\ live' = [i |-> hit, grab |-> corner, from |-> x]
                /\ UNCHANGED drag
           ELSE /\ sel' = None /\ drag' \in {drag, x}
                /\ UNCHANGED live
      /\ UNCHANGED <<pool, edits>>

(* The release decides, from its own position.  A box that is gone makes   *)
(* the handler throw before it ends the drag.                              *)
pointerUp(x) ==
  /\ down /\ down' = FALSE
  /\ \/ /\ live # None /\ live.i \notin DOMAIN boxes
        /\ UNCHANGED <<pool, live, drag, edits>>
     \/ /\ live # None /\ live.i \in DOMAIN boxes
        /\ live' = None
        /\ LET b == norm(dragged(live, x))
           IN  IF b = boxes[live.i] THEN UNCHANGED <<pool, edits>>
               ELSE Edit([boxes EXCEPT ![live.i] = b])
        /\ UNCHANGED drag
     \/ /\ live = None /\ drag # None
        /\ drag' = None
        /\ LET b == norm(<<drag, x>>)
           IN  IF b[2] - b[1] <= MinDraw THEN UNCHANGED <<pool, edits>>
               ELSE Edit(Append(boxes, b))
        /\ UNCHANGED live
     \/ /\ live = None /\ drag = None
        /\ UNCHANGED <<pool, live, drag, edits>>
  /\ UNCHANGED sel

(* The keys of the canvas. *)
arrow(d, resize) ==
  /\ sel # None /\ sel \in DOMAIN boxes
  /\ Edit([boxes EXCEPT ![sel] = nudge(@, d, resize)])
  /\ UNCHANGED <<sel, live, drag, down>>

tab(back) ==
  /\ boxes # <<>>
  /\ LET next == IF sel = None THEN IF back THEN 0 ELSE 1
                 ELSE IF back THEN sel - 1 ELSE sel + 1
     IN  sel' = IF next \in DOMAIN boxes THEN next ELSE None
  /\ UNCHANGED <<pool, live, drag, down, edits>>

remove ==
  /\ sel # None
  /\ Edit(IF sel \in DOMAIN boxes THEN Without(boxes, sel) ELSE boxes)
  /\ sel' = None
  /\ UNCHANGED <<live, drag, down>>

escape ==
  /\ sel # None /\ sel' = None
  /\ UNCHANGED <<pool, live, drag, down, edits>>

(* The keys of the page, and what the session does to the list. *)
pageUndo  == Undo /\ UNCHANGED <<sel, live, drag, down, edits>>
pageRedo  == Redo /\ UNCHANGED <<sel, live, drag, down, edits>>
pageClear == Edit(<<>>) /\ UNCHANGED <<sel, live, drag, down>>

(* Saved boxes arrive for the image on screen. *)
loaded == /\ \E n \in 0..MaxBoxes : Reset([k \in 1..n |-> <<0, Width>>])
          /\ edits' = 0
          /\ UNCHANGED <<sel, live, drag, down>>

(* Another image: the selection goes, a drag does not. *)
newImage == Reset(<<>>) /\ edits' = 0 /\ sel' = None /\ UNCHANGED <<live, drag, down>>

Init == /\ pool = EMPTY /\ sel = None /\ live = None /\ drag = None
        /\ down = FALSE /\ edits = 0

ByKey == \E d \in Nudges, resize \in BOOLEAN : arrow(d, resize) \/ arrow(0 - d, resize)

Next ==
  \/ \E x \in 0..Width : pointerDown(x)
  \/ \E x \in Points : pointerUp(x)
  \/ ByKey \/ (\E back \in BOOLEAN : tab(back)) \/ remove \/ escape
  \/ pageUndo \/ pageRedo \/ pageClear \/ loaded \/ newImage

Spec == Init /\ [][Next]_vars

-----------------------------------------------------------------------------
Inside(b)  == 0 <= b[1] /\ b[1] < b[2] /\ b[2] <= Width
(* Inside, or one pixel wide and begun within the last pixel. *)
Fits(b)    == 0 <= b[1] /\ b[1] < b[2] /\ b[1] < Width
              /\ (b[2] <= Width \/ b[2] = b[1] + Pixel)
OrderedIn(list) == \A i \in DOMAIN list : list[i][1] <= list[i][2]

(* Whatever is dragged past whatever, no box on the canvas or in its       *)
(* history is ever inside out: the low end is never above the high one     *)
(* (BoxCanvas.tsx:186-188, and the arrow keys that do not call norm).      *)
BoxesOrdered ==
  /\ OrderedIn(pool.boxes)
  /\ \A k \in DOMAIN pool.past : OrderedIn(pool.past[k])
  /\ \A k \in DOMAIN pool.future : OrderedIn(pool.future[k])

(* No row of arrow keys takes a box out of the image or makes it empty:    *)
(* whatever they move is inside, and what they resize overshoots the edge  *)
(* by less than a pixel, and only a box that begins within the last one    *)
(* (BoxCanvas.tsx:213-220 "keeping it inside the image": the minimum of a   *)
(* pixel is taken after the bound).                                        *)
KeysStayInside ==
  [][ByKey => \A i \in DOMAIN boxes : Fits(boxes[i]) =>
                /\ Fits(boxes'[i])
                /\ boxes'[i][1] # boxes[i][1] => Inside(boxes'[i])]_vars

(* Undo and redo are those of a line of states with a mark on it: what was *)
(* undone comes back by redo until the next edit, and nothing else does    *)
(* (session.ts:42-84).                                                     *)
UndoIsHistory == History!HSpec
=============================================================================
