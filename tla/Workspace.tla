----------------------------- MODULE Workspace -----------------------------
(***************************************************************************)
(* The page of one project, page.tsx of /p/[id]: its panels, its keyboard  *)
(* shortcuts, the dialogs over it and the warning before it is left.       *)
(* There are two canvases, one of the pool and one of the benchmark set,   *)
(* each with a timeline of its own, and one selection for both; a panel    *)
(* that is not shown is unmounted.  A key goes to the focused element      *)
(* first: the canvas stops the keys it uses, the rest reach the page.      *)
(*                                                                         *)
(* What the session does by itself appears as Opens: an image, with the    *)
(* boxes it is loaded with.  Which class a digit picks is modelled in      *)
(* Labels, what a save does in Canvas.                                     *)
(***************************************************************************)
EXTENDS Timeline

CONSTANTS None,
          MaxEdits    \* bound: edits of either canvas between two resets

VARIABLES
  ts,           \* the timeline of the benchmark canvas; pool is the other
  panel,
  sel,          \* the selected index, whichever canvas shows it
  focus,        \* what the keys go to first
  dialog,       \* None, the shortcuts or export dialog ("known"), or another
  shortcuts,    \* the single-key shortcuts are on
  edits,        \* how much of MaxEdits is used
  opened,       \* history: what the pool's canvas opened with
  trimmed       \* history: its past was cut at Limit since

ui   == <<panel, sel, focus, dialog, shortcuts>>
vars == <<pool, ts, ui, edits, opened, trimmed>>

Bench == INSTANCE Timeline WITH pool <- ts

Panels     == {"pool", "gallery", "testset"}   \* report and progress are like the gallery
Focus      == {"page", "field", "control", "canvas"}
HasCanvas  == panel # "gallery"
inTestset  == panel = "testset"
boxes      == IF inTestset THEN ts.boxes ELSE pool.boxes   \* the list the keys act on
\* Deliberate bug: only a canvas with boxes is worth a warning.
unsavedAny == pool.boxes # Blank
unsaved    == canUndo

TypeOK ==
  /\ TimelineType /\ Bench!TimelineType
  /\ panel \in Panels /\ focus \in Focus
  /\ sel \in Nat \cup {None}
  /\ dialog \in {None, "known", "other"}
  /\ {shortcuts, trimmed} \subseteq BOOLEAN
  /\ opened \in Content /\ edits \in 0..MaxEdits

-----------------------------------------------------------------------------
Trimming == trimmed' = (trimmed \/ Len(pool.past) = Limit)

\* stack.set of the canvas the keys act on.
Edit(next) ==
  /\ edits < MaxEdits /\ edits' = edits + 1 /\ next \in Content
  /\ IF inTestset THEN Bench!Set(next) /\ UNCHANGED <<pool, trimmed>>
     ELSE Set(next) /\ Trimming /\ UNCHANGED ts
  /\ UNCHANGED opened

UndoKey == IF inTestset THEN Bench!Undo /\ UNCHANGED pool ELSE Undo /\ UNCHANGED ts

\* The past is cut when a state comes back from a full future, never here.
RedoKey == IF inTestset THEN Bench!Redo /\ UNCHANGED pool ELSE Redo /\ UNCHANGED ts

\* A canvas that gets another image lets go of the selection.
Deselect == sel' = None

\* goToImage and goToTsImage; at the end of the list the image stays.
go ==
  /\ IF inTestset THEN Bench!Reset(Blank) /\ UNCHANGED <<pool, opened, trimmed>>
     ELSE Reset(Blank) /\ opened' = Blank /\ trimmed' = FALSE /\ UNCHANGED ts
  /\ edits' = 0
  /\ (HasCanvas /\ Deselect) \/ UNCHANGED sel

Remove(i) == SelectSeq([k \in DOMAIN boxes |-> <<k, boxes[k]>>], LAMBDA p : p[1] # i)
Without(i) == [k \in DOMAIN Remove(i) |-> Remove(i)[k][2]]

-----------------------------------------------------------------------------
\* Keys.

\* onKey of the page: not in a field, not under two of the dialogs, not
\* unmodified when the shortcuts are off.
PageHears(modified) ==
  /\ focus # "field" /\ dialog # "known" /\ (shortcuts \/ modified)

CanvasHas == focus = "canvas"

\* A dialog gives the focus back to whatever had it.
Close == dialog' = None /\ focus' \in IF HasCanvas THEN Focus ELSE Focus \ {"canvas"}

\* Escape with a selection, Delete with one and all arrows end at the canvas;
\* otherwise Escape clears the canvas and closes what dialog there is.
EscapeKey ==
  \/ CanvasHas /\ sel # None /\ Deselect
     /\ UNCHANGED <<pool, ts, edits, opened, trimmed, panel, focus, dialog, shortcuts>>
  \/ /\ ~(CanvasHas /\ sel # None) /\ PageHears(FALSE) /\ Edit(Blank)
     /\ IF dialog = None THEN UNCHANGED <<dialog, focus>> ELSE Close
     /\ UNCHANGED <<panel, sel, shortcuts>>
  \/ /\ ~CanvasHas /\ ~PageHears(FALSE) /\ dialog # None /\ Close
     /\ UNCHANGED <<pool, ts, edits, opened, trimmed, panel, sel, shortcuts>>

DeleteKey ==
  /\ sel # None /\ (CanvasHas \/ PageHears(FALSE))
  /\ Edit(Without(sel)) /\ Deselect
  /\ UNCHANGED <<panel, focus, dialog, shortcuts>>

\* n, p, s and the arrow keys, unless the canvas has them.
StepKey == ~CanvasHas /\ PageHears(FALSE) /\ go /\ UNCHANGED <<panel, focus, dialog, shortcuts>>

LetterStepKey == CanvasHas /\ PageHears(FALSE) /\ go /\ UNCHANGED <<panel, focus, dialog, shortcuts>>

UndoRedoKey ==
  /\ PageHears(TRUE) /\ (UndoKey \/ RedoKey)
  /\ UNCHANGED <<ui, edits, opened, trimmed>>

\* c with something to copy and a with guesses to take, in the pool only.
CopyAcceptKey ==
  /\ ~inTestset /\ PageHears(FALSE)
  /\ \E next \in Content \ {Blank} : Edit(next)
  /\ UNCHANGED ui

HelpKey == /\ PageHears(FALSE) /\ dialog' = "known"
           /\ UNCHANGED <<pool, ts, edits, opened, trimmed, panel, sel, focus, shortcuts>>

Key == \/ EscapeKey \/ DeleteKey \/ StepKey \/ LetterStepKey
       \/ UndoRedoKey \/ CopyAcceptKey \/ HelpKey

-----------------------------------------------------------------------------
\* The pointer.

\* A new box, or the pick of one: the press gives the canvas the focus.
DrawBox ==
  /\ dialog = None /\ HasCanvas
  /\ \E b \in Content : Len(b) = 1 /\ Edit(boxes \o b)
  /\ Deselect /\ focus' = "canvas"
  /\ UNCHANGED <<panel, dialog, shortcuts>>

SelectBox(i) ==
  /\ dialog = None /\ HasCanvas
  /\ sel' = i /\ focus' = "canvas"
  /\ UNCHANGED <<pool, ts, edits, opened, trimmed, panel, dialog, shortcuts>>

\* A canvas that is mounted starts without a selection.
setPanel(p) ==
  /\ dialog = None /\ p # panel /\ panel' = p /\ focus' = "control"
  /\ IF p # "gallery" THEN Deselect ELSE UNCHANGED sel
  /\ UNCHANGED <<pool, ts, edits, opened, trimmed, dialog, shortcuts>>

\* Focus goes to a field, a button or nothing; a dialog keeps it inside.
FocusOn(f) ==
  /\ f # focus /\ f # "canvas" /\ focus' = f
  /\ UNCHANGED <<pool, ts, edits, opened, trimmed, panel, sel, dialog, shortcuts>>

Open(d) ==
  /\ dialog = None /\ dialog' = d /\ focus' \in {"control", "field"}
  /\ UNCHANGED <<pool, ts, edits, opened, trimmed, panel, sel, shortcuts>>

CloseButton ==
  /\ dialog # None /\ Close
  /\ UNCHANGED <<pool, ts, edits, opened, trimmed, panel, sel, shortcuts>>

setShortcuts ==
  /\ dialog = "known" /\ shortcuts' = ~shortcuts
  /\ UNCHANGED <<pool, ts, edits, opened, trimmed, panel, sel, focus, dialog>>

\* The session loads the pool's canvas: saved boxes, or another image.
Opens(c) ==
  /\ Reset(c) /\ opened' = c /\ trimmed' = FALSE /\ edits' = 0
  /\ (panel = "pool" /\ Deselect) \/ UNCHANGED sel
  /\ UNCHANGED <<ts, panel, focus, dialog, shortcuts>>

Init ==
  /\ pool = EMPTY /\ ts = EMPTY /\ panel = "pool" /\ sel = None /\ focus = "page"
  /\ dialog = None /\ shortcuts \in BOOLEAN /\ edits = 0
  /\ opened = Blank /\ trimmed = FALSE

Next ==
  \/ Key \/ DrawBox \/ (\E i \in DOMAIN boxes : SelectBox(i))
  \/ (\E p \in Panels : setPanel(p)) \/ (\E f \in {"page", "field", "control"} : FocusOn(f))
  \/ (\E d \in {"known", "other"} : Open(d)) \/ CloseButton \/ setShortcuts
  \/ \E c \in Content : Opens(c)

Spec == Init /\ [][Next]_vars

-----------------------------------------------------------------------------
(* The page may be left without a warning only when the pool's canvas      *)
(* holds what it opened with, through undo, redo and both canvases' edits  *)
(* (page.tsx:70-74) -- as long as the history was not cut at its limit.    *)
CleanMeansOpened == ~trimmed /\ ~unsaved => pool.boxes = opened

=============================================================================
