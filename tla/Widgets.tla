------------------------------ MODULE Widgets ------------------------------
(***************************************************************************)
(* The box editor and the gallery, each on its own: a behaviour picks one  *)
(* of them and the other stays as it begins.                               *)
(***************************************************************************)
EXTENDS BoxCanvas

CONSTANTS Count, Statuses, PAGE, MaxClicks, MaxChanges, MaxFails   \* Gallery

ASSUME GalleryAssumption ==
  /\ Count \in Nat /\ PAGE \in Nat \ {0} /\ Statuses # {}
  /\ MaxClicks \in Nat /\ MaxChanges \in Nat /\ MaxFails \in Nat

VARIABLES widget,
          filter, items, total, error, busy, due, reqs, heard, status,
          clicks, changes, fails, skewed

G == INSTANCE Gallery

gallery == <<filter, items, total, error, busy, due, reqs, heard, status,
             clicks, changes, fails, skewed>>

WidgetsInit ==
  /\ widget \in {"boxes", "gallery"}
  /\ Init /\ G!Init
  /\ widget = "boxes" => status = [i \in 1..Count |-> CHOOSE s \in Statuses : TRUE]

InGallery(step) == widget = "gallery" /\ step /\ UNCHANGED <<widget, vars>>

WidgetsNext ==
  \/ widget = "boxes" /\ Next /\ UNCHANGED <<widget, gallery>>
  \/ InGallery(G!Next)

\* Somebody keeps scrolling, the observer calls back, the server answers.
WidgetsSpec ==
  /\ WidgetsInit /\ [][WidgetsNext]_<<widget, vars, gallery>>
  /\ WF_gallery(InGallery(G!Scroll))
  /\ WF_gallery(InGallery(G!loadMore))
  /\ WF_gallery(InGallery(G!Answer))

-----------------------------------------------------------------------------
(* Gallery: the rows are the beginning of the list that was asked for, and *)
(* only one reload under way may still replace them                        *)
(* (GalleryPanel.tsx:61-103).                                              *)
Coherent == G!TypeOK /\ G!Coherent

(* Gallery: whoever keeps scrolling comes to the end of the list           *)
(* (GalleryPanel.tsx:81, 87-101).                                          *)
ScrollReachesEnd == widget = "gallery" => G!ScrollReachesEnd
=============================================================================
