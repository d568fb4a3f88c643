------------------------------- MODULE Export -------------------------------
(***************************************************************************)
(* GET /api/export: httpapi/export.go reads the class names and the boxes  *)
(* in transactions of their own, two of each for both kinds together, and  *)
(* core/export builds the archive from them, one image after the other,    *)
(* opening each file.  Other requests write, and files come and go, in     *)
(* between.  A box is its class; its coordinates are passed on.            *)
(***************************************************************************)
EXTENDS Filtering, SequencesExt

CONSTANTS Images,      \* 1..n, in the order of their paths
          Stem,        \* the name of each one's file, without the extension
          Class,
          Starts,      \* records [classes, rows]: what the database may hold
          Budget,      \* files an archive may bundle
          MaxWrites,   \* bound: transactions of other requests
          MaxMoves     \* bound: files that come or go

VARIABLES
  classes, rows,        \* the database: names by kind, boxes by kind and image
  files,                \* images on disk
  ask,                  \* the request: kind, format, whether to bundle images
  pc, names, byImage,   \* the handler's
  left,                 \* paths still to be written
  archive,
  writes, moves,
  grew,                 \* history: a class came after the names of its kind were read
  first                 \* history: the boxes when the request came

store == <<classes, rows>>
vars  == <<store, files, ask, pc, names, byImage, left, archive, writes, moves, grew, first>>

Kinds   == {"pool", "testset"}
Formats == {"yolo", "coco", "voc"}
NoBoxes == [i \in Images |-> <<>>]

TypeOK ==
  /\ \A k \in Kinds : classes[k] \in Seq(Class) /\ IsInjective(classes[k])
  /\ \A k \in Kinds, i \in Images : ToSet(rows[k][i]) \subseteq ToSet(classes[k])
  /\ files \subseteq Images /\ names \in Seq(Class) /\ IsInjective(names)
  /\ pc \in {"names", "test names", "boxes", "test boxes", "bundle", "build", "sent", "refused"}
  /\ \A e \in ToSet(archive) : byImage[e.image] # <<>> /\ Len(e.labels) = Len(byImage[e.image])
  /\ \A m, n \in DOMAIN archive : m < n => archive[m].id < archive[n].id

Boxed == {i \in Images : byImage[i] # <<>>}
InOrder(S)  == Keep([i \in Images |-> i], S)
sortedPaths == InOrder(Boxed)

-----------------------------------------------------------------------------
(* classesAndAnnotations *)
Goto(step) == pc' = step /\ UNCHANGED <<store, files, ask, left, archive, writes, moves, grew, first>>

ReadNames ==
  /\ pc = "names"
  /\ names' = classes[IF ask.kind = "all" THEN "pool" ELSE ask.kind]
  /\ UNCHANGED byImage
  /\ Goto(IF ask.kind = "all" THEN "test names" ELSE "boxes")

\* Pool's order first, then whatever the test set adds.
ReadTestNames ==
  /\ pc = "test names"
  /\ names' = names \o Keep(classes["testset"], Class \ ToSet(names))
  /\ UNCHANGED byImage
  /\ Goto("boxes")

ReadBoxes ==
  /\ pc = "boxes"
  /\ byImage' = rows[IF ask.kind = "all" THEN "pool" ELSE ask.kind]
  /\ UNCHANGED names
  /\ Goto(IF ask.kind = "all" THEN "test boxes" ELSE "bundle")

\* Deliberate bug: an image of both kinds keeps the test set's boxes only.
OverwriteBoxes ==
  /\ pc = "test boxes"
  /\ byImage' = [i \in Images |->
       IF rows["testset"][i] = <<>> THEN byImage[i] ELSE rows["testset"][i]]
  /\ UNCHANGED names
  /\ Goto("bundle")

ReadTestBoxes ==
  /\ pc = "test boxes"
  /\ byImage' = [i \in Images |-> byImage[i] \o rows["testset"][i]]
  /\ UNCHANGED names
  /\ Goto("bundle")

tooManyToBundle == Cardinality(Boxed \cap files) > Budget

\* Nothing to export, or too much: an error instead of an archive.
Bundle ==
  /\ pc = "bundle"
  /\ pc' = IF names = <<>> \/ Boxed = {} \/ (ask.images /\ tooManyToBundle)
             THEN "refused" ELSE "build"
  /\ left' = sortedPaths
  /\ UNCHANGED <<store, files, ask, names, byImage, archive, writes, moves, grew, first>>

-----------------------------------------------------------------------------
(* core/export *)
Place(c) == IF c \in ToSet(names) THEN CHOOSE k \in DOMAIN names : names[k] = c ELSE 0

\* A class that is not among the names has the map's zero: for YOLO the first
\* class, for COCO no category at all.
YoloLabel(c) == IF Place(c) = 0 THEN 0 ELSE Place(c) - 1
CocoLabel(c) == Place(c)
VocLabel(c)  == c

Label(c) == CASE ask.format = "yolo" -> YoloLabel(c)
              [] ask.format = "coco" -> CocoLabel(c)
              [] ask.format = "voc"  -> VocLabel(c)

\* What the labels of an image are filed under: COCO has one document for all,
\* the others a file per stem, so two images of one stem get a file of the same
\* name each.
LabelFile(i) == IF ask.format = "coco" THEN i ELSE Stem[i]

\* Its size or its bytes cannot be read.
Skipped(i) == i \notin files

\* One image; one that is skipped leaves its place in the order unused.
WriteImage ==
  /\ pc = "build" /\ left # <<>>
  /\ LET i == Head(left)
         entry == [image |-> i, name |-> LabelFile(i), bundled |-> ask.images,
                   id |-> Cardinality({j \in Boxed : j <= i}),
                   labels |-> [k \in DOMAIN byImage[i] |-> Label(byImage[i][k])]]
     IN  archive' = IF Skipped(i) THEN archive ELSE Append(archive, entry)
  /\ left' = Tail(left)
  /\ UNCHANGED <<store, files, ask, pc, names, byImage, writes, moves, grew, first>>

Send ==
  /\ pc = "build" /\ left = <<>> /\ pc' = "sent"
  /\ UNCHANGED <<store, files, ask, names, byImage, left, archive, writes, moves, grew, first>>

-----------------------------------------------------------------------------
(* Other requests, while the database is still to be read, and the disk,   *)
(* once its files have been counted.                                       *)
Reading == {"names", "test names", "boxes", "test boxes"}

\* The names of kind k have been read, or are not asked for.
NamesRead(k) ==
  \/ pc \in {"boxes", "test boxes"}
  \/ pc = "test names" /\ k = "pool"

Written ==
  /\ pc \in Reading /\ writes < MaxWrites /\ writes' = writes + 1
  /\ UNCHANGED <<files, ask, pc, names, byImage, left, archive, moves, first>>

WriteBoxes(k, i, boxes) ==
  /\ Written
  /\ rows' = [rows EXCEPT ![k][i] = boxes]
  /\ LET new == Keep(boxes, Class \ ToSet(classes[k]))
     IN  /\ classes' = [classes EXCEPT ![k] = @ \o new]
         /\ grew' = (grew \/ (NamesRead(k) /\ new # <<>>))

DeleteProject ==
  /\ Written
  /\ classes' = [k \in Kinds |-> <<>>] /\ rows' = [k \in Kinds |-> NoBoxes]
  /\ UNCHANGED grew

\* Somebody deletes a file, or uploads one.
Move(i) ==
  /\ pc = "build" /\ moves < MaxMoves /\ moves' = moves + 1
  /\ files' = IF i \in files THEN files \ {i} ELSE files \cup {i}
  /\ UNCHANGED <<store, ask, pc, names, byImage, left, archive, writes, grew, first>>

Init ==
  /\ \E s \in Starts : classes = s.classes /\ rows = s.rows
  /\ first = rows
  /\ files \in SUBSET Images
  /\ ask \in [kind : Kinds \cup {"all"}, format : Formats, images : BOOLEAN]
  /\ pc = "names" /\ names = <<>> /\ byImage = NoBoxes /\ left = <<>> /\ archive = <<>>
  /\ writes = 0 /\ moves = 0 /\ grew = FALSE

Next ==
  \/ ReadNames \/ ReadTestNames \/ ReadBoxes \/ ReadTestBoxes
  \/ Bundle \/ WriteImage \/ Send
  \/ \E k \in Kinds, i \in Images, boxes \in {<<>>} \cup {<<c>> : c \in Class} :
       WriteBoxes(k, i, boxes)
  \/ DeleteProject
  \/ \E i \in Images : Move(i)

Spec == Init /\ [][Next]_vars

-----------------------------------------------------------------------------
\* The class a training pipeline takes a label for.
Meaning(label) ==
  CASE ask.format = "yolo" -> names[label + 1]
    [] ask.format = "coco" -> IF label = 0 THEN "none" ELSE names[label]
    [] ask.format = "voc"  -> label

Shipped == {e.image : e \in ToSet(archive)}

\* No other image of the archive has its labels under the same name.
Alone(i) == \A j \in Shipped \ {i} : LabelFile(j) # LabelFile(i)

\* Of files of one name unpacking leaves the last.
Unpacked(i) ==
  LET n == CHOOSE n \in DOMAIN archive :
             /\ archive[n].name = LabelFile(i)
             /\ \A m \in DOMAIN archive : archive[m].name = LabelFile(i) => m <= n
  IN  archive[n].labels

\* The boxes a training pipeline takes an image to have.
Taken(i) == [k \in DOMAIN Unpacked(i) |-> Meaning(Unpacked(i)[k])]

(* A training pipeline finds for each image the classes its boxes have,    *)
(* unless a class came in between the two reads or another image of the    *)
(* archive has the same stem (httpapi/export.go:120-164, core              *)
(* export.go:87-90, 101-131, 167-213, 270-281).                            *)
LabelsMean == ~grew => \A i \in Shipped : Alone(i) => Taken(i) = byImage[i]

(* Where nothing changed meanwhile, the archive holds each image that has  *)
(* boxes of the kinds asked for and a file, once, in the order of the      *)
(* paths, and all its boxes are found, the pool's before the benchmark     *)
(* set's, unless another of them has the same stem                         *)
(* (httpapi/export.go:116-164).                                             *)
WholeSnapshot ==
  LET boxes(i) == IF ask.kind = "all" THEN first["pool"][i] \o first["testset"][i]
                  ELSE first[ask.kind][i]
      shown == InOrder({i \in files : boxes(i) # <<>>})
  IN  pc = "sent" /\ writes = 0 /\ moves = 0 =>
        /\ [n \in DOMAIN archive |-> archive[n].image] = shown
        /\ \A i \in Shipped : Alone(i) => Taken(i) = boxes(i)

(* The budget counted before the first byte is kept unless files came      *)
(* after it (httpapi/export.go:24-50).                                     *)
WithinBudget ==
  moves = 0 => Cardinality({e \in ToSet(archive) : e.bundled}) <= Budget

Faithful == LabelsMean /\ WholeSnapshot /\ WithinBudget
=============================================================================
