------------------------------ MODULE Metrics ------------------------------
(***************************************************************************)
(* metrics.go: predictions against ground truth.  Evaluate goes through    *)
(* the images, through each image's predictions from the most confident    *)
(* on, and gives every prediction the free truth box of its class that it  *)
(* overlaps most.  A box is an interval: the other axis is the same for    *)
(* all.  Numbers that the code divides are kept as fractions.              *)
(***************************************************************************)
EXTENDS Integers, Sequences, FiniteSets

CONSTANTS gtOrder,   \* the images, in the report's order
          Inputs,    \* records [gt, pred]: the boxes of each image
          iouThr     \* the overlap that counts, a fraction

VARIABLES
  gt, pred,
  at,         \* position in gtOrder
  dets,       \* predictions of that image still to be matched, in order
  claimed,    \* per image: truth box -> the prediction that took it, 0 if free
  perClass,   \* the buckets made so far
  perImage    \* rows of the report

vars == <<gt, pred, at, dets, claimed, perClass, perImage>>

Done  == at > Len(gtOrder)
image == gtOrder[at]

TypeOK ==
  /\ at \in 1..(Len(gtOrder) + 1) /\ Len(perImage) = at - 1
  /\ \A p \in DOMAIN gt : claimed[p] \in [DOMAIN gt[p] -> 0..Len(pred[p])]
  /\ \A c \in DOMAIN perClass : perClass[c] \in [tp : Nat, fp : Nat, fn : Nat]
  /\ ~Done => \A k \in DOMAIN dets : dets[k] \in DOMAIN pred[image]

-----------------------------------------------------------------------------
Larger(x, y)  == IF x > y THEN x ELSE y
Smaller(x, y) == IF x < y THEN x ELSE y

IoU(a, b) ==
  LET inter == Smaller(a[2], b[2]) - Larger(a[1], b[1])
  IN  IF inter <= 0 THEN <<0, 1>>
      ELSE <<inter, (a[2] - a[1]) + (b[2] - b[1]) - inter>>

AtLeast(v, w) == v[1] * w[2] >= w[1] * v[2]

\* Deliberate bug: as the model returned them.
AsReturned(p) == [k \in DOMAIN pred[p] |-> k]

Ahead(p, d, e) ==
  \/ pred[p][d].conf > pred[p][e].conf
  \/ pred[p][d].conf = pred[p][e].conf /\ d < e

\* By falling confidence; equals keep the order the model returned them in.
ByConfidence(p) ==
  [k \in DOMAIN pred[p] |->
     CHOOSE d \in DOMAIN pred[p] : Cardinality({e \in DOMAIN pred[p] : Ahead(p, e, d)}) = k - 1]

\* Which truth box prediction d claims: of several it overlaps equally, the last.
best(d) ==
  LET over(t) == IoU(pred[image][d].box, gt[image][t].box)
      fits == {t \in DOMAIN gt[image] :
                 /\ claimed[image][t] = 0
                 /\ gt[image][t].cls = pred[image][d].cls
                 /\ AtLeast(over(t), iouThr)}
  IN  IF fits = {} THEN 0
      ELSE CHOOSE t \in fits : \A u \in fits :
             AtLeast(over(t), over(u)) /\ (u > t => ~AtLeast(over(u), over(t)))

Bucket(c) == IF c \in DOMAIN perClass THEN perClass[c] ELSE [tp |-> 0, fp |-> 0, fn |-> 0]

Match ==
  /\ ~Done /\ dets # <<>>
  /\ LET d == Head(dets)
         c == pred[image][d].cls
         t == best(d)
     IN  /\ claimed' = IF t = 0 THEN claimed ELSE [claimed EXCEPT ![image][t] = d]
         /\ perClass' = [x \in DOMAIN perClass \cup {c} |->
              IF x # c THEN perClass[x]
              ELSE IF t = 0 THEN [Bucket(c) EXCEPT !.fp = @ + 1]
              ELSE [Bucket(c) EXCEPT !.tp = @ + 1]]
  /\ dets' = Tail(dets)
  /\ UNCHANGED <<gt, pred, at, perImage>>

\* The image's misses, its row, and on to the next image.
EndImage ==
  /\ ~Done /\ dets = <<>>
  /\ LET free == {t \in DOMAIN gt[image] : claimed[image][t] = 0}
         missed(c) == Cardinality({t \in free : gt[image][t].cls = c})
         hits == Cardinality(DOMAIN gt[image] \ free)
     IN  /\ perClass' = [c \in DOMAIN perClass \cup {gt[image][t].cls : t \in free} |->
              [Bucket(c) EXCEPT !.fn = @ + missed(c)]]
         /\ perImage' = Append(perImage,
              [image |-> image, tp |-> hits, fp |-> Len(pred[image]) - hits,
               fn |-> Len(gt[image]) - hits])
  /\ at' = at + 1
  /\ dets' = IF at < Len(gtOrder) THEN ByConfidence(gtOrder[at + 1]) ELSE <<>>
  /\ UNCHANGED <<gt, pred, claimed>>

Init ==
  /\ \E input \in Inputs : gt = input.gt /\ pred = input.pred
  /\ at = 1 /\ dets = ByConfidence(gtOrder[1])
  /\ claimed = [p \in DOMAIN gt |-> [t \in DOMAIN gt[p] |-> 0]]
  /\ perClass = <<>> /\ perImage = <<>>

Next == Match \/ EndImage

Spec == Init /\ [][Next]_vars

-----------------------------------------------------------------------------
Ratio(n, of) == IF of > 0 THEN <<n, of>> ELSE <<0, 1>>

\* p = a/b and r = c/d give 2ac / (ad + cb).
prf(tp, fp, fn) ==
  LET p == Ratio(tp, tp + fp)
      r == Ratio(tp, tp + fn)
  IN  [precision |-> p, recall |-> r,
       f1 |-> Ratio(2 * p[1] * r[1], p[1] * r[2] + r[1] * p[2]),
       tp |-> tp, fp |-> fp, fn |-> fn]

\* The sum of what f counts: one pair for each unit.
Total(f) == Cardinality(UNION {{x} \X (1..f[x]) : x \in DOMAIN f})

overall ==
  prf(Total([c \in DOMAIN perClass |-> perClass[c].tp]),
      Total([c \in DOMAIN perClass |-> perClass[c].fp]),
      Total([c \in DOMAIN perClass |-> perClass[c].fn]))

-----------------------------------------------------------------------------
Reported == {gtOrder[n] : n \in DOMAIN gtOrder}

(* What the greedy walk promises, said of its outcome (metrics.go:84-95):  *)
(* hits are of one class and overlap enough, no prediction has two, and a  *)
(* prediction only goes without a truth box it would have fitted, or with  *)
(* a worse one, where a prediction ahead of it has that box.               *)
FirstRefusal ==
  Done => \A p \in Reported :
    LET fits(d, t) == /\ gt[p][t].cls = pred[p][d].cls
                      /\ AtLeast(IoU(pred[p][d].box, gt[p][t].box), iouThr)
        has(d) == {t \in DOMAIN gt[p] : claimed[p][t] = d}
    IN  \A d \in DOMAIN pred[p] :
          /\ Cardinality(has(d)) <= 1
          /\ \A t \in has(d) : fits(d, t)
          /\ \A t \in DOMAIN gt[p] : fits(d, t) =>
               \/ \E u \in has(d) : AtLeast(IoU(pred[p][d].box, gt[p][u].box),
                                            IoU(pred[p][d].box, gt[p][t].box))
               \/ \E e \in DOMAIN pred[p] : Ahead(p, e, d) /\ claimed[p][t] = e

(* The rows the report draws, the classes and the overall score are of one *)
(* count, in which every box is once; and only a flawless run scores one   *)
(* (metrics.go:140-182).                                                   *)
AddsUp ==
  LET boxes(of, c) == UNION {{p} \X {b \in DOMAIN of[p] : of[p][b].cls = c} : p \in Reported}
  IN  Done =>
        /\ Total([n \in DOMAIN perImage |-> perImage[n].tp]) = overall.tp
        /\ Total([n \in DOMAIN perImage |-> perImage[n].fp]) = overall.fp
        /\ Total([n \in DOMAIN perImage |-> perImage[n].fn]) = overall.fn
        /\ \A c \in DOMAIN perClass :
             /\ Cardinality(boxes(gt, c)) = perClass[c].tp + perClass[c].fn
             /\ Cardinality(boxes(pred, c)) = perClass[c].tp + perClass[c].fp
        /\ overall.f1[1] = overall.f1[2] <=>
             overall.fp = 0 /\ overall.fn = 0 /\ overall.tp > 0
=============================================================================
