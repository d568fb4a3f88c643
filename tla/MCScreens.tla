----------------------------- MODULE MCScreens -----------------------------
EXTENDS Screens, SequencesExt

CONSTANTS i1, i2, m1, m2, p1, p2, n1, n2

MCTestImages   == {i1, i2}
MCModels       == {m1, m2}
MCContent      == {<<>>, <<1>>, <<2>>}
MCBlank        == <<>>
MCClassNames   == {"dent"}
MCPeople       == {p1, p2}
MCProjectNames == {n1, n2}

\* Filtering is what SelectSeq is.
ASSUME KeepSelects ==
  \A s \in BoundedSeq({"dent", "rust", "item"}, 4), S \in SUBSET {"dent", "rust", "item"} :
    L!Keep(s, S) = SelectSeq(s, LAMBDA n : n \in S)

\* Metrics' Total is a sum.
ASSUME TotalAdds ==
  \A f \in BoundedSeq(0..3, 3) : M!Total(f) = FoldSeq(LAMBDA n, sum : n + sum, 0, f)

\* Two of the boxes overlap by just the half that counts, two by less.
Truth      == [cls : {"dent", "rust"}, box : {<<0, 4>>, <<0, 2>>, <<1, 3>>}]
Detections == [cls : {"dent", "rust"}, box : {<<0, 4>>, <<0, 2>>, <<1, 3>>}, conf : 1..2]
MCInputs   == {[gt   |-> <<t, <<[cls |-> "dent", box |-> <<0, 4>>]>>>>,
                pred |-> <<d, <<[cls |-> "dent", box |-> <<1, 3>>, conf |-> 1]>>>>] :
                t \in BoundedSeq(Truth, 2), d \in BoundedSeq(Detections, 2)}
MCgtOrder  == <<1, 2>>
MCiouThr   == <<1, 2>>

\* One kind only; an image of both kinds; names in two orders, and boxes in two
\* images of one stem.
MCPaths  == 1..3
MCStem   == <<"x", "y", "x">>
MCClass  == {"a", "b"}
MCStarts == {
  [classes |-> [pool |-> <<"a">>, testset |-> <<>>],
   rows    |-> [pool |-> <<<<"a">>, <<>>, <<>>>>, testset |-> <<<<>>, <<>>, <<>>>>]],
  [classes |-> [pool |-> <<"a", "b">>, testset |-> <<"b">>],
   rows    |-> [pool |-> <<<<"b">>, <<>>, <<>>>>, testset |-> <<<<"b">>, <<>>, <<>>>>]],
  [classes |-> [pool |-> <<"a">>, testset |-> <<"b", "a">>],
   rows    |-> [pool |-> <<<<"a">>, <<"a", "a">>, <<>>>>, testset |-> <<<<>>, <<"a", "b">>, <<"b">>>>]]}

Interchangeable == Permutations(MCPeople) \cup Permutations(MCProjectNames)
=============================================================================
