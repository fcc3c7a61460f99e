------------------------------ MODULE MCLibrary ------------------------------
\* Constants for TLC.
EXTENDS Library, TLC

Sequence == INSTANCE SequencesExt

CONSTANTS p1, p2, o1, o2, i1, u1, u2

Callers2 == {p1, p2}
Owners2 == {o1, o2}
Each == p1 :> o1 @@ p2 :> o2
Same == p1 :> o1 @@ p2 :> o1
Ids1 == {i1}
Sessions2 == {u1, u2}
Sizes == 0..2
Three == 1..3

\* A manifest can refer only to what was there before it.
Acyclic ==
  {f \in [1..3 -> Sequence!SeqOf(1..3, 2)] : \A d \in 1..3 : \A k \in DOMAIN f[d] : f[d][k] < d}

\* Names that hold none of the words the dispatcher looks for where it looks for
\* them, and names that do.
PlainNames == {<<"app">>, <<"team", "app">>, <<"tags", "uploads">>, <<"scan", "list", "app">>}
WordyNames == {<<"manifests", "app">>, <<"app", "blobs">>, <<"team", "scan">>}
=============================================================================
