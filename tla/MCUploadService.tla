--------------------------- MODULE MCUploadService ---------------------------
(* Instances of UploadService for TLC. *)
EXTENDS UploadService, TLC

CONSTANTS p1, p2, u1, u2, u3, r1, r2

Procs1 == {p1}
Procs2 == {p1, p2}
Repos1 == {r1}
Repos2 == {r1, r2}
Ids1 == {u1}
Ids2 == {u1, u2}
Ids3 == {u1, u2, u3}
Inodes == 1..8

\* A file of one or two bytes, sent whole or in two pieces; a piece with
\* different content for the same range; a piece beyond a gap.
Hello == <<"a", "b">>
Short == <<"a">>
Whole == [start |-> 0, bytes |-> Hello]
First == [start |-> 0, bytes |-> <<"a">>]
Second == [start |-> 1, bytes |-> <<"b">>]
Other == [start |-> 0, bytes |-> <<"b">>]

PiecesAll == {Whole, First, Second, Other}
PiecesClash == {First, Other}
PiecesOne == {First}
BytesAB == {"a", "b", "0"}
PayloadHello == {Hello}
PayloadShort == {Short}
PayloadBoth == {Hello, Short}

Sizes1 == {1}
Sizes2 == {2}
SizesNone == {NoSize}
Limit1 == {1}
Limit2 == {2}

Upload == {"create", "start", "chunk", "complete"}
UploadAbort == Upload \union {"abort"}
UploadAll == Upload \union {"abort", "expire", "janitor"}
Replacing == Upload \union {"deleteBlob"}
Everything == UploadAll \union {"deleteBlob"}

Symmetry == Permutations(Proc) \union Permutations(Id)
=============================================================================
