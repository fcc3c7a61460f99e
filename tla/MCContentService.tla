--------------------------- MODULE MCContentService ---------------------------
(***************************************************************************)
(* Instances of ContentService for TLC: a few manifests with the shapes    *)
(* that matter (a shared layer, an index with a child), few tags, a clock  *)
(* of one or two ticks.  The clock and the repository versions are bounded *)
(* by MaxTime and MaxVersion, everything else by the sets.                 *)
(***************************************************************************)
EXTENDS ContentService, TLC

CONSTANTS p1, p2, c1, r1, r2, layer, image, second, index

Procs1 == {p1}
Procs2 == {p1, p2}
Collectors == {c1}
NoCollectors == {}
Repos1 == {r1}
Repos2 == {r1, r2}
Tags1 == {1}
Tags2 == 1..2
Tags3 == 1..3
Layers0 == {}
Layers1 == {layer}
ManifestsOne == {image}
ManifestsTwo == {image, second}
ManifestsIndex == {image, index}

RefsOne == image :> <<layer>>
RefsTwo == [m \in ManifestsTwo |-> <<layer>>]
RefsNone == [m \in ManifestsTwo |-> <<>>]
\* An index and its child.
RefsIndex == image :> <<layer>> @@ index :> <<image>>
\* The same, and they share a blob.
RefsSharing == image :> <<layer>> @@ index :> <<layer, image>>

KeepOne == {[id |-> 1, repos |-> Repos1, keepLast |-> 1, maxAge |-> 0]}
KeepYoung == [id |-> 2, repos |-> Repos1, keepLast |-> 0, maxAge |-> 1]
KeepEither == KeepOne \union {KeepYoung, [KeepYoung EXCEPT !.id = 1]}
NoPolicies == {}

Pending == {"pending"}
Passed == {"passed"}
NoStatus == {}

Content == {"create", "blob", "put"}
Everything == Content \union {"immutability", "policy", "delete", "scan", "gc"}
Collecting == Content \union {"gc"}
CollectingByPolicy == {"create", "put", "policy", "gc"}
Deleting == Content \union {"delete"}
Scanning == Content \union {"scan"}
Pushing == Content
=============================================================================
