------------------------- MODULE MCReplicationQueue -------------------------
(***************************************************************************)
(* Instances of ReplicationQueue: two callers, two workers, two tasks, a   *)
(* channel that two tasks (or one) fill.                                   *)
(***************************************************************************)
EXTENDS ReplicationQueue, TLC

CONSTANTS p1, p2, w1, w2, t1, t2

Callers2 == {p1, p2}
Workers1 == {w1}
Workers2 == {w1, w2}
Tasks2 == {t1, t2}

Symmetry == Permutations(Workers2) \union Permutations(Tasks2) \union Permutations(Callers2)
=============================================================================
