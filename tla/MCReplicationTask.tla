-------------------------- MODULE MCReplicationTask --------------------------
(***************************************************************************)
(* Instances of CopyCoordinator: one task, and more attempts at it than    *)
(* runners, so that one is still copying when the next has come and gone.  *)
(***************************************************************************)
EXTENDS CopyCoordinator, TLC

CONSTANTS p1, p2, p3, w1, w2, i1, t1, t2

Nobody == {}
Runners2 == {p1, p2}
Runners3 == {p1, p2, p3}
Workers1 == {w1}
Workers2 == {w1, w2}
Ids1 == {i1}
Targets1 == {t1}
Targets2 == {t1, t2}

Symmetry == Permutations(Runners3) \union Permutations(Workers2)
=============================================================================
