----------------------------- MODULE Quota -----------------------------------
(***************************************************************************)
(* The per-tenant quota record of domain/policy.go.  Each operation is a   *)
(* condition and a result; the code applies them to a private copy of the  *)
(* record and stores the copy back under a version check.                  *)
(***************************************************************************)
EXTENDS Integers

\* What the store returns for a tenant it does not hold; stored records have
\* a version of at least 1.
NoQuota == [limit |-> 0, used |-> 0, reserved |-> 0, version |-> 0]

NewQuota(limit) == [limit |-> limit, used |-> 0, reserved |-> 0, version |-> 1]

Remaining(q) == q.limit - q.used - q.reserved

\* Seeded fault: what is reserved but not yet used is not counted.
CanReserveIgnoringReserved(q, n) == n >= 0 /\ n <= q.limit - q.used

CanReserve(q, n) == n >= 0 /\ n <= Remaining(q)

Reserve(q, n) == [q EXCEPT !.reserved = @ + n, !.version = @ + 1]

CanCommit(q, reserved, actual) == reserved >= 0 /\ actual >= 0 /\ reserved <= q.reserved

Commit(q, reserved, actual) ==
  [q EXCEPT !.reserved = @ - reserved, !.used = @ + actual, !.version = @ + 1]

\* Seeded fault: more may be released than is reserved.
CanReleaseAny(q, n) == n >= 0

CanRelease(q, n) == n >= 0 /\ n <= q.reserved

Release(q, n) == [q EXCEPT !.reserved = @ - n, !.version = @ + 1]
=============================================================================
