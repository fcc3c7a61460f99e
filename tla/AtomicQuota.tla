---------------------------- MODULE AtomicQuota ----------------------------
(***************************************************************************)
(* What the tenant's quota record promises to the requests that share it:  *)
(* it is opened once, and every reservation, commit and release is applied *)
(* in one step to the value all the earlier ones left behind.  The service *)
(* implements it with a read and a conditional write in separate critical  *)
(* sections (registry.go 386-423, catalog_more.go 113-143).                *)
(***************************************************************************)
EXTENDS Quota

CONSTANTS Limit, ExpectedSize

VARIABLE quota

Init == quota = NoQuota

Open == /\ quota = NoQuota
        /\ \E limit \in Limit : quota' = NewQuota(limit)

ReserveBytes == \E n \in ExpectedSize :
  CanReserve(quota, n) /\ quota' = Reserve(quota, n)

\* An upload is as long as was declared for it.
CommitBytes == \E n \in ExpectedSize :
  CanCommit(quota, n, n) /\ quota' = Commit(quota, n, n)

ReleaseBytes == \E n \in ExpectedSize :
  CanRelease(quota, n) /\ quota' = Release(quota, n)

\* The process restarts: quotas are kept in memory.
Lose == quota' = NoQuota

Next == Open \/ ReserveBytes \/ CommitBytes \/ ReleaseBytes \/ Lose

Spec == Init /\ [][Next]_quota
=============================================================================
