----------------------------- MODULE QuotaService -----------------------------
(***************************************************************************)
(* The quota service of application/quota.go for one tenant.  Its own      *)
(* calls exclude each other by a mutex; the registry service writes the    *)
(* same quota record without it, so both read the record and store their   *)
(* copy under the version they read.  A reservation is a value that the    *)
(* caller keeps, and the service knows no other trace of it.               *)
(***************************************************************************)
EXTENDS Quota, Functions, FiniteSets

CONSTANTS
  Holder,   \* callers, with a reservation each
  Session,  \* the registry's uploads
  Bytes,    \* sizes asked for, by callers and by uploads
  Limit,    \* the limits a repository's quota may have
  MaxRecords,  \* a bound: nothing begins when the record has been as many
  MaxRenewals,  \* a bound on the tenant's later repositories
  Careful   \* do callers record in their value how it was settled, release it only
            \* before that, and commit no more than they reserved?

VARIABLES
  tenant,   \* the quota record in the catalog
  copies,   \* what it has been: a handler of the registry may still hold a copy of it
  current,  \* the call that has the mutex
  holder,   \* per caller, the bytes it has reserved and how it settled them
  upload,   \* per upload, the bytes reserved for it and how they were settled first
  again,    \* history: was an upload settled that had been settled before?
  renewals  \* how often the record was begun anew

vars == <<tenant, copies, current, holder, upload, again, renewals>>

NoCall == [op |-> "none"]
NoReservation == [bytes |-> 0, state |-> "none"]

Init ==
  /\ tenant \in {NewQuota(limit) : limit \in Limit} /\ copies = {tenant}
  /\ current = NoCall
  /\ holder = [h \in Holder |-> NoReservation]
  /\ upload = [u \in Session |-> NoReservation] /\ again = FALSE
  /\ renewals = 0

\* The catalog stores the record.
Store(q) == tenant' = q /\ copies' = copies \union {q}

MoreRecords == Cardinality(copies) < MaxRecords

\* The State of the value a caller hands in.
StateOf(h) == IF Careful \/ holder[h] = NoReservation THEN holder[h].state ELSE "reserved"

-----------------------------------------------------------------------------

\* GetQuota, with the mutex locked.
Begin(call) ==
  /\ current = NoCall /\ MoreRecords
  /\ current' = call
  /\ UNCHANGED <<tenant, copies, holder, upload, again, renewals>>

ReserveBytes(h, n) ==
  /\ holder[h] = NoReservation
  /\ Begin([op |-> "reserve", holder |-> h, reserved |-> n, actual |-> 0, seen |-> tenant])

\* Seeded fault: a value is committed whatever its state.
CommittableAnyway(state) == state # "none"

Committable(state) == state = "reserved"

CommitBytes(h, actual) ==
  /\ Committable(StateOf(h)) /\ (Careful => actual <= holder[h].bytes)
  /\ Begin([op |-> "commit", holder |-> h, reserved |-> holder[h].bytes, actual |-> actual,
            seen |-> tenant])

\* Release does not look at the state.
ReleaseBytes(h) ==
  /\ holder[h] # NoReservation /\ (Careful => holder[h].state = "reserved")
  /\ Begin([op |-> "release", holder |-> h, reserved |-> holder[h].bytes, actual |-> 0,
            seen |-> tenant])

Accepted(call) ==
  CASE call.op = "reserve" -> CanReserve(call.seen, call.reserved)
    [] call.op = "commit" -> CanCommit(call.seen, call.reserved, call.actual)
    [] call.op = "release" -> CanRelease(call.seen, call.reserved)

Settled(call) ==
  CASE call.op = "reserve" -> Reserve(call.seen, call.reserved)
    [] call.op = "commit" -> Commit(call.seen, call.reserved, call.actual)
    [] call.op = "release" -> Release(call.seen, call.reserved)

Outcome == [reserve |-> "reserved", commit |-> "committed", release |-> "released"]

\* Seeded fault: the record is stored whatever became of it meanwhile.
SameVersionOrNot(seen) == TRUE

\* Catalog.UpdateQuota
SameVersion(seen) == tenant.version = seen.version

\* The call stores its copy and returns; a caller whose call failed keeps what
\* it had.
End ==
  /\ current # NoCall
  /\ IF Accepted(current) /\ SameVersion(current.seen)
     THEN /\ Store(Settled(current))
          /\ holder' = [holder EXCEPT ![current.holder] =
                          [bytes |-> current.reserved, state |-> Outcome[current.op]]]
     ELSE UNCHANGED <<tenant, copies, holder>>
  /\ current' = NoCall
  /\ UNCHANGED <<upload, again, renewals>>

\* A handler of the registry stores what it computed from the copy it read, if
\* nobody has stored meanwhile, and otherwise drops it.
UploadStarts(u, n) ==
  /\ upload[u] = NoReservation /\ MoreRecords
  /\ \E seen \in copies : SameVersion(seen) /\ CanReserve(seen, n) /\ Store(Reserve(seen, n))
  /\ upload' = [upload EXCEPT ![u] = [bytes |-> n, state |-> "reserved"]]
  /\ UNCHANGED <<current, holder, again, renewals>>

\* A completion commits once, or releases if the digest was wrong.  An abort releases
\* whatever became of the upload, also while the completion goes on.
UploadEnds(u) ==
  /\ upload[u] # NoReservation /\ MoreRecords
  /\ LET n == upload[u].bytes
     IN  \E seen \in copies :
           /\ SameVersion(seen)
           /\ \/ /\ upload[u].state # "committed" /\ CanCommit(seen, n, n)
                 /\ Store(Commit(seen, n, n))
                 /\ upload' = [upload EXCEPT ![u].state = "committed"]
              \/ /\ CanRelease(seen, n) /\ Store(Release(seen, n))
                 /\ upload' = [upload EXCEPT ![u].state =
                                 IF @ = "reserved" THEN "released" ELSE @]
  /\ again' = (again \/ upload[u].state # "reserved")
  /\ UNCHANGED <<current, holder, renewals>>

\* CreateRepository of a tenant that has one: PutQuota replaces the record, at
\* version 1.
CreateRepository(limit) ==
  /\ renewals < MaxRenewals /\ renewals' = renewals + 1
  /\ Store(NewQuota(limit))
  /\ UNCHANGED <<current, holder, upload, again>>

Next ==
  \/ \E h \in Holder, n \in Bytes : ReserveBytes(h, n) \/ CommitBytes(h, n)
  \/ \E h \in Holder : ReleaseBytes(h)
  \/ End
  \/ \E u \in Session, n \in Bytes : UploadStarts(u, n)
  \/ \E u \in Session : UploadEnds(u)
  \/ \E limit \in Limit : CreateRepository(limit)

Spec == Init /\ [][Next]_vars

-----------------------------------------------------------------------------
(* Properties *)

\* What the records rs have reserved and not settled.
Unsettled(rs) == {r \in DOMAIN rs : rs[r].state = "reserved"}
Reserved(rs) == SumFunctionOnSet([r \in DOMAIN rs |-> rs[r].bytes], Unsettled(rs))

\* What is reserved is what callers hold unsettled and uploads have open, whatever
\* the registry does (registry.go 55, 370).
HeldExactly == tenant.reserved = Reserved(holder) + Reserved(upload)

\* While the tenant has one repository, what is reserved is what callers hold
\* unsettled and uploads have open: no call undoes what the registry stored between
\* its read and its write (quota.go 35, 39, 54, 58, 67, 71).  An upload that is
\* settled twice (registry.go 219, 370) takes of that, and nothing is added to it.
HoldersCovered ==
  renewals = 0 =>
    /\ tenant.reserved <= Reserved(holder) + Reserved(upload)
    /\ ~again => HeldExactly

\* The tenant's limit holds for the service and the registry together, also while
\* records of former versions are stored again (quota.go 36, 55).
LimitShared == tenant.used + tenant.reserved <= tenant.limit

\* A caller that puts its reservation into a ledger after every call that
\* succeeds is never refused by it (quota.go 47, quota/ledger.go 29-53).
Kept == INSTANCE Ledger WITH reservations <- holder
LedgerAccepts == Kept!Spec
=============================================================================
