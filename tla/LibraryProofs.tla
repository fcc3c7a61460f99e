---------------------------- MODULE LibraryProofs ----------------------------
(***************************************************************************)
(* Theorems about the parts that keep their state to themselves: the quota *)
(* service, the histogram, the rate limiter, the retention report, the     *)
(* reference graph with its sweeper, the lease manager, the uploader and   *)
(* the router.                                                             *)
(* Each is proved of the part's own specification; what it assumes of the  *)
(* constants is named before it.                                           *)
(***************************************************************************)
EXTENDS Library, RouterProofs, FiniteSums, FiniteSetTheorems, TLAPS

-----------------------------------------------------------------------------
(* The quota service, if callers settle a reservation as its state says.     *)

Held == [bytes : Bytes, state : {"reserved", "committed", "released"}]

-----------------------------------------------------------------------------
(* The ledger.  What a caller asks for fits what it holds until the call     *)
(* ends, because calls exclude each other.                                   *)

\* The call that has the mutex is one its caller may make.
CallFits ==
  /\ current.holder \in Holder /\ current.reserved \in Bytes
  /\ \/ current.op = "reserve" /\ holder[current.holder] = NoReservation
     \/ /\ current.op \in {"commit", "release"}
        /\ holder[current.holder] \in Held /\ holder[current.holder].state = "reserved"

LedgerInv ==
  /\ \A h \in Holder : holder[h] = NoReservation \/ holder[h] \in Held
  /\ DOMAIN holder = Holder /\ holder = [h \in Holder |-> holder[h]]
  /\ current = NoCall \/ CallFits

LEMMA LedgerInit == Init => LedgerInv /\ Kept!Init
BY DEF Init, LedgerInv, Kept!Init, NoReservation, Kept!Unkept

\* A call that begins leaves what is held alone.
LEMMA BeginFits ==
  ASSUME LedgerInv, NEW c, Begin(c), c.holder \in Holder, c.reserved \in Bytes,
         \/ c.op = "reserve" /\ holder[c.holder] = NoReservation
         \/ /\ c.op \in {"commit", "release"}
            /\ holder[c.holder] \in Held /\ holder[c.holder].state = "reserved"
  PROVE  LedgerInv' /\ UNCHANGED holder
BY DEF LedgerInv, CallFits, Begin

LEMMA CallsFit ==
  ASSUME Careful, LedgerInv, NEW h \in Holder,
         \/ ReleaseBytes(h)
         \/ \E n \in Bytes : ReserveBytes(h, n) \/ CommitBytes(h, n)
  PROVE  LedgerInv' /\ UNCHANGED holder
<1>1. holder[h] = NoReservation \/ holder[h] \in Held
  BY DEF LedgerInv
<1>2. holder[h].state = "reserved" => holder[h] \in Held /\ holder[h].bytes \in Bytes
  BY <1>1 DEF Held, NoReservation
<1>3. ASSUME NEW n \in Bytes, ReserveBytes(h, n)
      PROVE  LedgerInv' /\ UNCHANGED holder
  BY <1>3, BeginFits DEF ReserveBytes
<1>4. ASSUME NEW n \in Bytes, CommitBytes(h, n)
      PROVE  LedgerInv' /\ UNCHANGED holder
  BY <1>2, <1>4, BeginFits DEF CommitBytes, Committable, StateOf
<1>5. CASE ReleaseBytes(h)
  BY <1>2, <1>5, BeginFits DEF ReleaseBytes
<1> QED
  BY <1>3, <1>4, <1>5

\* When a call ends its caller holds what the ledger lets it put.
LEMMA EndFits ==
  ASSUME LedgerInv, End
  PROVE  LedgerInv' /\ (Kept!Next \/ UNCHANGED holder)
<1> DEFINE h == current.holder
           r == [bytes |-> current.reserved, state |-> Outcome[current.op]]
<1>1. CallFits /\ current' = NoCall
  BY DEF LedgerInv, End
<1>2. CASE UNCHANGED holder
  BY <1>1, <1>2 DEF LedgerInv
<1>3. CASE holder' = [holder EXCEPT ![h] = r]
  <2>1. h \in Holder /\ current.reserved \in Bytes
    BY <1>1 DEF CallFits
  <2>2. Outcome[current.op] \in {"reserved", "committed", "released"}
    BY <1>1 DEF CallFits, Outcome
  <2>3. r \in Held
    BY <2>1, <2>2 DEF Held
  <2>4. LedgerInv'
    BY <1>1, <1>3, <2>1, <2>3 DEF LedgerInv
  <2>5. IF holder[h] = Kept!Unkept THEN r.state = "reserved"
        ELSE Kept!CanTransition(holder[h].state, r.state)
    <3>1. CASE current.op = "reserve"
      BY <1>1, <3>1 DEF CallFits, Outcome, NoReservation, Kept!Unkept, Held
    <3>2. CASE current.op \in {"commit", "release"}
      <4>1. holder[h].state = "reserved" /\ Kept!Unkept.state # "reserved"
        BY <1>1, <3>2 DEF CallFits, Kept!Unkept
      <4>2. r.state \in {"committed", "released"}
        BY <3>2 DEF Outcome
      <4>3. Kept!CanTransition("reserved", r.state)
        BY <4>2 DEF Kept!CanTransition
      <4> QED
        BY <4>1, <4>3
    <3> QED
      BY <1>1, <3>1, <3>2 DEF CallFits
  <2>6. Kept!Put(h, r)
    BY <1>3, <2>5 DEF Kept!Put
  <2>7. Kept!Next
    BY <2>1, <2>2, <2>6 DEF Kept!Next
  <2> QED
    BY <2>4, <2>7
<1> QED
  BY <1>2, <1>3 DEF End

LEMMA LedgerNext ==
  ASSUME Careful, LedgerInv, [Next]_vars
  PROVE  LedgerInv' /\ [Kept!Next]_holder
<1>1. ASSUME UNCHANGED <<holder, current>>
      PROVE  LedgerInv' /\ UNCHANGED holder
  BY <1>1 DEF LedgerInv, CallFits
<1>2. CASE UNCHANGED vars
  BY <1>1, <1>2 DEF vars
<1>3. CASE \E u \in Session, n \in Bytes : UploadStarts(u, n)
  BY <1>1, <1>3 DEF UploadStarts
<1>4. CASE \E u \in Session : UploadEnds(u)
  BY <1>1, <1>4 DEF UploadEnds
<1>5. CASE \E limit \in Limit : CreateRepository(limit)
  BY <1>1, <1>5 DEF CreateRepository
<1>6. CASE End
  BY <1>6, EndFits
<1> QED
  BY <1>2, <1>3, <1>4, <1>5, <1>6, CallsFit DEF Next

\* A caller that puts its reservation into a ledger after every call that
\* succeeded is never refused: what callers hold behaves as a ledger, whatever
\* the registry stores meanwhile and whichever calls fail (quota.go 25-73,
\* quota/ledger.go 29-53).
THEOREM LedgerFollows == ASSUME Careful PROVE Spec => LedgerAccepts
<1>1. LedgerInv /\ [Next]_vars => LedgerInv' /\ [Kept!Next]_holder
  BY LedgerNext
<1> QED
  BY <1>1, LedgerInit, PTL DEF Spec, LedgerAccepts, Kept!Spec

-----------------------------------------------------------------------------
(* The limit.  Whoever stores stores what follows from a copy, so the bound  *)
(* must hold of every copy; that a commit keeps it so rests on the caller    *)
(* committing no more than it reserved.                                      *)

QuotaSet == [limit : Int, used : Int, reserved : Int, version : Int]

Within(q) == q \in QuotaSet /\ q.used + q.reserved <= q.limit

CopiesWithin == tenant \in copies /\ \A q \in copies : Within(q)

ReservationsTyped ==
  /\ DOMAIN holder = Holder /\ \A h \in Holder : holder[h].bytes \in Nat
  /\ DOMAIN upload = Session /\ \A u \in Session : upload[u].bytes \in Nat
  /\ renewals \in Nat

CallWithin ==
  current = NoCall \/ /\ current.op \in {"reserve", "commit", "release"}
                      /\ current.seen \in copies
                      /\ current.reserved \in Nat /\ current.actual \in Nat
                      /\ current.op = "commit" => current.actual <= current.reserved

LimitInv == CopiesWithin /\ ReservationsTyped /\ CallWithin

LEMMA OpsWithin ==
  ASSUME NEW q, Within(q), NEW n \in Nat, NEW m \in Nat, m <= n
  PROVE  /\ CanReserve(q, n) => Within(Reserve(q, n))
         /\ Within(Commit(q, n, m))
         /\ Within(Release(q, n))
<1>0. q \in QuotaSet
  BY DEF Within
<1>1. /\ q.version + 1 \in Int /\ q.reserved + n \in Int /\ q.reserved - n \in Int
      /\ q.used + m \in Int
  BY <1>0 DEF QuotaSet
<1>2. /\ Reserve(q, n) \in QuotaSet /\ Commit(q, n, m) \in QuotaSet
      /\ Release(q, n) \in QuotaSet
  BY <1>0, <1>1 DEF QuotaSet, Reserve, Commit, Release
<1> QED
  BY <1>0, <1>2 DEF QuotaSet, Within, CanReserve, Remaining, Reserve, Commit, Release

LEMMA NewWithin ==
  ASSUME NEW limit \in Nat
  PROVE  Within(NewQuota(limit))
BY DEF Within, QuotaSet, NewQuota

LEMMA LimitInit ==
  ASSUME Limit \subseteq Nat, Init
  PROVE  LimitInv
<1>1. Within(tenant) /\ copies = {tenant}
  BY NewWithin DEF Init
<1> QED
  BY <1>1 DEF Init, LimitInv, CopiesWithin, ReservationsTyped, CallWithin, NoReservation

LEMMA StoreWithin ==
  ASSUME CopiesWithin, NEW q, Within(q), Store(q)
  PROVE  CopiesWithin' /\ copies \subseteq copies'
BY DEF CopiesWithin, Store

LEMMA BeginWithin ==
  ASSUME LimitInv, NEW c, Begin(c), c.op \in {"reserve", "commit", "release"},
         c.seen = tenant, c.reserved \in Nat, c.actual \in Nat,
         c.op = "commit" => c.actual <= c.reserved
  PROVE  LimitInv'
BY DEF LimitInv, CopiesWithin, ReservationsTyped, CallWithin, Begin

LEMMA CallsWithin ==
  ASSUME Careful, Bytes \subseteq Nat, LimitInv, NEW h \in Holder,
         \/ ReleaseBytes(h)
         \/ \E n \in Bytes : ReserveBytes(h, n) \/ CommitBytes(h, n)
  PROVE  LimitInv'
<1>1. holder[h].bytes \in Nat
  BY DEF LimitInv, ReservationsTyped
<1>2. ASSUME NEW n \in Bytes, ReserveBytes(h, n)
      PROVE  LimitInv'
  BY <1>2, BeginWithin DEF ReserveBytes
<1>3. ASSUME NEW n \in Bytes, CommitBytes(h, n)
      PROVE  LimitInv'
  BY <1>1, <1>3, BeginWithin DEF CommitBytes
<1>4. CASE ReleaseBytes(h)
  BY <1>1, <1>4, BeginWithin DEF ReleaseBytes
<1> QED
  BY <1>2, <1>3, <1>4

LEMMA EndWithin ==
  ASSUME LimitInv, End
  PROVE  LimitInv'
<1>1. /\ current.op \in {"reserve", "commit", "release"} /\ Within(current.seen)
      /\ current.reserved \in Nat /\ current.actual \in Nat
      /\ current.op = "commit" => current.actual <= current.reserved
  BY DEF LimitInv, CallWithin, CopiesWithin, End
<1>2. Accepted(current) => Within(Settled(current))
  <2>1. CASE current.op = "reserve"
    BY <1>1, <2>1, OpsWithin DEF Accepted, Settled
  <2>2. CASE current.op = "commit"
    BY <1>1, <2>2, OpsWithin DEF Settled
  <2>3. CASE current.op = "release"
    BY <1>1, <2>3, OpsWithin DEF Settled
  <2> QED
    BY <1>1, <2>1, <2>2, <2>3
<1>3. CopiesWithin'
  <2>1. CASE UNCHANGED <<tenant, copies, holder>>
    BY <2>1 DEF LimitInv, CopiesWithin
  <2>2. CASE Accepted(current) /\ Store(Settled(current))
    BY <1>2, <2>2, StoreWithin DEF LimitInv
  <2> QED
    BY <2>1, <2>2 DEF End
<1>4. ReservationsTyped'
  BY <1>1 DEF LimitInv, ReservationsTyped, End
<1>5. CallWithin'
  BY DEF CallWithin, End
<1> QED
  BY <1>3, <1>4, <1>5 DEF LimitInv

LEMMA StartWithin ==
  ASSUME Bytes \subseteq Nat, LimitInv, NEW u \in Session, NEW n \in Bytes, UploadStarts(u, n)
  PROVE  LimitInv'
<1>1. n \in Nat
  OBVIOUS
<1>2. PICK q \in copies : CanReserve(q, n) /\ Store(Reserve(q, n))
  BY DEF UploadStarts
<1>3. CopiesWithin' /\ copies \subseteq copies'
  <2>1. Within(q)
    BY <1>2 DEF LimitInv, CopiesWithin
  <2>2. Within(Reserve(q, n))
    BY <1>1, <1>2, <2>1, OpsWithin
  <2> QED
    BY <1>2, <2>2, StoreWithin DEF LimitInv
<1> QED
  BY <1>1, <1>3 DEF UploadStarts, LimitInv, ReservationsTyped, CallWithin

LEMMA UploadEndsWithin ==
  ASSUME LimitInv, NEW u \in Session, UploadEnds(u)
  PROVE  LimitInv'
<1>1. PICK n : n = upload[u].bytes /\ n \in Nat
  BY DEF LimitInv, ReservationsTyped
<1>2. PICK q \in copies : Store(Commit(q, n, n)) \/ Store(Release(q, n))
  BY <1>1 DEF UploadEnds
<1>3. CopiesWithin' /\ copies \subseteq copies'
  <2>1. Within(q)
    BY <1>2 DEF LimitInv, CopiesWithin
  <2>2. Within(Commit(q, n, n)) /\ Within(Release(q, n))
    BY <1>1, <2>1, OpsWithin
  <2> QED
    BY <1>2, <2>2, StoreWithin DEF LimitInv
<1>4. \E s : upload' = [upload EXCEPT ![u].state = s]
  BY DEF UploadEnds
<1>5. DOMAIN upload' = Session /\ \A v \in Session : upload'[v].bytes \in Nat
  BY <1>4 DEF LimitInv, ReservationsTyped
<1> QED
  BY <1>3, <1>5 DEF UploadEnds, LimitInv, ReservationsTyped, CallWithin

LEMMA CreateWithin ==
  ASSUME LimitInv, Limit \subseteq Nat, NEW limit \in Limit, CreateRepository(limit)
  PROVE  LimitInv'
<1>1. CopiesWithin' /\ copies \subseteq copies'
  BY NewWithin, StoreWithin DEF CreateRepository, LimitInv
<1> QED
  BY <1>1 DEF CreateRepository, LimitInv, ReservationsTyped, CallWithin

LEMMA LimitNext ==
  ASSUME Careful, Limit \subseteq Nat, Bytes \subseteq Nat, LimitInv, [Next]_vars
  PROVE  LimitInv'
<1>1. CASE UNCHANGED vars
  BY <1>1 DEF vars, LimitInv, CopiesWithin, ReservationsTyped, CallWithin
<1> QED
  BY <1>1, CallsWithin, EndWithin, StartWithin, UploadEndsWithin, CreateWithin DEF Next

\* The tenant's limit holds for the quota service and the registry together, for
\* any number of callers, uploads and repositories and any sizes, also while
\* records of former versions are stored again (quota.go 36, 55, registry.go 55).
THEOREM LimitHolds ==
  ASSUME Careful, Limit \subseteq Nat, Bytes \subseteq Nat
  PROVE  Spec => []LimitShared
<1>1. LimitInv => LimitShared
  BY DEF LimitInv, CopiesWithin, Within, LimitShared
<1>2. LimitInv /\ [Next]_vars => LimitInv'
  BY LimitNext
<1>3. Init => LimitInv
  BY LimitInit
<1> QED
  BY <1>1, <1>2, <1>3, PTL DEF Spec

-----------------------------------------------------------------------------
(* What is reserved.  While the tenant has one repository, every change of   *)
(* the record has a version of its own, so whoever stores stores what        *)
(* follows from the record as it is.                                         *)

Share(r) == IF r.state = "reserved" THEN r.bytes ELSE 0

Claimed == Reserved(holder) + Reserved(upload)

Latest ==
  \A q \in copies : q.version <= tenant.version /\ (q.version = tenant.version => q = tenant)

Accounted == tenant.reserved <= Claimed /\ (~again => tenant.reserved = Claimed)

CoveredInv ==
  /\ current # NoCall /\ current.op \in {"commit", "release"} =>
       current.reserved = holder[current.holder].bytes
  /\ renewals = 0 => Latest /\ Accounted

ServiceInv == LedgerInv /\ LimitInv /\ CoveredInv

\* The share of one of the records, and that of the others.
LEMMA ShareOfOne ==
  ASSUME NEW rs, IsFiniteSet(DOMAIN rs), \A g \in DOMAIN rs : rs[g].bytes \in Nat, NEW h \in DOMAIN rs,
         NEW f, f = [g \in DOMAIN rs |-> rs[g].bytes],
         NEW Others, Others = {g \in DOMAIN rs \ {h} : rs[g].state = "reserved"}
  PROVE  /\ Reserved(rs) = Share(rs[h]) + SumFunctionOnSet(f, Others)
         /\ SumFunctionOnSet(f, Others) \in Nat
<1> DEFINE U == {g \in DOMAIN rs : rs[g].state = "reserved"}
<1>1. IsFiniteSet(U) /\ IsFiniteSet(Others)
  BY FS_Subset
<1>2. \A g \in DOMAIN rs : f[g] \in Nat
  OBVIOUS
<1>3. Reserved(rs) = SumFunctionOnSet(f, U)
  BY DEF Reserved, Unsettled
<1>4. SumFunctionOnSet(f, Others) \in Nat
  <2>1. \A g \in Others : f[g] \in Nat
    BY <1>2
  <2> QED
    BY <2>1, <1>1, SubsetSums
<1>5. CASE rs[h].state = "reserved"
  <2>1. h \in U /\ U \ {h} = Others /\ \A g \in U : f[g] \in Nat
    BY <1>2, <1>5
  <2>2. f[h] = Share(rs[h])
    BY <1>5 DEF Share
  <2> HIDE DEF U
  <2>3. SumFunctionOnSet(f, U) = f[h] + SumFunctionOnSet(f, U \ {h})
    BY <2>1, <1>1, SumRemove
  <2> QED
    BY <2>1, <2>2, <2>3, <1>3, <1>4
<1>6. CASE rs[h].state # "reserved"
  <2>1. U = Others /\ Share(rs[h]) = 0
    BY <1>6 DEF Share
  <2> HIDE DEF U
  <2>2. PICK s : s = SumFunctionOnSet(f, Others)
    OBVIOUS
  <2>3. Reserved(rs) = s /\ s \in Nat
    BY <2>1, <2>2, <1>3, <1>4
  <2> QED
    BY <2>1, <2>2, <2>3
<1> QED
  BY <1>5, <1>6

\* When one of the records changes, what is reserved changes by its share.
LEMMA ShareChanges ==
  ASSUME NEW D, IsFiniteSet(D), NEW old, NEW new, DOMAIN old = D, DOMAIN new = D, NEW h \in D,
         \A g \in D : old[g].bytes \in Nat /\ new[g].bytes \in Nat,
         \A g \in D : g # h => new[g] = old[g]
  PROVE  /\ Reserved(old) \in Nat /\ Reserved(new) \in Nat
         /\ Reserved(new) = Reserved(old) - Share(old[h]) + Share(new[h])
<1>1. PICK f, g, Others :
        /\ f = [x \in D |-> old[x].bytes] /\ g = [x \in D |-> new[x].bytes]
        /\ Others = {x \in D \ {h} : old[x].state = "reserved"}
  OBVIOUS
<1>2. Others = {x \in D \ {h} : new[x].state = "reserved"}
  BY <1>1
<1>3. /\ Reserved(old) = Share(old[h]) + SumFunctionOnSet(f, Others)
      /\ SumFunctionOnSet(f, Others) \in Nat
  BY <1>1, ShareOfOne
<1>4. /\ Reserved(new) = Share(new[h]) + SumFunctionOnSet(g, Others)
      /\ SumFunctionOnSet(g, Others) \in Nat
  BY <1>1, <1>2, ShareOfOne
<1>5. SumFunctionOnSet(f, Others) = SumFunctionOnSet(g, Others)
  <2>1. /\ IsFiniteSet(Others) /\ \A x \in Others : f[x] \in Nat
        /\ \A x \in Others : f[x] = g[x]
    BY <1>1, FS_Subset
  <2> QED
    BY <2>1, SumEqual
<1>6. Share(old[h]) \in Nat /\ Share(new[h]) \in Nat
  BY DEF Share
<1> QED
  BY <1>3, <1>4, <1>5, <1>6

LEMMA ReservedNat ==
  ASSUME NEW rs, IsFiniteSet(DOMAIN rs), \A g \in DOMAIN rs : rs[g].bytes \in Nat
  PROVE  Reserved(rs) \in Nat
<1>1. PICK f, U : /\ f = [g \in DOMAIN rs |-> rs[g].bytes]
                  /\ U = {g \in DOMAIN rs : rs[g].state = "reserved"}
  OBVIOUS
<1>2. IsFiniteSet(U) /\ \A g \in U : f[g] \in Nat
  BY <1>1, FS_Subset
<1> QED
  BY <1>1, <1>2, SubsetSums DEF Reserved, Unsettled

LEMMA NoneReserved ==
  ASSUME NEW rs, \A g \in DOMAIN rs : rs[g] = NoReservation
  PROVE  Reserved(rs) = 0
<1>1. PICK f, U : /\ f = [g \in DOMAIN rs |-> rs[g].bytes]
                  /\ U = {g \in DOMAIN rs : rs[g].state = "reserved"}
  OBVIOUS
<1>2. U = {}
  BY <1>1 DEF NoReservation
<1>3. IsFiniteSet(U) /\ \A x \in U : f[x] = 0
  BY <1>2, FS_EmptySet
<1> QED
  BY <1>1, <1>3, SumZero DEF Reserved, Unsettled

LEMMA CoveredInit ==
  ASSUME Limit \subseteq Nat, Init
  PROVE  ServiceInv
<1>1. Reserved(holder) = 0
  <2>1. \A h \in DOMAIN holder : holder[h] = NoReservation
    BY DEF Init
  <2> QED
    BY <2>1, NoneReserved
<1>2. Reserved(upload) = 0
  <2>1. \A u \in DOMAIN upload : upload[u] = NoReservation
    BY DEF Init
  <2> QED
    BY <2>1, NoneReserved
<1>3. tenant.reserved = 0 /\ tenant.version = 1 /\ copies = {tenant}
  BY DEF Init, NewQuota
<1>4. CoveredInv
  BY <1>1, <1>2, <1>3 DEF Init, CoveredInv, Latest, Accounted, Claimed
<1> QED
  BY <1>4, LedgerInit, LimitInit DEF ServiceInv

\* What the sums are, and that they are numbers.
LEMMA ClaimedNat ==
  ASSUME IsFiniteSet(Holder), IsFiniteSet(Session), ReservationsTyped
  PROVE  Reserved(holder) \in Nat /\ Reserved(upload) \in Nat
BY ReservedNat DEF ReservationsTyped

\* A copy that has the record's version is the record.
LEMMA CopyIsRecord ==
  ASSUME ServiceInv, renewals = 0, NEW q \in copies, SameVersion(q)
  PROVE  q = tenant /\ q \in QuotaSet
BY DEF ServiceInv, CoveredInv, Latest, SameVersion, LimitInv, CopiesWithin, Within

\* A change of the record has the next version, and no copy had it.
LEMMA StoreLater ==
  ASSUME ServiceInv, renewals = 0, NEW p, Store(p), p.version = tenant.version + 1
  PROVE  Latest'
<1>1. tenant' = p /\ copies' = copies \union {p}
  BY DEF Store
<1>2. \A q \in copies : q.version \in Int /\ q.version <= tenant.version
  BY DEF ServiceInv, LimitInv, CopiesWithin, Within, QuotaSet, CoveredInv, Latest
<1>3. tenant.version \in Int
  BY DEF ServiceInv, LimitInv, CopiesWithin, Within, QuotaSet
<1>4. ASSUME NEW q \in copies PROVE q.version <= p.version /\ q.version # p.version
  <2>1. PICK v, w : v = q.version /\ w = tenant.version /\ v \in Int /\ w \in Int /\ v <= w
    BY <1>2, <1>3
  <2> QED
    BY <2>1
<1>5. p.version <= p.version
  BY <1>3
<1> QED
  BY <1>1, <1>4, <1>5 DEF Latest

LEMMA BeginCovers ==
  ASSUME ServiceInv, NEW c, Begin(c),
         c.op \in {"commit", "release"} => c.reserved = holder[c.holder].bytes
  PROVE  CoveredInv'
BY DEF ServiceInv, CoveredInv, Latest, Accounted, Claimed, Begin

LEMMA StartCovers ==
  ASSUME IsFiniteSet(Holder), IsFiniteSet(Session), Bytes \subseteq Nat, ServiceInv,
         NEW u \in Session, NEW n \in Bytes, UploadStarts(u, n)
  PROVE  CoveredInv'
<1>1. holder' = holder /\ current' = current /\ renewals' = renewals /\ again' = again
  BY DEF UploadStarts
<1>2. ASSUME renewals = 0
      PROVE  Latest' /\ Accounted'
  <2>1. PICK q \in copies : SameVersion(q) /\ Store(Reserve(q, n))
    BY DEF UploadStarts
  <2>2. q = tenant /\ q \in QuotaSet /\ n \in Nat
    BY <1>2, <2>1, CopyIsRecord
  <2>3. PICK p : p = tenant' /\ Store(p) /\ p.version = q.version + 1 /\ p.reserved = q.reserved + n
    <3>1. PICK p : p = Reserve(q, n)
      OBVIOUS
    <3>2. p.version = q.version + 1 /\ p.reserved = q.reserved + n
      BY <2>2, <3>1 DEF Reserve, QuotaSet
    <3> QED
      BY <2>1, <3>1, <3>2 DEF Store
  <2>4. PICK old, new : old = upload /\ new = upload'
    OBVIOUS
  <2>5. /\ DOMAIN old = Session /\ DOMAIN new = Session /\ old[u] = NoReservation
        /\ new[u] = [bytes |-> n, state |-> "reserved"]
        /\ \A v \in Session : v # u => new[v] = old[v]
        /\ \A v \in Session : old[v].bytes \in Nat
    BY <2>4 DEF UploadStarts, ServiceInv, LimitInv, ReservationsTyped
  <2>6. \A v \in Session : old[v].bytes \in Nat /\ new[v].bytes \in Nat
    BY <2>2, <2>5
  <2>7. /\ Reserved(old) \in Nat /\ Reserved(new) \in Nat
        /\ Reserved(new) = Reserved(old) - Share(old[u]) + Share(new[u])
    BY <2>5, <2>6, ShareChanges
  <2>8. Share(old[u]) = 0 /\ Share(new[u]) = n
    BY <2>5 DEF Share, NoReservation
  <2>9. PICK r, s, t : /\ r = Reserved(holder) /\ s = Reserved(old) /\ t = Reserved(new)
                       /\ r \in Nat /\ s \in Nat /\ t = s + n
    BY <2>2, <2>7, <2>8, ClaimedNat DEF ServiceInv, LimitInv
  <2>10. Claimed = r + s /\ Claimed' = r + t
    BY <1>1, <2>4, <2>9 DEF Claimed, Reserved, Unsettled
  <2>11. q.reserved <= r + s /\ (~again => q.reserved = r + s) /\ q.reserved \in Int
    BY <1>2, <2>2, <2>10 DEF ServiceInv, CoveredInv, Accounted, QuotaSet
  <2>12. p.reserved <= r + t /\ (~again => p.reserved = r + t)
    BY <2>2, <2>3, <2>9, <2>11
  <2>13. Accounted'
    BY <1>1, <2>3, <2>10, <2>12, Zenon DEF Accounted
  <2> QED
    BY <1>2, <2>2, <2>3, <2>13, StoreLater
<1> QED
  BY <1>1, <1>2 DEF ServiceInv, CoveredInv

\* What is settled first goes from what is reserved and from what is claimed; what is
\* settled again, only from what is reserved.
LEMMA EndsCovers ==
  ASSUME IsFiniteSet(Holder), IsFiniteSet(Session), ServiceInv, NEW u \in Session, UploadEnds(u)
  PROVE  CoveredInv'
<1>1. holder' = holder /\ current' = current /\ renewals' = renewals
  BY DEF UploadEnds
<1>2. ASSUME renewals = 0
      PROVE  Latest' /\ Accounted'
  <2>1. PICK n : n = upload[u].bytes /\ n \in Nat
    BY DEF ServiceInv, LimitInv, ReservationsTyped
  <2>2. PICK q \in copies : SameVersion(q) /\ (Store(Commit(q, n, n)) \/ Store(Release(q, n)))
    BY <2>1 DEF UploadEnds
  <2>3. q = tenant /\ q \in QuotaSet
    BY <1>2, <2>2, CopyIsRecord
  <2>4. PICK p : p = tenant' /\ Store(p) /\ p.version = q.version + 1 /\ p.reserved = q.reserved - n
    <3>1. PICK p : Store(p) /\ (p = Commit(q, n, n) \/ p = Release(q, n))
      BY <2>2
    <3>2. p.version = q.version + 1 /\ p.reserved = q.reserved - n
      BY <2>1, <2>3, <3>1 DEF Commit, Release, QuotaSet
    <3> QED
      BY <3>1, <3>2 DEF Store
  <2>5. PICK old, new : old = upload /\ new = upload'
    OBVIOUS
  <2>6. PICK s \in {"committed", "released", old[u].state} :
          /\ upload' = [upload EXCEPT ![u].state = s]
          /\ s = "reserved" => old[u].state # "reserved"
    BY <2>5 DEF UploadEnds
  <2>7. /\ DOMAIN old = Session /\ DOMAIN new = Session
        /\ new[u] = [old[u] EXCEPT !.state = s]
        /\ \A v \in Session : v # u => new[v] = old[v]
        /\ \A v \in Session : old[v].bytes \in Nat /\ new[v].bytes \in Nat
    BY <2>5, <2>6 DEF ServiceInv, LimitInv, ReservationsTyped
  <2>8. /\ Reserved(old) \in Nat /\ Reserved(new) \in Nat
        /\ Reserved(new) = Reserved(old) - Share(old[u]) + Share(new[u])
    BY <2>7, ShareChanges
  <2>9. /\ Share(new[u]) = 0
        /\ Share(old[u]) = IF old[u].state = "reserved" THEN n ELSE 0
    BY <2>1, <2>5, <2>6, <2>7 DEF Share
  <2>10. PICK r, a, b : /\ r = Reserved(holder) /\ a = Reserved(old) /\ b = Reserved(new)
                        /\ r \in Nat /\ a \in Nat
                        /\ b = IF old[u].state = "reserved" THEN a - n ELSE a
    BY <2>1, <2>8, <2>9, ClaimedNat DEF ServiceInv, LimitInv
  <2>11. Claimed = r + a /\ Claimed' = r + b
    BY <1>1, <2>5, <2>10 DEF Claimed, Reserved, Unsettled
  <2>12. q.reserved <= r + a /\ (~again => q.reserved = r + a) /\ q.reserved \in Int
    BY <1>2, <2>3, <2>11 DEF ServiceInv, CoveredInv, Accounted, QuotaSet
  <2>13. ~again' => ~again /\ old[u].state = "reserved"
    BY <2>5, Zenon DEF UploadEnds
  <2>14. PICK x, y : x = q.reserved /\ y = p.reserved /\ x \in Int /\ y = x - n
    BY <2>4, <2>12
  <2>15. /\ b \in Int /\ b >= a - n
         /\ old[u].state = "reserved" => b = a - n
    BY <2>1, <2>10
  <2>16. y <= r + b
    <3>1. x <= r + a
      BY <2>12, <2>14
    <3> QED
      BY <2>1, <2>10, <2>14, <2>15, <3>1
  <2>17. ASSUME ~again'
         PROVE  y = r + b
    <3>1. x = r + a /\ b = a - n
      BY <2>12, <2>13, <2>14, <2>15, <2>17
    <3> QED
      BY <2>1, <2>10, <2>14, <3>1
  <2>18. Accounted'
    BY <2>4, <2>11, <2>14, <2>16, <2>17, Zenon DEF Accounted
  <2> QED
    BY <1>2, <2>3, <2>4, <2>18, StoreLater
<1> QED
  BY <1>1, <1>2 DEF ServiceInv, CoveredInv

LEMMA EndCovers ==
  ASSUME IsFiniteSet(Holder), IsFiniteSet(Session), ServiceInv, End
  PROVE  CoveredInv'
<1>1. /\ current # NoCall /\ current' = NoCall
      /\ upload' = upload /\ again' = again /\ renewals' = renewals
  BY DEF End
<1>2. CASE UNCHANGED <<tenant, copies, holder>>
  BY <1>1, <1>2 DEF ServiceInv, CoveredInv, Latest, Accounted, Claimed
<1>3. CASE /\ SameVersion(current.seen) /\ Store(Settled(current))
           /\ holder' = [holder EXCEPT ![current.holder] =
                           [bytes |-> current.reserved, state |-> Outcome[current.op]]]
  <2>0. SUFFICES ASSUME renewals = 0
                 PROVE  Latest' /\ Accounted'
    BY <1>1 DEF CoveredInv
  <2>1. PICK h, n, q, r : /\ h = current.holder /\ n = current.reserved /\ q = tenant
                          /\ r = [bytes |-> n, state |-> Outcome[current.op]]
    OBVIOUS
  <2>2. current.seen = q /\ q \in QuotaSet
    <3>1. current.seen \in copies
      BY <1>1 DEF ServiceInv, LimitInv, CallWithin
    <3> QED
      BY <1>3, <2>0, <2>1, <3>1, CopyIsRecord
  <2>3. /\ h \in Holder /\ n \in Nat /\ DOMAIN holder = Holder
        /\ \A g \in Holder : holder[g].bytes \in Nat
        /\ current.op \in {"reserve", "commit", "release"}
        /\ current.op = "reserve" => holder[h] = NoReservation
        /\ current.op # "reserve" => holder[h].state = "reserved" /\ holder[h].bytes = n
    BY <1>1, <2>1
    DEF ServiceInv, LedgerInv, CallFits, LimitInv, ReservationsTyped, CallWithin, CoveredInv
  <2>4. PICK new : new = holder'
    OBVIOUS
  <2>5. /\ new[h] = r /\ DOMAIN new = Holder /\ \A g \in Holder : g # h => new[g] = holder[g]
    BY <1>3, <2>1, <2>3, <2>4
  <2>6. \A g \in Holder : holder[g].bytes \in Nat /\ new[g].bytes \in Nat
    BY <2>1, <2>3, <2>5
  <2>7. /\ Reserved(holder) \in Nat /\ Reserved(new) \in Nat
        /\ Reserved(new) = Reserved(holder) - Share(holder[h]) + Share(new[h])
    BY <2>3, <2>5, <2>6, ShareChanges
  <2>8. PICK p : p = tenant' /\ Store(p)
    BY <1>3 DEF Store
  <2>9. /\ p.reserved = q.reserved - Share(holder[h]) + Share(new[h])
        /\ p.version = q.version + 1
    <3>0. p = Settled(current)
      BY <1>3, <2>8 DEF Store
    <3>1. CASE current.op = "reserve"
      <4>1. p.reserved = q.reserved + n /\ p.version = q.version + 1
        BY <2>1, <2>2, <3>0, <3>1 DEF Settled, Reserve, QuotaSet
      <4>2. Share(holder[h]) = 0 /\ Share(new[h]) = n
        BY <2>1, <2>3, <2>5, <3>1 DEF Share, NoReservation, Outcome
      <4> QED
        BY <4>1, <4>2, <2>2, <2>3 DEF QuotaSet
    <3>2. CASE current.op \in {"commit", "release"}
      <4>1. p.reserved = q.reserved - n /\ p.version = q.version + 1
        BY <2>1, <2>2, <3>0, <3>2 DEF Settled, Commit, Release, QuotaSet
      <4>2. Share(holder[h]) = n /\ Share(new[h]) = 0
        BY <2>1, <2>3, <2>5, <3>2 DEF Share, Outcome
      <4> QED
        BY <4>1, <4>2, <2>2, <2>3 DEF QuotaSet
    <3> QED
      BY <2>3, <3>1, <3>2
  <2>10. PICK a, b, s : /\ a = Reserved(holder) /\ b = Reserved(new) /\ s = Reserved(upload)
                        /\ a \in Nat /\ b \in Nat /\ s \in Nat
                        /\ b = a - Share(holder[h]) + Share(new[h])
    BY <2>7, ClaimedNat DEF ServiceInv, LimitInv
  <2>11. Claimed = a + s /\ Claimed' = b + s
    BY <1>1, <2>4, <2>10 DEF Claimed, Reserved, Unsettled
  <2>12. q.reserved <= a + s /\ (~again => q.reserved = a + s) /\ q.reserved \in Int
    BY <2>0, <2>1, <2>2, <2>11 DEF ServiceInv, CoveredInv, Accounted, QuotaSet
  <2>13. Share(holder[h]) \in Nat /\ Share(new[h]) \in Nat
    BY <2>3, <2>6 DEF Share
  <2>14. p.reserved <= b + s /\ (~again => p.reserved = b + s)
    BY <2>9, <2>10, <2>12, <2>13
  <2>15. Accounted'
    BY <1>1, <2>8, <2>11, <2>14, Zenon DEF Accounted
  <2> QED
    BY <2>0, <2>1, <2>8, <2>9, <2>15, StoreLater
<1> QED
  BY <1>2, <1>3 DEF End

LEMMA CoveredNext ==
  ASSUME IsFiniteSet(Holder), IsFiniteSet(Session), Careful, Limit \subseteq Nat,
         Bytes \subseteq Nat, ServiceInv, [Next]_vars
  PROVE  ServiceInv'
<1>1. LedgerInv' /\ LimitInv'
  BY LedgerNext, LimitNext DEF ServiceInv
<1>2. ASSUME UNCHANGED vars
      PROVE  CoveredInv'
  BY <1>2 DEF vars, ServiceInv, CoveredInv, Latest, Accounted, Claimed
<1>3. ASSUME NEW h \in Holder, NEW n \in Bytes, ReserveBytes(h, n)
      PROVE  CoveredInv'
  BY <1>3, BeginCovers DEF ReserveBytes
<1>4. ASSUME NEW h \in Holder, NEW n \in Bytes, CommitBytes(h, n)
      PROVE  CoveredInv'
  BY <1>4, BeginCovers DEF CommitBytes
<1>5. ASSUME NEW h \in Holder, ReleaseBytes(h)
      PROVE  CoveredInv'
  BY <1>5, BeginCovers DEF ReleaseBytes
<1>6. ASSUME NEW limit \in Limit, CreateRepository(limit)
      PROVE  CoveredInv'
  <2>1. renewals' # 0 /\ current' = current /\ holder' = holder
    BY <1>6 DEF CreateRepository, ServiceInv, LimitInv, ReservationsTyped
  <2> QED
    BY <2>1 DEF ServiceInv, CoveredInv
<1>7. CoveredInv'
  BY <1>2, <1>3, <1>4, <1>5, <1>6, StartCovers, EndsCovers, EndCovers DEF Next
<1> QED
  BY <1>1, <1>7 DEF ServiceInv

\* While a tenant has one repository, what is reserved of its quota is what callers
\* hold unsettled and uploads have open, for any number of callers and uploads and
\* any sizes: no call undoes what the registry stored between its read and its write
\* (quota.go 35, 39, 54, 58, 67, 71).  An upload that is settled again (registry.go
\* 370) takes of that, and nothing is added to it.
THEOREM ReservationsCovered ==
  ASSUME IsFiniteSet(Holder), IsFiniteSet(Session), Careful, Limit \subseteq Nat, Bytes \subseteq Nat
  PROVE  Spec => []HoldersCovered
<1>1. ServiceInv => HoldersCovered
  BY DEF ServiceInv, CoveredInv, Accounted, Claimed, HoldersCovered, HeldExactly
<1>2. ServiceInv /\ [Next]_vars => ServiceInv'
  BY CoveredNext
<1>3. Init => ServiceInv
  BY CoveredInit
<1> QED
  BY <1>1, <1>2, <1>3, PTL DEF Spec

-----------------------------------------------------------------------------
(* The histogram.  What its goroutines still have to add is theirs to add,   *)
(* and a goroutine that stores adds to what was there when it loaded, so      *)
(* nothing is added twice.                                                   *)

ObserverSet == [pc : {"idle", "count", "load", "store"}, value : Nat, old : Nat]

\* What observers have begun to add and not added yet.
Pending(o) == SumFunctionOnSet([p \in Observer |-> o[p].value], Observer)

TimingsTyped ==
  /\ sum \in Nat /\ total \in Nat /\ overlapped \in BOOLEAN
  /\ observer \in [Observer -> ObserverSet]
  /\ \A p \in Observer : observer[p].pc = "idle" <=> observer[p] = Timings!Idle

Loaded(p) == observer[p].pc = "store"

NothingInvented ==
  /\ sum + Pending(observer) <= total
  /\ \A p \in Observer : Loaded(p) => observer[p].old + Pending(observer) <= total

NothingLostAlone ==
  ~overlapped =>
    /\ sum + Pending(observer) = total
    /\ \A p, q \in Observer : observer[p] # Timings!Idle /\ observer[q] # Timings!Idle => p = q
    /\ \A p \in Observer : Loaded(p) => observer[p].old = sum

TimingsInv == TimingsTyped /\ NothingInvented /\ NothingLostAlone

\* Idle observers have nothing to add.
LEMMA PendingNone ==
  ASSUME IsFiniteSet(Observer), NEW o, \A p \in Observer : o[p] = Timings!Idle
  PROVE  Pending(o) = 0
<1>1. PICK f : f = [p \in Observer |-> o[p].value]
  OBVIOUS
<1>2. \A p \in Observer : f[p] = 0
  BY <1>1 DEF Timings!Idle
<1> QED
  BY <1>1, <1>2, SumZero DEF Pending

\* A step of one observer changes what is pending by as much as its value.
LEMMA PendingStep ==
  ASSUME IsFiniteSet(Observer), NEW o \in [Observer -> ObserverSet], NEW p \in Observer,
         NEW local \in ObserverSet
  PROVE  /\ Pending(o) \in Nat /\ o[p].value <= Pending(o)
         /\ Pending([o EXCEPT ![p] = local]) = Pending(o) - o[p].value + local.value
<1>1. PICK f, g : /\ f = [q \in Observer |-> o[q].value]
                  /\ g = [q \in Observer |-> [o EXCEPT ![p] = local][q].value]
  OBVIOUS
<1>2. \A q \in Observer : f[q] \in Nat /\ g[q] \in Nat
  BY <1>1 DEF ObserverSet
<1>3. /\ f[p] = o[p].value /\ g[p] = local.value
      /\ \A q \in Observer : q # p => f[q] = g[q]
  BY <1>1
<1>4. SumFunctionOnSet(g, Observer) = SumFunctionOnSet(f, Observer) - f[p] + g[p]
  BY <1>2, <1>3, SumChange
<1>5. /\ SumFunctionOnSet(f, Observer) = f[p] + SumFunctionOnSet(f, Observer \ {p})
      /\ SumFunctionOnSet(f, Observer) \in Nat /\ SumFunctionOnSet(f, Observer \ {p}) \in Nat
  BY <1>2, SumRemove
<1>6. Pending(o) = SumFunctionOnSet(f, Observer)
  BY <1>1 DEF Pending
<1>7. Pending([o EXCEPT ![p] = local]) = SumFunctionOnSet(g, Observer)
  BY <1>1 DEF Pending
<1>8. f[p] \in Nat
  BY <1>2
<1> QED
  BY <1>3, <1>4, <1>5, <1>6, <1>7, <1>8

LEMMA TimingsInit ==
  ASSUME IsFiniteSet(Observer), Timings!Init
  PROVE  TimingsInv
<1>1. \A p \in Observer : observer[p] = Timings!Idle
  BY DEF Timings!Init
<1>2. Pending(observer) = 0
  BY <1>1, PendingNone
<1>3. TimingsTyped
  BY <1>1 DEF Timings!Init, TimingsTyped, ObserverSet, Timings!Idle
<1>4. \A p \in Observer : ~Loaded(p)
  BY <1>1 DEF Loaded, Timings!Idle
<1> QED
  BY <1>1, <1>2, <1>3, <1>4 DEF Timings!Init, TimingsInv, NothingInvented, NothingLostAlone

\* What every step of an observer does: it changes its local record, what is
\* pending accordingly, and of the rest what its action says.
LEMMA ObserverSteps ==
  ASSUME IsFiniteSet(Observer), TimingsInv, NEW p \in Observer, NEW local \in ObserverSet,
         observer' = [observer EXCEPT ![p] = local]
  PROVE  /\ observer' \in [Observer -> ObserverSet] /\ observer'[p] = local
         /\ \A q \in Observer : q # p => observer'[q] = observer[q]
         /\ Pending(observer) \in Nat /\ observer[p].value <= Pending(observer)
         /\ Pending(observer') = Pending(observer) - observer[p].value + local.value
         /\ observer[p] \in ObserverSet
<1>1. observer \in [Observer -> ObserverSet]
  BY DEF TimingsInv, TimingsTyped
<1>2. Pending([observer EXCEPT ![p] = local]) = Pending(observer')
  OBVIOUS
<1> QED
  BY <1>1, <1>2, PendingStep

LEMMA ObserveKeeps ==
  ASSUME IsFiniteSet(Observer), Amount \subseteq Nat, TimingsInv, NEW p \in Observer,
         NEW v \in Amount, Timings!Observe(p, v)
  PROVE  TimingsInv'
<1> DEFINE local == [pc |-> "count", value |-> v, old |-> 0]
<1>1. local \in ObserverSet /\ v \in Nat
  BY DEF ObserverSet
<1>2. /\ observer' = [observer EXCEPT ![p] = local] /\ total' = total + v /\ sum' = sum
      /\ observer[p] = Timings!Idle
      /\ overlapped' = (overlapped \/ \E q \in Observer \ {p} : observer[q] # Timings!Idle)
  BY DEF Timings!Observe, Timings!Go
<1>3. /\ observer' \in [Observer -> ObserverSet] /\ observer'[p] = local
      /\ \A q \in Observer : q # p => observer'[q] = observer[q]
      /\ Pending(observer) \in Nat /\ Pending(observer') = Pending(observer) + v
  <2>1. observer[p].value = 0 /\ local.value = v
    BY <1>2 DEF Timings!Idle
  <2> HIDE DEF local
  <2>2. /\ observer' \in [Observer -> ObserverSet] /\ observer'[p] = local
        /\ \A q \in Observer : q # p => observer'[q] = observer[q]
        /\ Pending(observer) \in Nat
        /\ Pending(observer') = Pending(observer) - observer[p].value + local.value
    BY <1>1, <1>2, ObserverSteps
  <2> QED
    BY <2>1, <2>2, <1>1
<1>4. TimingsTyped'
  <2>1. total' \in Nat /\ sum' \in Nat /\ overlapped' \in BOOLEAN
    BY <1>1, <1>2 DEF TimingsInv, TimingsTyped
  <2> QED
    BY <2>1, <1>3 DEF TimingsInv, TimingsTyped, Timings!Idle
<1>5. \A q \in Observer : Loaded(q)' => Loaded(q) /\ observer'[q] = observer[q]
  BY <1>3 DEF Loaded
<1>6. sum \in Nat /\ total \in Nat /\ \A q \in Observer : observer[q].old \in Nat
  BY DEF TimingsInv, TimingsTyped, ObserverSet
<1>7. NothingInvented'
  <2>1. sum' + Pending(observer') <= total'
    BY <1>1, <1>2, <1>3, <1>6 DEF TimingsInv, NothingInvented
  <2>2. ASSUME NEW q \in Observer, Loaded(q)'
        PROVE  observer'[q].old + Pending(observer') <= total'
    <3>1. observer[q].old + Pending(observer) <= total /\ observer'[q] = observer[q]
      BY <2>2, <1>5 DEF TimingsInv, NothingInvented
    <3> QED
      BY <3>1, <1>1, <1>2, <1>3, <1>6
  <2> QED
    BY <2>1, <2>2 DEF NothingInvented
<1>8. NothingLostAlone'
  <2> SUFFICES ASSUME ~overlapped'
               PROVE  NothingLostAlone'
    BY DEF NothingLostAlone
  <2>1. ~overlapped /\ \A q \in Observer : q # p => observer[q] = Timings!Idle
    BY <1>2
  <2>2. sum' + Pending(observer') = total'
    BY <2>1, <1>1, <1>2, <1>3, <1>6 DEF TimingsInv, NothingLostAlone
  <2>3. \A q \in Observer : ~Loaded(q)'
    BY <2>1, <1>3, <1>5 DEF Loaded, Timings!Idle
  <2>4. \A q \in Observer : q # p => observer'[q] = Timings!Idle
    BY <2>1, <1>3
  <2> QED
    BY <2>2, <2>3, <2>4 DEF NothingLostAlone
<1> QED
  BY <1>4, <1>7, <1>8 DEF TimingsInv

LEMMA CountKeeps ==
  ASSUME IsFiniteSet(Observer), TimingsInv, NEW p \in Observer,
         Timings!Count(p) \/ Timings!Load(p)
  PROVE  TimingsInv'
<1>1. PICK o : o = observer[p]
  OBVIOUS
<1>2. o \in ObserverSet /\ o # Timings!Idle /\ sum \in Nat
  BY <1>1 DEF TimingsInv, TimingsTyped, Timings!Idle, Timings!Count, Timings!Load
<1>3. PICK local : /\ observer' = [observer EXCEPT ![p] = local]
                   /\ local \in ObserverSet /\ local.value = o.value
                   /\ local.pc = "load" \/ (local.pc = "store" /\ local.old = sum)
  <2>1. CASE Timings!Count(p)
    <3>1. PICK l : l = [o EXCEPT !.pc = "load"]
      OBVIOUS
    <3>2. l \in ObserverSet /\ l.value = o.value /\ l.pc = "load"
      BY <3>1, <1>2 DEF ObserverSet
    <3> QED
      BY <3>1, <3>2, <2>1, <1>1 DEF Timings!Count, Timings!Go
  <2>2. CASE Timings!Load(p)
    <3>1. PICK l : l = [o EXCEPT !.pc = "store", !.old = sum]
      OBVIOUS
    <3>2. l \in ObserverSet /\ l.value = o.value /\ l.pc = "store" /\ l.old = sum
      BY <3>1, <1>2 DEF ObserverSet
    <3> QED
      BY <3>1, <3>2, <2>2, <1>1 DEF Timings!Load, Timings!Go
  <2> QED
    BY <2>1, <2>2
<1>4. UNCHANGED <<sum, total, overlapped>>
  BY DEF Timings!Count, Timings!Load
<1>5. /\ observer' \in [Observer -> ObserverSet] /\ observer'[p] = local
      /\ \A q \in Observer : q # p => observer'[q] = observer[q]
      /\ Pending(observer) \in Nat /\ Pending(observer') = Pending(observer)
  <2>1. observer[p].value = local.value /\ local.value \in Nat
    BY <1>1, <1>2, <1>3 DEF ObserverSet
  <2>2. /\ observer' \in [Observer -> ObserverSet] /\ observer'[p] = local
        /\ \A q \in Observer : q # p => observer'[q] = observer[q]
        /\ Pending(observer) \in Nat
        /\ Pending(observer') = Pending(observer) - observer[p].value + local.value
    BY <1>3, ObserverSteps
  <2> QED
    BY <2>1, <2>2
<1>6. local # Timings!Idle
  BY <1>3 DEF Timings!Idle
<1>7. TimingsTyped'
  BY <1>3, <1>4, <1>5, <1>6 DEF TimingsInv, TimingsTyped
<1>8. \A q \in Observer : Loaded(q)' =>
        observer'[q].old = sum \/ (Loaded(q) /\ observer'[q] = observer[q])
  BY <1>3, <1>5 DEF Loaded
<1>9. NothingInvented'
  BY <1>4, <1>5, <1>8 DEF TimingsInv, NothingInvented
<1>10. NothingLostAlone'
  <2>1. \A q \in Observer : observer'[q] # Timings!Idle => observer[q] # Timings!Idle
    BY <1>1, <1>2, <1>5
  <2> QED
    BY <2>1, <1>4, <1>5, <1>8 DEF TimingsInv, NothingLostAlone
<1> QED
  BY <1>7, <1>9, <1>10 DEF TimingsInv

LEMMA StoreKeeps ==
  ASSUME IsFiniteSet(Observer), TimingsInv, NEW p \in Observer, Timings!StoreSum(p)
  PROVE  TimingsInv'
<1>1. Timings!Idle \in ObserverSet
  BY DEF Timings!Idle, ObserverSet
<1>2. /\ observer' = [observer EXCEPT ![p] = Timings!Idle] /\ Loaded(p)
      /\ sum' = observer[p].old + observer[p].value
      /\ total' = total /\ overlapped' = overlapped
  BY DEF Timings!StoreSum, Timings!Go, Loaded
<1>3. /\ observer' \in [Observer -> ObserverSet] /\ observer'[p] = Timings!Idle
      /\ \A q \in Observer : q # p => observer'[q] = observer[q]
      /\ Pending(observer) \in Nat /\ observer[p].value <= Pending(observer)
      /\ Pending(observer') = Pending(observer) - observer[p].value
      /\ observer[p].value \in Nat /\ observer[p].old \in Nat
  <2>1. PICK local : local = Timings!Idle
    OBVIOUS
  <2>2. local.value = 0
    BY <2>1 DEF Timings!Idle
  <2>3. /\ observer' \in [Observer -> ObserverSet] /\ observer'[p] = local
        /\ \A q \in Observer : q # p => observer'[q] = observer[q]
        /\ Pending(observer) \in Nat /\ observer[p].value <= Pending(observer)
        /\ Pending(observer') = Pending(observer) - observer[p].value + local.value
        /\ observer[p] \in ObserverSet
    BY <1>1, <1>2, <2>1, ObserverSteps
  <2>4. observer[p].value \in Nat /\ observer[p].old \in Nat
    BY <2>3 DEF ObserverSet
  <2> QED
    BY <2>1, <2>2, <2>3, <2>4
<1>4. TimingsTyped'
  <2>1. sum' \in Nat
    BY <1>2, <1>3
  <2> QED
    BY <2>1, <1>2, <1>3 DEF TimingsInv, TimingsTyped, Timings!Idle
<1>5. \A q \in Observer : Loaded(q)' => q # p /\ Loaded(q) /\ observer'[q] = observer[q]
  BY <1>3 DEF Loaded, Timings!Idle
<1>6. sum \in Nat /\ total \in Nat /\ \A q \in Observer : observer[q].old \in Nat
  BY DEF TimingsInv, TimingsTyped, ObserverSet
<1>7. NothingInvented'
  <2>1. sum' + Pending(observer') <= total'
    BY <1>2, <1>3, <1>6 DEF TimingsInv, NothingInvented
  <2>2. ASSUME NEW q \in Observer, Loaded(q)'
        PROVE  observer'[q].old + Pending(observer') <= total'
    BY <2>2, <1>2, <1>3, <1>5, <1>6 DEF TimingsInv, NothingInvented
  <2> QED
    BY <2>1, <2>2 DEF NothingInvented
<1>8. NothingLostAlone'
  <2> SUFFICES ASSUME ~overlapped
               PROVE  NothingLostAlone'
    BY <1>2 DEF NothingLostAlone
  <2>1. observer[p].old = sum /\ sum + Pending(observer) = total
    BY <1>2 DEF TimingsInv, NothingLostAlone
  <2>2. sum' + Pending(observer') = total'
    BY <2>1, <1>2, <1>3, <1>6
  <2>3. observer[p] # Timings!Idle
    BY <1>2 DEF Loaded, Timings!Idle
  <2>4. \A q \in Observer : observer'[q] = Timings!Idle
    BY <2>3, <1>3 DEF TimingsInv, NothingLostAlone
  <2>5. \A q \in Observer : ~Loaded(q)'
    BY <2>4 DEF Loaded, Timings!Idle
  <2> QED
    BY <2>2, <2>4, <2>5 DEF NothingLostAlone
<1> QED
  BY <1>4, <1>7, <1>8 DEF TimingsInv

LEMMA TimingsNext ==
  ASSUME IsFiniteSet(Observer), Amount \subseteq Nat, TimingsInv, [Timings!Next]_(Timings!vars)
  PROVE  TimingsInv'
<1>1. ASSUME UNCHANGED <<sum, total, overlapped, observer>>
      PROVE  TimingsInv'
  BY <1>1 DEF TimingsInv, TimingsTyped, NothingInvented, NothingLostAlone, Loaded
<1>2. CASE Timings!ReadMedian \/ Timings!ReadTail \/ UNCHANGED Timings!vars
  BY <1>1, <1>2 DEF Timings!ReadMedian, Timings!ReadTail, Timings!vars
<1> QED
  BY <1>2, ObserveKeeps, CountKeeps, StoreKeeps DEF Timings!Next

\* Concurrent observations may lose parts of the histogram's sum but never invent
\* any, and nothing is lost when no two ever overlapped, for any number of
\* goroutines and values (metrics.go:38).
THEOREM SumsHold ==
  ASSUME IsFiniteSet(Observer), Amount \subseteq Nat
  PROVE  Timings!Spec => []SumBounded
<1>1. TimingsInv => SumBounded
  <2> SUFFICES ASSUME TimingsInv
               PROVE  SumBounded
    OBVIOUS
  <2>1. Pending(observer) \in Nat \/ Observer = {}
    BY PendingStep DEF TimingsInv, TimingsTyped
  <2>2. Timings!Quiet => Pending(observer) = 0
    BY PendingNone DEF Timings!Quiet
  <2>3. Observer = {} => Timings!Quiet
    BY DEF Timings!Quiet
  <2> QED
    BY <2>1, <2>2, <2>3 DEF SumBounded, Timings!SumBounded, TimingsInv, TimingsTyped, NothingInvented,
                           NothingLostAlone
<1>2. TimingsInv /\ [Timings!Next]_(Timings!vars) => TimingsInv'
  BY TimingsNext
<1>3. Timings!Init => TimingsInv
  BY TimingsInit
<1> QED
  BY <1>1, <1>2, <1>3, PTL DEF Timings!Spec

-----------------------------------------------------------------------------
(* The rate limiter.  A request may be counted in a window that began after  *)
(* the time it read, but no longer after than it waited, so a span that is    *)
(* shorter than a window by that much meets two windows at most.             *)

LimitsAssumed ==
  /\ Rate \in Nat \ {0} /\ Window \in Nat \ {0} /\ MaxNow \in Nat
  /\ Delay \in Nat /\ Delay <= Window

\* The instance's name for a sum means what it means here.
LEMMA SameSums == \A f, S : Limiter!SumFunctionOnSet(f, S) = SumFunctionOnSet(f, S)
BY DEF Limiter!SumFunctionOnSet, SumFunctionOnSet, Limiter!FoldFunctionOnSet, FoldFunctionOnSet,
       Limiter!MapThenFoldSet, MapThenFoldSet

\* How many of those counted in a were there in the span that begins at t.
InSpan(a, t) == SumFunctionOnSet(a, (t..t + Window - Delay) \cap (0..MaxNow))

LimiterTyped ==
  /\ now \in 0..MaxNow
  /\ admitted \in [0..MaxNow -> Nat]
  /\ stamp \in [Handler -> Int]
  /\ \A h \in Handler : stamp[h] = -1 \/ (stamp[h] \in 0..now /\ now <= stamp[h] + Delay)

\* The last window began at s and c requests have been counted in it; those before
\* were counted in windows that were over by then.
Counted(a, s, c) ==
  /\ \A t \in 0..MaxNow : t >= s + Window => a[t] = 0
  /\ \A t \in Int : t >= s => InSpan(a, t) <= c
  /\ \A t \in Int : t + Window >= s => InSpan(a, t) <= Rate + c
  /\ \A t \in Int : InSpan(a, t) <= 2 * Rate

\* What the limiter still knows of it: a reset forgets a window that ended long ago.
Remembered(s, c) ==
  \/ entry = [count |-> c, start |-> s] /\ c >= 1 /\ s <= now
  \/ entry = Limiter!NoEntry /\ s + 2 * Window <= now

LimiterInv ==
  /\ LimiterTyped
  /\ \E s \in Int, c \in 0..Rate : Counted(admitted, s, c) /\ Remembered(s, c)

LEMMA SpanFinite ==
  ASSUME LimitsAssumed, NEW t \in Int
  PROVE  IsFiniteSet((t..t + Window - Delay) \cap (0..MaxNow))
<1>1. IsFiniteSet(0..MaxNow)
  BY FS_Interval DEF LimitsAssumed
<1> QED
  BY <1>1, FS_Subset

\* What is counted at u is one more, and the same at any other time.
OneMore(a, b, u) ==
  /\ a \in [0..MaxNow -> Nat] /\ b \in [0..MaxNow -> Nat]
  /\ b[u] = a[u] + 1
  /\ \A t \in 0..MaxNow : t # u => b[t] = a[t]

\* A request that passes counts in the spans its time is in.
LEMMA OneMoreInSpan ==
  ASSUME LimitsAssumed, NEW a, NEW b, NEW u \in 0..MaxNow, OneMore(a, b, u), NEW t \in Int
  PROVE  /\ InSpan(a, t) \in Nat /\ InSpan(b, t) \in Nat
         /\ InSpan(b, t) = IF u >= t /\ u <= t + Window - Delay THEN InSpan(a, t) + 1
                           ELSE InSpan(a, t)
<1> DEFINE S == (t..t + Window - Delay) \cap (0..MaxNow)
<1>1. IsFiniteSet(S)
  BY SpanFinite
<1>2. /\ \A x \in S : a[x] \in Nat /\ b[x] \in Nat
      /\ \A x \in S : x # u => a[x] = b[x]
  BY DEF OneMore
<1>3. b[u] = a[u] + 1 /\ a[u] \in Nat
  BY DEF OneMore
<1>4. InSpan(a, t) = SumFunctionOnSet(a, S) /\ InSpan(b, t) = SumFunctionOnSet(b, S)
  BY DEF InSpan
<1>5. u \in S <=> u >= t /\ u <= t + Window - Delay
  BY DEF LimitsAssumed
<1> HIDE DEF S
<1>6. SumFunctionOnSet(a, S) \in Nat
  BY <1>1, <1>2, SubsetSums
<1>7. CASE u \in S
  <2>1. SumFunctionOnSet(b, S) = SumFunctionOnSet(a, S) - a[u] + b[u]
    <3>1. ASSUME NEW x \in S, \A y \in S : y # x => a[y] = b[y]
          PROVE  SumFunctionOnSet(b, S) = SumFunctionOnSet(a, S) - a[x] + b[x]
      BY <3>1, <1>1, <1>2, SumChange
    <3> QED
      BY <3>1, <1>2, <1>7
  <2> QED
    BY <2>1, <1>3, <1>4, <1>5, <1>6, <1>7
<1>8. CASE u \notin S
  <2>1. SumFunctionOnSet(a, S) = SumFunctionOnSet(b, S)
    BY <1>1, <1>2, <1>8, SumEqual
  <2> QED
    BY <2>1, <1>4, <1>5, <1>6, <1>8
<1> QED
  BY <1>7, <1>8

LEMMA NoneInSpan ==
  ASSUME LimitsAssumed, NEW a, NEW t \in Int, \A u \in 0..MaxNow : u >= t => a[u] = 0
  PROVE  InSpan(a, t) = 0
<1> DEFINE S == (t..t + Window - Delay) \cap (0..MaxNow)
<1>1. IsFiniteSet(S) /\ \A u \in S : a[u] = 0
  BY SpanFinite DEF LimitsAssumed
<1> QED
  BY <1>1, SumZero DEF InSpan

\* A request opens a window: its time is in no window before.
LEMMA WindowOpens ==
  ASSUME LimitsAssumed, NEW a, NEW b, NEW u \in 0..MaxNow, OneMore(a, b, u),
         NEW s \in Int, NEW c \in 0..Rate, Counted(a, s, c), u >= s + Window
  PROVE  Counted(b, u, 1)
<1>1. /\ Rate \in Nat \ {0} /\ Window \in Nat \ {0} /\ Delay \in Nat /\ Delay <= Window
      /\ c \in Int /\ c <= Rate
  BY DEF LimitsAssumed
<1>2. \A t \in Int : /\ InSpan(a, t) \in Nat /\ InSpan(b, t) \in Nat
                     /\ InSpan(b, t) <= InSpan(a, t) + 1
                     /\ ~(t + Window >= u) => InSpan(b, t) = InSpan(a, t)
  <2> SUFFICES ASSUME NEW t \in Int
               PROVE  /\ InSpan(a, t) \in Nat /\ InSpan(b, t) \in Nat
                      /\ InSpan(b, t) <= InSpan(a, t) + 1
                      /\ ~(t + Window >= u) => InSpan(b, t) = InSpan(a, t)
    OBVIOUS
  <2>1. /\ InSpan(a, t) \in Nat /\ InSpan(b, t) \in Nat
        /\ InSpan(b, t) = IF u >= t /\ u <= t + Window - Delay THEN InSpan(a, t) + 1
                          ELSE InSpan(a, t)
    BY OneMoreInSpan
  <2> QED
    BY <2>1, <1>1
<1>4. \A t \in 0..MaxNow : t >= u + Window => b[t] = 0
  BY <1>1 DEF Counted, OneMore
<1>5. \A t \in Int : t >= u => InSpan(b, t) <= 1
  <2> SUFFICES ASSUME NEW t \in Int, t >= u
               PROVE  InSpan(b, t) <= 1
    OBVIOUS
  <2>1. \A v \in 0..MaxNow : v >= t => a[v] = 0
    BY <1>1 DEF Counted
  <2>2. InSpan(a, t) = 0
    BY <2>1, NoneInSpan
  <2> QED
    BY <2>2, <1>2
<1>6. ASSUME NEW t \in Int, t + Window >= u
      PROVE  InSpan(b, t) <= Rate + 1
  <2>1. t >= s
    BY <1>6, <1>1
  <2>2. InSpan(a, t) <= c
    BY <2>1 DEF Counted
  <2> QED
    BY <2>2, <1>1, <1>2
<1>7. ASSUME NEW t \in Int
      PROVE  InSpan(b, t) <= 2 * Rate
  <2>1. CASE t + Window >= u
    <3>1. InSpan(b, t) <= Rate + 1 /\ InSpan(b, t) \in Nat
      BY <2>1, <1>2, <1>6
    <3> QED
      BY <3>1, <1>1
  <2>2. CASE ~(t + Window >= u)
    BY <2>2, <1>2 DEF Counted
  <2> QED
    BY <2>1, <2>2
<1> QED
  BY <1>4, <1>5, <1>6, <1>7 DEF Counted

\* A request is counted in the window that is open, also if it read the clock before
\* the window began.
LEMMA WindowCounts ==
  ASSUME LimitsAssumed, NEW a, NEW b, NEW u \in 0..MaxNow, OneMore(a, b, u),
         NEW s \in Int, NEW c \in Nat, c < Rate, Counted(a, s, c),
         u < s + Window, s <= u + Delay
  PROVE  Counted(b, s, c + 1)
<1>1. /\ Rate \in Nat \ {0} /\ Window \in Nat /\ Delay \in Nat /\ Delay <= Window
  BY DEF LimitsAssumed
<1>2. \A t \in Int : /\ InSpan(a, t) \in Nat /\ InSpan(b, t) \in Nat
                     /\ InSpan(b, t) <= InSpan(a, t) + 1
                     /\ ~(t + Window >= s) => InSpan(b, t) = InSpan(a, t)
  <2> SUFFICES ASSUME NEW t \in Int
               PROVE  /\ InSpan(a, t) \in Nat /\ InSpan(b, t) \in Nat
                      /\ InSpan(b, t) <= InSpan(a, t) + 1
                      /\ ~(t + Window >= s) => InSpan(b, t) = InSpan(a, t)
    OBVIOUS
  <2>1. /\ InSpan(a, t) \in Nat /\ InSpan(b, t) \in Nat
        /\ InSpan(b, t) = IF u >= t /\ u <= t + Window - Delay THEN InSpan(a, t) + 1
                          ELSE InSpan(a, t)
    BY OneMoreInSpan
  <2> QED
    BY <2>1, <1>1
<1>3. \A t \in 0..MaxNow : t >= s + Window => b[t] = 0
  BY <1>1 DEF Counted, OneMore
<1>4. ASSUME NEW t \in Int, t >= s
      PROVE  InSpan(b, t) <= c + 1
  <2>1. InSpan(a, t) <= c
    BY <1>4 DEF Counted
  <2> QED
    BY <2>1, <1>2
<1>5. ASSUME NEW t \in Int, t + Window >= s
      PROVE  InSpan(b, t) <= Rate + (c + 1)
  <2>1. InSpan(a, t) <= Rate + c
    BY <1>5 DEF Counted
  <2> QED
    BY <2>1, <1>1, <1>2
<1>6. ASSUME NEW t \in Int
      PROVE  InSpan(b, t) <= 2 * Rate
  <2>1. CASE t + Window >= s
    <3>1. InSpan(b, t) <= Rate + (c + 1) /\ InSpan(b, t) \in Nat
      BY <2>1, <1>2, <1>5
    <3> QED
      BY <3>1, <1>1
  <2>2. CASE ~(t + Window >= s)
    BY <2>2, <1>2 DEF Counted
  <2> QED
    BY <2>1, <2>2
<1> QED
  BY <1>3, <1>4, <1>5, <1>6 DEF Counted

LEMMA LimiterInit ==
  ASSUME LimitsAssumed, Limiter!Init
  PROVE  LimiterInv
<1>1. /\ MaxNow \in Nat /\ Window \in Nat /\ Rate \in Nat
      /\ entry = Limiter!NoEntry /\ now = 0
      /\ admitted = [t \in 0..MaxNow |-> 0] /\ stamp = [h \in Handler |-> -1]
  BY DEF LimitsAssumed, Limiter!Init
<1>2. \A t \in Int : InSpan(admitted, t) = 0
  BY <1>1, NoneInSpan
<1>3. Counted(admitted, -(2 * Window), 0)
  BY <1>1, <1>2 DEF Counted
<1>4. Remembered(-(2 * Window), 0)
  BY <1>1 DEF Remembered
<1>5. LimiterTyped
  BY <1>1 DEF LimiterTyped
<1>6. -(2 * Window) \in Int /\ 0 \in 0..Rate
  BY <1>1
<1> QED
  BY <1>3, <1>4, <1>5, <1>6 DEF LimiterInv

LEMMA AllowKeeps ==
  ASSUME LimitsAssumed, LimiterInv, NEW h \in Handler, Limiter!Allow(h)
  PROVE  LimiterInv'
<1>1. /\ Rate \in Nat \ {0} /\ Window \in Nat \ {0} /\ MaxNow \in Nat /\ Delay \in Nat
      /\ Delay <= Window
  BY DEF LimitsAssumed
<1>2. PICK s \in Int, c \in 0..Rate : Counted(admitted, s, c) /\ Remembered(s, c)
  BY DEF LimiterInv
<1>3. PICK u, a : u = stamp[h] /\ a = admitted
  OBVIOUS
<1>4. /\ now \in 0..MaxNow /\ a \in [0..MaxNow -> Nat] /\ u \in 0..now /\ now <= u + Delay
      /\ now' = now
  BY <1>1, <1>3 DEF LimiterInv, LimiterTyped, Limiter!Allow
<1>5. /\ stamp' \in [Handler -> Int]
      /\ \A g \in Handler : stamp'[g] = -1 \/ (stamp'[g] \in 0..now /\ now <= stamp'[g] + Delay)
  BY DEF LimiterInv, LimiterTyped, Limiter!Allow
<1>6. u \in 0..MaxNow
  BY <1>1, <1>4
<1> DEFINE b == [a EXCEPT ![u] = @ + 1]
<1>7. b \in [0..MaxNow -> Nat] /\ OneMore(a, b, u)
  BY <1>4, <1>6 DEF OneMore
<1> SUFFICES ASSUME NEW d, d \in [0..MaxNow -> Nat], admitted' = d
             PROVE  \E v \in Int, e \in 0..Rate : Counted(d, v, e) /\ Remembered(v, e)'
  <2>1. PICK d : d = admitted' /\ d \in [0..MaxNow -> Nat]
    BY <1>3, <1>4, <1>7 DEF Limiter!Allow, Limiter!Pass
  <2>2. LimiterTyped'
    BY <2>1, <1>4, <1>5 DEF LimiterTyped
  <2> QED
    BY <2>1, <2>2 DEF LimiterInv
<1>8. CASE Limiter!Over(u) /\ Limiter!Pass(u, [count |-> 1, start |-> u])
  <2>1. d = b /\ entry' = [count |-> 1, start |-> u]
    BY <1>3, <1>8 DEF Limiter!Pass
  <2>2. u >= s + Window
    <3>1. CASE entry = [count |-> c, start |-> s] /\ c >= 1
      <4>1. entry # Limiter!NoEntry /\ entry.start = s
        BY <3>1, <1>1 DEF Limiter!NoEntry
      <4> QED
        BY <4>1, <1>1, <1>4, <1>8 DEF Limiter!Over
    <3>2. CASE s + 2 * Window <= now
      BY <3>2, <1>1, <1>4
    <3> QED
      BY <3>1, <3>2, <1>2 DEF Remembered
  <2>3. Counted(d, u, 1)
    BY <2>1, <2>2, <1>2, <1>3, <1>6, <1>7, WindowOpens
  <2>4. Remembered(u, 1)'
    BY <2>1, <1>4 DEF Remembered
  <2>5. u \in Int /\ 1 \in 0..Rate
    BY <1>1, <1>4
  <2> QED
    BY <2>3, <2>4, <2>5
<1>9. CASE /\ ~Limiter!Over(u) /\ ~Limiter!Full
           /\ Limiter!Pass(u, [entry EXCEPT !.count = @ + 1])
  <2>1. entry = [count |-> c, start |-> s] /\ c >= 1 /\ s <= now
    BY <1>2, <1>9 DEF Remembered, Limiter!Over
  <2>2. c < Rate /\ u < s + Window
    BY <2>1, <1>1, <1>4, <1>9 DEF Limiter!Over, Limiter!Full
  <2>3. d = b /\ entry' = [count |-> c + 1, start |-> s]
    BY <2>1, <1>3, <1>9 DEF Limiter!Pass
  <2>4. s <= u + Delay /\ c \in Nat
    BY <2>1, <1>1, <1>4
  <2>5. Counted(d, s, c + 1)
    BY <2>2, <2>3, <2>4, <1>2, <1>3, <1>6, <1>7, WindowCounts
  <2>6. Remembered(s, c + 1)'
    BY <2>1, <2>3, <1>1, <1>4 DEF Remembered
  <2>7. c + 1 \in 0..Rate
    BY <2>2, <2>4, <1>1
  <2> QED
    BY <2>5, <2>6, <2>7
<1>10. CASE UNCHANGED <<entry, admitted>>
  BY <1>10, <1>2, <1>4 DEF Remembered
<1> QED
  BY <1>3, <1>8, <1>9, <1>10 DEF Limiter!Allow

LEMMA LimiterNext ==
  ASSUME LimitsAssumed, LimiterInv, [Limiter!Next]_(Limiter!vars)
  PROVE  LimiterInv'
<1>1. /\ Rate \in Nat \ {0} /\ Window \in Nat \ {0} /\ MaxNow \in Nat /\ Delay \in Nat
      /\ now \in 0..MaxNow
  BY DEF LimitsAssumed, LimiterInv, LimiterTyped
<1>2. ASSUME UNCHANGED <<admitted, stamp, entry, now>>
      PROVE  LimiterInv'
  BY <1>2 DEF LimiterInv, LimiterTyped, Remembered
<1>3. PICK s \in Int, c \in 0..Rate : Counted(admitted, s, c) /\ Remembered(s, c)
  BY DEF LimiterInv
<1>4. ASSUME NEW h \in Handler, Limiter!ReadClock(h)
      PROVE  LimiterInv'
  <2>1. LimiterTyped'
    BY <1>1, <1>4 DEF LimiterInv, LimiterTyped, Limiter!ReadClock
  <2>2. Counted(admitted', s, c) /\ Remembered(s, c)'
    BY <1>3, <1>4 DEF Limiter!ReadClock, Remembered
  <2> QED
    BY <2>1, <2>2, <1>3 DEF LimiterInv
<1>5. CASE Limiter!Reset
  <2>1. LimiterTyped'
    BY <1>5 DEF LimiterInv, LimiterTyped, Limiter!Reset
  <2>2. entry.start = s /\ now >= s + 2 * Window
    BY <1>1, <1>3, <1>5 DEF Limiter!Reset, Remembered
  <2>3. Counted(admitted', s, c) /\ Remembered(s, c)'
    BY <2>2, <1>1, <1>3, <1>5 DEF Limiter!Reset, Remembered
  <2> QED
    BY <2>1, <2>3, <1>3 DEF LimiterInv
<1>6. CASE Limiter!Tick
  <2>1. LimiterTyped'
    <3>1. now' = now + 1 /\ now' \in 0..MaxNow /\ stamp' = stamp /\ admitted' = admitted
      BY <1>1, <1>6 DEF Limiter!Tick
    <3>2. ASSUME NEW h \in Handler, stamp[h] # -1
          PROVE  stamp[h] \in 0..now' /\ now' <= stamp[h] + Delay
      BY <3>1, <3>2, <1>1, <1>6 DEF LimiterInv, LimiterTyped, Limiter!Tick
    <3> QED
      BY <3>1, <3>2 DEF LimiterInv, LimiterTyped
  <2>2. Counted(admitted', s, c) /\ Remembered(s, c)'
    BY <1>1, <1>3, <1>6 DEF Limiter!Tick, Remembered
  <2> QED
    BY <2>1, <2>2, <1>3 DEF LimiterInv
<1> QED
  BY <1>2, <1>4, <1>5, <1>6, AllowKeeps DEF Limiter!Next, Limiter!vars

\* No span that is shorter than a window by as long as a request may wait for the
\* mutex sees more than twice the rate pass, for any number of handlers, any rate
\* and any window not shorter than a request waits (middleware.go 33-46, 59-67).
THEOREM RateHolds == ASSUME LimitsAssumed PROVE Limiter!Spec => []AtMostTwice
<1>1. LimiterInv => AtMostTwice
  <2> SUFFICES ASSUME LimiterInv, NEW t \in 0..MaxNow
               PROVE  InSpan(admitted, t) <= 2 * Rate
    BY SameSums DEF AtMostTwice, Limiter!AtMostTwice, Limiter!Passed, InSpan
  <2>1. t \in Int
    BY DEF LimitsAssumed
  <2> QED
    BY <2>1 DEF LimiterInv, Counted
<1>2. LimiterInv /\ [Limiter!Next]_(Limiter!vars) => LimiterInv'
  BY LimiterNext
<1>3. Limiter!Init => LimiterInv
  BY LimiterInit
<1> QED
  BY <1>1, <1>2, <1>3, PTL DEF Limiter!Spec

-----------------------------------------------------------------------------
(* The retention report.  All tags are read in one step if they fit on one   *)
(* page, so what was tagged all the time is known to be tagged.  With more    *)
(* pages a tag may move from one that is still to be read to one that was.    *)

TagsFit ==
  /\ IsFiniteSet(Tag) /\ Tag \subseteq Nat \ {0}
  /\ PageLimit \in Nat /\ Cardinality(Tag) <= PageLimit

Shaped(e) ==
  e = [pc |-> e.pc, listed |-> e.listed, last |-> e.last, tagged |-> e.tagged,
       index |-> e.index, kept |-> e.kept, unreferenced |-> e.unreferenced,
       always |-> e.always]

\* What an evaluation has found, when tagged are the digests that have a tag.
Found(e, tagged) ==
  /\ Shaped(e)
  /\ e.pc \in {"idle", "tags"} => e.unreferenced = {}
  /\ e.pc = "tags" => e.last = 0 /\ e.always \subseteq tagged
  /\ e.pc \in {"judge", "done"} => e.always \subseteq e.tagged
  /\ e.always \cap e.unreferenced = {}

RetentionInv == Found(evaluation, Retention!Named(tags))

LEMMA SameCardinality == \A S : Retention!Cardinality(S) = Cardinality(S)
BY DEF Retention!Cardinality, Cardinality

\* The tags that are left to read, if the first page begins before the first.
LEMMA OnePage ==
  ASSUME TagsFit, NEW after \in SUBSET Tag
  PROVE  {t \in after : Cardinality({u \in after : u < t}) < PageLimit} = after
<1> SUFFICES ASSUME NEW t \in after
             PROVE  Cardinality({u \in after : u < t}) < PageLimit
  OBVIOUS
<1> DEFINE before == {u \in after : u < t}
<1>1. IsFiniteSet(Tag) /\ t \in Tag /\ before \subseteq Tag \ {t}
  <2>1. t \in Nat /\ ~(t < t)
    BY DEF TagsFit
  <2> QED
    BY <2>1 DEF TagsFit
<1>2. /\ IsFiniteSet(Tag \ {t}) /\ Cardinality(Tag \ {t}) = Cardinality(Tag) - 1
  BY <1>1, FS_RemoveElement
<1>3. /\ IsFiniteSet(before) /\ Cardinality(before) <= Cardinality(Tag \ {t})
  BY <1>1, <1>2, FS_Subset
<1>4. Cardinality(before) \in Nat /\ Cardinality(Tag) \in Nat
  BY <1>1, <1>3, FS_CardinalityType
<1> QED
  BY <1>2, <1>3, <1>4 DEF TagsFit

LEMMA ListTagsFinds ==
  ASSUME TagsFit, RetentionInv, Retention!ListTags
  PROVE  RetentionInv'
<1>1. PICK e, names : e = evaluation /\ names = tags
  OBVIOUS
<1> DEFINE after == {t \in Tag : t > e.last /\ names[t] # 0}
           found == {names[t] : t \in after}
<1>2. /\ Shaped(e) /\ e.pc = "tags" /\ e.last = 0 /\ e.unreferenced = {}
      /\ e.always \subseteq Retention!Named(names)
  BY <1>1 DEF RetentionInv, Found, Retention!ListTags
<1>3. {t \in after : Cardinality({u \in after : u < t}) < PageLimit} = after
  <2>1. after \in SUBSET Tag
    OBVIOUS
  <2> HIDE DEF after
  <2> QED
    BY <2>1, OnePage
<1>4. /\ evaluation' = [e EXCEPT !.pc = "judge", !.tagged = e.tagged \union found]
      /\ tags' = names
  <2>1. {t \in after : Retention!Cardinality({u \in after : u < t}) < PageLimit} = after
    BY <1>3, SameCardinality
  <2>2. evaluation' = [[e EXCEPT !.tagged = @ \union found] EXCEPT !.pc = "judge"]
    BY <1>1, <2>1 DEF Retention!ListTags, Retention!Go
  <2>3. tags' = names
    BY <1>1 DEF Retention!ListTags, Retention!Go
  <2>4. [[e EXCEPT !.tagged = @ \union found] EXCEPT !.pc = "judge"]
          = [e EXCEPT !.pc = "judge", !.tagged = e.tagged \union found]
    BY <1>2 DEF Shaped
  <2> QED
    BY <2>2, <2>3, <2>4
<1>5. Retention!Named(names) \subseteq found
  BY <1>2 DEF Retention!Named, TagsFit
<1> HIDE DEF found
<1>6. Found(evaluation', Retention!Named(names))
  BY <1>2, <1>4, <1>5 DEF Found, Shaped
<1> QED
  BY <1>4, <1>6 DEF RetentionInv

LEMMA JudgeFinds ==
  ASSUME RetentionInv, Retention!Judge
  PROVE  RetentionInv'
<1>1. PICK e : e = evaluation
  OBVIOUS
<1>2. Shaped(e) /\ e.pc = "judge" /\ e.always \subseteq e.tagged /\ e.always \cap e.unreferenced = {}
  BY <1>1 DEF RetentionInv, Found, Retention!Judge
<1> DEFINE d == e.listed[e.index]
<1>3. PICK f : /\ f \in {e, [e EXCEPT !.kept = @ \union {d}]}
                        \union {[e EXCEPT !.unreferenced = @ \union {d}]}
               /\ evaluation' = [f EXCEPT !.index = @ + 1]
               /\ f.unreferenced # e.unreferenced => d \notin e.tagged
  <2> HIDE DEF d
  <2>1. CASE Retention!Contains(manifests, d) /\ ~Retention!Kept(e.index, d)
    BY <2>1, <1>1, <1>2 DEF Retention!Judge, Retention!Go, Retention!Kept, Shaped, d
  <2>2. CASE ~Retention!Contains(manifests, d)
    BY <2>2, <1>1 DEF Retention!Judge, Retention!Go, d
  <2>3. CASE Retention!Contains(manifests, d) /\ Retention!Kept(e.index, d)
    <3>1. PICK f : f = [e EXCEPT !.kept = @ \union {d}]
      OBVIOUS
    <3>2. f.unreferenced = e.unreferenced
      BY <3>1, <1>2 DEF Shaped
    <3>3. evaluation' = [f EXCEPT !.index = @ + 1]
      BY <2>3, <3>1, <1>1 DEF Retention!Judge, Retention!Go, d
    <3> QED
      BY <3>1, <3>2, <3>3
  <2> QED
    BY <2>1, <2>2, <2>3
<1>4. tags' = tags
  BY DEF Retention!Judge, Retention!Go
<1>5. Found(evaluation', Retention!Named(tags))
  BY <1>2, <1>3 DEF Found, Shaped
<1> QED
  BY <1>4, <1>5 DEF RetentionInv

LEMMA ChangeFinds ==
  ASSUME RetentionInv, NEW newManifests, NEW newTags, Retention!Change(newManifests, newTags)
  PROVE  RetentionInv'
<1>1. PICK e : e = evaluation
  OBVIOUS
<1>2. /\ evaluation' = [e EXCEPT !.always = @ \cap Retention!Named(newTags)]
      /\ tags' = newTags
  BY <1>1 DEF Retention!Change
<1>3. Found(e, Retention!Named(tags))
  BY <1>1 DEF RetentionInv
<1>4. Found(evaluation', Retention!Named(newTags))
  BY <1>2, <1>3 DEF Found, Shaped
<1> QED
  BY <1>2, <1>4 DEF RetentionInv

LEMMA RetentionNext ==
  ASSUME TagsFit, RetentionInv, [Retention!Next]_(Retention!vars)
  PROVE  RetentionInv'
<1>1. CASE UNCHANGED Retention!vars
  BY <1>1 DEF Retention!vars, RetentionInv, Found, Shaped, Retention!Named
<1>2. CASE \E d \in Digest : \/ Retention!Push(d) \/ Retention!Delete(d)
                             \/ \E t \in Tag : Retention!MoveTag(t, d)
  BY <1>2, ChangeFinds DEF Retention!Push, Retention!Delete, Retention!MoveTag
<1>3. CASE Retention!ListDigests
  <2>1. PICK e, names : e = evaluation' /\ names = Retention!Named(tags)
    OBVIOUS
  <2>2. /\ e = [Retention!Idle EXCEPT !.pc = "tags",
                  !.listed = Retention!SortSeq(manifests, <), !.always = names]
        /\ tags' = tags
    BY <1>3, <2>1 DEF Retention!ListDigests, Retention!Go
  <2>3. Found(e, names)
    BY <2>2 DEF Found, Shaped, Retention!Idle
  <2> QED
    BY <2>1, <2>2, <2>3 DEF RetentionInv
<1>4. CASE Retention!Report
  <2>1. PICK e : e = evaluation
    OBVIOUS
  <2>2. evaluation' = [e EXCEPT !.pc = "done"] /\ tags' = tags /\ e.pc = "judge"
    BY <1>4, <2>1 DEF Retention!Report, Retention!Go
  <2>3. Found(e, Retention!Named(tags))
    BY <2>1 DEF RetentionInv
  <2>4. Found(evaluation', Retention!Named(tags))
    BY <2>2, <2>3 DEF Found, Shaped
  <2> QED
    BY <2>2, <2>4 DEF RetentionInv
<1> QED
  BY <1>1, <1>2, <1>3, <1>4, ListTagsFinds, JudgeFinds DEF Retention!Next

\* A manifest that was tagged all the time is not reported as unreferenced, whatever
\* was pushed, moved and deleted meanwhile, for any repository whose tags fit on one
\* page (retention.go 38-57).
THEOREM TaggedKept == ASSUME TagsFit PROVE Retention!Spec => []TaggedReported
<1>1. Retention!Init => RetentionInv
  BY DEF Retention!Init, RetentionInv, Found, Shaped, Retention!Idle
<1>2. RetentionInv /\ [Retention!Next]_(Retention!vars) => RetentionInv'
  BY RetentionNext
<1>3. RetentionInv => TaggedReported
  BY DEF RetentionInv, Found, TaggedReported, Retention!TaggedReported
<1> QED
  BY <1>1, <1>2, <1>3, PTL DEF Retention!Spec

-----------------------------------------------------------------------------
(* The reference graph.  A manifest is only added while nobody searches, so   *)
(* what the search has seen or will see is closed under references.          *)

GraphAssumed ==
  /\ IsFiniteSet(Digest) /\ Contents \subseteq [Digest -> Seq(Digest)]
  /\ ~Concurrent

\* The search: what was seen leads only to what was seen or is queued, and all of it
\* is in every closed set that has the roots.
Searching ==
  /\ queue \in Seq(Digest)
  /\ roots \subseteq seen \union Graph!ToSet(queue)
  /\ \A x \in seen : Graph!ToSet(Graph!Children(x)) \subseteq seen \union Graph!ToSet(queue)
  /\ \A S \in SUBSET Digest :
       roots \subseteq S /\ Graph!Closed(S) => seen \union Graph!ToSet(queue) \subseteq S

GraphTyped ==
  /\ refs \in [Digest -> Seq(Digest)]
  /\ DOMAIN edges \subseteq Digest
  /\ \A d \in DOMAIN edges : edges[d] = refs[d]
  /\ seen \subseteq Digest

DependentsInv ==
  /\ reverse \in [Digest -> [Digest -> Nat]]
  /\ \A d, e \in Digest :
       reverse[e][d] > 0 <=> d \in DOMAIN edges /\ Graph!Contains(edges[d], e)

SearchInv ==
  /\ phase = "mark" => Searching
  /\ phase \in {"marked", "listed"} => roots \subseteq seen /\ Graph!Closed(seen)

GraphInv == GraphTyped /\ DependentsInv /\ SearchInv

\* A sequence that lists a finite set.
LEMMA ListsAll ==
  ASSUME NEW R, IsFiniteSet(R)
  PROVE  Graph!SetToSeq(R) \in Seq(R) /\ Graph!ToSet(Graph!SetToSeq(R)) = R
<1> DEFINE n == Cardinality(R)
           Lists(f) == f \in [1..n -> R] /\ Graph!IsInjective(f)
<1>1. n \in Nat /\ \E f : f \in Bijection(1..n, R)
  BY FS_CardinalityType DEF ExistsBijection
<1>2. \E f : Lists(f)
  BY <1>1 DEF Bijection, Injection, IsInjective, Graph!IsInjective
<1>3. PICK g : g = Graph!SetToSeq(R)
  OBVIOUS
<1>4. Lists(g)
  <2>1. Graph!Cardinality(R) = Cardinality(R)
    BY DEF Graph!Cardinality, Cardinality
  <2>2. g = CHOOSE f \in [1..n -> R] : Graph!IsInjective(f)
    BY <1>3, <2>1 DEF Graph!SetToSeq
  <2> QED
    BY <1>2, <2>2
<1>5. g \in Injection(1..n, R)
  BY <1>4 DEF Injection, IsInjective, Graph!IsInjective
<1>6. Cardinality(1..n) = Cardinality(R)
  BY <1>1, FS_Interval
<1>7. g \in Surjection(1..n, R)
  BY <1>5, <1>6, FS_Injection
<1>8. g \in Seq(R) /\ DOMAIN g = 1..n
  BY <1>1, <1>4 DEF Graph!IsInjective
<1>9. Graph!ToSet(g) = R
  BY <1>4, <1>7, <1>8 DEF Graph!ToSet, Surjection
<1> QED
  BY <1>3, <1>8, <1>9

\* What sequences list that are cut or joined.
LEMMA TailLists ==
  ASSUME NEW s \in Seq(Digest), s # <<>>
  PROVE  /\ Head(s) \in Digest /\ Tail(s) \in Seq(Digest)
         /\ Graph!ToSet(s) = {Head(s)} \union Graph!ToSet(Tail(s))
<1>1. /\ Head(s) \in Digest /\ Tail(s) \in Seq(Digest) /\ Len(Tail(s)) = Len(s) - 1
      /\ \A i \in 1..Len(Tail(s)) : Tail(s)[i] = s[i + 1]
      /\ Len(s) \in Nat \ {0} /\ DOMAIN s = 1..Len(s) /\ DOMAIN Tail(s) = 1..Len(Tail(s))
      /\ Head(s) = s[1]
  BY HeadTailProperties, LenProperties, EmptySeq
<1>2. ASSUME NEW x \in Graph!ToSet(s), x # Head(s)
      PROVE  x \in Graph!ToSet(Tail(s))
  <2>1. PICK i \in 1..Len(s) : s[i] = x
    BY <1>1, <1>2 DEF Graph!ToSet
  <2>2. i - 1 \in 1..Len(Tail(s)) /\ Tail(s)[i - 1] = x
    BY <1>1, <1>2, <2>1
  <2> QED
    BY <2>2, <1>1 DEF Graph!ToSet
<1>3. ASSUME NEW x \in Graph!ToSet(Tail(s))
      PROVE  x \in Graph!ToSet(s)
  <2>1. PICK i \in 1..Len(Tail(s)) : Tail(s)[i] = x
    BY <1>1, <1>3 DEF Graph!ToSet
  <2>2. i + 1 \in 1..Len(s) /\ s[i + 1] = x
    BY <1>1, <2>1
  <2> QED
    BY <2>2, <1>1 DEF Graph!ToSet
<1>4. Head(s) \in Graph!ToSet(s)
  BY <1>1 DEF Graph!ToSet
<1> QED
  BY <1>1, <1>2, <1>3, <1>4

LEMMA JoinLists ==
  ASSUME NEW s \in Seq(Digest), NEW t \in Seq(Digest)
  PROVE  s \o t \in Seq(Digest) /\ Graph!ToSet(s \o t) = Graph!ToSet(s) \union Graph!ToSet(t)
<1>1. /\ s \o t \in Seq(Digest) /\ Len(s \o t) = Len(s) + Len(t)
      /\ \A i \in 1..Len(s) + Len(t) :
           (s \o t)[i] = IF i <= Len(s) THEN s[i] ELSE t[i - Len(s)]
      /\ Len(s) \in Nat /\ Len(t) \in Nat /\ DOMAIN s = 1..Len(s) /\ DOMAIN t = 1..Len(t)
      /\ DOMAIN (s \o t) = 1..Len(s \o t)
  BY ConcatProperties, LenProperties
<1>2. PICK u : u = s \o t
  OBVIOUS
<1>3. ASSUME NEW x \in Graph!ToSet(u)
      PROVE  x \in Graph!ToSet(s) \union Graph!ToSet(t)
  <2>1. PICK i \in 1..Len(s) + Len(t) : u[i] = x
    BY <1>1, <1>2, <1>3 DEF Graph!ToSet
  <2>2. CASE i <= Len(s)
    <3>1. i \in DOMAIN s /\ s[i] = x
      BY <1>1, <1>2, <2>1, <2>2
    <3> QED
      BY <3>1 DEF Graph!ToSet
  <2>3. CASE ~(i <= Len(s))
    <3>1. i - Len(s) \in DOMAIN t /\ t[i - Len(s)] = x
      BY <1>1, <1>2, <2>1, <2>3
    <3> QED
      BY <3>1 DEF Graph!ToSet
  <2> QED
    BY <2>2, <2>3
<1>4. ASSUME NEW x \in Graph!ToSet(s)
      PROVE  x \in Graph!ToSet(u)
  <2>1. PICK i \in 1..Len(s) : s[i] = x
    BY <1>1, <1>4 DEF Graph!ToSet
  <2>2. i \in DOMAIN u /\ u[i] = x
    BY <1>1, <1>2, <2>1
  <2> QED
    BY <2>2 DEF Graph!ToSet
<1>5. ASSUME NEW x \in Graph!ToSet(t)
      PROVE  x \in Graph!ToSet(u)
  <2>1. PICK i \in 1..Len(t) : t[i] = x
    BY <1>1, <1>5 DEF Graph!ToSet
  <2>2. Len(s) + i \in DOMAIN u /\ u[Len(s) + i] = x
    BY <1>1, <1>2, <2>1
  <2> QED
    BY <2>2 DEF Graph!ToSet
<1> QED
  BY <1>1, <1>2, <1>3, <1>4, <1>5

LEMMA EmptyLists == Graph!ToSet(<<>>) = {}
BY DEF Graph!ToSet

\* A manifest is recorded with a digest as often as it refers to it.
LEMMA TimesCount ==
  ASSUME NEW d \in Digest, NEW e, refs \in [Digest -> Seq(Digest)]
  PROVE  Graph!Times(d, e) \in Nat /\ (Graph!Times(d, e) > 0 <=> Graph!Contains(refs[d], e))
<1>1. PICK s \in Seq(Digest) : s = refs[d]
  OBVIOUS
<1> DEFINE places == {k \in DOMAIN s : s[k] = e}
<1>2. DOMAIN s = 1..Len(s) /\ Len(s) \in Nat
  BY LenProperties
<1>3. IsFiniteSet(places)
  <2>1. IsFiniteSet(1..Len(s)) /\ places \subseteq 1..Len(s)
    BY <1>2, FS_Interval
  <2> QED
    BY <2>1, FS_Subset
<1>4. Graph!Times(d, e) = Cardinality(places)
  <2>1. Graph!Cardinality(places) = Cardinality(places)
    BY DEF Graph!Cardinality, Cardinality
  <2> QED
    BY <1>1, <2>1 DEF Graph!Times
<1>5. Cardinality(places) \in Nat /\ (Cardinality(places) = 0 <=> places = {})
  BY <1>3, FS_CardinalityType, FS_EmptySet
<1>6. places # {} <=> Graph!Contains(s, e)
  BY <1>2 DEF Graph!Contains
<1> HIDE DEF places
<1> QED
  BY <1>1, <1>4, <1>5, <1>6

LEMMA GraphInit == ASSUME GraphAssumed, Graph!Init PROVE GraphInv
<1>1. DOMAIN <<>> = {}
  OBVIOUS
<1>2. GraphTyped
  BY <1>1 DEF GraphAssumed, Graph!Init, GraphTyped
<1>3. DependentsInv
  BY <1>1 DEF Graph!Init, DependentsInv
<1>4. SearchInv
  BY DEF Graph!Init, SearchInv
<1> QED
  BY <1>2, <1>3, <1>4 DEF GraphInv

LEMMA AddKeeps ==
  ASSUME GraphAssumed, GraphInv, NEW d \in Digest, Graph!AddManifest(d)
  PROVE  GraphInv'
<1>1. PICK list : list = edges'
  OBVIOUS
<1>2. /\ DOMAIN list = DOMAIN edges \union {d} /\ list[d] = refs[d]
      /\ \A x \in DOMAIN edges : x # d => list[x] = edges[x]
      /\ refs' = refs /\ seen' = seen
      /\ phase = "idle" /\ phase' = phase
  BY <1>1 DEF Graph!AddManifest, GraphAssumed
<1>3. PICK after : after = reverse'
  OBVIOUS
<1>4. after = [e \in Digest |-> [reverse[e] EXCEPT ![d] = reverse[e][d] + Graph!Times(d, e)]]
  BY <1>3 DEF Graph!AddManifest
<1>5. refs \in [Digest -> Seq(Digest)] /\ reverse \in [Digest -> [Digest -> Nat]]
  BY DEF GraphInv, GraphTyped, DependentsInv
<1>6. \A e \in Digest : /\ Graph!Times(d, e) \in Nat
                        /\ Graph!Times(d, e) > 0 <=> Graph!Contains(refs[d], e)
  BY <1>5, TimesCount
<1>7. GraphTyped'
  BY <1>1, <1>2 DEF GraphInv, GraphTyped
<1>8. after \in [Digest -> [Digest -> Nat]]
  <2>1. \A e \in Digest : reverse[e][d] + Graph!Times(d, e) \in Nat
    BY <1>5, <1>6
  <2> QED
    BY <2>1, <1>4, <1>5
<1>9. ASSUME NEW x \in Digest, NEW e \in Digest
      PROVE  after[e][x] > 0 <=> x \in DOMAIN list /\ Graph!Contains(list[x], e)
  <2>1. reverse[e][x] > 0 <=> x \in DOMAIN edges /\ Graph!Contains(edges[x], e)
    BY DEF GraphInv, DependentsInv
  <2>2. CASE x # d
    BY <2>1, <2>2, <1>2, <1>4, <1>5
  <2>3. CASE x = d
    <3>1. after[e][d] = reverse[e][d] + Graph!Times(d, e)
      BY <1>4, <1>5
    <3>2. d \in DOMAIN edges => edges[d] = refs[d]
      BY DEF GraphInv, GraphTyped
    <3>3. reverse[e][d] \in Nat
      BY <1>5
    <3> QED
      BY <2>1, <2>3, <3>1, <3>2, <3>3, <1>2, <1>6
  <2> QED
    BY <2>2, <2>3
<1>10. DependentsInv'
  BY <1>1, <1>3, <1>8, <1>9 DEF DependentsInv
<1>11. SearchInv'
  BY <1>2 DEF SearchInv
<1> QED
  BY <1>7, <1>10, <1>11 DEF GraphInv

\* Fewer edges lead to nothing new, so what was closed stays so.
LEMMA FewerEdges ==
  ASSUME GraphInv, phase # "mark", phase' = phase, refs' = refs, seen' = seen, roots' = roots,
         DOMAIN edges' \subseteq DOMAIN edges, \A x \in DOMAIN edges' : edges'[x] = edges[x]
  PROVE  GraphTyped' /\ SearchInv'
<1>1. GraphTyped'
  BY DEF GraphInv, GraphTyped
<1>2. ASSUME NEW x
      PROVE  Graph!ToSet(Graph!Children(x)') \subseteq Graph!ToSet(Graph!Children(x))
  BY EmptyLists DEF Graph!Children
<1>3. ASSUME Graph!Closed(seen)
      PROVE  Graph!Closed(seen)'
  BY <1>2, <1>3 DEF Graph!Closed, Graph!ToSet
<1>4. SearchInv'
  BY <1>3 DEF GraphInv, SearchInv
<1> QED
  BY <1>1, <1>4

LEMMA RemoveKeeps ==
  ASSUME GraphInv, NEW d \in Digest, Graph!RemoveManifest(d)
  PROVE  GraphInv'
<1>1. PICK list, after : list = edges' /\ after = reverse'
  OBVIOUS
<1>2. /\ DOMAIN list = DOMAIN edges \ {d} /\ d \in DOMAIN edges
      /\ \A x \in DOMAIN list : list[x] = edges[x]
      /\ after = [e \in Digest |-> IF Graph!Contains(edges[d], e)
                                   THEN [reverse[e] EXCEPT ![d] = 0] ELSE reverse[e]]
  BY <1>1 DEF Graph!RemoveManifest, Graph!Without
<1>3. GraphTyped' /\ SearchInv'
  BY <1>1, <1>2, FewerEdges DEF Graph!RemoveManifest
<1>4. reverse \in [Digest -> [Digest -> Nat]]
  BY DEF GraphInv, DependentsInv
<1>5. after \in [Digest -> [Digest -> Nat]]
  BY <1>2, <1>4
<1>6. ASSUME NEW x \in Digest, NEW e \in Digest
      PROVE  after[e][x] > 0 <=> x \in DOMAIN list /\ Graph!Contains(list[x], e)
  <2>1. reverse[e][x] > 0 <=> x \in DOMAIN edges /\ Graph!Contains(edges[x], e)
    BY DEF GraphInv, DependentsInv
  <2>2. CASE x # d
    BY <2>1, <2>2, <1>2, <1>4
  <2>3. CASE x = d
    BY <2>1, <2>3, <1>2, <1>4
  <2> QED
    BY <2>2, <2>3
<1>7. DependentsInv'
  BY <1>1, <1>5, <1>6 DEF DependentsInv
<1> QED
  BY <1>3, <1>7 DEF GraphInv

LEMMA SweepEnds == ASSUME GraphInv, Graph!EndSweep PROVE GraphInv'
<1>1. PICK list, after, gone : /\ list = edges' /\ after = reverse' /\ gone = Graph!Unmarked
  OBVIOUS
<1>2. /\ DOMAIN list = DOMAIN edges \ gone
      /\ \A x \in DOMAIN list : list[x] = edges[x]
      /\ after = [e \in Digest |-> [x \in Digest |-> IF x \in gone THEN 0 ELSE reverse[e][x]]]
      /\ refs' = refs /\ seen' = {} /\ phase' = "idle"
  BY <1>1 DEF Graph!EndSweep
<1>3. GraphTyped'
  BY <1>1, <1>2 DEF GraphInv, GraphTyped
<1>4. reverse \in [Digest -> [Digest -> Nat]]
  BY DEF GraphInv, DependentsInv
<1>5. after \in [Digest -> [Digest -> Nat]]
  BY <1>2, <1>4
<1>6. ASSUME NEW x \in Digest, NEW e \in Digest
      PROVE  after[e][x] > 0 <=> x \in DOMAIN list /\ Graph!Contains(list[x], e)
  <2>1. reverse[e][x] > 0 <=> x \in DOMAIN edges /\ Graph!Contains(edges[x], e)
    BY DEF GraphInv, DependentsInv
  <2>2. after[e][x] = IF x \in gone THEN 0 ELSE reverse[e][x]
    BY <1>2
  <2> QED
    BY <2>1, <2>2, <1>2
<1>7. DependentsInv'
  BY <1>1, <1>5, <1>6 DEF DependentsInv
<1>8. SearchInv'
  BY <1>2 DEF SearchInv
<1> QED
  BY <1>3, <1>7, <1>8 DEF GraphInv

\* The steps of the search leave the graph alone.
SameGraph == UNCHANGED <<refs, edges, reverse>>

LEMMA SameGraphTyped ==
  ASSUME GraphInv, SameGraph, seen' \subseteq Digest
  PROVE  /\ GraphTyped' /\ DependentsInv'
         /\ \A x : Graph!Children(x)' = Graph!Children(x)
         /\ \A S : Graph!Closed(S)' <=> Graph!Closed(S)
<1>1. GraphTyped' /\ DependentsInv'
  BY DEF SameGraph, GraphInv, GraphTyped, DependentsInv
<1>2. \A x : Graph!Children(x)' = Graph!Children(x)
  BY DEF SameGraph, Graph!Children
<1>3. \A S : Graph!Closed(S)' <=> Graph!Closed(S)
  BY <1>2 DEF Graph!Closed
<1> QED
  BY <1>1, <1>2, <1>3

LEMMA StartKeeps ==
  ASSUME GraphAssumed, GraphInv, NEW R \in SUBSET (DOMAIN edges), Graph!StartMark(R)
  PROVE  GraphInv'
<1>1. R \subseteq Digest /\ IsFiniteSet(R)
  BY FS_Subset DEF GraphAssumed, GraphInv, GraphTyped
<1>2. /\ roots' = R /\ queue' = Graph!SetToSeq(R) /\ seen' = {} /\ phase' = "mark" /\ SameGraph
  BY DEF Graph!StartMark, Graph!graph, SameGraph
<1>3. queue' \in Seq(Digest) /\ Graph!ToSet(queue') = R
  BY <1>1, <1>2, ListsAll, SeqMonotonic
<1>4. GraphTyped' /\ DependentsInv'
  BY <1>2, SameGraphTyped
<1>5. Searching'
  BY <1>2, <1>3 DEF Searching
<1>6. SearchInv'
  BY <1>2, <1>5 DEF SearchInv
<1> QED
  BY <1>4, <1>6 DEF GraphInv

LEMMA MarkKeeps ==
  ASSUME GraphInv, Graph!MarkStep
  PROVE  GraphInv'
<1>1. /\ phase = "mark" /\ phase' = "mark" /\ roots' = roots /\ SameGraph
      /\ queue # <<>> /\ Searching /\ seen \subseteq Digest
  BY DEF Graph!MarkStep, Graph!graph, SameGraph, GraphInv, GraphTyped, SearchInv
<1>2. PICK q, d : q = Graph!ToSet(Tail(queue)) /\ d = Head(queue)
  OBVIOUS
<1>3. d \in Digest /\ Tail(queue) \in Seq(Digest) /\ Graph!ToSet(queue) = {d} \union q
  BY <1>1, <1>2, TailLists DEF Searching
<1>4. PICK children : children = Graph!Children(d)
  OBVIOUS
<1>5. children \in Seq(Digest)
  BY <1>3, <1>4 DEF Graph!Children, GraphInv, GraphTyped
<1>6. \/ d \in seen /\ seen' = seen /\ queue' = Tail(queue)
      \/ d \notin seen /\ seen' = seen \union {d} /\ queue' = Tail(queue) \o children
  BY <1>2, <1>4 DEF Graph!MarkStep, Graph!QueueAfter
<1>7. \/ d \in seen /\ seen' = seen /\ Graph!ToSet(queue') = q
      \/ /\ d \notin seen /\ seen' = seen \union {d}
         /\ Graph!ToSet(queue') = q \union Graph!ToSet(children)
  BY <1>2, <1>3, <1>5, <1>6, JoinLists
<1>8. queue' \in Seq(Digest) /\ seen' \subseteq Digest
  BY <1>1, <1>3, <1>5, <1>6, JoinLists
<1>9. /\ GraphTyped' /\ DependentsInv'
      /\ \A x : Graph!Children(x)' = Graph!Children(x)
      /\ \A S : Graph!Closed(S)' <=> Graph!Closed(S)
  BY <1>1, <1>8, SameGraphTyped
<1>10. roots' \subseteq seen' \union Graph!ToSet(queue')
  BY <1>1, <1>3, <1>7 DEF Searching
<1>11. ASSUME NEW x \in seen'
       PROVE  Graph!ToSet(Graph!Children(x)) \subseteq seen' \union Graph!ToSet(queue')
  <2>1. CASE x \in seen
    BY <2>1, <1>1, <1>3, <1>7 DEF Searching
  <2>2. CASE x \notin seen
    BY <2>2, <1>4, <1>7, <1>11
  <2> QED
    BY <2>1, <2>2
<1>12. ASSUME NEW S \in SUBSET Digest, roots \subseteq S, Graph!Closed(S)
       PROVE  seen' \union Graph!ToSet(queue') \subseteq S
  <2>1. seen \union {d} \union q \subseteq S
    BY <1>1, <1>3, <1>12 DEF Searching
  <2>2. Graph!ToSet(children) \subseteq S
    BY <2>1, <1>4, <1>12 DEF Graph!Closed
  <2> QED
    BY <2>1, <2>2, <1>7
<1>13. Searching'
  BY <1>1, <1>8, <1>9, <1>10, <1>11, <1>12 DEF Searching
<1> QED
  BY <1>1, <1>9, <1>13 DEF GraphInv, SearchInv

LEMMA EndMarkKeeps == ASSUME GraphInv, Graph!EndMark \/ Graph!ListKeys PROVE GraphInv'
<1>1. UNCHANGED <<seen, roots>> /\ SameGraph /\ phase' \in {"marked", "listed"}
  BY DEF Graph!EndMark, Graph!ListKeys, Graph!graph, SameGraph
<1>2. roots \subseteq seen /\ Graph!Closed(seen)
  <2>1. CASE Graph!EndMark
    <3>1. Searching /\ Graph!ToSet(queue) = {}
      BY <2>1, EmptyLists DEF Graph!EndMark, GraphInv, SearchInv
    <3> QED
      BY <3>1 DEF Searching, Graph!Closed
  <2>2. CASE Graph!ListKeys
    BY <2>2 DEF Graph!ListKeys, GraphInv, SearchInv
  <2> QED
    BY <2>1, <2>2
<1>3. /\ GraphTyped' /\ DependentsInv' /\ \A S : Graph!Closed(S)' <=> Graph!Closed(S)
  BY <1>1, SameGraphTyped DEF GraphInv, GraphTyped
<1>4. roots' \subseteq seen' /\ Graph!Closed(seen)'
  BY <1>1, <1>2, <1>3
<1> QED
  BY <1>1, <1>3, <1>4 DEF GraphInv, SearchInv

LEMMA GraphNext ==
  ASSUME GraphAssumed, GraphInv, [Graph!Next]_(Graph!vars)
  PROVE  GraphInv'
<1>1. CASE UNCHANGED Graph!vars
  BY <1>1 DEF Graph!vars, Graph!graph, GraphInv, GraphTyped, DependentsInv, SearchInv, Searching,
              Graph!Closed, Graph!Children
<1> QED
  BY <1>1, AddKeeps, RemoveKeeps, StartKeeps, MarkKeeps, EndMarkKeeps, SweepEnds DEF Graph!Next

\* The dependents of a digest are the manifests in the graph that refer to it, however
\* often they were added and removed, for any manifests (validation.go 132-134,
\* 162-171).
THEOREM DependentsHold == ASSUME GraphAssumed PROVE Graph!Spec => []DependentsExact
<1>1. GraphInv => DependentsExact
  BY DEF GraphInv, GraphTyped, DependentsInv, DependentsExact, Graph!DependentsExact
<1>2. GraphInv /\ [Graph!Next]_(Graph!vars) => GraphInv'
  BY GraphNext
<1>3. Graph!Init => GraphInv
  BY GraphInit
<1> QED
  BY <1>1, <1>2, <1>3, PTL DEF Graph!Spec

\* The search finds what the tagged manifests lead to over any number of references,
\* cycles included, and nothing else, and a sweep takes nothing they still lead to,
\* for any manifests (validation.go 143-151, sweep.go:27).
THEOREM SweepSpares == ASSUME GraphAssumed PROVE Graph!Spec => []SweepKeeps
<1>1. GraphInv => SweepKeeps
  <2> SUFFICES ASSUME GraphInv
               PROVE  SweepKeeps
    OBVIOUS
  <2>1. seen \in SUBSET Digest
    BY DEF GraphInv, GraphTyped
  <2>2. ASSUME roots \subseteq seen, Graph!Closed(seen)
        PROVE  Graph!Reach(roots) \subseteq seen
    BY <2>1, <2>2 DEF Graph!Reach
  <2>3. ASSUME phase = "mark", queue = <<>>
        PROVE  seen = Graph!Reach(roots)
    <3>1. Searching /\ Graph!ToSet(queue) = {}
      BY <2>3, EmptyLists DEF GraphInv, SearchInv
    <3>2. roots \subseteq seen /\ Graph!Closed(seen)
      BY <3>1 DEF Searching, Graph!Closed
    <3>3. seen \subseteq Graph!Reach(roots)
      BY <2>1, <3>1 DEF Searching, Graph!Reach
    <3> QED
      BY <2>2, <3>2, <3>3
  <2>4. ASSUME phase = "listed"
        PROVE  Graph!Unmarked \cap Graph!Reach(roots) = {}
    <3>1. Graph!Reach(roots) \subseteq seen
      BY <2>2, <2>4 DEF GraphInv, SearchInv
    <3> QED
      BY <3>1 DEF Graph!Unmarked
  <2> QED
    BY <2>3, <2>4 DEF SweepKeeps, Graph!SweepKeeps
<1>2. GraphInv /\ [Graph!Next]_(Graph!vars) => GraphInv'
  BY GraphNext
<1>3. Graph!Init => GraphInv
  BY GraphInit
<1> QED
  BY <1>1, <1>2, <1>3, PTL DEF Graph!Spec

-----------------------------------------------------------------------------
(* The lease manager.  While an owner has been told an end that has not come   *)
(* the lease is open and its own, so neither another owner nor a sweep can     *)
(* take it with a time that was read before.                                   *)

LeaseSet ==
  [owner : Owner \union {None}, state : {"none", "open", "released", "expired"}, until : Int]

CallSet ==
  [op : {"none", "acquire", "renew", "release", "sweep"}, id : Id \union {None},
   ttl : Nat, now : Nat]

LeasesTyped ==
  /\ clock \in Nat
  /\ leases \in [Id -> LeaseSet]
  /\ told \in [Owner -> [Id -> Int]]
  /\ call \in [Caller -> CallSet]
  /\ \A g \in Caller : /\ call[g].now <= clock
                       /\ call[g].op # "none" => call[g].id \in Id

\* An owner that has been granted a lease and not given it up does not find it released.
NotReleased ==
  \A o \in Owner, i \in Id :
    told[o][i] >= 0 /\ leases[i].owner = o => leases[i].state # "released"

\* A call to renew is made by an owner that still holds the lease.
RenewsHeld == \A g \in Caller : call[g].op = "renew" => Leases!Holds(g, call[g].id)

LeaseInv == LeasesTyped /\ Leases!PromiseKept /\ NotReleased /\ RenewsHeld

\* A name is used by one goroutine.
LeasesAssumed ==
  /\ OwnerOf \in [Caller -> Owner] /\ Ttl \subseteq Nat
  /\ \A g, h \in Caller : OwnerOf[g] = OwnerOf[h] => g = h

-----------------------------------------------------------------------------

LEMMA LeaseInit == Leases!Init => LeaseInv
<1> SUFFICES ASSUME Leases!Init PROVE LeaseInv
  OBVIOUS
<1>1. Leases!NoLease \in LeaseSet /\ Leases!NoCall \in CallSet
  BY DEF Leases!NoLease, LeaseSet, Leases!NoCall, CallSet
<1>2. LeasesTyped
  BY <1>1 DEF Leases!Init, LeasesTyped, Leases!NoCall
<1>3. Leases!PromiseKept /\ NotReleased
  BY DEF Leases!Init, Leases!PromiseKept, NotReleased, Leases!NoLease
<1>4. RenewsHeld
  BY DEF Leases!Init, RenewsHeld, Leases!NoCall
<1> QED
  BY <1>2, <1>3, <1>4 DEF LeaseInv

\* What every action of a caller but ReadClock and Sweep does.
CallAnswers(g, lease, end) ==
  /\ leases' = [leases EXCEPT ![call[g].id] = lease]
  /\ told' = [told EXCEPT ![OwnerOf[g]][call[g].id] = end]
  /\ Leases!Done(g)
  /\ UNCHANGED clock

\* The answer gives the lease to its owner, or the owner gives it up and it is no
\* other's.
Sound(o, i, lease, end) ==
  /\ lease \in LeaseSet /\ end \in Int
  /\ end >= 0 => lease.state = "open" /\ lease.owner = o /\ lease.until = end
  /\ lease = leases[i] \/ (\A p \in Owner \ {o} : told[p][i] < clock /\ lease.owner # p)

LEMMA DoneTyped ==
  ASSUME LeasesTyped, NEW g \in Caller, Leases!Done(g)
  PROVE  /\ call' \in [Caller -> CallSet]
         /\ call'[g] = Leases!NoCall
         /\ \A h \in Caller : h # g => call'[h] = call[h]
<1>1. Leases!NoCall \in CallSet
  BY DEF Leases!NoCall, CallSet
<1> QED
  BY <1>1 DEF LeasesTyped, Leases!Done

LEMMA AnswerInv ==
  ASSUME LeaseInv, LeasesAssumed, NEW g \in Caller, call[g].op # "none", NEW lease, NEW end,
         CallAnswers(g, lease, end), Sound(OwnerOf[g], call[g].id, lease, end)
  PROVE  LeaseInv'
<1> DEFINE i == call[g].id
           o == OwnerOf[g]
<1>1. i \in Id /\ o \in Owner
  BY DEF LeasesAssumed, LeaseInv, LeasesTyped
<1>2. /\ leases' = [leases EXCEPT ![i] = lease] /\ clock' = clock
      /\ told' = [told EXCEPT ![o] = [told[o] EXCEPT ![i] = end]]
  BY DEF CallAnswers
<1>3. /\ call' \in [Caller -> CallSet] /\ call'[g] = Leases!NoCall
      /\ \A h \in Caller : h # g => call'[h] = call[h]
  BY DoneTyped DEF LeaseInv, CallAnswers
<1>4. lease \in LeaseSet /\ end \in Int
  BY DEF Sound
<1> HIDE DEF i, o
<1>5. LeasesTyped'
  <2>1. leases' \in [Id -> LeaseSet] /\ told' \in [Owner -> [Id -> Int]]
    BY <1>1, <1>2, <1>4 DEF LeaseInv, LeasesTyped
  <2>2. \A h \in Caller : /\ call'[h].now <= clock'
                          /\ call'[h].op # "none" => call'[h].id \in Id
    BY <1>2, <1>3 DEF LeaseInv, LeasesTyped, Leases!NoCall
  <2> QED
    BY <2>1, <2>2, <1>2, <1>3 DEF LeaseInv, LeasesTyped
<1>6. ASSUME NEW p \in Owner, NEW j \in Id, p # o \/ j # i
      PROVE  told'[p][j] = told[p][j]
  BY <1>1, <1>2, <1>6 DEF LeaseInv, LeasesTyped
<1>7. told'[o][i] = end /\ leases'[i] = lease
  BY <1>1, <1>2 DEF LeaseInv, LeasesTyped
<1>8. \A j \in Id : j # i => leases'[j] = leases[j]
  BY <1>1, <1>2 DEF LeaseInv, LeasesTyped
<1>9. /\ end >= 0 => lease.state = "open" /\ lease.owner = o /\ lease.until = end
      /\ lease = leases[i] \/ (\A p \in Owner \ {o} : told[p][i] < clock /\ lease.owner # p)
  BY DEF Sound, i, o
<1>10. Leases!PromiseKept'
  <2> SUFFICES ASSUME NEW p \in Owner, NEW j \in Id, told'[p][j] >= clock'
               PROVE  /\ leases'[j].state = "open" /\ leases'[j].owner = p
                      /\ leases'[j].until = told'[p][j]
    BY DEF Leases!PromiseKept
  <2>1. CASE j # i
    BY <2>1, <1>2, <1>6, <1>8 DEF LeaseInv, Leases!PromiseKept
  <2>2. CASE j = i /\ p = o
    BY <2>2, <1>2, <1>4, <1>7, <1>9 DEF LeaseInv, LeasesTyped
  <2>3. CASE j = i /\ p # o
    <3>1. told'[p][i] = told[p][i] /\ told[p][i] >= clock /\ told[p][i] \in Int
      BY <2>3, <1>1, <1>2, <1>6 DEF LeaseInv, LeasesTyped
    <3>2. lease = leases[i]
      BY <2>3, <3>1, <1>9 DEF LeaseInv, LeasesTyped
    <3> QED
      BY <2>3, <3>1, <3>2, <1>7 DEF LeaseInv, Leases!PromiseKept
  <2> QED
    BY <2>1, <2>2, <2>3
<1>11. NotReleased'
  <2> SUFFICES ASSUME NEW p \in Owner, NEW j \in Id, told'[p][j] >= 0, leases'[j].owner = p
               PROVE  leases'[j].state # "released"
    BY DEF NotReleased
  <2>1. CASE j # i
    BY <2>1, <1>6, <1>8 DEF LeaseInv, NotReleased
  <2>2. CASE j = i /\ p = o
    BY <2>2, <1>7, <1>9
  <2>3. CASE j = i /\ p # o
    BY <2>3, <1>6, <1>7, <1>9 DEF LeaseInv, NotReleased
  <2> QED
    BY <2>1, <2>2, <2>3
<1>12. RenewsHeld'
  <2> SUFFICES ASSUME NEW h \in Caller, call'[h].op = "renew"
               PROVE  told'[OwnerOf[h]][call'[h].id] >= 0
    BY DEF RenewsHeld, Leases!Holds
  <2>1. h # g /\ call'[h] = call[h]
    BY <1>3 DEF Leases!NoCall
  <2>2. OwnerOf[h] # o /\ OwnerOf[h] \in Owner /\ call[h].id \in Id
    BY <2>1 DEF LeasesAssumed, o, LeaseInv, LeasesTyped
  <2> QED
    BY <2>1, <2>2, <1>6 DEF LeaseInv, RenewsHeld, Leases!Holds
<1> QED
  BY <1>5, <1>10, <1>11, <1>12 DEF LeaseInv

\* The same for a call that changes nothing.
LEMMA RefusedInv ==
  ASSUME LeaseInv, NEW g \in Caller, Leases!Done(g), UNCHANGED <<leases, told, clock>>
  PROVE  LeaseInv'
<1>1. /\ call' \in [Caller -> CallSet] /\ call'[g] = Leases!NoCall
      /\ \A h \in Caller : h # g => call'[h] = call[h]
  BY DoneTyped DEF LeaseInv
<1>2. LeasesTyped'
  <2>1. \A h \in Caller : /\ call'[h].now <= clock'
                          /\ call'[h].op # "none" => call'[h].id \in Id
    BY <1>1 DEF LeaseInv, LeasesTyped, Leases!NoCall
  <2> QED
    BY <2>1, <1>1 DEF LeaseInv, LeasesTyped
<1>3. Leases!PromiseKept' /\ NotReleased'
  BY DEF LeaseInv, Leases!PromiseKept, NotReleased
<1>4. RenewsHeld'
  BY <1>1 DEF LeaseInv, RenewsHeld, Leases!Holds, Leases!NoCall
<1> QED
  BY <1>2, <1>3, <1>4 DEF LeaseInv

\* While an owner has a promise the lease cannot be acquired, nor can it be
\* swept, with a time that has come.
LEMMA PromiseExcludes ==
  ASSUME LeaseInv, NEW p \in Owner, NEW i \in Id, told[p][i] >= clock, NEW t \in Nat, t <= clock
  PROVE  ~Leases!Acquirable(leases[i], t) /\ leases[i].owner = p
<1>1. /\ leases[i].state = "open" /\ leases[i].owner = p /\ leases[i].until = told[p][i]
      /\ told[p][i] \in Int /\ clock \in Nat
  BY DEF LeaseInv, Leases!PromiseKept, LeasesTyped
<1> QED
  BY <1>1 DEF Leases!Acquirable, Leases!Expired

LEMMA LeaseCallFacts ==
  ASSUME LeaseInv, LeasesAssumed, NEW g \in Caller, call[g].op # "none"
  PROVE  /\ call[g].id \in Id /\ call[g].ttl \in Nat /\ call[g].now \in Nat
         /\ call[g].now <= clock /\ OwnerOf[g] \in Owner
         /\ leases[call[g].id] \in LeaseSet
  BY DEF LeasesAssumed, LeaseInv, LeasesTyped, CallSet

LEMMA AcquireInv == ASSUME LeaseInv, LeasesAssumed, NEW g \in Caller, Leases!Acquire(g) PROVE LeaseInv'
<1> DEFINE i == call[g].id
           end == call[g].now + call[g].ttl
           lease == Leases!NewLease(OwnerOf[g], end)
<1>1. /\ i \in Id /\ end \in Nat /\ call[g].now \in Nat /\ call[g].now <= clock
      /\ OwnerOf[g] \in Owner /\ call[g].op = "acquire"
  BY LeaseCallFacts DEF Leases!Acquire
<1>2. CASE Leases!Acquirable(leases[i], call[g].now)
  <2>1. CallAnswers(g, lease, end)
    BY <1>2 DEF Leases!Acquire, Leases!Grant, CallAnswers
  <2>2. \A p \in Owner \ {OwnerOf[g]} : told[p][i] < clock
    BY <1>1, <1>2, PromiseExcludes DEF LeaseInv, LeasesTyped
  <2>3. /\ lease \in LeaseSet /\ lease.owner = OwnerOf[g] /\ lease.state = "open"
        /\ lease.until = end
    BY <1>1 DEF Leases!NewLease, LeaseSet
  <2>4. Sound(OwnerOf[g], i, lease, end)
    BY <1>1, <2>2, <2>3 DEF Sound
  <2> QED
    BY <1>1, <2>1, <2>4, AnswerInv
<1>3. CASE ~Leases!Acquirable(leases[i], call[g].now)
  BY <1>3, RefusedInv DEF Leases!Acquire
<1> QED
  BY <1>2, <1>3

LEMMA RenewInv == ASSUME LeaseInv, LeasesAssumed, NEW g \in Caller, Leases!Renew(g) PROVE LeaseInv'
<1> DEFINE i == call[g].id
           o == OwnerOf[g]
           lease == leases[i]
           end == call[g].now + call[g].ttl
<1>1. /\ i \in Id /\ end \in Nat /\ call[g].now \in Nat /\ call[g].now <= clock
      /\ o \in Owner /\ call[g].op = "renew" /\ lease \in LeaseSet
  BY LeaseCallFacts DEF Leases!Renew
<1>2. CASE ~Leases!Owned(lease, o)
  <2>1. CallAnswers(g, lease, -1)
    BY <1>2 DEF Leases!Renew, Leases!Grant, CallAnswers
  <2>2. Sound(o, i, lease, -1)
    BY <1>1 DEF Sound
  <2> QED
    BY <1>1, <2>1, <2>2, AnswerInv
<1>3. ASSUME Leases!Owned(lease, o), NEW p \in Owner, p # o PROVE told[p][i] < clock /\ p # lease.owner
  BY <1>1, <1>3 DEF Leases!Owned, LeaseInv, Leases!PromiseKept, LeasesTyped
<1>4. CASE Leases!Owned(lease, o) /\ Leases!Expired(lease, call[g].now)
  <2> DEFINE over == [owner |-> lease.owner, state |-> "expired", until |-> lease.until]
  <2>1. over = [lease EXCEPT !.state = "expired"] /\ over \in LeaseSet
    BY <1>1 DEF LeaseSet
  <2>2. CallAnswers(g, over, -1)
    BY <1>4, <2>1 DEF Leases!Renew, Leases!Grant, CallAnswers
  <2>3. Sound(o, i, over, -1)
    BY <1>3, <1>4, <2>1 DEF Sound
  <2> QED
    BY <1>1, <2>2, <2>3, AnswerInv
<1>5. CASE Leases!Owned(lease, o) /\ ~Leases!Expired(lease, call[g].now)
  <2> DEFINE longer == [owner |-> lease.owner, state |-> lease.state, until |-> end]
  <2>1. longer = [lease EXCEPT !.until = end] /\ longer \in LeaseSet
    BY <1>1 DEF LeaseSet
  <2>2. told[o][i] >= 0
    BY <1>1 DEF LeaseInv, RenewsHeld, Leases!Holds
  <2>3. lease.state = "open" /\ lease.owner = o
    BY <1>1, <1>5, <2>2 DEF Leases!Owned, Leases!Expired, LeaseInv, NotReleased, LeaseSet
  <2>4. CallAnswers(g, longer, end)
    BY <1>5, <2>1 DEF Leases!Renew, Leases!Grant, CallAnswers
  <2>5. Sound(o, i, longer, end)
    BY <1>1, <1>3, <1>5, <2>1, <2>3 DEF Sound
  <2> QED
    BY <1>1, <2>4, <2>5, AnswerInv
<1> QED
  BY <1>2, <1>4, <1>5

LEMMA ReleaseInv == ASSUME LeaseInv, LeasesAssumed, NEW g \in Caller, Leases!Release(g) PROVE LeaseInv'
<1> DEFINE i == call[g].id
           o == OwnerOf[g]
           lease == leases[i]
<1>1. /\ i \in Id /\ call[g].now \in Nat /\ o \in Owner /\ call[g].op = "release"
      /\ lease \in LeaseSet
  BY LeaseCallFacts DEF Leases!Release
<1>2. CASE Leases!Owned(lease, o) /\ lease.state = "open"
  <2> DEFINE over == [owner |-> lease.owner, state |-> "released", until |-> call[g].now]
  <2>1. over = Leases!ReleasedAt(lease, call[g].now) /\ over \in LeaseSet
    BY <1>1 DEF LeaseSet, Leases!ReleasedAt
  <2>2. CallAnswers(g, over, -1)
    BY <1>2, <2>1 DEF Leases!Release, Leases!Grant, CallAnswers
  <2>3. \A p \in Owner \ {o} : told[p][i] < clock /\ over.owner # p
    BY <1>1, <1>2 DEF Leases!Owned, LeaseInv, Leases!PromiseKept, LeasesTyped
  <2>4. Sound(o, i, over, -1)
    BY <2>1, <2>3 DEF Sound
  <2> QED
    BY <1>1, <2>2, <2>4, AnswerInv
<1>3. CASE ~(Leases!Owned(lease, o) /\ lease.state = "open")
  <2>1. CallAnswers(g, lease, -1)
    BY <1>3 DEF Leases!Release, Leases!Grant, CallAnswers
  <2>2. Sound(o, i, lease, -1)
    BY <1>1 DEF Sound
  <2> QED
    BY <1>1, <2>1, <2>2, AnswerInv
<1> QED
  BY <1>2, <1>3

LEMMA SweepInv == ASSUME LeaseInv, LeasesAssumed, NEW g \in Caller, Leases!Sweep(g) PROVE LeaseInv'
<1>1. call[g].now \in Nat /\ call[g].now <= clock /\ UNCHANGED <<told, clock>>
  BY LeaseCallFacts DEF Leases!Sweep
<1>2. /\ call' \in [Caller -> CallSet] /\ call'[g] = Leases!NoCall
      /\ \A h \in Caller : h # g => call'[h] = call[h]
  BY DoneTyped DEF LeaseInv, Leases!Sweep
<1>3. ASSUME NEW i \in Id
      PROVE  /\ leases'[i] \in LeaseSet
             /\ leases'[i].owner = leases[i].owner /\ leases'[i].until = leases[i].until
             /\ leases'[i].state \in {leases[i].state, "expired"}
             /\ ~Leases!Acquirable(leases[i], call[g].now) => leases'[i] = leases[i]
  <2> DEFINE over == [owner |-> leases[i].owner, state |-> "expired", until |-> leases[i].until]
  <2>1. leases[i] \in LeaseSet
    BY DEF LeaseInv, LeasesTyped
  <2>2. over = [leases[i] EXCEPT !.state = "expired"] /\ over \in LeaseSet
    BY <2>1 DEF LeaseSet
  <2>3. leases'[i] = IF leases[i].state = "open" /\ Leases!Expired(leases[i], call[g].now)
                     THEN over ELSE leases[i]
    BY <2>2 DEF Leases!Sweep
  <2> QED
    BY <2>1, <2>2, <2>3 DEF Leases!Acquirable
<1>4. LeasesTyped'
  <2>1. leases' \in [Id -> LeaseSet]
    BY <1>3 DEF Leases!Sweep
  <2>2. \A h \in Caller : /\ call'[h].now <= clock'
                          /\ call'[h].op # "none" => call'[h].id \in Id
    BY <1>1, <1>2 DEF LeaseInv, LeasesTyped, Leases!NoCall
  <2> QED
    BY <1>1, <1>2, <2>1, <2>2 DEF LeaseInv, LeasesTyped
<1>5. Leases!PromiseKept'
  <2> SUFFICES ASSUME NEW o \in Owner, NEW i \in Id, told[o][i] >= clock
               PROVE  /\ leases'[i].state = "open" /\ leases'[i].owner = o
                      /\ leases'[i].until = told[o][i]
    BY <1>1 DEF Leases!PromiseKept
  <2>1. leases'[i] = leases[i]
    BY <1>1, <1>3, PromiseExcludes
  <2> QED
    BY <2>1 DEF LeaseInv, Leases!PromiseKept
<1>6. NotReleased'
  BY <1>1, <1>3 DEF LeaseInv, NotReleased
<1>7. RenewsHeld'
  BY <1>1, <1>2 DEF LeaseInv, RenewsHeld, Leases!Holds, Leases!NoCall
<1> QED
  BY <1>4, <1>5, <1>6, <1>7 DEF LeaseInv

LEMMA ReadClockInv ==
  ASSUME LeaseInv, LeasesAssumed, NEW g \in Caller, NEW op \in {"acquire", "renew", "release", "sweep"},
         NEW i \in Id, NEW ttl \in Ttl, Leases!ReadClock(g, op, i, ttl)
  PROVE  LeaseInv'
<1> DEFINE c == [op |-> op, id |-> i, ttl |-> ttl, now |-> clock]
<1>1. c \in CallSet
  BY DEF LeasesAssumed, CallSet, LeaseInv, LeasesTyped
<1>2. /\ call' \in [Caller -> CallSet] /\ call'[g] = c
      /\ \A h \in Caller : h # g => call'[h] = call[h]
  BY <1>1 DEF Leases!ReadClock, LeaseInv, LeasesTyped
<1>3. UNCHANGED <<leases, told, clock>>
  BY DEF Leases!ReadClock
<1>4. LeasesTyped'
  <2>1. \A h \in Caller : /\ call'[h].now <= clock'
                          /\ call'[h].op # "none" => call'[h].id \in Id
    BY <1>2, <1>3 DEF LeaseInv, LeasesTyped
  <2> QED
    BY <2>1, <1>2, <1>3 DEF LeaseInv, LeasesTyped
<1>5. Leases!PromiseKept' /\ NotReleased'
  BY <1>3 DEF LeaseInv, Leases!PromiseKept, NotReleased
<1>6. RenewsHeld'
  BY <1>2, <1>3 DEF LeaseInv, RenewsHeld, Leases!Holds, Leases!ReadClock
<1> QED
  BY <1>4, <1>5, <1>6 DEF LeaseInv

LEMMA TickInv == ASSUME LeaseInv, Leases!Tick PROVE LeaseInv'
<1>1. LeasesTyped'
  <2>1. \A g \in Caller : call[g].now \in Nat
    BY DEF LeaseInv, LeasesTyped, CallSet
  <2> QED
    BY <2>1 DEF LeaseInv, LeasesTyped, Leases!Tick
<1>2. Leases!PromiseKept'
  BY DEF LeaseInv, LeasesTyped, Leases!Tick, Leases!PromiseKept
<1>3. NotReleased' /\ RenewsHeld'
  BY DEF LeaseInv, Leases!Tick, NotReleased, RenewsHeld, Leases!Holds
<1> QED
  BY <1>1, <1>2, <1>3 DEF LeaseInv

LEMMA LeaseNext == ASSUME LeasesAssumed PROVE LeaseInv /\ [Leases!Next]_Leases!vars => LeaseInv'
<1> SUFFICES ASSUME LeaseInv, [Leases!Next]_Leases!vars PROVE LeaseInv'
  OBVIOUS
<1>1. CASE UNCHANGED Leases!vars
  <2>1. UNCHANGED leases /\ UNCHANGED clock /\ UNCHANGED call /\ UNCHANGED told
    BY <1>1 DEF Leases!vars
  <2>2. LeasesTyped' /\ RenewsHeld'
    BY <2>1 DEF LeaseInv, LeasesTyped, RenewsHeld, Leases!Holds
  <2>3. Leases!PromiseKept' /\ NotReleased'
    BY <2>1 DEF LeaseInv, Leases!PromiseKept, NotReleased
  <2> QED
    BY <2>2, <2>3 DEF LeaseInv
<1>2. CASE Leases!Next
  BY <1>2, ReadClockInv, AcquireInv, RenewInv, ReleaseInv, SweepInv, TickInv DEF Leases!Next
<1> QED
  BY <1>1, <1>2

\* An owner with one goroutine has a lease to itself until the end it was last
\* told, whatever other owners do and however late calls get the mutex
\* (lease.go 62-111).
THEOREM PromisesHold == ASSUME LeasesAssumed PROVE Leases!Spec => []PromiseKept
<1>1. Leases!Init => LeaseInv
  BY LeaseInit
<1>2. LeaseInv /\ [Leases!Next]_Leases!vars => LeaseInv'
  BY LeaseNext
<1>3. LeaseInv => PromiseKept
  BY DEF LeaseInv, PromiseKept
<1> QED
  BY <1>1, <1>2, <1>3, PTL DEF Leases!Spec

-----------------------------------------------------------------------------
(* The prefix the uploader's chunks cover.  ContiguousEnd folds a sorted     *)
(* copy of the chunks; the value after each of its steps is the end of the   *)
(* prefix of the chunks so far, as the domain's session defines it.          *)

\* e is what the domain's ContiguousEnd returns for the chunks of C.
PrefixEnd(C, e) ==
  LET ends == {-1} \union {c.range.end : c \in C}
  IN  /\ e \in ends
      /\ \A b \in 0..e : Upload!Domain!Covered(C, b)
      /\ \A f \in ends : (\A b \in 0..f : Upload!Domain!Covered(C, b)) => f <= e

Ranged(s, T) == {[range |-> s[k]] : k \in T}

\* Of finitely many positions one has the least value.
LEMMA LeastValue ==
  ASSUME NEW D, IsFiniteSet(D), D # {}, NEW v \in [D -> Int]
  PROVE  \E m \in D : \A j \in D : v[m] <= v[j]
<1> DEFINE Less(m) == {j \in D : v[j] < v[m]}
           Lower == {Less(m) : m \in D}
<1>1. PICK T \in Lower : \A U \in Lower : ~(U \subseteq T /\ U # T)
  <2>1. Lower \in SUBSET SUBSET D
    OBVIOUS
  <2>2. Lower # {}
    <3> PICK m \in D : TRUE
      OBVIOUS
    <3>1. Less(m) \in Lower
      OBVIOUS
    <3> QED
      BY <3>1
  <2>3. \A Sets \in SUBSET SUBSET D :
          Sets # {} => \E T \in Sets : \A U \in Sets : ~(U \subseteq T /\ U # T)
    BY SmallestSubset
  <2> HIDE DEF Lower, Less
  <2> QED
    BY <2>1, <2>2, <2>3
<1>2. PICK m \in D : T = Less(m)
  OBVIOUS
<1>3. ASSUME NEW j \in D PROVE v[m] <= v[j]
  <2>1. SUFFICES ASSUME v[j] < v[m] PROVE FALSE
    OBVIOUS
  <2>2. Less(j) \in Lower
    OBVIOUS
  <2>3. Less(j) \subseteq Less(m)
    BY <2>1
  <2>4. j \in Less(m) /\ j \notin Less(j)
    BY <2>1
  <2> HIDE DEF Less, Lower
  <2> QED
    BY <1>1, <1>2, <2>2, <2>3, <2>4
<1> QED
  BY <1>3

\* Of some numbers up to n one is the largest.
LEMMA LargestNumber ==
  ASSUME NEW n \in Nat, NEW K \in SUBSET (0..n), K # {}
  PROVE  \E k \in K : \A j \in K : j <= k
<1> DEFINE v == [j \in K |-> -j]
<1>1. IsFiniteSet(K)
  <2>1. IsFiniteSet(0..n)
    BY FS_Interval
  <2> QED
    BY <2>1, FS_Subset
<1>2. v \in [K -> Int]
  OBVIOUS
<1>3. PICK k \in K : \A j \in K : v[k] <= v[j]
  <2> HIDE DEF v
  <2> QED
    BY <1>1, <1>2, LeastValue
<1>4. \A j \in K : -k <= -j /\ j \in Int /\ k \in Int
  BY <1>3
<1> QED
  BY <1>4

\* Positions can be ordered by the values they have: of the orders that have the
\* least k values first, in their order, one has them for the largest k, and with
\* the least of the others put behind them it would have them for k + 1.
LEMMA SortedExists ==
  ASSUME NEW n \in Nat, NEW v \in [1..n -> Int]
  PROVE  \E p \in Upload!Bijection(1..n, 1..n) :
           \A j, k \in 1..n : j < k => v[p[j]] <= v[p[k]]
<1> DEFINE D == 1..n
           First(p, k) == \A i \in 1..k : \A j \in D : i < j => v[p[i]] <= v[p[j]]
           K == {k \in 0..n : \E p \in Upload!Bijection(D, D) : First(p, k)}
<1>1. [i \in D |-> i] \in Upload!Bijection(D, D)
  BY DEF Upload!Bijection, Upload!Injection, Upload!Surjection, Upload!IsInjective
<1>2. 0 \in K
  BY <1>1
<1>3. PICK k \in K : \A j \in K : j <= k
  <2>1. K \in SUBSET (0..n) /\ K # {}
    BY <1>2
  <2> HIDE DEF K
  <2> QED
    BY <2>1, LargestNumber
<1>4. PICK p \in Upload!Bijection(D, D) : First(p, k)
  OBVIOUS
<1>5. /\ p \in [D -> D]
      /\ \A i, j \in D : p[i] = p[j] => i = j
      /\ \A t \in D : \E i \in D : p[i] = t
  BY DEF Upload!Bijection, Upload!Injection, Upload!Surjection, Upload!IsInjective
<1>6. k = n
  <2>1. SUFFICES ASSUME k < n PROVE FALSE
    OBVIOUS
  <2>2. PICK m \in (k + 1)..n : \A j \in (k + 1)..n : v[p[m]] <= v[p[j]]
    <3>1. IsFiniteSet((k + 1)..n) /\ (k + 1)..n # {}
      <4>1. k + 1 \in Int /\ n \in Int /\ n \in (k + 1)..n
        BY <2>1
      <4> QED
        BY <4>1, FS_Interval
    <3>2. [j \in (k + 1)..n |-> v[p[j]]] \in [(k + 1)..n -> Int]
      BY <1>5
    <3>3. \E m \in (k + 1)..n : \A j \in (k + 1)..n :
            [i \in (k + 1)..n |-> v[p[i]]][m] <= [i \in (k + 1)..n |-> v[p[i]]][j]
      BY <3>1, <3>2, LeastValue
    <3> QED
      BY <3>3
  <2> DEFINE q == [i \in D |-> IF i = k + 1 THEN p[m] ELSE IF i = m THEN p[k + 1] ELSE p[i]]
  <2>3. m \in D /\ k + 1 \in D
    BY <2>1
  <2>4. q \in [D -> D]
    BY <1>5, <2>3
  <2>5. \A i, j \in D : q[i] = q[j] => i = j
    BY <1>5, <2>3
  <2>6. ASSUME NEW t \in D PROVE \E i \in D : q[i] = t
    <3>1. PICK i \in D : p[i] = t
      BY <1>5
    <3>2. CASE i = k + 1
      BY <2>3, <3>1, <3>2
    <3>3. CASE i = m
      BY <2>3, <3>1, <3>3
    <3>4. CASE i # k + 1 /\ i # m
      BY <3>1, <3>4
    <3> QED
      BY <3>2, <3>3, <3>4
  <2>7. q \in Upload!Bijection(D, D)
    BY <2>4, <2>5, <2>6 DEF Upload!Bijection, Upload!Injection, Upload!Surjection, Upload!IsInjective
  <2>8. First(q, k + 1)
    <3> SUFFICES ASSUME NEW i \in 1..(k + 1), NEW j \in D, i < j
                 PROVE  v[q[i]] <= v[q[j]]
      OBVIOUS
    <3>1. PICK l \in D : q[j] = p[l] /\ (l = j \/ l \in (k + 1)..n)
      <4>1. CASE j = k + 1
        BY <2>3, <4>1
      <4>2. CASE j = m /\ j # k + 1
        BY <2>1, <2>3, <4>2
      <4>3. CASE j # m /\ j # k + 1
        BY <4>3
      <4> QED
        BY <4>1, <4>2, <4>3
    <3>2. CASE i = k + 1
      <4>1. q[i] = p[m]
        BY <2>3, <3>2
      <4>2. l \in (k + 1)..n
        BY <3>1, <3>2
      <4> QED
        BY <2>2, <3>1, <4>1, <4>2
    <3>3. CASE i # k + 1
      <4>1. i \in 1..k /\ i # m /\ i \in D
        BY <2>1, <3>3
      <4>2. q[i] = p[i]
        BY <3>3, <4>1
      <4>3. i < l
        BY <3>1, <4>1
      <4> HIDE DEF q
      <4> QED
        BY <1>4, <3>1, <4>1, <4>2, <4>3
    <3> QED
      BY <3>2, <3>3
  <2>9. k + 1 \in 0..n
    BY <2>1
  <2> HIDE DEF q, First
  <2> QED
    BY <1>3, <2>7, <2>8, <2>9
<1> QED
  BY <1>4, <1>6

-----------------------------------------------------------------------------
(* One step of the loop. *)

Ranges == [start : Int, end : Int]

\* A prefix has one end, and the domain's ContiguousEnd returns it.
LEMMA EndUnique ==
  ASSUME NEW n \in Nat, NEW s \in [1..n -> Ranges], NEW T \in SUBSET (1..n),
         NEW e, PrefixEnd(Ranged(s, T), e)
  PROVE  e \in Int /\ -1 <= e /\ Upload!Domain!ContiguousEnd(Ranged(s, T)) = e
<1> DEFINE C == Ranged(s, T)
           ends == {-1} \union {c.range.end : c \in C}
           Is(x) == /\ \A b \in 0..x : Upload!Domain!Covered(C, b)
                    /\ \A f \in ends : (\A b \in 0..f : Upload!Domain!Covered(C, b)) => f <= x
<1>1. ends \subseteq Int
  BY DEF Ranged, Ranges
<1>2. e \in ends /\ Is(e)
  BY DEF PrefixEnd
<1>3. \A x \in ends : Is(x) => x = e
  <2> HIDE DEF ends, C
  <2> QED
    BY <1>1, <1>2
<1>4. Upload!Domain!ContiguousEnd(C) = CHOOSE x \in ends : Is(x)
  BY DEF Upload!Domain!ContiguousEnd
<1>5. -1 \in ends /\ \A b \in 0..(-1) : Upload!Domain!Covered(C, b)
  OBVIOUS
<1>6. -1 <= e
  <2> HIDE DEF ends, C
  <2> QED
    BY <1>2, <1>5
<1>7. (CHOOSE x \in ends : Is(x)) = e
  <2> HIDE DEF ends, Is
  <2> QED
    BY <1>2, <1>3
<1> QED
  BY <1>1, <1>2, <1>4, <1>6, <1>7

\* Without chunks the prefix is empty.
LEMMA EndOfNone ==
  ASSUME NEW s
  PROVE  PrefixEnd(Ranged(s, {}), -1)
BY DEF PrefixEnd, Ranged

\* A chunk that begins within a prefix or right behind it ends within it.
LEMMA EndsWithin ==
  ASSUME NEW n \in Nat, NEW s \in [1..n -> Ranges], NEW T \in SUBSET (1..n),
         NEW e, PrefixEnd(Ranged(s, T), e), NEW k \in T, s[k].start <= e + 1
  PROVE  s[k].end <= e
<1> DEFINE C == Ranged(s, T)
<1>1. e \in Int /\ -1 <= e
  BY EndUnique
<1>2. s[k] \in Ranges /\ s[k].start \in Int /\ s[k].end \in Int
  BY DEF Ranges
<1>3. [range |-> s[k]] \in C
  BY DEF Ranged
<1>4. SUFFICES ASSUME s[k].end > e PROVE FALSE
  BY <1>1, <1>2
<1>5. ASSUME NEW b \in 0..(s[k].end) PROVE Upload!Domain!Covered(C, b)
  <2>1. CASE b <= e
    BY <1>1, <2>1 DEF PrefixEnd
  <2>2. CASE b > e
    <3>1. s[k].start <= b /\ b <= s[k].end
      BY <1>1, <1>2, <2>2
    <3> HIDE DEF C
    <3> QED
      BY <1>3, <3>1 DEF Upload!Domain!Covered
  <2> QED
    BY <1>1, <2>1, <2>2
<1>6. s[k].end \in {-1} \union {c.range.end : c \in C}
  <2> HIDE DEF C
  <2> QED
    BY <1>3
<1>7. s[k].end <= e
  BY <1>5, <1>6 DEF PrefixEnd
<1> QED
  BY <1>1, <1>2, <1>4, <1>7

\* What is covered by the chunks up to m, is covered by those before it or by m.
LEMMA CoveredSplit ==
  ASSUME NEW s, NEW T, NEW m \in T, NEW b
  PROVE  Upload!Domain!Covered(Ranged(s, T), b)
           <=> \/ Upload!Domain!Covered(Ranged(s, T \ {m}), b)
               \/ s[m].start <= b /\ b <= s[m].end
<1>1. Ranged(s, T) = Ranged(s, T \ {m}) \union {[range |-> s[m]]}
  BY DEF Ranged
<1>2. [range |-> s[m]].range = s[m]
  OBVIOUS
<1> DEFINE A == Ranged(s, T)
           B == Ranged(s, T \ {m})
           r == [range |-> s[m]]
<1> HIDE DEF A, B, r
<1>3. A = B \union {r} /\ r.range = s[m]
  BY <1>1, <1>2 DEF A, B, r
<1>4. Upload!Domain!Covered(A, b) <=> Upload!Domain!Covered(B, b) \/ (s[m].start <= b /\ b <= s[m].end)
  BY <1>3 DEF Upload!Domain!Covered
<1> QED
  BY <1>4 DEF A, B

\* With the chunk that begins last the prefix ends where the loop says: behind a
\* gap nothing that begins earlier is covered.
LEMMA ExtendExact ==
  ASSUME NEW n \in Nat, NEW s \in [1..n -> Ranges], NEW T \in SUBSET (1..n),
         NEW m \in T, \A k \in T : s[k].start <= s[m].start,
         NEW e, PrefixEnd(Ranged(s, T \ {m}), e)
  PROVE  PrefixEnd(Ranged(s, T), Upload!Extend(e, s[m]))
<1> DEFINE C == Ranged(s, T)
           B == Ranged(s, T \ {m})
           Cov(b) == Upload!Domain!Covered(C, b)
           ends == {-1} \union {c.range.end : c \in C}
           x == Upload!Extend(e, s[m])
<1>1. e \in Int /\ -1 <= e
  BY EndUnique
<1>2. \A k \in T : s[k] \in Ranges /\ s[k].start \in Int /\ s[k].end \in Int
  BY DEF Ranges
<1>3. /\ s[m].start > e + 1 => x = e
      /\ s[m].start <= e + 1 => x = (IF e >= s[m].end THEN e ELSE s[m].end)
  <2>1. Upload!Max({e, s[m].end}) = (IF e >= s[m].end THEN e ELSE s[m].end)
    BY <1>1, <1>2 DEF Upload!Max
  <2> QED
    BY <1>1, <1>2, <2>1 DEF Upload!Extend
<1> HIDE DEF x
<1>4. x \in Int /\ e <= x
  BY <1>1, <1>2, <1>3
<1>5. ends = {-1} \union {s[k].end : k \in T}
  <2>1. C = {[range |-> s[k]] : k \in T}
    BY DEF Ranged
  <2>2. \A k \in T : [range |-> s[k]] \in C /\ [range |-> s[k]].range.end = s[k].end
    BY <2>1
  <2>3. \A c \in C : \E k \in T : c.range.end = s[k].end
    BY <2>1
  <2> HIDE DEF C
  <2>4. \A k \in T : s[k].end \in {c.range.end : c \in C}
    BY <2>2
  <2>5. \A f \in {c.range.end : c \in C} : f \in {s[k].end : k \in T}
    BY <2>3
  <2> QED
    BY <2>4, <2>5
<1>6. e \in {-1} \union {s[k].end : k \in T \ {m}}
  BY DEF PrefixEnd, Ranged
<1>7. x \in ends
  <2>1. x = e \/ x = s[m].end
    BY <1>1, <1>2, <1>3
  <2>2. s[m].end \in ends /\ e \in ends
    BY <1>5, <1>6
  <2> HIDE DEF ends
  <2> QED
    BY <2>1, <2>2
<1>8. PrefixEnd(B, e)
  OBVIOUS
<1>9. ASSUME NEW b \in 0..x PROVE Cov(b)
  <2>1. CASE b <= e
    <3>1. b \in 0..e
      BY <1>1, <1>4, <2>1
    <3>2. Upload!Domain!Covered(B, b)
      <4> HIDE DEF B
      <4> QED
        BY <1>8, <3>1 DEF PrefixEnd
    <3> QED
      BY <3>2, CoveredSplit
  <2>2. CASE b > e
    <3>1. s[m].start <= b /\ b <= s[m].end
      BY <1>1, <1>2, <1>3, <1>4, <2>2
    <3> QED
      BY <3>1, CoveredSplit
  <2> QED
    BY <1>1, <1>4, <2>1, <2>2
<1>10. ASSUME NEW f \in ends, \A b \in 0..f : Cov(b) PROVE f <= x
  <2>1. f \in Int
    BY <1>2, <1>5
  <2>2. SUFFICES ASSUME f > x PROVE FALSE
    BY <1>4, <2>1
  <2>3. Cov(x + 1)
    BY <1>1, <1>4, <1>10, <2>1, <2>2
  <2>4. ~(s[m].start <= x + 1 /\ x + 1 <= s[m].end)
    <3>1. s[m].start \in Int /\ s[m].end \in Int
      BY <1>2
    <3>2. CASE s[m].start > e + 1
      BY <1>1, <1>3, <3>1, <3>2
    <3>3. CASE s[m].start <= e + 1
      BY <1>1, <1>3, <3>1, <3>3
    <3> QED
      BY <1>1, <3>1, <3>2, <3>3
  <2>5. Upload!Domain!Covered(B, x + 1)
    BY <2>3, <2>4, CoveredSplit
  <2>6. PICK k \in T \ {m} : s[k].start <= x + 1 /\ x + 1 <= s[k].end
    BY <2>5 DEF Upload!Domain!Covered, Ranged
  <2>7. s[k].start <= e + 1
    BY <1>1, <1>2, <1>3, <2>6
  <2>8. s[k].end <= e
    BY <2>7, EndsWithin
  <2> QED
    BY <1>1, <1>2, <1>4, <2>6, <2>8
<1> QED
  <2> HIDE DEF Cov, ends, C
  <2>1. x \in ends /\ (\A b \in 0..x : Cov(b)) /\ \A f \in ends : (\A b \in 0..f : Cov(b)) => f <= x
    BY <1>7, <1>9, <1>10
  <2> QED
    BY <2>1 DEF PrefixEnd, Cov, ends, C, x

-----------------------------------------------------------------------------
(* The whole loop. *)

\* What the fold has after the chunks at the positions of a set.
LoopNext(s, h, T) ==
  IF T = {} THEN -1 ELSE Upload!Extend(h[T \ {Upload!Max(T)}], s[Upload!Max(T)])

Ascends(s) == \A j, k \in DOMAIN s : j < k => s[j].start <= s[k].start

LEMMA MaxIn ==
  ASSUME NEW n \in Nat, NEW T \in SUBSET (1..n), T # {}
  PROVE  Upload!Max(T) \in T /\ \A k \in T : k <= Upload!Max(T)
<1>1. T \in SUBSET (0..n)
  OBVIOUS
<1>2. PICK k \in T : \A j \in T : j <= k
  BY <1>1, LargestNumber
<1>3. k >= k /\ \A j \in T : k >= j
  BY <1>2
<1>4. \E k2 \in T : \A j \in T : k2 >= j
  BY <1>3
<1>5. Upload!Max(T) \in T /\ \A j \in T : Upload!Max(T) >= j
  BY <1>4 DEF Upload!Max
<1> QED
  BY <1>5

\* In sorted chunks the last of some positions has the chunk that begins last.
LEMMA LastBeginsLast ==
  ASSUME NEW n \in Nat, NEW s \in [1..n -> Ranges], Ascends(s), NEW T \in SUBSET (1..n),
         NEW m \in T, \A k \in T : k <= m
  PROVE  \A k \in T : s[k].start <= s[m].start
<1> TAKE k \in T
<1>1. k \in 1..n /\ m \in 1..n /\ k <= m
  OBVIOUS
<1>2. s[m].start \in Int
  BY <1>1 DEF Ranges
<1>3. CASE k = m
  BY <1>2, <1>3
<1>4. CASE k # m
  BY <1>1, <1>4 DEF Ascends
<1> QED
  BY <1>3, <1>4

\* The loop finds the end of the prefix of every set of positions: the smallest
\* set for which it does not is not empty, and has its last position from a set
\* for which it does.
LEMMA LoopExact ==
  ASSUME NEW n \in Nat, NEW s \in [1..n -> Ranges], Ascends(s),
         NEW h, \A T \in SUBSET (1..n) : h[T] = LoopNext(s, h, T),
         NEW U \in SUBSET (1..n)
  PROVE  PrefixEnd(Ranged(s, U), h[U])
<1> DEFINE Bad == {T \in SUBSET (1..n) : ~PrefixEnd(Ranged(s, T), h[T])}
<1>1. SUFFICES ASSUME Bad # {} PROVE FALSE
  OBVIOUS
<1>2. PICK T \in Bad : \A V \in Bad : ~(V \subseteq T /\ V # T)
  <2>1. IsFiniteSet(1..n)
    BY FS_Interval
  <2>2. Bad \in SUBSET SUBSET (1..n)
    OBVIOUS
  <2> DEFINE D == 1..n
  <2> HIDE DEF Bad, D
  <2>3. IsFiniteSet(D) /\ Bad \in SUBSET SUBSET D
    BY <2>1, <2>2 DEF D
  <2> QED
    BY <1>1, <2>3, SmallestSubset
<1>3. T \in SUBSET (1..n) /\ h[T] = LoopNext(s, h, T) /\ ~PrefixEnd(Ranged(s, T), h[T])
  OBVIOUS
<1>4. T # {}
  BY <1>3, EndOfNone DEF LoopNext
<1> DEFINE m == Upload!Max(T)
<1>5. m \in T /\ \A k \in T : k <= m
  BY <1>3, <1>4, MaxIn
<1>6. h[T] = Upload!Extend(h[T \ {m}], s[m])
  BY <1>3, <1>4 DEF LoopNext
<1> HIDE DEF m
<1>7. PrefixEnd(Ranged(s, T \ {m}), h[T \ {m}])
  <2>1. T \ {m} \in SUBSET (1..n) /\ T \ {m} \subseteq T /\ T \ {m} # T
    BY <1>3, <1>5
  <2>2. T \ {m} \notin Bad
    <3> HIDE DEF Bad
    <3> QED
      BY <1>2, <2>1
  <2> QED
    BY <2>1, <2>2
<1>8. \A k \in T : s[k].start <= s[m].start
  BY <1>3, <1>5, LastBeginsLast
<1>9. PrefixEnd(Ranged(s, T), Upload!Extend(h[T \ {m}], s[m]))
  BY <1>3, <1>5, <1>7, <1>8, ExtendExact
<1> QED
  BY <1>3, <1>6, <1>9

\* Every prefix has an end, for the same reason.
LEMMA EndExists ==
  ASSUME NEW n \in Nat, NEW s \in [1..n -> Ranges], Ascends(s), NEW U \in SUBSET (1..n)
  PROVE  \E e : PrefixEnd(Ranged(s, U), e)
<1> DEFINE Bad == {T \in SUBSET (1..n) : ~\E e : PrefixEnd(Ranged(s, T), e)}
<1>1. SUFFICES ASSUME Bad # {} PROVE FALSE
  OBVIOUS
<1>2. PICK T \in Bad : \A V \in Bad : ~(V \subseteq T /\ V # T)
  <2>1. IsFiniteSet(1..n)
    BY FS_Interval
  <2>2. Bad \in SUBSET SUBSET (1..n)
    OBVIOUS
  <2> DEFINE D == 1..n
  <2> HIDE DEF Bad, D
  <2>3. IsFiniteSet(D) /\ Bad \in SUBSET SUBSET D
    BY <2>1, <2>2 DEF D
  <2> QED
    BY <1>1, <2>3, SmallestSubset
<1>3. T \in SUBSET (1..n) /\ ~\E e : PrefixEnd(Ranged(s, T), e)
  OBVIOUS
<1>4. T # {}
  BY <1>3, EndOfNone
<1> DEFINE m == Upload!Max(T)
<1>5. m \in T /\ \A k \in T : k <= m
  BY <1>3, <1>4, MaxIn
<1> HIDE DEF m
<1>6. PICK e : PrefixEnd(Ranged(s, T \ {m}), e)
  <2>1. T \ {m} \in SUBSET (1..n) /\ T \ {m} \subseteq T /\ T \ {m} # T
    BY <1>3, <1>5
  <2>2. T \ {m} \notin Bad
    <3> HIDE DEF Bad
    <3> QED
      BY <1>2, <2>1
  <2> QED
    BY <2>1, <2>2
<1>7. \A k \in T : s[k].start <= s[m].start
  BY <1>3, <1>5, LastBeginsLast
<1>8. PrefixEnd(Ranged(s, T), Upload!Extend(e, s[m]))
  BY <1>3, <1>5, <1>6, <1>7, ExtendExact
<1> QED
  BY <1>3, <1>8

\* So the fold, whose recursion some function satisfies, returns it.
LEMMA FoldExact ==
  ASSUME NEW n \in Nat, NEW s \in [1..n -> Ranges], Ascends(s)
  PROVE  Upload!FoldLeft(Upload!Extend, -1, s)
           = Upload!Domain!ContiguousEnd(Ranged(s, 1..n))
<1> DEFINE Is(h) == h = [T \in SUBSET (1..n) |-> LoopNext(s, h, T)]
           g == [T \in SUBSET (1..n) |-> Upload!Domain!ContiguousEnd(Ranged(s, T))]
           iter == CHOOSE h : Is(h)
<1>1. \A T \in SUBSET (1..n) : PrefixEnd(Ranged(s, T), g[T])
  <2> TAKE T \in SUBSET (1..n)
  <2>1. PICK e : PrefixEnd(Ranged(s, T), e)
    BY EndExists
  <2>2. g[T] = e
    BY <2>1, EndUnique
  <2> QED
    BY <2>1, <2>2
<1>2. \A T \in SUBSET (1..n) : g[T] = LoopNext(s, g, T)
  <2> TAKE T \in SUBSET (1..n)
  <2>1. CASE T = {}
    <3>1. g[T] = -1
      BY <2>1, EndOfNone, EndUnique
    <3> QED
      BY <2>1, <3>1 DEF LoopNext
  <2>2. CASE T # {}
    <3> DEFINE m == Upload!Max(T)
    <3>1. m \in T /\ \A k \in T : k <= m
      BY <2>2, MaxIn
    <3>2. LoopNext(s, g, T) = Upload!Extend(g[T \ {m}], s[m])
      BY <2>2 DEF LoopNext
    <3> HIDE DEF m
    <3>3. T \ {m} \in SUBSET (1..n)
      OBVIOUS
    <3>4. \A k \in T : s[k].start <= s[m].start
      BY <3>1, LastBeginsLast
    <3>5. PrefixEnd(Ranged(s, T \ {m}), g[T \ {m}])
      BY <1>1, <3>3
    <3>6. PrefixEnd(Ranged(s, T), Upload!Extend(g[T \ {m}], s[m]))
      <4> HIDE DEF g
      <4> QED
        BY <3>1, <3>4, <3>5, ExtendExact
    <3>7. g[T] = Upload!Extend(g[T \ {m}], s[m])
      BY <3>6, EndUnique
    <3> QED
      BY <3>2, <3>7
  <2> QED
    BY <2>1, <2>2
<1>3. Is(g)
  <2>1. g = [T \in SUBSET (1..n) |-> g[T]]
    OBVIOUS
  <2> HIDE DEF g
  <2> QED
    BY <1>2, <2>1
<1>4. Is(iter)
  <2> HIDE DEF Is, g
  <2> QED
    BY <1>3
<1>5. Upload!FoldLeft(Upload!Extend, -1, s) = iter[1..n]
  BY DEF Upload!FoldLeft, Upload!MapThenFoldSet, LoopNext
<1>6. \A T \in SUBSET (1..n) : iter[T] = LoopNext(s, iter, T)
  <2> HIDE DEF iter
  <2> QED
    BY <1>4
<1>7. PrefixEnd(Ranged(s, 1..n), iter[1..n])
  <2> HIDE DEF iter, Is, g
  <2> QED
    BY <1>6, LoopExact
<1>8. iter[1..n] = Upload!Domain!ContiguousEnd(Ranged(s, 1..n))
  <2> HIDE DEF iter, Is, g
  <2> QED
    BY <1>7, EndUnique
<1> QED
  BY <1>5, <1>8

-----------------------------------------------------------------------------
(* The chunks that are recorded. *)

ChunkInv == chunks \in Seq(Ranges)

LEMMA PrefixFound == ChunkInv => PrefixExact
<1> SUFFICES ASSUME ChunkInv PROVE PrefixExact
  OBVIOUS
<1> DEFINE n == Len(chunks)
           s == Upload!Sorted
<1>1. n \in Nat /\ DOMAIN chunks = 1..n /\ chunks \in [1..n -> Ranges]
  BY DEF ChunkInv
<1>2. \A k \in 1..n : chunks[k] \in Ranges /\ chunks[k].start \in Int
  BY <1>1 DEF Ranges
<1>3. CASE chunks = <<>>
  <2>1. Upload!ContiguousEnd = -1
    BY <1>3 DEF Upload!ContiguousEnd
  <2>2. Upload!Domain!ContiguousEnd(Ranged(chunks, {})) = -1
    <3>1. PrefixEnd(Ranged(chunks, {}), -1)
      BY EndOfNone
    <3>2. {} \in SUBSET (1..n)
      OBVIOUS
    <3> HIDE DEF n
    <3> QED
      BY <1>1, <3>1, <3>2, EndUnique
  <2>3. DOMAIN chunks = {}
    BY <1>3
  <2> QED
    BY <2>1, <2>2, <2>3 DEF PrefixExact, Upload!PrefixExact, Ranged
<1>4. CASE chunks # <<>>
  <2> HIDE DEF n
  <2>1. PICK p \in Upload!Bijection(1..n, 1..n) : Upload!Sorts(p) /\ s = [k \in 1..n |-> chunks[p[k]]]
    <3>1. [k \in 1..n |-> chunks[k].start] \in [1..n -> Int]
      BY <1>2
    <3>2. PICK q \in Upload!Bijection(1..n, 1..n) :
            \A j, k \in 1..n : j < k =>
              [i \in 1..n |-> chunks[i].start][q[j]] <= [i \in 1..n |-> chunks[i].start][q[k]]
      BY <1>1, <3>1, SortedExists
    <3>3. q \in [1..n -> 1..n]
      BY DEF Upload!Bijection, Upload!Surjection
    <3>4. Upload!Sorts(q)
      BY <1>1, <3>2, <3>3 DEF Upload!Sorts
    <3> DEFINE p == CHOOSE r \in Upload!Bijection(1..n, 1..n) : Upload!Sorts(r)
    <3>5. p \in Upload!Bijection(1..n, 1..n) /\ Upload!Sorts(p)
      BY <3>4
    <3>6. s = [k \in 1..n |-> chunks[p[k]]]
      BY <1>1 DEF Upload!Sorted
    <3> HIDE DEF p, s
    <3> QED
      BY <3>5, <3>6
  <2> HIDE DEF s
  <2>2. p \in [1..n -> 1..n] /\ \A t \in 1..n : \E k \in 1..n : p[k] = t
    BY DEF Upload!Bijection, Upload!Surjection
  <2>3. s \in [1..n -> Ranges] /\ DOMAIN s = 1..n
    BY <1>2, <2>1, <2>2
  <2>4. Ascends(s)
    BY <1>1, <2>1, <2>3 DEF Ascends, Upload!Sorts
  <2>5. Upload!FoldLeft(Upload!Extend, -1, s) = Upload!Domain!ContiguousEnd(Ranged(s, 1..n))
    BY <1>1, <2>3, <2>4, FoldExact
  <2>6. Ranged(s, 1..n) = Ranged(chunks, 1..n)
    <3>1. \A k \in 1..n : s[k] = chunks[p[k]]
      BY <2>1
    <3>2. ASSUME NEW c \in Ranged(s, 1..n) PROVE c \in Ranged(chunks, 1..n)
      <4>1. PICK k \in 1..n : c = [range |-> s[k]]
        BY DEF Ranged
      <4>2. p[k] \in 1..n /\ c = [range |-> chunks[p[k]]]
        BY <2>2, <3>1, <4>1
      <4> QED
        BY <4>2 DEF Ranged
    <3>3. ASSUME NEW c \in Ranged(chunks, 1..n) PROVE c \in Ranged(s, 1..n)
      <4>1. PICK t \in 1..n : c = [range |-> chunks[t]]
        BY DEF Ranged
      <4>2. PICK k \in 1..n : p[k] = t
        BY <2>2
      <4>3. c = [range |-> s[k]]
        BY <3>1, <4>1, <4>2
      <4> QED
        BY <4>3 DEF Ranged
    <3> QED
      BY <3>2, <3>3
  <2>7. Upload!ContiguousEnd = Upload!FoldLeft(Upload!Extend, -1, s)
    BY <1>4 DEF Upload!ContiguousEnd, s
  <2> QED
    BY <1>1, <2>5, <2>6, <2>7 DEF PrefixExact, Upload!PrefixExact, Ranged
<1> QED
  BY <1>3, <1>4

\* Taking one chunk out leaves chunks.
LEMMA RemovedTyped ==
  ASSUME NEW S, NEW s \in Seq(S), NEW x
  PROVE  Upload!RemoveFirst(s, x) \in Seq(S)
<1> DEFINE I == {i \in 1..Len(s) : s[i] = x}
<1>1. CASE I = {}
  BY <1>1 DEF Upload!RemoveFirst
<1>2. CASE I # {}
  <2>1. PICK m \in I : \A j \in I : m <= j
    <3>1. IsFiniteSet(I)
      <4>1. IsFiniteSet(1..Len(s)) /\ I \subseteq 1..Len(s)
        BY FS_Interval
      <4> QED
        BY <4>1, FS_Subset
    <3>2. [i \in I |-> i] \in [I -> Int]
      OBVIOUS
    <3>3. \E m \in I : \A j \in I : [i \in I |-> i][m] <= [i \in I |-> i][j]
      <4> HIDE DEF I
      <4> QED
        BY <1>2, <3>1, <3>2, LeastValue
    <3> QED
      BY <3>3
  <2> DEFINE i == Upload!Min(I)
  <2>2. i \in I
    <3> HIDE DEF I
    <3> QED
      BY <2>1 DEF Upload!Min
  <2>3. Upload!RemoveFirst(s, x) = SubSeq(s, 1, i - 1) \o SubSeq(s, i + 1, Len(s))
    BY <1>2 DEF Upload!RemoveFirst, Upload!RemoveAt, Upload!SelectInSeq
  <2> HIDE DEF i
  <2>4. i \in 1..Len(s)
    BY <2>2
  <2>5. \A k \in 1..Len(s) : s[k] \in S
    OBVIOUS
  <2>6. SubSeq(s, 1, i - 1) \in Seq(S)
    <3>1. \A k \in 1..(i - 1) : s[k] \in S
      BY <2>4, <2>5
    <3>2. 1 \in Int /\ i - 1 \in Int
      BY <2>4
    <3> QED
      BY <3>1, <3>2, SubSeqProperties, Zenon
  <2>7. SubSeq(s, i + 1, Len(s)) \in Seq(S)
    <3>1. \A k \in (i + 1)..Len(s) : s[k] \in S
      BY <2>4, <2>5
    <3>2. i + 1 \in Int /\ Len(s) \in Int
      BY <2>4
    <3> QED
      BY <3>1, <3>2, SubSeqProperties, Zenon
  <2> QED
    BY <2>3, <2>6, <2>7, ConcatProperties, Zenon
<1> QED
  BY <1>1, <1>2

LEMMA ChunkNext == ChunkInv /\ [Upload!Next]_Upload!vars => ChunkInv'
<1> SUFFICES ASSUME ChunkInv, [Upload!Next]_Upload!vars PROVE ChunkInv'
  OBVIOUS
<1>1. CASE UNCHANGED Upload!vars
  BY <1>1 DEF ChunkInv, Upload!vars
<1>2. ASSUME NEW start \in 0..MaxByte, NEW end \in 0..MaxByte, Upload!Add(start, end)
      PROVE  ChunkInv'
  <2>1. [start |-> start, end |-> end] \in Ranges
    BY DEF Ranges
  <2> QED
    BY <1>2, <2>1 DEF ChunkInv, Upload!Add
<1>3. ASSUME NEW start, Upload!Unregister(start)
      PROVE  ChunkInv'
  BY <1>3, RemovedTyped, Zenon DEF ChunkInv, Upload!Unregister
<1> QED
  BY <1>1, <1>2, <1>3 DEF Upload!Next

\* In whatever order chunks are recorded, overlap and are removed again, the
\* session's loop over the sorted copy finds the end of what is covered from byte
\* 0 without a gap, for any number of chunks of any ranges (session.go 58-74,
\* 110-116).
THEOREM PrefixFollows == Upload!Spec => []PrefixExact
<1>1. Upload!Init => ChunkInv
  BY DEF Upload!Init, ChunkInv
<1>2. ChunkInv /\ [Upload!Next]_Upload!vars => ChunkInv'
  BY ChunkNext
<1>3. ChunkInv => PrefixExact
  BY PrefixFound
<1> QED
  BY <1>1, <1>2, <1>3, PTL DEF Upload!Spec

-----------------------------------------------------------------------------

\* A request that writes gets to the handler that was meant, and the handler sees
\* the name and the reference the client gave, for repository names of any length
\* in which the words the dispatcher looks for do not stand where it looks for
\* them, and any references (router.go 27-130).
THEOREM WritesReach ==
  ASSUME NEW Letters, \A r \in Names : r \in Seq(Letters) /\ PlainName(r)
  PROVE  LibrarySpec => []WritesArrive
<1>1. WritesArrive
  <2>1. SUFFICES ASSUME NEW r \in Names, NEW id \in References, request \in Writes(r, id)
                 PROVE  Arrives(request)
    BY DEF WritesArrive, AllWrites
  <2> QED
    BY <2>1, WriteReaches
<1> QED
  BY <1>1, PTL

-----------------------------------------------------------------------------
(* The parts together. *)

\* A step of the library is one of a single part, and leaves the others alone.
LEMMA StepsApart ==
  ASSUME [LibraryNext]_<<vars, others>>
  PROVE  /\ [Next]_vars /\ [Leases!Next]_(Leases!vars) /\ [Graph!Next]_(Graph!vars)
         /\ [Retention!Next]_(Retention!vars) /\ [Upload!Next]_(Upload!vars)
         /\ [Limiter!Next]_(Limiter!vars) /\ [Timings!Next]_(Timings!vars)
         /\ [Events!Next]_(Events!vars)
<1>1. UNCHANGED leaseVars => UNCHANGED Leases!vars
  BY DEF leaseVars, Leases!vars
<1>2. UNCHANGED graphVars => UNCHANGED Graph!vars
  BY DEF graphVars, Graph!vars, Graph!graph
<1>3. /\ UNCHANGED retentionVars => UNCHANGED Retention!vars
      /\ UNCHANGED uploaderVars => UNCHANGED Upload!vars
  BY DEF retentionVars, Retention!vars, uploaderVars, Upload!vars
<1>4. /\ UNCHANGED limiterVars => UNCHANGED Limiter!vars
      /\ UNCHANGED histogramVars => UNCHANGED Timings!vars
      /\ UNCHANGED outboxVars => UNCHANGED Events!vars
  BY DEF limiterVars, Limiter!vars, histogramVars, Timings!vars, outboxVars, Events!vars
<1>5. CASE UNCHANGED <<vars, others>>
  BY <1>1, <1>2, <1>3, <1>4, <1>5 DEF others
<1>6. CASE QuotaCalls
  BY <1>1, <1>2, <1>3, <1>4, <1>6 DEF QuotaCalls, others
<1>7. CASE LeaseCalls
  BY <1>1, <1>2, <1>3, <1>4, <1>7 DEF LeaseCalls
<1>8. CASE Graphs
  BY <1>1, <1>2, <1>3, <1>4, <1>8 DEF Graphs
<1>9. CASE Reports
  BY <1>1, <1>2, <1>3, <1>4, <1>9 DEF Reports
<1>10. CASE Chunks
  BY <1>1, <1>2, <1>3, <1>4, <1>10 DEF Chunks
<1>11. CASE Limits
  BY <1>1, <1>2, <1>3, <1>4, <1>11 DEF Limits
<1>12. CASE Observations
  BY <1>1, <1>2, <1>3, <1>4, <1>12 DEF Observations
<1>13. CASE Publishes
  BY <1>1, <1>2, <1>3, <1>4, <1>13 DEF Publishes
<1>14. CASE Requests
  BY <1>1, <1>2, <1>3, <1>4, <1>14 DEF Requests
<1> QED
  BY <1>5, <1>6, <1>7, <1>8, <1>9, <1>10, <1>11, <1>12, <1>13, <1>14 DEF LibraryNext

\* Together the parts behave as each does alone, so what is proved of a part's
\* own specification holds of the library the run checks.
THEOREM PartsApart ==
  LibrarySpec => /\ Spec /\ Leases!Spec /\ Graph!Spec /\ Retention!Spec
                 /\ Upload!Spec /\ Limiter!Spec /\ Timings!Spec /\ Events!Spec
<1>1. LibraryInit => /\ Init /\ Leases!Init /\ Graph!Init /\ Retention!Init
                     /\ Upload!Init /\ Limiter!Init /\ Timings!Init /\ Events!Init
  BY DEF LibraryInit
<1>2. [LibraryNext]_<<vars, others>> =>
        /\ [Next]_vars /\ [Leases!Next]_(Leases!vars) /\ [Graph!Next]_(Graph!vars)
        /\ [Retention!Next]_(Retention!vars) /\ [Upload!Next]_(Upload!vars)
        /\ [Limiter!Next]_(Limiter!vars) /\ [Timings!Next]_(Timings!vars)
        /\ [Events!Next]_(Events!vars)
  BY StepsApart
<1> QED
  BY <1>1, <1>2, PTL DEF LibrarySpec, Spec, Leases!Spec, Graph!Spec, Retention!Spec,
                         Upload!Spec, Limiter!Spec, Timings!Spec, Events!Spec
=============================================================================
