----------------------------- MODULE LeaseManager -----------------------------
(***************************************************************************)
(* The lease manager of domain/lease.go.  Every operation is one critical  *)
(* section of its mutex, but the time it works with is an argument: the    *)
(* caller has read the clock before it got the mutex, and other operations *)
(* may have come in between with a later time.  The resource and the       *)
(* version of a lease are left out: nothing looks at them.                 *)
(***************************************************************************)
EXTENDS Integers

CONSTANTS
  Caller,      \* goroutines that use leases
  Owner,       \* the names they do it under
  OwnerOf,     \* the name of each
  Id,          \* lease ids
  Ttl,         \* durations asked for
  MaxTime,     \* a bound on the clock
  None

VARIABLES
  leases,  \* the manager's map
  clock,
  call,    \* per goroutine, the call it is about to make
  told     \* history: per owner and lease, the end it was last told, -1 for none

vars == <<leases, clock, call, told>>

NoLease == [owner |-> None, state |-> "none", until |-> 0]
NewLease(owner, until) == [owner |-> owner, state |-> "open", until |-> until]
NoCall == [op |-> "none", id |-> None, ttl |-> 0, now |-> 0]

Init ==
  /\ leases = [i \in Id |-> NoLease]
  /\ clock = 0
  /\ call = [g \in Caller |-> NoCall]
  /\ told = [o \in Owner |-> [i \in Id |-> -1]]

-----------------------------------------------------------------------------

\* Lease.Expired: at the instant of its end a lease is still held.
Expired(lease, now) == lease.state = "expired" \/ now > lease.until

\* Seeded fault: at the instant of its end a lease is over.
AcquirableAtEnd(lease, now) == lease.state # "open" \/ now >= lease.until

Acquirable(lease, now) == lease.state # "open" \/ Expired(lease, now)

\* What is stored, and what the caller is told.
Grant(g, i, lease, end) ==
  /\ leases' = [leases EXCEPT ![i] = lease]
  /\ told' = [told EXCEPT ![OwnerOf[g]][i] = end]

Done(g) == call' = [call EXCEPT ![g] = NoCall]

Holds(g, i) == told[OwnerOf[g]][i] >= 0

\* A caller renews and releases what it has been granted and not given up.
ReadClock(g, op, i, ttl) ==
  /\ call[g] = NoCall
  /\ op \in {"renew", "release"} => Holds(g, i)
  /\ call' = [call EXCEPT ![g] = [op |-> op, id |-> i, ttl |-> ttl, now |-> clock]]
  /\ UNCHANGED <<leases, clock, told>>

Acquire(g) ==
  /\ call[g].op = "acquire"
  /\ LET c == call[g]
     IN  IF Acquirable(leases[c.id], c.now)
         THEN Grant(g, c.id, NewLease(OwnerOf[g], c.now + c.ttl), c.now + c.ttl)
         ELSE UNCHANGED <<leases, told>>
  /\ Done(g)
  /\ UNCHANGED clock

Owned(lease, owner) == lease.state # "none" /\ lease.owner = owner

\* Lease.Renew looks at the owner and at the end, not at whether the lease is open.
Renew(g) ==
  /\ call[g].op = "renew"
  /\ LET c == call[g]
         lease == leases[c.id]
     IN  IF ~Owned(lease, OwnerOf[g])
         THEN Grant(g, c.id, lease, -1)
         ELSE IF Expired(lease, c.now)
         THEN Grant(g, c.id, [lease EXCEPT !.state = "expired"], -1)
         ELSE Grant(g, c.id, [lease EXCEPT !.until = c.now + c.ttl], c.now + c.ttl)
  /\ Done(g)
  /\ UNCHANGED clock

ReleasedAt(lease, now) == [owner |-> lease.owner, state |-> "released", until |-> now]

\* A lease that is over may be released as long as nobody has noticed.
Release(g) ==
  /\ call[g].op = "release"
  /\ LET c == call[g]
         lease == leases[c.id]
     IN  Grant(g, c.id,
               IF Owned(lease, OwnerOf[g]) /\ lease.state = "open"
               THEN ReleasedAt(lease, c.now) ELSE lease, -1)
  /\ Done(g)
  /\ UNCHANGED clock

Sweep(g) ==
  /\ call[g].op = "sweep"
  /\ leases' = [i \in Id |-> IF leases[i].state = "open" /\ Expired(leases[i], call[g].now)
                             THEN [leases[i] EXCEPT !.state = "expired"] ELSE leases[i]]
  /\ Done(g)
  /\ UNCHANGED <<clock, told>>

Tick ==
  /\ clock < MaxTime
  /\ clock' = clock + 1
  /\ UNCHANGED <<leases, call, told>>

Next ==
  \/ \E g \in Caller, op \in {"acquire", "renew", "release", "sweep"}, i \in Id, ttl \in Ttl :
       ReadClock(g, op, i, ttl)
  \/ \E g \in Caller : Acquire(g) \/ Renew(g) \/ Release(g) \/ Sweep(g)
  \/ Tick

Spec == Init /\ [][Next]_vars

-----------------------------------------------------------------------------
(* Properties *)

\* Every lease in the map has a state, an owner and, when it was released, an end
\* that has come; so has the time a call carries.
TypeOK ==
  /\ clock \in 0..MaxTime
  /\ \A i \in Id : leases[i] # NoLease =>
       /\ leases[i].state \in {"open", "released", "expired"} /\ leases[i].owner \in Owner
       /\ leases[i].state = "released" => leases[i].until <= clock
  /\ \A g \in Caller : call[g].now <= clock

\* Until the end it was last told an owner has the lease to itself: the manager
\* has it open under that owner's name and until then, so nobody can acquire it
\* (lease.go:35, 47, 65).
PromiseKept ==
  \A o \in Owner, i \in Id :
    told[o][i] >= clock =>
      leases[i].state = "open" /\ leases[i].owner = o /\ leases[i].until = told[o][i]
=============================================================================
