------------------------------- MODULE Library -------------------------------
(***************************************************************************)
(* The parts of the program that keep their state to themselves: the quota *)
(* service, the lease manager, the reference graph and its sweeper, the    *)
(* retention report, the upload session of package uploader, the rate      *)
(* limiter, the histogram, the outbox record and the router.  They do not  *)
(* interact, so a behaviour is one of a single part, chosen in the initial *)
(* state; the other parts stay as they began.                              *)
(***************************************************************************)
EXTENDS QuotaService, Router

CONSTANTS
  Parts,                                       \* which parts are checked
  Caller, Owner, OwnerOf, Id, Ttl, MaxTime, None,  \* LeaseManager
  Digest,                                      \* ReferenceGraph and RetentionService
  Contents, Concurrent, MaxAdded,              \* ReferenceGraph
  Tag, KeepLast, PageLimit, MaxChanges,        \* RetentionService
  MaxByte, MaxChunks,                          \* Uploader
  Handler, Rate, Window, Delay, MaxNow,        \* RateLimiter
  Observer, Amount, Cap, MaxObserved,          \* Histogram
  Publisher, MaxCrashes, MaxFailures,          \* Outbox
  Names, References                            \* Router: repositories, and what is in them

\* A goroutine uses leases under one name, for durations that are not negative.
ASSUME LeaseAssumption == OwnerOf \in [Caller -> Owner] /\ Ttl \subseteq Nat /\ MaxTime \in Nat
ASSUME NoneAssumption == None \notin Id /\ None \notin Owner

VARIABLES
  part,
  leases, clock, call, told,                                          \* LeaseManager
  refs, edges, reverse, queue, seen, roots, keys, phase, added,       \* ReferenceGraph
  manifests, tags, changes, evaluation,                               \* RetentionService
  chunks, parts,                                                      \* Uploader
  entry, now, stamp, admitted,                                        \* RateLimiter
  values, count, sum, observer, begun, total, overlapped, reading,    \* Histogram
  record, publisher, crashes, failures,                               \* Outbox
  request                                                             \* Router

Leases == INSTANCE LeaseManager
Graph == INSTANCE ReferenceGraph
Retention == INSTANCE RetentionService
Upload == INSTANCE Uploader
Limiter == INSTANCE RateLimiter
Timings == INSTANCE Histogram WITH Value <- Amount
Events == INSTANCE Outbox

-----------------------------------------------------------------------------
(* Requests *)

AllWrites == UNION {Writes(r, id) : r \in Names, id \in References}
AllReads == UNION {Reads(r, id) : r \in Names, id \in References}
NoRequest == [method |-> "none"]

Ask == \E next \in AllWrites \union AllReads : request = NoRequest /\ request' = next

-----------------------------------------------------------------------------

leaseVars == <<leases, clock, call, told>>
graphVars == <<refs, edges, reverse, queue, seen, roots, keys, phase, added>>
retentionVars == <<manifests, tags, changes, evaluation>>
uploaderVars == <<chunks, parts>>
limiterVars == <<entry, now, stamp, admitted>>
histogramVars == <<values, count, sum, observer, begun, total, overlapped, reading>>
outboxVars == <<record, publisher, crashes, failures>>

others == <<part, leaseVars, graphVars, retentionVars, uploaderVars, limiterVars,
            histogramVars, outboxVars, request>>

LibraryInit ==
  /\ part \in Parts
  /\ Init /\ Leases!Init /\ Graph!Init /\ Retention!Init /\ Upload!Init
  /\ Limiter!Init /\ Timings!Init /\ Events!Init
  /\ part # "graph" => \A d \in Digest : refs[d] = <<>>
  /\ request = NoRequest

QuotaCalls == part = "quota" /\ Next /\ UNCHANGED others

LeaseCalls ==
  /\ part = "leases" /\ Leases!Next
  /\ UNCHANGED <<vars, part, graphVars, retentionVars, uploaderVars, limiterVars,
                 histogramVars, outboxVars, request>>

Graphs ==
  /\ part = "graph" /\ Graph!Next
  /\ UNCHANGED <<vars, part, leaseVars, retentionVars, uploaderVars, limiterVars,
                 histogramVars, outboxVars, request>>

Reports ==
  /\ part = "retention" /\ Retention!Next
  /\ UNCHANGED <<vars, part, leaseVars, graphVars, uploaderVars, limiterVars,
                 histogramVars, outboxVars, request>>

Chunks ==
  /\ part = "uploader" /\ Upload!Next
  /\ UNCHANGED <<vars, part, leaseVars, graphVars, retentionVars, limiterVars,
                 histogramVars, outboxVars, request>>

Limits ==
  /\ part = "limiter" /\ Limiter!Next
  /\ UNCHANGED <<vars, part, leaseVars, graphVars, retentionVars, uploaderVars,
                 histogramVars, outboxVars, request>>

Observations ==
  /\ part = "histogram" /\ Timings!Next
  /\ UNCHANGED <<vars, part, leaseVars, graphVars, retentionVars, uploaderVars,
                 limiterVars, outboxVars, request>>

Publishes ==
  /\ part = "outbox" /\ Events!Next
  /\ UNCHANGED <<vars, part, leaseVars, graphVars, retentionVars, uploaderVars,
                 limiterVars, histogramVars, request>>

Requests ==
  /\ part = "router" /\ Ask
  /\ UNCHANGED <<vars, part, leaseVars, graphVars, retentionVars, uploaderVars,
                 limiterVars, histogramVars, outboxVars>>

LibraryNext ==
  \/ QuotaCalls \/ LeaseCalls \/ Graphs \/ Reports \/ Chunks \/ Limits
  \/ Observations \/ Publishes \/ Requests

LibrarySpec ==
  /\ LibraryInit /\ [][LibraryNext]_<<vars, others>>
  /\ part = "outbox" => Events!Fairness

-----------------------------------------------------------------------------
(* Properties.  Those of the quota service are QuotaService's; of the others *)
(* each has the name it has in the module of its part, which explains it.    *)

\* The handler that was meant gets a request that writes, and sees the name and
\* the reference the client gave (router.go 48-130).
WritesArrive == request \in AllWrites => Arrives(request)

\* So does a request that reads (README.md:5, router.go 30-31).
ReadsArrive == request \in AllReads => Arrives(request)

PromiseKept == Leases!PromiseKept
DependentsExact == Graph!DependentsExact
SweepKeeps == Graph!SweepKeeps
DependentsOnce == Graph!DependentsOnce
TaggedReported == Retention!TaggedReported
ReportIsCollection == Retention!ReportIsCollection
PrefixExact == Upload!PrefixExact
ValidNeverOverlaps == Upload!ValidNeverOverlaps
AtMostTwice == Limiter!AtMostTwice
AtMostTwiceInWindow == Limiter!AtMostTwiceInWindow
SumBounded == Timings!SumBounded
SumExact == Timings!SumExact
QuantilesOrdered == Timings!QuantilesOrdered
AllPublished == part = "outbox" => Events!AllPublished
NotSentAgain == Events!NotSentAgain
=============================================================================
