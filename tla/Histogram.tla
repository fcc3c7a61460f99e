------------------------------ MODULE Histogram ------------------------------
(***************************************************************************)
(* The histogram of platform/observability/metrics.go 24-64 and the        *)
(* reading of its quantiles by Snapshot.  Observe appends under the mutex, *)
(* counts atomically, and adds to the sum with a load and a store.  Values *)
(* are natural numbers: rounding is left out.                              *)
(***************************************************************************)
EXTENDS Integers, SequencesExt

CONSTANTS Observer, Value, Cap, MaxObserved

VARIABLES
  values, count, sum,
  observer,    \* per goroutine, the step of Observe it is at
  begun,       \* history: how many observations were begun, and their total
  total,
  overlapped,  \* history: were there ever two at a time?
  reading      \* the quantiles Snapshot has read, -1 for not yet

vars == <<values, count, sum, observer, begun, total, overlapped, reading>>

Idle == [pc |-> "idle", value |-> 0, old |-> 0]
NoReading == [median |-> -1, tail |-> -1]

Init ==
  /\ values = <<>> /\ count = 0 /\ sum = 0
  /\ observer = [p \in Observer |-> Idle]
  /\ begun = 0 /\ total = 0 /\ overlapped = FALSE
  /\ reading = NoReading

Go(p, local) == observer' = [observer EXCEPT ![p] = local]

Kept(v) == IF Len(values) < Cap THEN Append(values, v) ELSE values

Observe(p, v) ==
  /\ observer[p] = Idle /\ begun < MaxObserved
  /\ values' = Kept(v)
  /\ begun' = begun + 1 /\ total' = total + v
  /\ overlapped' = (overlapped \/ \E q \in Observer \ {p} : observer[q] # Idle)
  /\ Go(p, [pc |-> "count", value |-> v, old |-> 0])
  /\ UNCHANGED <<count, sum, reading>>

Count(p) ==
  /\ observer[p].pc = "count"
  /\ count' = count + 1
  /\ Go(p, [observer[p] EXCEPT !.pc = "load"])
  /\ UNCHANGED <<values, sum, begun, total, overlapped, reading>>

\* Seeded fault: what is not kept is not added either.
LoadOfKept(p) ==
  /\ observer[p].pc = "load"
  /\ IF Len(values) = Cap THEN Go(p, Idle) ELSE Go(p, [observer[p] EXCEPT !.pc = "store", !.old = sum])
  /\ UNCHANGED <<values, count, sum, begun, total, overlapped, reading>>

Load(p) ==
  /\ observer[p].pc = "load"
  /\ Go(p, [observer[p] EXCEPT !.pc = "store", !.old = sum])
  /\ UNCHANGED <<values, count, sum, begun, total, overlapped, reading>>

StoreSum(p) ==
  /\ observer[p].pc = "store"
  /\ sum' = observer[p].old + observer[p].value
  /\ Go(p, Idle)
  /\ UNCHANGED <<values, count, begun, total, overlapped, reading>>

\* q is in percent; the index is rounded down.
Quantile(q) ==
  IF values = <<>> THEN 0
  ELSE SortSeq(values, <)[((Len(values) - 1) * q) \div 100 + 1]

\* Snapshot takes the histogram's mutex once for each quantile.
ReadMedian ==
  /\ reading = NoReading
  /\ reading' = [reading EXCEPT !.median = Quantile(50)]
  /\ UNCHANGED <<values, count, sum, observer, begun, total, overlapped>>

ReadTail ==
  /\ reading.median # -1 /\ reading.tail = -1
  /\ reading' = [reading EXCEPT !.tail = Quantile(95)]
  /\ UNCHANGED <<values, count, sum, observer, begun, total, overlapped>>

Next ==
  \/ \E p \in Observer :
       Count(p) \/ Load(p) \/ StoreSum(p) \/ \E v \in Value : Observe(p, v)
  \/ ReadMedian \/ ReadTail

Spec == Init /\ [][Next]_vars

-----------------------------------------------------------------------------
(* Properties *)

Quiet == \A p \in Observer : observer[p] = Idle

\* Concurrent observations may lose parts of the sum but never invent any, and
\* when no two ever overlapped nothing is lost (metrics.go:38).
SumBounded == sum <= total /\ (Quiet /\ ~overlapped => sum = total)

\* The sum is that of the observations (metrics.go:38).
SumExact == Quiet => sum = total

\* The median of a snapshot is not above its 95th percentile (metrics.go:111).
QuantilesOrdered == reading.tail # -1 => reading.median <= reading.tail
=============================================================================
