------------------------- MODULE ReplicationTaskProofs -------------------------
(***************************************************************************)
(* Proofs about modules ReplicationTask and CopyCoordinator, for clients   *)
(* that use an id once: a lease excludes every other copy of the task, of  *)
(* requests and of the coordinator's workers, and success is final.        *)
(***************************************************************************)
EXTENDS CopyCoordinator, Integers, TLAPS

TaskSet == [state : States, target : Target, until : Nat, attempts : Nat, version : Nat \ {0}]
RunnerSet == [pc : {"idle", "claim", "copy", "end"}, id : Id \union {None},
              task : TaskSet \union {NoTask}, until : Nat]

Typed ==
  /\ tasks \in [Id -> TaskSet \union {NoTask}]
  /\ clock \in Nat
  /\ runner \in [Runner -> RunnerSet]

Holds(r) == r.pc \in {"copy", "end"}

\* What a goroutine that has begun holds: a claimed task, then an ended one.
Busy(r) ==
  r.pc # "idle" =>
    /\ r.id \in Id /\ r.task \in TaskSet
    /\ r.pc # "end" => r.task.state = "running" /\ r.task.until = r.until

\* The version that the claim gave the task.
Since(r) == IF r.pc = "copy" THEN r.task.version ELSE r.task.version - 1

\* Whose claim is not stored yet: the stored task is as it was read, or newer.
FreshClaim(r, task, now) ==
  r.pc = "claim" =>
    /\ task.version # 0 /\ r.task.version - 1 <= task.version
    /\ task.version = r.task.version - 1 => task.state # "succeeded" /\ task.until <= now

\* Whose claim is stored: the stored task is the claimed one, or newer; it only
\* gets newer while the copy goes on when the lease has ended.
FreshCopy(r, task, now) ==
  Holds(r) =>
    /\ task.version # 0 /\ Since(r) <= task.version
    /\ task.version = Since(r) =>
         task.state = "running" /\ task.until = r.until /\ task.attempts = r.task.attempts
    /\ r.pc = "copy" /\ task.version # Since(r) => r.until <= now

Fresh(r) == FreshClaim(r, tasks[r.id], clock) /\ FreshCopy(r, tasks[r.id], clock)

\* No version has been claimed by two.
Distinct ==
  \A p, q \in Runner :
    p # q /\ Holds(runner[p]) /\ Holds(runner[q]) /\ runner[p].id = runner[q].id
      => Since(runner[p]) # Since(runner[q])

LeaseInv ==
  /\ Typed
  /\ \A p \in Runner : Busy(runner[p]) /\ Fresh(runner[p])
  /\ Distinct

-----------------------------------------------------------------------------

LEMMA RecordTypes ==
  ASSUME NEW task \in TaskSet, NEW now \in Nat
  PROVE  /\ Claimed(task, now) \in TaskSet
         /\ Claimed(task, now).state = "running" /\ Claimed(task, now).until = now + Lease
         /\ Claimed(task, now).version = task.version + 1
         /\ Claimed(task, now).attempts = task.attempts + 1
         /\ \A state \in {"succeeded", "failed"} :
              /\ Ended(task, state) \in TaskSet
              /\ Ended(task, state).version = task.version + 1
              /\ Ended(task, state).attempts = task.attempts
              /\ Ended(task, state).state = state
<1>1. now + Lease \in Nat /\ task.attempts + 1 \in Nat /\ task.version + 1 \in Nat \ {0}
  BY NumberAssumption DEF TaskSet
<1>2. /\ Claimed(task, now) \in TaskSet
      /\ Claimed(task, now).state = "running" /\ Claimed(task, now).until = now + Lease
      /\ Claimed(task, now).version = task.version + 1
      /\ Claimed(task, now).attempts = task.attempts + 1
  BY <1>1 DEF Claimed, TaskSet, States
<1>3. ASSUME NEW state \in {"succeeded", "failed"}
      PROVE  /\ Ended(task, state) \in TaskSet
             /\ Ended(task, state).version = task.version + 1
             /\ Ended(task, state).attempts = task.attempts
             /\ Ended(task, state).state = state
  <2>1. state \in States
    BY DEF States
  <2> QED
    BY <1>1, <2>1 DEF Ended, TaskSet
<1> QED
  BY <1>2, <1>3

LEMMA InitLease == Init => LeaseInv
<1> SUFFICES ASSUME Init PROVE LeaseInv
  OBVIOUS
<1>1. Typed
  BY DEF Init, Typed, RunnerSet, Idle
<1>2. \A p \in Runner : Busy(runner[p]) /\ Fresh(runner[p])
  BY DEF Init, Idle, Busy, Fresh, FreshClaim, FreshCopy, Holds
<1>3. Distinct
  BY DEF Init, Idle, Distinct, Holds
<1> QED
  BY <1>1, <1>2, <1>3 DEF LeaseInv

\* A goroutine that does not move keeps its part of the invariant when its task
\* keeps its record, or gets a newer one that was not its own to replace.
LEMMA OthersFresh ==
  ASSUME LeaseInv, Typed', clock' = clock, NEW q \in Runner, runner'[q] = runner[q],
         \A i \in Id : tasks'[i] # tasks[i] => tasks'[i].version = tasks[i].version + 1,
         Holds(runner[q]) /\ tasks'[runner[q].id] # tasks[runner[q].id] =>
           \/ tasks[runner[q].id].version # Since(runner[q])
           \/ tasks[runner[q].id].until <= clock
  PROVE  (Busy(runner[q]) /\ Fresh(runner[q]))'
<1> DEFINE r == runner[q]
           old == tasks[r.id]
           new == tasks'[r.id]
<1>1. Busy(r) /\ FreshClaim(r, old, clock) /\ FreshCopy(r, old, clock)
  BY DEF LeaseInv, Fresh
<1>2. CASE r.pc = "idle"
  BY <1>2, <1>1 DEF Fresh, FreshClaim, FreshCopy, Holds, Busy
<1>3. CASE r.pc # "idle"
  <2>1. /\ r.id \in Id /\ r.task.version \in Nat \ {0} /\ r.until \in Nat
        /\ old.version \in Nat /\ new.version \in Nat /\ clock \in Nat /\ Since(r) \in Nat
        /\ old.until \in Nat
    BY <1>1, <1>3 DEF LeaseInv, Typed, Busy, TaskSet, RunnerSet, NoTask, Since
  <2>2. new # old => new.version = old.version + 1
    BY <2>1
  <2>3. FreshClaim(r, new, clock)
    BY <1>1, <2>1, <2>2 DEF FreshClaim
  <2>4. FreshCopy(r, new, clock)
    BY <1>1, <2>1, <2>2 DEF FreshCopy, Holds
  <2> QED
    BY <1>1, <2>3, <2>4 DEF Fresh
<1> QED
  BY <1>2, <1>3

\* Distinct as long as one goroutine moves and its claim, if it holds one, is
\* its own or newer than every other.
LEMMA OthersDistinct ==
  ASSUME LeaseInv, Typed', NEW p \in Runner, \A q \in Runner \ {p} : runner'[q] = runner[q],
         \A q \in Runner \ {p} :
           Holds(runner[q]) /\ Holds(runner'[p]) /\ runner[q].id = runner'[p].id
             => Since(runner[q]) # Since(runner'[p])
  PROVE  Distinct'
<1> SUFFICES ASSUME NEW a \in Runner, NEW b \in Runner, a # b,
                    Holds(runner'[a]), Holds(runner'[b]), runner'[a].id = runner'[b].id
             PROVE  Since(runner'[a]) # Since(runner'[b])
  BY DEF Distinct, Holds, Since
<1>1. CASE a = p
  BY <1>1
<1>2. CASE b = p
  BY <1>2
<1>3. CASE a # p /\ b # p
  BY <1>3 DEF LeaseInv, Distinct
<1> QED
  BY <1>1, <1>2, <1>3

\* What the invariant says of one goroutine, with the types of what it compares.
LEMMA RunnerFacts ==
  ASSUME LeaseInv, NEW p \in Runner, runner[p].pc # "idle"
  PROVE  /\ runner[p] \in RunnerSet /\ runner[p].id \in Id /\ runner[p].task \in TaskSet
         /\ runner[p].task.version \in Nat \ {0} /\ runner[p].until \in Nat
         /\ tasks[runner[p].id] \in TaskSet
         /\ tasks[runner[p].id].version \in Nat \ {0} /\ tasks[runner[p].id].until \in Nat
         /\ runner[p].pc # "end" =>
              runner[p].task.state = "running" /\ runner[p].task.until = runner[p].until
         /\ FreshClaim(runner[p], tasks[runner[p].id], clock)
         /\ FreshCopy(runner[p], tasks[runner[p].id], clock)
         /\ clock \in Nat
<1>1. /\ runner[p] \in RunnerSet /\ tasks \in [Id -> TaskSet \union {NoTask}] /\ clock \in Nat
      /\ Busy(runner[p]) /\ Fresh(runner[p])
  BY DEF LeaseInv, Typed
<1>2. runner[p].id \in Id /\ runner[p].task \in TaskSet /\ runner[p].until \in Nat
  BY <1>1 DEF Busy, RunnerSet
<1>3. tasks[runner[p].id].version # 0
  BY <1>1 DEF Fresh, FreshClaim, FreshCopy, Holds, RunnerSet
<1>4. tasks[runner[p].id] \in TaskSet
  BY <1>1, <1>2, <1>3 DEF NoTask
<1> QED
  BY <1>1, <1>2, <1>4 DEF TaskSet, Busy, Fresh

LEMMA CreateLease ==
  ASSUME LeaseInv, ~Recreation, NEW i \in Id, NEW t \in Target, CreateReplication(i, t)
  PROVE  LeaseInv'
<1> DEFINE made == Queued(t)
<1>1. made \in TaskSet /\ made.version = 1
  BY DEF Queued, TaskSet, States
<1>2. /\ tasks[i] = NoTask /\ tasks' = [tasks EXCEPT ![i] = made]
      /\ runner' = runner /\ clock' = clock
  BY DEF CreateReplication
<1>3. Typed'
  BY <1>1, <1>2 DEF LeaseInv, Typed
<1>4. \A j \in Id : tasks'[j] # tasks[j] => j = i /\ tasks'[j].version = tasks[j].version + 1
  BY <1>1, <1>2 DEF LeaseInv, Typed, NoTask
<1>5. ASSUME NEW q \in Runner, Holds(runner[q]) PROVE tasks'[runner[q].id] = tasks[runner[q].id]
  <2>1. runner[q].id \in Id /\ tasks[runner[q].id].version # 0
    BY <1>5, RunnerFacts DEF Holds
  <2> QED
    BY <2>1, <1>2, <1>4 DEF NoTask
<1>6. ASSUME NEW q \in Runner PROVE (Busy(runner[q]) /\ Fresh(runner[q]))'
  BY <1>2, <1>3, <1>4, <1>5, OthersFresh
<1>7. Distinct'
  BY <1>2 DEF LeaseInv, Distinct
<1> QED
  BY <1>3, <1>6, <1>7 DEF LeaseInv

LEMMA TickLease ==
  ASSUME LeaseInv, Tick
  PROVE  LeaseInv'
<1>1. clock \in Nat /\ clock' = clock + 1 /\ tasks' = tasks /\ runner' = runner
  BY DEF LeaseInv, Typed, Tick
<1>2. Typed' /\ Distinct'
  BY <1>1 DEF LeaseInv, Typed, Distinct
<1>3. ASSUME NEW q \in Runner PROVE (Busy(runner[q]) /\ Fresh(runner[q]))'
  <2>1. CASE runner[q].pc = "idle"
    BY <2>1, <1>1 DEF Busy, Fresh, FreshClaim, FreshCopy, Holds
  <2>2. CASE runner[q].pc # "idle"
    <3>1. FreshClaim(runner[q], tasks[runner[q].id], clock + 1)
      BY <2>2, <1>1, RunnerFacts DEF FreshClaim
    <3>2. FreshCopy(runner[q], tasks[runner[q].id], clock + 1)
      BY <2>2, <1>1, RunnerFacts DEF FreshCopy
    <3> QED
      BY <1>1, <3>1, <3>2 DEF LeaseInv, Fresh
  <2> QED
    BY <2>1, <2>2
<1> QED
  BY <1>2, <1>3 DEF LeaseInv

LEMMA RunLease ==
  ASSUME LeaseInv, NEW p \in Runner, NEW i \in Id, RunReplication(p, i)
  PROVE  LeaseInv'
<1> DEFINE new == [pc |-> "claim", id |-> i, task |-> Claimed(tasks[i], clock),
                   until |-> clock + Lease]
<1>1. /\ tasks' = tasks /\ clock' = clock /\ runner' = [runner EXCEPT ![p] = new]
      /\ tasks[i] \in TaskSet /\ clock \in Nat /\ clock + Lease \in Nat
      /\ Claimable(tasks[i], clock)
  BY NumberAssumption DEF RunReplication, Go, LeaseInv, Typed
<1>2. /\ new.task \in TaskSet /\ new.task.state = "running" /\ new.task.until = new.until
      /\ new.task.version = tasks[i].version + 1 /\ tasks[i].version \in Nat \ {0}
  BY <1>1, RecordTypes DEF TaskSet
<1>3. Typed'
  BY <1>1, <1>2 DEF LeaseInv, Typed, RunnerSet
<1>4. \A q \in Runner \ {p} : runner'[q] = runner[q]
  BY <1>1 DEF LeaseInv, Typed
<1>5. runner'[p] = new
  BY <1>1 DEF LeaseInv, Typed
<1>6. ASSUME NEW q \in Runner PROVE (Busy(runner[q]) /\ Fresh(runner[q]))'
  <2>1. CASE q = p
    BY <2>1, <1>1, <1>2, <1>5
    DEF Busy, Fresh, FreshClaim, FreshCopy, Holds, Claimable
  <2>2. CASE q # p
    BY <2>2, <1>1, <1>3, <1>4, OthersFresh
  <2> QED
    BY <2>1, <2>2
<1>7. Distinct'
  BY <1>3, <1>4, <1>5, OthersDistinct DEF Holds
<1> QED
  BY <1>3, <1>6, <1>7 DEF LeaseInv

\* Going idle disturbs nothing.
LEMMA IdleLease ==
  ASSUME LeaseInv, NEW p \in Runner, Go(p, Idle), UNCHANGED <<tasks, clock>>
  PROVE  LeaseInv'
<1>1. /\ runner' = [runner EXCEPT ![p] = Idle] /\ tasks' = tasks /\ clock' = clock
      /\ \A q \in Runner \ {p} : runner'[q] = runner[q]
      /\ runner'[p] = Idle
  BY DEF Go, LeaseInv, Typed
<1>2. Typed'
  BY <1>1 DEF LeaseInv, Typed, RunnerSet, Idle
<1>3. ASSUME NEW q \in Runner PROVE (Busy(runner[q]) /\ Fresh(runner[q]))'
  <2>1. CASE q = p
    BY <2>1, <1>1 DEF Busy, Fresh, FreshClaim, FreshCopy, Holds, Idle
  <2>2. CASE q # p
    BY <2>2, <1>1, <1>2, OthersFresh
  <2> QED
    BY <2>1, <2>2
<1>4. Distinct'
  BY <1>1, <1>2, OthersDistinct DEF Holds, Idle
<1> QED
  BY <1>2, <1>3, <1>4 DEF LeaseInv

LEMMA StoreClaimLease ==
  ASSUME LeaseInv, NEW p \in Runner, StoreClaim(p)
  PROVE  LeaseInv'
<1> DEFINE r == runner[p]
           old == tasks[r.id]
           new == [r EXCEPT !.pc = "copy"]
<1>1. CASE ~SameTask(r.id, r.task.version - 1)
  BY <1>1, IdleLease DEF StoreClaim
<1>2. CASE SameTask(r.id, r.task.version - 1)
  <2>1. /\ r.pc = "claim" /\ clock' = clock
        /\ tasks' = [tasks EXCEPT ![r.id] = r.task]
        /\ runner' = [runner EXCEPT ![p] = new]
    BY <1>2 DEF StoreClaim, Go
  <2>2. /\ r \in RunnerSet /\ r.id \in Id /\ r.task \in TaskSet
        /\ r.task.version \in Nat \ {0} /\ r.until \in Nat /\ clock \in Nat
        /\ old.version \in Nat \ {0} /\ old.until \in Nat
        /\ r.task.state = "running" /\ r.task.until = r.until
        /\ old.version = r.task.version - 1 /\ old.until <= clock
    BY <1>2, <2>1, RunnerFacts DEF SameTask, FreshClaim
  <2>3. /\ new.pc = "copy" /\ new.id = r.id /\ new.task = r.task /\ new.until = r.until
        /\ new \in RunnerSet
    BY <2>2 DEF RunnerSet
  <2>4. Typed' /\ runner'[p] = new /\ (\A q \in Runner \ {p} : runner'[q] = runner[q])
    BY <2>1, <2>2, <2>3 DEF LeaseInv, Typed
  <2>5. /\ tasks'[r.id] = r.task
        /\ \A i \in Id : tasks'[i] # tasks[i] => i = r.id /\ tasks'[i].version = tasks[i].version + 1
    BY <2>1, <2>2 DEF LeaseInv, Typed
  <2>6. ASSUME NEW q \in Runner PROVE (Busy(runner[q]) /\ Fresh(runner[q]))'
    <3>1. CASE q = p
      BY <3>1, <2>2, <2>3, <2>4, <2>5 DEF Busy, Fresh, FreshClaim, FreshCopy, Holds, Since
    <3>2. CASE q # p
      BY <3>2, <2>1, <2>2, <2>4, <2>5, OthersFresh
    <3> QED
      BY <3>1, <3>2
  <2>7. ASSUME NEW q \in Runner \ {p}, Holds(runner[q]), runner[q].id = new.id
        PROVE  Since(runner[q]) # Since(new)
    <3>1. Since(runner[q]) <= old.version /\ Since(runner[q]) \in Int
      BY <2>3, <2>7, RunnerFacts DEF Holds, FreshCopy, Since
    <3> QED
      BY <3>1, <2>2, <2>3 DEF Since
  <2>8. Distinct'
    BY <2>4, <2>7, OthersDistinct
  <2> QED
    BY <2>4, <2>6, <2>8 DEF LeaseInv
<1> QED
  BY <1>1, <1>2

LEMMA CopyLease ==
  ASSUME LeaseInv, NEW p \in Runner, Copy(p)
  PROVE  LeaseInv'
<1> DEFINE r == runner[p]
<1>1. PICK state \in {"succeeded", "failed"} :
        Go(p, [r EXCEPT !.pc = "end", !.task = Ended(@, state)])
  BY DEF Copy
<1> DEFINE new == [r EXCEPT !.pc = "end", !.task = Ended(@, state)]
<1>2. r.pc = "copy" /\ tasks' = tasks /\ clock' = clock /\ runner' = [runner EXCEPT ![p] = new]
  BY <1>1 DEF Copy, Go
<1>3. /\ r \in RunnerSet /\ r.id \in Id /\ r.task \in TaskSet /\ r.task.version \in Nat \ {0}
      /\ FreshCopy(r, tasks[r.id], clock) /\ tasks[r.id].version \in Nat \ {0}
  BY <1>2, RunnerFacts
<1>4. /\ Ended(r.task, state) \in TaskSet /\ Ended(r.task, state).version = r.task.version + 1
      /\ Ended(r.task, state).attempts = r.task.attempts
  BY <1>3, RecordTypes
<1>5. /\ new.pc = "end" /\ new.id = r.id /\ new.until = r.until
      /\ new.task = Ended(r.task, state) /\ new \in RunnerSet
  BY <1>3, <1>4 DEF RunnerSet
<1>6. Typed' /\ runner'[p] = new /\ (\A q \in Runner \ {p} : runner'[q] = runner[q])
  BY <1>2, <1>5 DEF LeaseInv, Typed
<1>7. Since(new) = Since(r)
  BY <1>2, <1>3, <1>4, <1>5 DEF Since
<1>8. ASSUME NEW q \in Runner PROVE (Busy(runner[q]) /\ Fresh(runner[q]))'
  <2>1. CASE q = p
    <3>1. FreshCopy(new, tasks[r.id], clock)
      BY <1>2, <1>3, <1>4, <1>5, <1>7 DEF FreshCopy, Holds
    <3>2. Busy(new) /\ FreshClaim(new, tasks[r.id], clock)
      BY <1>3, <1>4, <1>5 DEF Busy, FreshClaim
    <3>3. runner'[q] = new /\ tasks' = tasks /\ clock' = clock /\ new.id = r.id
      BY <2>1, <1>2, <1>5, <1>6
    <3> HIDE DEF new
    <3> QED
      BY <3>1, <3>2, <3>3 DEF Busy, Fresh
  <2>2. CASE q # p
    BY <2>2, <1>2, <1>6, OthersFresh
  <2> QED
    BY <2>1, <2>2
<1>9. Distinct'
  BY <1>2, <1>5, <1>6, <1>7, OthersDistinct DEF LeaseInv, Distinct, Holds
<1> QED
  BY <1>6, <1>8, <1>9 DEF LeaseInv

LEMMA StoreEndLease ==
  ASSUME LeaseInv, NEW p \in Runner, StoreEnd(p)
  PROVE  LeaseInv'
<1> DEFINE r == runner[p]
           old == tasks[r.id]
<1>1. CASE ~SameTask(r.id, r.task.version - 1)
  BY <1>1, IdleLease DEF StoreEnd
<1>2. CASE SameTask(r.id, r.task.version - 1)
  <2>1. /\ r.pc = "end" /\ clock' = clock
        /\ tasks' = [tasks EXCEPT ![r.id] = r.task]
        /\ runner' = [runner EXCEPT ![p] = Idle]
    BY <1>2 DEF StoreEnd, Go
  <2>2. /\ r.id \in Id /\ r.task \in TaskSet /\ r.task.version \in Nat \ {0}
        /\ old.version \in Nat \ {0} /\ old.version = r.task.version - 1
    BY <1>2, <2>1, RunnerFacts DEF SameTask
  <2>3. Typed' /\ runner'[p] = Idle /\ (\A q \in Runner \ {p} : runner'[q] = runner[q])
    BY <2>1, <2>2 DEF LeaseInv, Typed, RunnerSet, Idle
  <2>4. \A i \in Id : tasks'[i] # tasks[i] => i = r.id /\ tasks'[i].version = tasks[i].version + 1
    BY <2>1, <2>2 DEF LeaseInv, Typed
  <2>5. ASSUME NEW q \in Runner \ {p}, Holds(runner[q]), runner[q].id = r.id
        PROVE  old.version # Since(runner[q])
    BY <2>1, <2>2, <2>5 DEF LeaseInv, Distinct, Holds, Since
  <2>6. ASSUME NEW q \in Runner PROVE (Busy(runner[q]) /\ Fresh(runner[q]))'
    <3>1. CASE q = p
      BY <3>1, <2>3 DEF Busy, Fresh, FreshClaim, FreshCopy, Holds, Idle
    <3>2. CASE q # p
      <4>1. Holds(runner[q]) /\ tasks'[runner[q].id] # tasks[runner[q].id] =>
              tasks[runner[q].id].version # Since(runner[q])
        BY <3>2, <2>4, <2>5, RunnerFacts DEF Holds
      <4> QED
        BY <3>2, <4>1, <2>1, <2>3, <2>4, OthersFresh
    <3> QED
      BY <3>1, <3>2
  <2>7. Distinct'
    BY <2>3, OthersDistinct DEF Holds, Idle
  <2> QED
    BY <2>3, <2>6, <2>7 DEF LeaseInv
<1> QED
  BY <1>1, <1>2

LEMMA LeaseInductive ==
  ASSUME ~Recreation, LeaseInv, [Next]_vars
  PROVE  LeaseInv'
<1>1. ASSUME NEW i \in Id, NEW t \in Target, CreateReplication(i, t) PROVE LeaseInv'
  BY <1>1, CreateLease
<1>2. ASSUME NEW p \in Runner, NEW i \in Id, RunReplication(p, i) PROVE LeaseInv'
  BY <1>2, RunLease
<1>3. ASSUME NEW p \in Runner, RunnerStep(p) PROVE LeaseInv'
  BY <1>3, StoreClaimLease, CopyLease, StoreEndLease DEF RunnerStep
<1>4. CASE Tick
  BY <1>4, TickLease
<1>5. CASE UNCHANGED vars
  BY <1>5 DEF vars, LeaseInv, Typed, Busy, Fresh, Distinct
<1> QED
  BY <1>1, <1>2, <1>3, <1>4, <1>5 DEF Next

LEMMA LeaseImplies == LeaseInv => LeaseExcludes
<1> SUFFICES ASSUME LeaseInv, NEW i \in Id, NEW p \in Runner, NEW q \in Runner,
                    p # q, Copies(p, i), Copies(q, i)
             PROVE  runner[p].until <= clock \/ runner[q].until <= clock
  BY DEF LeaseExcludes
<1>1. Since(runner[p]) # Since(runner[q])
  BY DEF LeaseInv, Distinct, Copies, Holds
<1>2. \/ tasks[i].version # Since(runner[p])
      \/ tasks[i].version # Since(runner[q])
  BY <1>1
<1> QED
  BY <1>2, RunnerFacts DEF Copies, Holds, FreshCopy

\* A running copy whose lease has not ended excludes every other, for any number
\* of requests, tasks and attempts, if ids are used once (replication.go:34).
THEOREM LeaseRespected == ASSUME ~Recreation PROVE Spec => []LeaseExcludes
<1>1. LeaseInv /\ [Next]_vars => LeaseInv'
  BY LeaseInductive
<1> QED
  BY <1>1, InitLease, LeaseImplies, PTL DEF Spec

\* What succeeded stays so, and only the last claimant ends a task: a runner whose
\* claim was taken over changes nothing any more (catalog_more.go:248).
LEMMA StepOfTask ==
  ASSUME ~Recreation, LeaseInv, Next
  PROVE  /\ \A i \in Id : tasks[i].state = "succeeded" => tasks'[i] = tasks[i]
         /\ \A p \in Runner : StoreEnd(p) =>
              LET i == runner[p].id
              IN  tasks'[i] # tasks[i] =>
                    runner[p].task.attempts = tasks[i].attempts /\ tasks[i].state = "running"
<1>1. ASSUME NEW p \in Runner, StoreEnd(p), tasks'[runner[p].id] # tasks[runner[p].id]
      PROVE  /\ tasks[runner[p].id].state = "running"
             /\ runner[p].task.attempts = tasks[runner[p].id].attempts
  BY <1>1, RunnerFacts DEF StoreEnd, SameTask, FreshCopy, Holds, Since, LeaseInv, Typed
<1>2. ASSUME NEW i \in Id, tasks[i].state = "succeeded" PROVE tasks'[i] = tasks[i]
  <2>1. ASSUME NEW j \in Id, NEW t \in Target, CreateReplication(j, t) PROVE tasks'[i] = tasks[i]
    BY <1>2, <2>1 DEF CreateReplication, NoTask, LeaseInv, Typed
  <2>2. ASSUME NEW p \in Runner, StoreClaim(p) PROVE tasks'[i] = tasks[i]
    <3>1. runner[p].pc = "claim"
      BY <2>2 DEF StoreClaim
    <3>2. /\ FreshClaim(runner[p], tasks[runner[p].id], clock)
      BY <3>1, RunnerFacts
    <3> QED
      BY <1>2, <2>2, <3>1, <3>2 DEF StoreClaim, SameTask, FreshClaim, LeaseInv, Typed
  <2>3. ASSUME NEW p \in Runner, StoreEnd(p) PROVE tasks'[i] = tasks[i]
    BY <1>1, <1>2, <2>3 DEF StoreEnd, LeaseInv, Typed
  <2>4. ASSUME NEW p \in Runner, NEW j \in Id, Copy(p) \/ RunReplication(p, j) \/ Tick
        PROVE  tasks'[i] = tasks[i]
    BY <2>4 DEF Copy, RunReplication, Tick
  <2>5. CASE Tick
    BY <2>5 DEF Tick
  <2> QED
    BY <2>1, <2>2, <2>3, <2>4, <2>5 DEF Next, RunnerStep
<1> QED
  BY <1>1, <1>2

\* Success is final, for any number of requests, tasks and attempts, if ids are
\* used once (replication.go:31).
THEOREM SuccessHolds == ASSUME ~Recreation PROVE Spec => SuccessIsFinal
<1>1. LeaseInv /\ [Next]_vars => LeaseInv'
  BY LeaseInductive
<1>2. LeaseInv /\ [Next]_vars =>
        [\A i \in Id : tasks[i].state = "succeeded" => tasks'[i] = tasks[i]]_vars
  BY StepOfTask
<1> QED
  BY <1>1, <1>2, InitLease, PTL DEF Spec, SuccessIsFinal

\* A runner whose claim was taken over ends nothing, for any number of requests,
\* tasks and attempts, if ids are used once (lifecycle.go:135).
THEOREM ClaimantHolds == ASSUME ~Recreation PROVE Spec => EndedByClaimant
<1>1. LeaseInv /\ [Next]_vars => LeaseInv'
  BY LeaseInductive
<1>2. LeaseInv /\ [Next]_vars =>
        [\A p \in Runner : StoreEnd(p) =>
           LET i == runner[p].id
           IN  tasks'[i] # tasks[i] =>
                 runner[p].task.attempts = tasks[i].attempts /\ tasks[i].state = "running"]_vars
  BY StepOfTask
<1> QED
  BY <1>1, <1>2, InitLease, PTL DEF Spec, EndedByClaimant

-----------------------------------------------------------------------------
(* The requests beside the coordinator.  A claim is told by the number of   *)
(* its attempt, which no other has and the stored task has reached.         *)

WorkerSet == [id : Id, attempt : Nat \ {0}, until : Nat]
TurnSet == [op : {"begin", "checkpoint", "finish"}, worker : Worker, id : Id,
            task : TaskSet, seen : Nat \ {0}]

CopyTyped ==
  /\ worker \in [Worker -> WorkerSet \union {Resting}]
  /\ turn \in TurnSet \union {NoTurn}

\* What a claim that is not stored yet will make of the attempts.
NextAttempt(r, task) ==
  r.pc = "claim" /\ task.version = r.task.version - 1 => r.task.attempts = task.attempts + 1

Attempts ==
  /\ \A p \in Runner : NextAttempt(runner[p], tasks[runner[p].id])
  /\ \A p \in Runner : Holds(runner[p]) =>
       runner[p].task.attempts <= tasks[runner[p].id].attempts
  /\ \A w \in Worker : worker[w] # Resting => worker[w].attempt <= tasks[worker[w].id].attempts
  /\ \A p, q \in Runner :
       p # q /\ Holds(runner[p]) /\ Holds(runner[q]) /\ runner[p].id = runner[q].id
         => runner[p].task.attempts # runner[q].task.attempts
  /\ \A p \in Runner, w \in Worker :
       Holds(runner[p]) /\ worker[w] # Resting /\ runner[p].id = worker[w].id
         => runner[p].task.attempts # worker[w].attempt
  /\ \A v, w \in Worker :
       v # w /\ worker[v] # Resting /\ worker[w] # Resting /\ worker[v].id = worker[w].id
         => worker[v].attempt # worker[w].attempt

\* The stored task is the one the worker claimed.
Claims(wk, task) ==
  task.state = "running" /\ task.attempts = wk.attempt /\ task.until = wk.until

\* A worker's claim stands until its lease ends.
Standing ==
  \A w \in Worker : worker[w] # Resting /\ clock < worker[w].until
    => Claims(worker[w], tasks[worker[w].id])

\* What the call in the mutex will store replaces what it has read.
TurnFits(t, wk, task, now) ==
  /\ t.seen <= task.version /\ t.task.version = t.seen + 1
  /\ t.op = "begin" => wk = Resting /\ t.task.state = "running"
  /\ t.op # "begin" => wk # Resting /\ wk.id = t.id
  /\ task.version = t.seen =>
       /\ t.op = "begin" =>
            /\ task.state # "succeeded" /\ task.until <= now
            /\ t.task.attempts = task.attempts + 1
       /\ t.op # "begin" => Claims(wk, task) /\ t.task.attempts = task.attempts
       /\ t.op = "checkpoint" => Claims(wk, t.task)

TurnInv ==
  turn # NoTurn => TurnFits(turn, worker[turn.worker], tasks[turn.id], clock)

CopyInv == LeaseInv /\ CopyTyped /\ Attempts /\ Standing /\ TurnInv

LEMMA InitCopy == CopyInit => CopyInv
<1> SUFFICES ASSUME CopyInit PROVE CopyInv
  OBVIOUS
<1>1. LeaseInv /\ turn = NoTurn /\ \A w \in Worker : worker[w] = Resting
  BY InitLease DEF CopyInit
<1>2. CopyTyped
  BY DEF CopyInit, CopyTyped
<1>3. \A p \in Runner : runner[p].pc = "idle"
  BY DEF CopyInit, Init, Idle
<1>4. Attempts /\ Standing /\ TurnInv
  BY <1>1, <1>3 DEF Attempts, NextAttempt, Standing, TurnInv, Holds
<1> QED
  BY <1>1, <1>2, <1>4 DEF CopyInv

\* Time passes, and a task that changes is a newer one, with no fewer attempts.
Advances ==
  /\ clock' \in Nat /\ clock <= clock'
  /\ \A i \in Id : tasks'[i] # tasks[i] =>
       /\ tasks'[i] \in TaskSet /\ tasks'[i].version = tasks[i].version + 1
       /\ tasks[i].attempts <= tasks'[i].attempts

\* The numbers of a stored task.
LEMMA TaskNumbers ==
  ASSUME LeaseInv, NEW i \in Id
  PROVE  /\ tasks[i].version \in Nat /\ tasks[i].attempts \in Nat /\ tasks[i].until \in Nat
         /\ tasks[i] # NoTask => tasks[i] \in TaskSet
         /\ tasks[i].version # 0 => tasks[i] \in TaskSet
  BY DEF LeaseInv, Typed, TaskSet, NoTask

LEMMA WorkerFacts ==
  ASSUME CopyInv, NEW w \in Worker, worker[w] # Resting
  PROVE  /\ worker[w] \in WorkerSet /\ worker[w].id \in Id /\ worker[w].attempt \in Nat \ {0}
         /\ worker[w].until \in Nat /\ worker[w].attempt <= tasks[worker[w].id].attempts
         /\ clock \in Nat
         /\ tasks[worker[w].id] \in TaskSet
<1>1. /\ worker[w] \in WorkerSet /\ worker[w].id \in Id /\ worker[w].attempt \in Nat \ {0}
      /\ worker[w].until \in Nat /\ worker[w].attempt <= tasks[worker[w].id].attempts
      /\ clock \in Nat /\ LeaseInv
  BY DEF CopyInv, CopyTyped, WorkerSet, Attempts, LeaseInv, Typed
<1>2. tasks[worker[w].id].attempts # 0
  BY <1>1, TaskNumbers
<1>3. tasks[worker[w].id] \in TaskSet
  BY <1>1, <1>2, TaskNumbers DEF NoTask
<1> QED
  BY <1>1, <1>3

LEMMA TurnFacts ==
  ASSUME CopyInv, turn # NoTurn
  PROVE  /\ turn \in TurnSet /\ turn.worker \in Worker /\ turn.id \in Id /\ turn.task \in TaskSet
         /\ turn.seen \in Nat \ {0} /\ turn.op \in {"begin", "checkpoint", "finish"}
         /\ TurnFits(turn, worker[turn.worker], tasks[turn.id], clock)
         /\ clock \in Nat
  BY DEF CopyInv, CopyTyped, TurnSet, TurnInv, LeaseInv, Typed

\* A claim that is not stored yet stays what it will make of the task.
LEMMA NextStays ==
  ASSUME LeaseInv, Attempts, Advances, NEW q \in Runner, runner'[q] = runner[q]
  PROVE  NextAttempt(runner[q], tasks'[runner[q].id])
<1>1. CASE runner[q].pc # "claim"
  BY <1>1 DEF NextAttempt
<1>2. CASE runner[q].pc = "claim"
  <2>1. /\ runner[q].id \in Id /\ runner[q].task.version \in Nat
        /\ runner[q].task.version - 1 <= tasks[runner[q].id].version
        /\ tasks[runner[q].id].version \in Nat
    BY <1>2, RunnerFacts DEF FreshClaim
  <2>2. NextAttempt(runner[q], tasks[runner[q].id])
    BY DEF Attempts
  <2> QED
    BY <2>1, <2>2 DEF Advances, NextAttempt
<1> QED
  BY <1>1, <1>2

\* The attempts of those who hold a claim, which the stored tasks have reached.
LEMMA HeldAttempts ==
  ASSUME LeaseInv, Attempts, Advances
  PROVE  /\ \A q \in Runner : Holds(runner[q]) =>
              /\ runner[q].id \in Id /\ runner[q].task.attempts \in Nat
              /\ runner[q].task.attempts <= tasks[runner[q].id].attempts
              /\ runner[q].task.attempts <= tasks'[runner[q].id].attempts
              /\ tasks[runner[q].id].attempts \in Nat
<1> SUFFICES ASSUME NEW q \in Runner, Holds(runner[q])
             PROVE  /\ runner[q].id \in Id /\ runner[q].task.attempts \in Nat
                    /\ runner[q].task.attempts <= tasks[runner[q].id].attempts
                    /\ runner[q].task.attempts <= tasks'[runner[q].id].attempts
                    /\ tasks[runner[q].id].attempts \in Nat
  OBVIOUS
<1>1. runner[q].id \in Id /\ runner[q].task.attempts \in Nat
  BY RunnerFacts DEF Holds, TaskSet
<1>2. /\ tasks[runner[q].id].attempts \in Nat
      /\ runner[q].task.attempts <= tasks[runner[q].id].attempts
  BY <1>1, TaskNumbers DEF Attempts
<1>3. tasks'[runner[q].id] # tasks[runner[q].id] =>
        /\ tasks'[runner[q].id].attempts \in Nat
        /\ tasks[runner[q].id].attempts <= tasks'[runner[q].id].attempts
  BY <1>1 DEF Advances, TaskSet
<1> QED
  BY <1>1, <1>2, <1>3

LEMMA WorkedAttempts ==
  ASSUME CopyInv, Advances
  PROVE  \A w \in Worker : worker[w] # Resting =>
           /\ worker[w].id \in Id /\ worker[w].attempt \in Nat
           /\ worker[w].attempt <= tasks[worker[w].id].attempts
           /\ worker[w].attempt <= tasks'[worker[w].id].attempts
           /\ tasks[worker[w].id].attempts \in Nat
<1> SUFFICES ASSUME NEW w \in Worker, worker[w] # Resting
             PROVE  /\ worker[w].id \in Id /\ worker[w].attempt \in Nat
                    /\ worker[w].attempt <= tasks[worker[w].id].attempts
                    /\ worker[w].attempt <= tasks'[worker[w].id].attempts
                    /\ tasks[worker[w].id].attempts \in Nat
  OBVIOUS
<1>1. /\ worker[w].id \in Id /\ worker[w].attempt \in Nat
      /\ worker[w].attempt <= tasks[worker[w].id].attempts
      /\ tasks[worker[w].id].attempts \in Nat
  BY WorkerFacts DEF TaskSet
<1>2. tasks'[worker[w].id] # tasks[worker[w].id] =>
        /\ tasks'[worker[w].id].attempts \in Nat
        /\ tasks[worker[w].id].attempts <= tasks'[worker[w].id].attempts
  BY <1>1 DEF Advances, TaskSet
<1> QED
  BY <1>1, <1>2

\* Only one claimant moves, if any: it keeps its attempt, gives it up, or gets one
\* that the task had not reached.
LEMMA RunnerMoves ==
  ASSUME CopyInv, Advances, NEW p \in Runner, \A q \in Runner \ {p} : runner'[q] = runner[q],
         worker' = worker,
         NextAttempt(runner'[p], tasks'[runner'[p].id]),
         Holds(runner'[p]) =>
           /\ runner'[p].id \in Id /\ runner'[p].task.attempts \in Nat
           /\ runner'[p].task.attempts <= tasks'[runner'[p].id].attempts
           /\ \/ tasks[runner'[p].id].attempts < runner'[p].task.attempts
              \/ /\ Holds(runner[p]) /\ runner'[p].id = runner[p].id
                 /\ runner'[p].task.attempts = runner[p].task.attempts
  PROVE  Attempts'
<1>0. LeaseInv /\ Attempts
  BY DEF CopyInv
<1>1. \A q \in Runner : NextAttempt(runner'[q], tasks'[runner'[q].id])
  BY <1>0, NextStays
<1>2. \A q \in Runner : Holds(runner'[q]) =>
        runner'[q].task.attempts <= tasks'[runner'[q].id].attempts
  BY <1>0, HeldAttempts
<1>3. \A w \in Worker : worker'[w] # Resting =>
        worker'[w].attempt <= tasks'[worker'[w].id].attempts
  BY WorkedAttempts
<1>4. ASSUME NEW q \in Runner \ {p}, Holds(runner'[p]), Holds(runner[q]),
             runner[q].id = runner'[p].id
      PROVE  runner'[p].task.attempts # runner[q].task.attempts
  BY <1>0, <1>4, HeldAttempts DEF Attempts
<1>5. ASSUME NEW w \in Worker, Holds(runner'[p]), worker[w] # Resting,
             worker[w].id = runner'[p].id
      PROVE  runner'[p].task.attempts # worker[w].attempt
  BY <1>0, <1>5, WorkedAttempts DEF Attempts
<1>6. \A a, b \in Runner :
        a # b /\ Holds(runner'[a]) /\ Holds(runner'[b]) /\ runner'[a].id = runner'[b].id
          => runner'[a].task.attempts # runner'[b].task.attempts
  BY <1>0, <1>4 DEF Attempts
<1>7. \A a \in Runner, w \in Worker :
        Holds(runner'[a]) /\ worker'[w] # Resting /\ runner'[a].id = worker'[w].id
          => runner'[a].task.attempts # worker'[w].attempt
  BY <1>0, <1>5 DEF Attempts
<1> QED
  BY <1>0, <1>1, <1>2, <1>3, <1>6, <1>7 DEF Attempts, Holds, NextAttempt

LEMMA WorkerMoves ==
  ASSUME CopyInv, Advances, NEW w \in Worker, \A v \in Worker \ {w} : worker'[v] = worker[v],
         runner' = runner,
         worker'[w] # Resting =>
           /\ worker'[w].id \in Id /\ worker'[w].attempt \in Nat
           /\ worker'[w].attempt <= tasks'[worker'[w].id].attempts
           /\ \/ tasks[worker'[w].id].attempts < worker'[w].attempt
              \/ worker'[w] = worker[w]
  PROVE  Attempts'
<1>0. LeaseInv /\ Attempts
  BY DEF CopyInv
<1>1. \A q \in Runner : NextAttempt(runner'[q], tasks'[runner'[q].id])
  BY <1>0, NextStays
<1>2. \A q \in Runner : Holds(runner'[q]) =>
        runner'[q].task.attempts <= tasks'[runner'[q].id].attempts
  BY <1>0, HeldAttempts
<1>3. \A v \in Worker : worker'[v] # Resting =>
        worker'[v].attempt <= tasks'[worker'[v].id].attempts
  BY WorkedAttempts
<1>4. ASSUME NEW v \in Worker \ {w}, worker'[w] # Resting, worker[v] # Resting,
             worker[v].id = worker'[w].id
      PROVE  worker'[w].attempt # worker[v].attempt
  BY <1>0, <1>4, WorkedAttempts DEF Attempts
<1>5. ASSUME NEW q \in Runner, worker'[w] # Resting, Holds(runner[q]),
             runner[q].id = worker'[w].id
      PROVE  runner[q].task.attempts # worker'[w].attempt
  BY <1>0, <1>5, HeldAttempts DEF Attempts
<1>6. \A a, b \in Worker :
        a # b /\ worker'[a] # Resting /\ worker'[b] # Resting /\ worker'[a].id = worker'[b].id
          => worker'[a].attempt # worker'[b].attempt
  BY <1>0, <1>4 DEF Attempts
<1>7. \A q \in Runner, v \in Worker :
        Holds(runner'[q]) /\ worker'[v] # Resting /\ runner'[q].id = worker'[v].id
          => runner'[q].task.attempts # worker'[v].attempt
  BY <1>0, <1>5 DEF Attempts
<1>8. \A p, q \in Runner :
        p # q /\ Holds(runner'[p]) /\ Holds(runner'[q]) /\ runner'[p].id = runner'[q].id
          => runner'[p].task.attempts # runner'[q].task.attempts
  BY <1>0 DEF Attempts
<1> QED
  BY <1>0, <1>1, <1>2, <1>3, <1>6, <1>7, <1>8 DEF Attempts, Holds, NextAttempt

LEMMA NobodyMoves ==
  ASSUME CopyInv, Advances, runner' = runner, worker' = worker
  PROVE  Attempts'
<1>0. LeaseInv /\ Attempts
  BY DEF CopyInv
<1>1. \A q \in Runner : NextAttempt(runner'[q], tasks'[runner'[q].id])
  BY <1>0, NextStays
<1>2. \A q \in Runner : Holds(runner'[q]) =>
        runner'[q].task.attempts <= tasks'[runner'[q].id].attempts
  BY <1>0, HeldAttempts
<1>3. \A v \in Worker : worker'[v] # Resting =>
        worker'[v].attempt <= tasks'[worker'[v].id].attempts
  BY WorkedAttempts
<1> QED
  BY <1>0, <1>1, <1>2, <1>3 DEF Attempts, Holds, NextAttempt

\* A claim stands unless its task is replaced.
LEMMA StandingStays ==
  ASSUME CopyInv, Advances, \A w \in Worker : worker'[w] \in {worker[w], Resting},
         \A w \in Worker : worker[w] # Resting /\ clock < worker[w].until
           => tasks'[worker[w].id] = tasks[worker[w].id]
  PROVE  Standing'
<1> SUFFICES ASSUME NEW w \in Worker, worker[w] # Resting, clock' < worker[w].until
             PROVE  Claims(worker[w], tasks'[worker[w].id])
  BY DEF Standing, Claims
<1>1. clock < worker[w].until
  BY WorkerFacts DEF Advances
<1> QED
  BY <1>1 DEF CopyInv, Standing

\* What a call will store still fits, or its task has got newer than it has read.
LEMMA TurnStays ==
  ASSUME CopyInv, Advances, turn' = turn,
         turn # NoTurn => worker'[turn.worker] = worker[turn.worker]
  PROVE  TurnInv'
<1> SUFFICES ASSUME turn # NoTurn
             PROVE  TurnFits(turn, worker[turn.worker], tasks'[turn.id], clock')
  BY DEF TurnInv, TurnFits, Claims
<1>1. /\ turn.id \in Id /\ turn.seen \in Nat /\ clock \in Nat
      /\ TurnFits(turn, worker[turn.worker], tasks[turn.id], clock)
  BY TurnFacts
<1>2. tasks[turn.id].version \in Nat /\ tasks[turn.id].until \in Nat
  BY <1>1, TaskNumbers DEF CopyInv
<1>3. CASE tasks'[turn.id] = tasks[turn.id]
  BY <1>1, <1>2, <1>3 DEF Advances, TurnFits
<1>4. CASE tasks'[turn.id].version = tasks[turn.id].version + 1
  BY <1>1, <1>2, <1>4 DEF TurnFits
<1> QED
  BY <1>1, <1>3, <1>4 DEF Advances

\* A request's step beside the coordinator.
LEMMA RequestKeeps ==
  ASSUME CopyInv, LeaseInv', Advances, Attempts', UNCHANGED <<worker, turn>>,
         \A w \in Worker : worker[w] # Resting /\ clock < worker[w].until
           => tasks'[worker[w].id] = tasks[worker[w].id]
  PROVE  CopyInv'
<1>1. CopyTyped'
  BY DEF CopyInv, CopyTyped
<1>2. Standing'
  BY StandingStays
<1>3. TurnInv'
  BY TurnStays
<1> QED
  BY <1>1, <1>2, <1>3 DEF CopyInv

\* A step that leaves the tasks and the clock as they are.
LEMMA AdvanceIdle ==
  ASSUME LeaseInv, tasks' = tasks, clock' = clock
  PROVE  Advances
  BY DEF LeaseInv, Typed, Advances

LEMMA CreateCopy ==
  ASSUME CopyInv, LeaseInv', ~Recreation, UNCHANGED <<worker, turn>>,
         NEW i \in Id, NEW t \in Target, CreateReplication(i, t)
  PROVE  CopyInv'
<1> DEFINE made == Queued(t)
<1>1. made \in TaskSet /\ made.version = 1 /\ made.attempts = 0
  BY DEF Queued, TaskSet, States
<1>2. /\ tasks[i] = NoTask /\ tasks' = [tasks EXCEPT ![i] = made]
      /\ runner' = runner /\ clock' = clock /\ LeaseInv
  BY DEF CreateReplication, CopyInv
<1>3. Advances
  BY <1>1, <1>2 DEF LeaseInv, Typed, NoTask, Advances
<1>4. \A w \in Worker : worker[w] # Resting => worker[w].id \in Id /\ worker[w].id # i
  BY <1>2, WorkerFacts DEF TaskSet, NoTask
<1>5. \A w \in Worker : worker[w] # Resting => tasks'[worker[w].id] = tasks[worker[w].id]
  BY <1>2, <1>4 DEF LeaseInv, Typed
<1>6. Attempts'
  BY <1>2, <1>3, NobodyMoves
<1> QED
  BY <1>3, <1>5, <1>6, RequestKeeps

LEMMA TickCopy ==
  ASSUME CopyInv, LeaseInv', UNCHANGED <<worker, turn>>, Tick
  PROVE  CopyInv'
<1>1. Advances
  BY DEF CopyInv, LeaseInv, Typed, Advances, Tick
<1> QED
  BY <1>1, NobodyMoves, RequestKeeps DEF Tick

LEMMA RunCopy ==
  ASSUME CopyInv, LeaseInv', UNCHANGED <<worker, turn>>,
         NEW p \in Runner, NEW i \in Id, RunReplication(p, i)
  PROVE  CopyInv'
<1> DEFINE new == [pc |-> "claim", id |-> i, task |-> Claimed(tasks[i], clock),
                   until |-> clock + Lease]
<1>1. /\ tasks' = tasks /\ clock' = clock /\ runner' = [runner EXCEPT ![p] = new]
      /\ tasks[i] \in TaskSet /\ clock \in Nat /\ LeaseInv
  BY DEF RunReplication, Go, CopyInv, LeaseInv, Typed
<1>2. /\ new.task.version = tasks[i].version + 1 /\ tasks[i].version \in Nat
      /\ new.task.attempts = tasks[i].attempts + 1 /\ tasks[i].attempts \in Nat
  BY <1>1, RecordTypes DEF TaskSet
<1>3. runner'[p] = new /\ \A q \in Runner \ {p} : runner'[q] = runner[q]
  BY <1>1 DEF LeaseInv, Typed
<1>4. NextAttempt(new, tasks[i]) /\ ~Holds(new) /\ new.id = i
  BY <1>2 DEF NextAttempt, Holds
<1>5. Advances
  BY <1>1, AdvanceIdle
<1> HIDE DEF new
<1>6. Attempts'
  BY <1>1, <1>3, <1>4, <1>5, RunnerMoves
<1> QED
  BY <1>1, <1>5, <1>6, RequestKeeps

LEMMA IdleCopy ==
  ASSUME CopyInv, LeaseInv', UNCHANGED <<tasks, clock, worker, turn>>,
         NEW p \in Runner, Go(p, Idle)
  PROVE  CopyInv'
<1>1. LeaseInv /\ Advances
  BY AdvanceIdle DEF CopyInv
<1>2. runner'[p] = Idle /\ \A q \in Runner \ {p} : runner'[q] = runner[q]
  BY <1>1 DEF Go, LeaseInv, Typed
<1>3. NextAttempt(Idle, tasks'[Idle.id]) /\ ~Holds(Idle)
  BY DEF Idle, NextAttempt, Holds
<1>4. Attempts'
  BY <1>1, <1>2, <1>3, RunnerMoves
<1> QED
  BY <1>1, <1>4, RequestKeeps

LEMMA StoreClaimCopy ==
  ASSUME CopyInv, LeaseInv', UNCHANGED <<worker, turn>>, NEW p \in Runner, StoreClaim(p)
  PROVE  CopyInv'
<1> DEFINE r == runner[p]
           old == tasks[r.id]
           new == [r EXCEPT !.pc = "copy"]
<1>1. CASE ~SameTask(r.id, r.task.version - 1)
  BY <1>1, IdleCopy DEF StoreClaim
<1>2. CASE SameTask(r.id, r.task.version - 1)
  <2>1. /\ r.pc = "claim" /\ clock' = clock /\ LeaseInv
        /\ tasks' = [tasks EXCEPT ![r.id] = r.task]
        /\ runner' = [runner EXCEPT ![p] = new]
    BY <1>2 DEF StoreClaim, Go, CopyInv
  <2>2. /\ r \in RunnerSet /\ r.id \in Id /\ r.task \in TaskSet /\ clock \in Nat
        /\ r.task.version \in Nat \ {0} /\ r.task.attempts \in Nat
        /\ old.version \in Nat \ {0} /\ old.until \in Nat /\ old.attempts \in Nat
        /\ old.version = r.task.version - 1 /\ old.until <= clock
    BY <1>2, <2>1, RunnerFacts, TaskNumbers DEF SameTask, FreshClaim, TaskSet
  <2>3. r.task.attempts = old.attempts + 1
    BY <2>1, <2>2 DEF CopyInv, Attempts, NextAttempt
  <2>4. new.pc = "copy" /\ new.id = r.id /\ new.task = r.task
    BY <2>2 DEF RunnerSet
  <2>5. runner'[p] = new /\ \A q \in Runner \ {p} : runner'[q] = runner[q]
    BY <2>1 DEF LeaseInv, Typed
  <2>6. tasks'[r.id] = r.task /\ \A i \in Id : tasks'[i] # tasks[i] => i = r.id
    BY <2>1, <2>2 DEF LeaseInv, Typed
  <2>7. Advances
    BY <2>1, <2>2, <2>3, <2>6 DEF Advances
  <2>8. NextAttempt(new, tasks'[new.id])
    BY <2>4 DEF NextAttempt
  <2> HIDE DEF new
  <2>9. Attempts'
    BY <2>2, <2>3, <2>4, <2>5, <2>6, <2>7, <2>8, RunnerMoves
  <2>10. ASSUME NEW w \in Worker, worker[w] # Resting, clock < worker[w].until
         PROVE  tasks'[worker[w].id] = tasks[worker[w].id]
    <3>1. worker[w].id \in Id /\ worker[w].until \in Nat /\ tasks[worker[w].id].until = worker[w].until
      BY <2>10, WorkerFacts DEF CopyInv, Standing, Claims
    <3> QED
      BY <3>1, <2>2, <2>6, <2>10
  <2> QED
    BY <2>7, <2>9, <2>10, RequestKeeps
<1> QED
  BY <1>1, <1>2

LEMMA CopyCopy ==
  ASSUME CopyInv, LeaseInv', UNCHANGED <<worker, turn>>, NEW p \in Runner, Copy(p)
  PROVE  CopyInv'
<1> DEFINE r == runner[p]
<1>1. PICK state \in {"succeeded", "failed"} :
        Go(p, [r EXCEPT !.pc = "end", !.task = Ended(@, state)])
  BY DEF Copy
<1> DEFINE new == [r EXCEPT !.pc = "end", !.task = Ended(@, state)]
<1>2. /\ r.pc = "copy" /\ tasks' = tasks /\ clock' = clock
      /\ runner' = [runner EXCEPT ![p] = new] /\ LeaseInv
  BY <1>1 DEF Copy, Go, CopyInv
<1>3. r \in RunnerSet /\ r.id \in Id /\ r.task \in TaskSet
  BY <1>2, RunnerFacts
<1>4. Ended(r.task, state).attempts = r.task.attempts
  BY <1>3, RecordTypes
<1>5. new.pc = "end" /\ new.id = r.id /\ new.task.attempts = r.task.attempts
  BY <1>3, <1>4 DEF RunnerSet
<1>6. runner'[p] = new /\ \A q \in Runner \ {p} : runner'[q] = runner[q]
  BY <1>2 DEF LeaseInv, Typed
<1>7. NextAttempt(new, tasks'[new.id])
  BY <1>5 DEF NextAttempt
<1>8. Advances
  BY <1>2, AdvanceIdle
<1>9. /\ Holds(r) /\ r.task.attempts \in Nat
      /\ r.task.attempts <= tasks[r.id].attempts
  BY <1>2, <1>3 DEF Holds, TaskSet, CopyInv, Attempts
<1> HIDE DEF new
<1>10. Attempts'
  BY <1>2, <1>3, <1>5, <1>6, <1>7, <1>8, <1>9, RunnerMoves
<1> QED
  BY <1>2, <1>8, <1>10, RequestKeeps

LEMMA StoreEndCopy ==
  ASSUME CopyInv, LeaseInv', UNCHANGED <<worker, turn>>, NEW p \in Runner, StoreEnd(p)
  PROVE  CopyInv'
<1> DEFINE r == runner[p]
           old == tasks[r.id]
<1>1. CASE ~SameTask(r.id, r.task.version - 1)
  BY <1>1, IdleCopy DEF StoreEnd
<1>2. CASE SameTask(r.id, r.task.version - 1)
  <2>1. /\ r.pc = "end" /\ clock' = clock /\ LeaseInv
        /\ tasks' = [tasks EXCEPT ![r.id] = r.task]
        /\ runner' = [runner EXCEPT ![p] = Idle]
    BY <1>2 DEF StoreEnd, Go, CopyInv
  <2>2. /\ r.id \in Id /\ r.task \in TaskSet /\ r.task.version \in Nat \ {0} /\ clock \in Nat
        /\ r.task.attempts \in Nat
        /\ old.version \in Nat \ {0} /\ old.version = r.task.version - 1
        /\ FreshCopy(r, old, clock)
    BY <1>2, <2>1, RunnerFacts DEF SameTask, TaskSet
  <2>3. Holds(r) /\ old.attempts = r.task.attempts
    BY <2>1, <2>2 DEF FreshCopy, Holds, Since
  <2>4. runner'[p] = Idle /\ \A q \in Runner \ {p} : runner'[q] = runner[q]
    BY <2>1 DEF LeaseInv, Typed
  <2>5. tasks'[r.id] = r.task /\ \A i \in Id : tasks'[i] # tasks[i] => i = r.id
    BY <2>1, <2>2 DEF LeaseInv, Typed
  <2>6. Advances
    BY <2>1, <2>2, <2>3, <2>5 DEF Advances
  <2>7. NextAttempt(Idle, tasks'[Idle.id]) /\ ~Holds(Idle)
    BY DEF Idle, NextAttempt, Holds
  <2>8. Attempts'
    BY <2>4, <2>6, <2>7, RunnerMoves
  <2>9. ASSUME NEW w \in Worker, worker[w] # Resting, clock < worker[w].until
        PROVE  tasks'[worker[w].id] = tasks[worker[w].id]
    <3>1. /\ worker[w].id \in Id /\ tasks[worker[w].id].attempts = worker[w].attempt
          /\ worker[w].id = r.id => r.task.attempts # worker[w].attempt
      BY <2>3, <2>9, WorkerFacts DEF CopyInv, Standing, Claims, Attempts
    <3> QED
      BY <3>1, <2>3, <2>5
  <2> QED
    BY <2>6, <2>8, <2>9, RequestKeeps
<1> QED
  BY <1>1, <1>2

\* A call that gets the mutex and reads its task changes neither.
LEMMA TakeCopy ==
  ASSUME CopyInv, NEW w \in Worker, NEW i \in Id, NEW task \in TaskSet,
         NEW op \in {"begin", "checkpoint", "finish"}, Take(w, op, i, task),
         tasks[i] \in TaskSet, task.version = tasks[i].version + 1,
         op = "begin" =>
           /\ worker[w] = Resting /\ task.state = "running"
           /\ tasks[i].state # "succeeded" /\ tasks[i].until <= clock
           /\ task.attempts = tasks[i].attempts + 1,
         op # "begin" =>
           /\ worker[w] # Resting /\ worker[w].id = i /\ Claims(worker[w], tasks[i])
           /\ task.attempts = tasks[i].attempts,
         op = "checkpoint" => Claims(worker[w], task)
  PROVE  CopyInv'
<1> DEFINE new == [op |-> op, worker |-> w, id |-> i, task |-> task, seen |-> tasks[i].version]
<1>1. /\ tasks' = tasks /\ clock' = clock /\ runner' = runner /\ worker' = worker
      /\ turn' = new /\ LeaseInv
  BY DEF Take, vars, CopyInv
<1>2. new \in TurnSet /\ tasks[i].version \in Nat
  BY DEF TurnSet, TaskSet
<1>3. LeaseInv'
  BY <1>1 DEF LeaseInv, Typed, Busy, Fresh, Distinct
<1>4. Advances
  BY <1>1, AdvanceIdle
<1>5. Attempts' /\ Standing'
  BY <1>1, <1>4, NobodyMoves, StandingStays
<1>6. CopyTyped'
  BY <1>1, <1>2 DEF CopyInv, CopyTyped
<1>7. TurnFits(new, worker[w], tasks[i], clock)
  BY <1>2 DEF TurnFits
<1>8. TurnInv'
  BY <1>1, <1>7 DEF TurnInv, TurnFits, Claims
<1> QED
  BY <1>3, <1>5, <1>6, <1>8 DEF CopyInv

LEMMA BeginCopy ==
  ASSUME CopyInv, NEW w \in Worker, NEW i \in Id, Begin(w, i)
  PROVE  CopyInv'
<1> DEFINE claim == Claimed(tasks[i], clock)
           task == [claim EXCEPT !.until = clock + LongLease]
<1>1. /\ worker[w] = Resting /\ tasks[i] \in TaskSet /\ clock \in Nat
      /\ Claimable(tasks[i], clock) /\ Take(w, "begin", i, task)
  BY DEF Begin, CopyInv, LeaseInv, Typed
<1>2. /\ claim \in TaskSet /\ claim.state = "running"
      /\ claim.version = tasks[i].version + 1 /\ claim.attempts = tasks[i].attempts + 1
  BY <1>1, RecordTypes
<1>3. clock + LongLease \in Nat
  BY <1>1, WorkerAssumption
<1> HIDE DEF claim
<1>4. /\ task \in TaskSet /\ task.state = "running"
      /\ task.version = tasks[i].version + 1 /\ task.attempts = tasks[i].attempts + 1
  BY <1>2, <1>3 DEF TaskSet
<1> QED
  BY <1>1, <1>4, TakeCopy DEF Claimable, claim

\* A worker that reports has the claim the stored task is under.
LEMMA ReportsClaim ==
  ASSUME CopyInv, Prompt, NEW w \in Worker, Reports(w)
  PROVE  /\ worker[w] # Resting /\ worker[w].id \in Id /\ tasks[worker[w].id] \in TaskSet
         /\ Claims(worker[w], tasks[worker[w].id])
  BY WorkerFacts DEF Reports, CopyInv, Standing

LEMMA CheckpointCopy ==
  ASSUME CopyInv, Prompt, NEW w \in Worker, Checkpoint(w)
  PROVE  CopyInv'
<1> DEFINE i == worker[w].id
           task == [tasks[i] EXCEPT !.version = @ + 1]
<1>1. /\ worker[w] # Resting /\ i \in Id /\ tasks[i] \in TaskSet /\ Claims(worker[w], tasks[i])
      /\ Take(w, "checkpoint", i, task)
  BY ReportsClaim DEF Checkpoint
<1>2. /\ task \in TaskSet /\ task.version = tasks[i].version + 1
      /\ task.attempts = tasks[i].attempts /\ task.state = tasks[i].state
      /\ task.until = tasks[i].until
  BY <1>1 DEF TaskSet
<1>3. Claims(worker[w], task)
  BY <1>1, <1>2 DEF Claims
<1> HIDE DEF task
<1> QED
  BY <1>1, <1>2, <1>3, TakeCopy

LEMMA FinishCopy ==
  ASSUME CopyInv, Prompt, NEW w \in Worker, Finish(w)
  PROVE  CopyInv'
<1> DEFINE i == worker[w].id
<1>1. PICK state \in {"succeeded", "failed"} : Take(w, "finish", i, Ended(tasks[i], state))
  BY DEF Finish
<1>2. worker[w] # Resting /\ i \in Id /\ tasks[i] \in TaskSet /\ Claims(worker[w], tasks[i])
  BY ReportsClaim DEF Finish
<1>3. /\ Ended(tasks[i], state) \in TaskSet
      /\ Ended(tasks[i], state).version = tasks[i].version + 1
      /\ Ended(tasks[i], state).attempts = tasks[i].attempts
  BY <1>2, RecordTypes
<1> QED
  BY <1>1, <1>2, <1>3, TakeCopy

LEMMA LeaveCopy ==
  ASSUME CopyInv, NEW w \in Worker, Leave(w)
  PROVE  CopyInv'
<1>1. /\ tasks' = tasks /\ clock' = clock /\ runner' = runner /\ turn' = turn
      /\ worker' = [worker EXCEPT ![w] = Resting] /\ turn.worker # w /\ LeaseInv
  BY DEF Leave, vars, CopyInv
<1>2. LeaseInv'
  BY <1>1 DEF LeaseInv, Typed, Busy, Fresh, Distinct
<1>3. Advances
  BY <1>1, AdvanceIdle
<1>4. CopyTyped' /\ worker'[w] = Resting /\ \A v \in Worker \ {w} : worker'[v] = worker[v]
  BY <1>1 DEF CopyInv, CopyTyped
<1>5. Attempts'
  BY <1>1, <1>3, <1>4, WorkerMoves
<1>6. Standing'
  BY <1>1, <1>3, <1>4, StandingStays
<1>7. TurnInv'
  BY <1>1, <1>3, <1>4, TurnFacts, TurnStays
<1> QED
  BY <1>2, <1>4, <1>5, <1>6, <1>7 DEF CopyInv

\* No claim but the caller's own stands on a task that a call replaces.
LEMMA TurnExcludes ==
  ASSUME CopyInv, turn # NoTurn, tasks[turn.id].version = turn.seen
  PROVE  /\ \A w \in Worker \ {turn.worker} :
              worker[w] # Resting /\ worker[w].id = turn.id => worker[w].until <= clock
         /\ \A q \in Runner : Holds(runner[q]) /\ runner[q].id = turn.id =>
              \/ tasks[turn.id].version # Since(runner[q])
              \/ tasks[turn.id].until <= clock
<1> DEFINE t == turn
           old == tasks[t.id]
           wk == worker[t.worker]
<1>1. /\ t.worker \in Worker /\ t.id \in Id /\ t.op \in {"begin", "checkpoint", "finish"}
      /\ TurnFits(t, wk, old, clock) /\ clock \in Nat
  BY TurnFacts
<1>2. t.op = "begin" => old.until <= clock
  BY <1>1 DEF TurnFits
<1>3. t.op # "begin" => wk # Resting /\ wk.id = t.id /\ old.attempts = wk.attempt
  BY <1>1 DEF TurnFits, Claims
<1>4. ASSUME NEW w \in Worker \ {t.worker}, worker[w] # Resting, worker[w].id = t.id
      PROVE  worker[w].until <= clock
  <2>1. worker[w].until \in Nat
    BY <1>4, WorkerFacts
  <2>2. CASE clock < worker[w].until
    <3>1. old.until = worker[w].until /\ old.attempts = worker[w].attempt
      BY <1>4, <2>2 DEF CopyInv, Standing, Claims
    <3>2. t.op # "begin"
      BY <3>1, <2>1, <2>2, <1>1, <1>2
    <3> QED
      BY <1>1, <1>3, <1>4, <3>1, <3>2 DEF CopyInv, Attempts
  <2> QED
    BY <2>1, <2>2, <1>1
<1>5. ASSUME NEW q \in Runner, Holds(runner[q]), runner[q].id = t.id, old.version = Since(runner[q])
      PROVE  old.until <= clock
  <2>1. FreshCopy(runner[q], old, clock)
    BY <1>5, RunnerFacts DEF Holds, CopyInv
  <2>2. old.attempts = runner[q].task.attempts
    BY <2>1, <1>5 DEF FreshCopy
  <2>3. t.op # "begin" => old.attempts # wk.attempt
    BY <1>1, <1>3, <1>5, <2>2 DEF CopyInv, Attempts
  <2> QED
    BY <1>1, <1>2, <1>3, <2>3
<1> QED
  BY <1>4, <1>5

LEMMA StoreTurnLease ==
  ASSUME CopyInv, StoreTurn, SameTask(turn.id, turn.seen)
  PROVE  /\ LeaseInv' /\ Advances
         /\ tasks'[turn.id] = turn.task
         /\ \A j \in Id : j # turn.id => tasks'[j] = tasks[j]
<1> DEFINE i == turn.id
<1>1. /\ tasks' = [tasks EXCEPT ![i] = turn.task] /\ clock' = clock /\ runner' = runner
      /\ turn # NoTurn /\ tasks[i].version = turn.seen /\ LeaseInv
  BY DEF StoreTurn, SameTask, CopyInv
<1>2. /\ i \in Id /\ turn.task \in TaskSet /\ turn.seen \in Nat \ {0}
      /\ turn.op \in {"begin", "checkpoint", "finish"}
      /\ TurnFits(turn, worker[turn.worker], tasks[i], clock)
  BY <1>1, TurnFacts
<1>3. /\ turn.task.version = tasks[i].version + 1 /\ tasks[i].attempts \in Nat
      /\ tasks[i].attempts <= turn.task.attempts
  BY <1>1, <1>2, TaskNumbers DEF TurnFits
<1>4. Typed' /\ tasks'[i] = turn.task /\ \A j \in Id : j # i => tasks'[j] = tasks[j]
  BY <1>1, <1>2 DEF LeaseInv, Typed
<1>5. Advances
  BY <1>1, <1>2, <1>3, <1>4 DEF LeaseInv, Typed, Advances
<1>6. \A j \in Id : tasks'[j] # tasks[j] => tasks'[j].version = tasks[j].version + 1
  BY <1>5 DEF Advances
<1>7. ASSUME NEW q \in Runner PROVE (Busy(runner[q]) /\ Fresh(runner[q]))'
  <2>1. Holds(runner[q]) /\ tasks'[runner[q].id] # tasks[runner[q].id] =>
          \/ tasks[runner[q].id].version # Since(runner[q])
          \/ tasks[runner[q].id].until <= clock
    BY <1>1, <1>4, TurnExcludes, RunnerFacts DEF Holds
  <2> QED
    BY <1>1, <1>4, <1>6, <2>1, OthersFresh
<1>8. Distinct'
  BY <1>1 DEF LeaseInv, Distinct, Holds, Since
<1> QED
  BY <1>4, <1>5, <1>7, <1>8 DEF LeaseInv

LEMMA StoreTurnCopy ==
  ASSUME CopyInv, StoreTurn
  PROVE  CopyInv'
<1> DEFINE i == turn.id
           w == turn.worker
<1>1. turn # NoTurn /\ turn' = NoTurn /\ clock' = clock /\ runner' = runner /\ LeaseInv
  BY DEF StoreTurn, CopyInv
<1>2. /\ w \in Worker /\ i \in Id /\ turn.task \in TaskSet /\ turn.seen \in Nat \ {0}
      /\ turn.op \in {"begin", "checkpoint", "finish"}
      /\ TurnFits(turn, worker[w], tasks[i], clock) /\ clock \in Nat
  BY <1>1, TurnFacts
<1>3. TurnInv'
  BY <1>1 DEF TurnInv
<1>4. CASE ~SameTask(i, turn.seen)
  <2>1. tasks' = tasks /\ worker' = worker
    BY <1>4 DEF StoreTurn
  <2>2. LeaseInv' /\ CopyTyped' /\ Advances
    BY <1>1, <2>1, AdvanceIdle
    DEF LeaseInv, Typed, Busy, Fresh, Distinct, CopyInv, CopyTyped
  <2>3. Attempts' /\ Standing'
    BY <1>1, <2>1, <2>2, NobodyMoves, StandingStays
  <2> QED
    BY <1>3, <2>2, <2>3 DEF CopyInv
<1>5. CASE SameTask(i, turn.seen)
  <2> DEFINE new == AfterTurn(turn.op, turn.task)
  <2>1. /\ worker' = [worker EXCEPT ![w] = new] /\ tasks[i].version = turn.seen
    BY <1>5 DEF StoreTurn, SameTask
  <2>2. /\ LeaseInv' /\ Advances /\ tasks'[i] = turn.task
        /\ \A j \in Id : j # i => tasks'[j] = tasks[j]
    BY <1>5, StoreTurnLease
  <2>3. /\ turn.op = "begin" =>
             /\ new = [id |-> i, attempt |-> turn.task.attempts, until |-> turn.task.until]
             /\ turn.task.attempts = tasks[i].attempts + 1 /\ turn.task.state = "running"
        /\ turn.op = "checkpoint" =>
             new = worker[w] /\ worker[w].id = i /\ Claims(worker[w], turn.task)
        /\ turn.op = "finish" => new = Resting
        /\ turn.task.attempts \in Nat /\ tasks[i].attempts \in Nat /\ turn.task.until \in Nat
    BY <1>1, <1>2, <2>1, TaskNumbers DEF AfterTurn, TurnFits, TaskSet
  <2>4. new \in WorkerSet \union {Resting}
    BY <1>2, <2>3 DEF WorkerSet, CopyInv, CopyTyped
  <2>5. /\ CopyTyped' /\ worker'[w] = new
        /\ \A v \in Worker \ {w} : worker'[v] = worker[v]
    BY <1>1, <1>2, <2>1, <2>4 DEF CopyInv, CopyTyped
  <2> HIDE DEF new
  <2>6. new # Resting =>
          /\ new.id = i /\ new.attempt \in Nat /\ Claims(new, turn.task)
          /\ \/ tasks[i].attempts < new.attempt
             \/ new = worker[w]
    BY <1>2, <2>3, <2>4 DEF Claims, WorkerSet
  <2>7. Attempts'
    BY <1>1, <1>2, <2>2, <2>3, <2>5, <2>6, WorkerMoves DEF Claims
  <2>8. ASSUME NEW v \in Worker, worker'[v] # Resting, clock < worker'[v].until
        PROVE  Claims(worker'[v], tasks'[worker'[v].id])
    <3>1. CASE v = w
      BY <3>1, <2>2, <2>5, <2>6, <2>8
    <3>2. CASE v # w
      <4>1. worker'[v] = worker[v] /\ worker[v].id \in Id /\ worker[v].until \in Nat
        BY <2>5, <2>8, <3>2, WorkerFacts
      <4>2. worker[v].id # i
        BY <1>1, <1>2, <2>1, <2>8, <3>2, <4>1, TurnExcludes
      <4> QED
        BY <2>2, <2>8, <4>1, <4>2 DEF CopyInv, Standing
    <3> QED
      BY <3>1, <3>2
  <2>9. Standing'
    BY <1>1, <2>8 DEF Standing, Claims
  <2> QED
    BY <1>3, <2>2, <2>5, <2>7, <2>9 DEF CopyInv
<1> QED
  BY <1>4, <1>5

LEMMA CopyInductive ==
  ASSUME ~Recreation, Prompt, CopyInv, [CopyNext]_copyVars
  PROVE  CopyInv'
<1>1. CASE Next /\ UNCHANGED <<worker, turn>>
  <2>1. LeaseInv'
    BY <1>1, LeaseInductive DEF CopyInv
  <2>2. ASSUME NEW i \in Id, NEW t \in Target, CreateReplication(i, t) PROVE CopyInv'
    BY <1>1, <2>1, <2>2, CreateCopy
  <2>3. ASSUME NEW p \in Runner, NEW i \in Id, RunReplication(p, i) PROVE CopyInv'
    BY <1>1, <2>1, <2>3, RunCopy
  <2>4. ASSUME NEW p \in Runner, RunnerStep(p) PROVE CopyInv'
    BY <1>1, <2>1, <2>4, StoreClaimCopy, CopyCopy, StoreEndCopy DEF RunnerStep
  <2>5. CASE Tick
    BY <1>1, <2>1, <2>5, TickCopy
  <2> QED
    BY <1>1, <2>2, <2>3, <2>4, <2>5 DEF Next
<1>2. ASSUME NEW w \in Worker, Checkpoint(w) \/ Finish(w) \/ Leave(w) PROVE CopyInv'
  BY <1>2, CheckpointCopy, FinishCopy, LeaveCopy
<1>3. ASSUME NEW w \in Worker, NEW i \in Id, Begin(w, i) PROVE CopyInv'
  BY <1>3, BeginCopy
<1>4. CASE StoreTurn
  BY <1>4, StoreTurnCopy
<1>5. CASE UNCHANGED copyVars
  BY <1>5 DEF copyVars, vars, CopyInv, LeaseInv, Typed, Busy, Fresh, Distinct, CopyTyped,
    Attempts, Standing, TurnInv, Holds, NextAttempt, Claims, TurnFits
<1> QED
  BY <1>1, <1>2, <1>3, <1>4, <1>5 DEF CopyNext

LEMMA CopyImplies == CopyInv => CopyExcludes /\ LeaseExcludes
<1> SUFFICES ASSUME CopyInv PROVE CopyExcludes
  BY LeaseImplies DEF CopyInv
<1> SUFFICES ASSUME NEW i \in Id, NEW w \in Worker, worker[w].id = i, clock < worker[w].until
             PROVE  /\ \A v \in Worker \ {w} : worker[v].id = i => worker[v].until <= clock
                    /\ \A p \in Runner : Copies(p, i) => runner[p].until <= clock
  BY DEF CopyExcludes
<1>1. LeaseInv /\ worker[w] # Resting
  BY DEF CopyInv, LeaseInv, Typed, Resting
<1>2. Claims(worker[w], tasks[i])
  BY <1>1 DEF CopyInv, Standing
<1>3. ASSUME NEW v \in Worker \ {w}, worker[v].id = i, ~(worker[v].until <= clock) PROVE FALSE
  <2>1. worker[v] # Resting /\ clock < worker[v].until
    BY <1>1, <1>3, WorkerFacts DEF Resting, LeaseInv, Typed
  <2>2. Claims(worker[v], tasks[i])
    BY <1>3, <2>1 DEF CopyInv, Standing
  <2> QED
    BY <1>1, <1>2, <1>3, <2>1, <2>2 DEF Claims, CopyInv, Attempts
<1>4. ASSUME NEW p \in Runner, Copies(p, i) PROVE runner[p].until <= clock
  <2>1. Holds(runner[p]) /\ runner[p].pc = "copy" /\ runner[p].id = i
    BY <1>4 DEF Copies, Holds
  <2>2. FreshCopy(runner[p], tasks[i], clock)
    BY <1>1, <2>1, RunnerFacts
  <2>3. runner[p].task.attempts # worker[w].attempt
    BY <1>1, <2>1 DEF CopyInv, Attempts
  <2> QED
    BY <1>2, <2>1, <2>2, <2>3 DEF FreshCopy, Claims
<1> QED
  BY <1>3, <1>4

\* Requests and workers of the coordinator never copy a task under two leases that
\* last, for any number of them, any leases and attempts, if ids are used once and
\* workers report only while their lease lasts (replication.go 36).
THEOREM CopiesExclude == ASSUME ~Recreation, Prompt PROVE CopySpec => []CopyExcludes
<1>1. CopyInv /\ [CopyNext]_copyVars => CopyInv'
  BY CopyInductive
<1> QED
  BY <1>1, InitCopy, CopyImplies, PTL DEF CopySpec

\* Nor do two requests, whatever the coordinator does beside them (replication.go 34).
THEOREM LeaseBeside == ASSUME ~Recreation, Prompt PROVE CopySpec => []LeaseExcludes
<1>1. CopyInv /\ [CopyNext]_copyVars => CopyInv'
  BY CopyInductive
<1> QED
  BY <1>1, InitCopy, CopyImplies, PTL DEF CopySpec

\* A call changes only the claim that is its own.
LEMMA TurnReports ==
  ASSUME CopyInv, StoreTurn, turn.op # "begin", tasks' # tasks
  PROVE  /\ tasks[turn.id].state = "running"
         /\ tasks[turn.id].attempts = worker[turn.worker].attempt
  BY TurnFacts DEF StoreTurn, SameTask, TurnFits, Claims

\* A worker that reports while its lease lasts changes only its own claim, for any
\* number of requests and workers (replication.go 44-70).
THEOREM ReportsHold == ASSUME ~Recreation, Prompt PROVE CopySpec => ClaimReported
<1>1. CopyInv /\ [CopyNext]_copyVars => CopyInv'
  BY CopyInductive
<1>2. CopyInv /\ [CopyNext]_copyVars =>
        [StoreTurn /\ turn.op # "begin" /\ tasks' # tasks =>
           /\ tasks[turn.id].state = "running"
           /\ tasks[turn.id].attempts = worker[turn.worker].attempt]_copyVars
  BY TurnReports
<1> QED
  BY <1>1, <1>2, InitCopy, PTL DEF CopySpec, ClaimReported

\* A step of the requests and the coordinator together keeps what succeeded, and
\* no request ends a claim that is not its own.
LEMMA StepBeside ==
  ASSUME ~Recreation, CopyInv, CopyNext
  PROVE  /\ \A i \in Id : tasks[i].state = "succeeded" => tasks'[i] = tasks[i]
         /\ \A p \in Runner : StoreEnd(p) =>
              LET i == runner[p].id
              IN  tasks'[i] # tasks[i] =>
                    runner[p].task.attempts = tasks[i].attempts /\ tasks[i].state = "running"
<1>0. LeaseInv
  BY DEF CopyInv
<1>1. ASSUME NEW p \in Runner, StoreEnd(p), tasks'[runner[p].id] # tasks[runner[p].id]
      PROVE  /\ tasks[runner[p].id].state = "running"
             /\ runner[p].task.attempts = tasks[runner[p].id].attempts
  BY <1>0, <1>1, RunnerFacts DEF StoreEnd, SameTask, FreshCopy, Holds, Since, LeaseInv, Typed
<1>2. ASSUME NEW i \in Id, tasks[i].state = "succeeded" PROVE tasks'[i] = tasks[i]
  <2>1. CASE Next
    BY <1>0, <1>2, <2>1, StepOfTask
  <2>2. CASE StoreTurn
    <3>1. CASE ~SameTask(turn.id, turn.seen)
      BY <2>2, <3>1 DEF StoreTurn
    <3>2. CASE SameTask(turn.id, turn.seen)
      <4>1. tasks[turn.id].state # "succeeded"
        BY <2>2, <3>2, TurnFacts DEF StoreTurn, SameTask, TurnFits, Claims
      <4> QED
        BY <1>2, <2>2, <3>2, <4>1, StoreTurnLease
    <3> QED
      BY <3>1, <3>2
  <2>3. ASSUME NEW w \in Worker, NEW j \in Id,
               Checkpoint(w) \/ Finish(w) \/ Leave(w) \/ Begin(w, j)
        PROVE  tasks' = tasks
    BY <2>3 DEF Checkpoint, Finish, Leave, Begin, Take, vars
  <2> QED
    BY <1>2, <2>1, <2>2, <2>3 DEF CopyNext
<1> QED
  BY <1>1, <1>2

\* What succeeded stays so when the coordinator's calls come in between a request's
\* reading and its storing (replication.go:31, catalog_more.go:248).
THEOREM SuccessBeside == ASSUME ~Recreation, Prompt PROVE CopySpec => SuccessIsFinal
<1>1. CopyInv /\ [CopyNext]_copyVars => CopyInv'
  BY CopyInductive
<1>2. CopyInv /\ [CopyNext]_copyVars =>
        [\A i \in Id : tasks[i].state = "succeeded" => tasks'[i] = tasks[i]]_vars
  BY StepBeside DEF copyVars
<1> QED
  BY <1>1, <1>2, InitCopy, PTL DEF CopySpec, SuccessIsFinal

\* A request whose claim the coordinator, or another request, has taken over ends
\* nothing (lifecycle.go:135).
THEOREM ClaimantBeside == ASSUME ~Recreation, Prompt PROVE CopySpec => EndedByClaimant
<1>1. CopyInv /\ [CopyNext]_copyVars => CopyInv'
  BY CopyInductive
<1>2. CopyInv /\ [CopyNext]_copyVars =>
        [\A p \in Runner : StoreEnd(p) =>
           LET i == runner[p].id
           IN  tasks'[i] # tasks[i] =>
                 runner[p].task.attempts = tasks[i].attempts /\ tasks[i].state = "running"]_vars
  BY StepBeside DEF copyVars
<1> QED
  BY <1>1, <1>2, InitCopy, PTL DEF CopySpec, EndedByClaimant
================================================================================
