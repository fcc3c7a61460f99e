---------------------------- MODULE ReplicationTask ----------------------------
(***************************************************************************)
(* The replication tasks of the registry's API: created by one request,    *)
(* run by others, each of which claims the task for some time, copies, and *)
(* stores how it ended (application/lifecycle.go 90-139, domain/           *)
(* replication.go, memory/catalog_more.go 211-253).  A task changes only   *)
(* if its version is the one the request knows.                            *)
(***************************************************************************)
EXTENDS Naturals

CONSTANTS
  Runner,      \* goroutines of POST .../run requests
  Id, Target,  \* task ids, remote registries
  Lease,       \* how long a claim lasts, 5 minutes
  MaxTime, MaxAttempts,
  Recreation,  \* may a task be created under an id that exists?
  None

ASSUME NoneAssumption == None \notin Id \union Target
ASSUME NumberAssumption == Lease \in Nat \ {0} /\ MaxTime \in Nat /\ MaxAttempts \in Nat
ASSUME FlagAssumption == Recreation \in BOOLEAN

States == {"queued", "running", "succeeded", "failed"}

VARIABLES
  tasks,   \* the stored tasks; version 0: none
  clock,
  runner,  \* per goroutine, its position, its copy of the task and its lease
  target   \* history: where the task was last created to be copied to

vars == <<tasks, clock, runner, target>>

\* until: the end of the lease, 0 for none.
NoTask == [state |-> "none", target |-> None, until |-> 0, attempts |-> 0, version |-> 0]
Queued(t) == [state |-> "queued", target |-> t, until |-> 0, attempts |-> 0, version |-> 1]
Idle == [pc |-> "idle", id |-> None, task |-> NoTask, until |-> 0]

Init ==
  /\ tasks = [i \in Id |-> NoTask]
  /\ clock = 1
  /\ runner = [p \in Runner |-> Idle]
  /\ target = [i \in Id |-> None]

-----------------------------------------------------------------------------

\* Seeded fault: a lease is not looked at.
ClaimableAnyTime(task, now) == task.state # "succeeded"

\* ReplicationTask.Claim
Claimable(task, now) == task.state # "succeeded" /\ task.until <= now

Claimed(task, now) ==
  [task EXCEPT !.state = "running", !.until = now + Lease, !.attempts = @ + 1, !.version = @ + 1]

\* ReplicationTask.Succeed and Fail
Ended(task, state) == [task EXCEPT !.state = state, !.until = 0, !.version = @ + 1]

\* Seeded fault: an update of any version is taken.
SameTaskAnyVersion(i, version) == tasks[i] # NoTask

\* Catalog.UpdateReplication
SameTask(i, version) == tasks[i] # NoTask /\ tasks[i].version = version

Go(p, local) == runner' = [runner EXCEPT ![p] = local]

\* Catalog.CreateReplication replaces what it finds.
CreateReplication(i, t) ==
  /\ Recreation \/ tasks[i] = NoTask
  /\ tasks' = [tasks EXCEPT ![i] = Queued(t)]
  /\ target' = [target EXCEPT ![i] = t]
  /\ UNCHANGED <<clock, runner>>

Tick ==
  /\ clock < MaxTime
  /\ clock' = clock + 1
  /\ UNCHANGED <<tasks, runner, target>>

\* RunReplication reads the task and claims its copy of it.
RunReplication(p, i) ==
  /\ runner[p] = Idle /\ tasks[i] # NoTask
  /\ Claimable(tasks[i], clock) /\ tasks[i].attempts < MaxAttempts
  /\ Go(p, [pc |-> "claim", id |-> i, task |-> Claimed(tasks[i], clock), until |-> clock + Lease])
  /\ UNCHANGED <<tasks, clock, target>>

StoreClaim(p) ==
  /\ runner[p].pc = "claim"
  /\ LET r == runner[p]
     IN  IF SameTask(r.id, r.task.version - 1)
         THEN /\ tasks' = [tasks EXCEPT ![r.id] = r.task]
              /\ Go(p, [r EXCEPT !.pc = "copy"])
         ELSE Go(p, Idle) /\ UNCHANGED tasks
  /\ UNCHANGED <<clock, target>>

\* The copy ends, at any time.
Copy(p) ==
  /\ runner[p].pc = "copy"
  /\ \E state \in {"succeeded", "failed"} :
       Go(p, [runner[p] EXCEPT !.pc = "end", !.task = Ended(@, state)])
  /\ UNCHANGED <<tasks, clock, target>>

StoreEnd(p) ==
  /\ runner[p].pc = "end"
  /\ LET r == runner[p]
     IN  tasks' = IF SameTask(r.id, r.task.version - 1)
                  THEN [tasks EXCEPT ![r.id] = r.task] ELSE tasks
  /\ Go(p, Idle)
  /\ UNCHANGED <<clock, target>>

RunnerStep(p) == StoreClaim(p) \/ Copy(p) \/ StoreEnd(p)

Next ==
  \/ \E i \in Id, t \in Target : CreateReplication(i, t)
  \/ \E p \in Runner, i \in Id : RunReplication(p, i)
  \/ \E p \in Runner : RunnerStep(p)
  \/ Tick

Spec == Init /\ [][Next]_vars

-----------------------------------------------------------------------------
(* Properties *)

\* A running task has a lease and no other has one; goroutines hold the copy of
\* the task that fits their position.
TypeOK ==
  /\ clock \in 1..MaxTime
  /\ \A i \in Id : tasks[i] # NoTask =>
       /\ tasks[i].state \in States /\ tasks[i].target \in Target
       /\ tasks[i].attempts <= MaxAttempts /\ tasks[i].version > tasks[i].attempts
       /\ (tasks[i].until # 0) <=> (tasks[i].state = "running")
  /\ \A p \in Runner :
       \/ runner[p] = Idle
       \/ /\ runner[p].id \in Id
          /\ runner[p].task.state \in
               IF runner[p].pc = "end" THEN {"succeeded", "failed"} ELSE {"running"}

Copies(p, i) == runner[p].pc = "copy" /\ runner[p].id = i

\* Nobody runs a task on which another has a lease that has not ended
\* (errors.go:28, replication.go:34).
LeaseExcludes ==
  \A i \in Id : \A p, q \in Runner :
    p # q /\ Copies(p, i) /\ Copies(q, i) => runner[p].until <= clock \/ runner[q].until <= clock

\* What a task has succeeded in is never undone, by late runners either
\* (replication.go:31, catalog_more.go:248).
SuccessIsFinal ==
  [][\A i \in Id : tasks[i].state = "succeeded" => tasks'[i] = tasks[i]]_vars

\* A task is ended only by the runner that claimed it last: the number of the
\* attempt that ended is the number of attempts (lifecycle.go:135).
EndedByClaimant ==
  [][\A p \in Runner : StoreEnd(p) =>
       LET i == runner[p].id
       IN  tasks'[i] # tasks[i] =>
             runner[p].task.attempts = tasks[i].attempts /\ tasks[i].state = "running"]_vars

\* A task is copied to where it was created to be copied to (lifecycle.go:106).
TargetKept == \A i \in Id : tasks[i].target = target[i]
=============================================================================
