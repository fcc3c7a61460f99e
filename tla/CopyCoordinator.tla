---------------------------- MODULE CopyCoordinator ----------------------------
(***************************************************************************)
(* The replication coordinator of application/replication.go, a second     *)
(* client of the stored tasks beside the requests of ReplicationTask.  Its *)
(* calls exclude each other by a mutex, but not the requests: each call    *)
(* reads a task and stores its copy under the version it read.  Bytes      *)
(* copied and times are left out.                                          *)
(***************************************************************************)
EXTENDS ReplicationTask

CONSTANTS
  Worker,      \* who copies through the coordinator
  LongLease,   \* the coordinator's lease, 10 minutes
  MaxVersion,  \* a bound: no checkpoint beyond it
  Prompt       \* does a worker report only while its lease lasts?

ASSUME WorkerAssumption == LongLease \in Nat \ {0} /\ MaxVersion \in Nat /\ Prompt \in BOOLEAN

VARIABLES
  worker,  \* per worker, the task it copies, the number and the end of its claim
  turn     \* the call that has the mutex, and the copy it will store

copyVars == <<vars, worker, turn>>

Resting == [id |-> None, attempt |-> 0, until |-> 0]
NoTurn == [op |-> "none", worker |-> None]

CopyInit == Init /\ worker = [w \in Worker |-> Resting] /\ turn = NoTurn

Take(w, op, i, task) ==
  /\ turn = NoTurn
  /\ turn' = [op |-> op, worker |-> w, id |-> i, task |-> task, seen |-> tasks[i].version]
  /\ UNCHANGED <<vars, worker>>

Begin(w, i) ==
  /\ worker[w] = Resting /\ tasks[i] # NoTask
  /\ Claimable(tasks[i], clock) /\ tasks[i].attempts < MaxAttempts
  /\ Take(w, "begin", i, [Claimed(tasks[i], clock) EXCEPT !.until = clock + LongLease])

Reports(w) == worker[w] # Resting /\ (Prompt => clock < worker[w].until)

Checkpoint(w) ==
  /\ Reports(w)
  /\ LET i == worker[w].id
     IN  /\ tasks[i].version < MaxVersion
         /\ Take(w, "checkpoint", i, [tasks[i] EXCEPT !.version = @ + 1])

\* Neither the state nor the claim is looked at.
Finish(w) ==
  /\ Reports(w)
  /\ LET i == worker[w].id
     IN  \E state \in {"succeeded", "failed"} : Take(w, "finish", i, Ended(tasks[i], state))

AfterTurn(op, task) ==
  CASE op = "begin" -> [id |-> turn.id, attempt |-> task.attempts, until |-> task.until]
    [] op = "checkpoint" -> worker[turn.worker]
    [] op = "finish" -> Resting

\* A worker whose call failed is where it was.
StoreTurn ==
  /\ turn # NoTurn
  /\ IF SameTask(turn.id, turn.seen)
     THEN /\ tasks' = [tasks EXCEPT ![turn.id] = turn.task]
          /\ worker' = [worker EXCEPT ![turn.worker] = AfterTurn(turn.op, turn.task)]
     ELSE UNCHANGED <<tasks, worker>>
  /\ turn' = NoTurn
  /\ UNCHANGED <<clock, runner, target>>

\* A worker goes away.
Leave(w) ==
  /\ worker[w] # Resting /\ turn.worker # w
  /\ worker' = [worker EXCEPT ![w] = Resting]
  /\ UNCHANGED <<vars, turn>>

CopyNext ==
  \/ Next /\ UNCHANGED <<worker, turn>>
  \/ \E w \in Worker : Checkpoint(w) \/ Finish(w) \/ Leave(w) \/ \E i \in Id : Begin(w, i)
  \/ StoreTurn

CopySpec == CopyInit /\ [][CopyNext]_copyVars

-----------------------------------------------------------------------------
(* Properties *)

\* No two copy a task under leases that have not ended, be they requests or
\* workers of the coordinator (replication.go 36, lifecycle.go 118).
CopyExcludes ==
  \A i \in Id : \A w \in Worker : worker[w].id = i /\ clock < worker[w].until =>
    /\ \A v \in Worker \ {w} : worker[v].id = i => worker[v].until <= clock
    /\ \A p \in Runner : Copies(p, i) => runner[p].until <= clock

\* A worker that reports while its lease lasts changes only the claim that is its
\* own: no request has taken the task over, and none it interrupts has ended it
\* (replication.go 44-70).
ClaimReported ==
  [][StoreTurn /\ turn.op # "begin" /\ tasks' # tasks =>
       /\ tasks[turn.id].state = "running"
       /\ tasks[turn.id].attempts = worker[turn.worker].attempt]_copyVars
=============================================================================
