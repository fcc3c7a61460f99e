--------------------------- MODULE ReplicationQueue ---------------------------
(***************************************************************************)
(* The pool that copies artifacts to remote registries: a queue of tasks   *)
(* (replicationctl/queue.go), and a coordinator whose workers take tasks   *)
(* from a buffered channel (replicationctl/coordinator.go).                *)
(*                                                                         *)
(* Callers are goroutines that push, enqueue, drain and close.  A step is  *)
(* a critical section, or a send, a receive or the closing of the channel; *)
(* sending on a closed channel panics, which ends the program.             *)
(***************************************************************************)
EXTENDS Naturals, Sequences, FiniteSets

CONSTANTS
  Caller,      \* goroutines that use the coordinator
  Worker,      \* the goroutines Start has started
  Task,        \* tasks, told apart by their id
  Capacity,    \* the channel's buffer, 64
  MaxQueued,   \* a bound on the queue
  Cancelled,   \* may the context given to Start be cancelled?
  Orderly,     \* is Close called only when no caller enqueues or drains?
  None

ASSUME SizeAssumption == Capacity \in Nat \ {0} /\ MaxQueued \in Nat \ {0}
\* NewCoordinator makes a number of workers below 1 one.
ASSUME WorkerAssumption == Worker # {}
ASSUME NoneAssumption == None \notin Task
ASSUME FlagAssumption == Cancelled \in BOOLEAN /\ Orderly \in BOOLEAN

VARIABLES
  items,     \* the queue; seen holds the ids that are in it
  jobs,      \* the channel's buffer
  closed,    \* the channel is closed
  stopped,   \* Coordinator.stopped
  done,      \* the context is cancelled
  worker,    \* per worker: waiting, copying a task, or gone
  caller,    \* per caller, the position and the task in its hands
  failed, copied,  \* what the tasks that ended are recorded as
  accepted,  \* history: tasks that Push or Enqueue has been given and not refused
  panicked   \* the program has crashed

vars == <<items, jobs, closed, stopped, done, worker, caller, failed, copied, accepted, panicked>>

Free == [pc |-> "free", task |-> None, drains |-> FALSE]
Ready == [pc |-> "ready", task |-> None]

Init ==
  /\ items = <<>> /\ jobs = <<>>
  /\ closed = FALSE /\ stopped = FALSE /\ done = FALSE /\ panicked = FALSE
  /\ worker = [w \in Worker |-> Ready]
  /\ caller = [p \in Caller |-> Free]
  /\ failed = {} /\ copied = {} /\ accepted = {}

Queued == {items[k] : k \in DOMAIN items}
Buffered == {jobs[k] : k \in DOMAIN jobs}

\* Queue.Push
Pushed(t) == IF t \in Queued THEN items ELSE Append(items, t)

Move(p, local) == caller' = [caller EXCEPT ![p] = local]

-----------------------------------------------------------------------------
(* Callers *)

Push(p, t) ==
  /\ ~panicked /\ caller[p] = Free /\ Len(items) < MaxQueued
  /\ items' = Pushed(t)
  /\ accepted' = accepted \union {t}
  /\ UNCHANGED <<jobs, closed, stopped, done, worker, caller, failed, copied, panicked>>

Enqueue(p, t) ==
  /\ ~panicked /\ caller[p] = Free
  /\ Move(p, [pc |-> "check", task |-> t, drains |-> FALSE])
  /\ UNCHANGED <<items, jobs, closed, stopped, done, worker, failed, copied, accepted, panicked>>

\* Pop, from the loop of Drain.
Pop(p) ==
  /\ items # <<>>
  /\ Move(p, [pc |-> "check", task |-> Head(items), drains |-> TRUE])
  /\ items' = Tail(items)

Drain(p) ==
  /\ ~panicked /\ caller[p] = Free
  /\ Pop(p)
  /\ UNCHANGED <<jobs, closed, stopped, done, worker, failed, copied, accepted, panicked>>

\* Seeded fault: Drain gives up a task that Enqueue refuses.
CheckStoppedDropping(p) ==
  /\ ~panicked /\ caller[p].pc = "check"
  /\ IF stopped THEN Move(p, Free) ELSE Move(p, [caller[p] EXCEPT !.pc = "send"])
  /\ UNCHANGED <<items, jobs, closed, stopped, done, worker, failed, copied, accepted, panicked>>

\* Enqueue reads stopped under the mutex, and sends after it has unlocked it.
CheckStopped(p) ==
  /\ ~panicked /\ caller[p].pc = "check"
  /\ IF ~stopped
     THEN Move(p, [caller[p] EXCEPT !.pc = "send"]) /\ UNCHANGED items
     ELSE IF caller[p].drains
     THEN Move(p, [caller[p] EXCEPT !.pc = "putBack"]) /\ UNCHANGED items
     ELSE Move(p, Free) /\ UNCHANGED items
  /\ UNCHANGED <<jobs, closed, stopped, done, worker, failed, copied, accepted, panicked>>

\* A task that Drain could not hand off goes to the end of the queue, unless a
\* task of its id has been pushed in the meantime.
PutBack(p) ==
  /\ ~panicked /\ caller[p].pc = "putBack"
  /\ items' = Pushed(caller[p].task)
  /\ Move(p, Free)
  /\ UNCHANGED <<jobs, closed, stopped, done, worker, failed, copied, accepted, panicked>>

\* c.jobs <- task
Send(p) ==
  /\ ~panicked /\ ~closed /\ caller[p].pc = "send" /\ Len(jobs) < Capacity
  /\ jobs' = Append(jobs, caller[p].task)
  /\ accepted' = accepted \union {caller[p].task}
  /\ Move(p, IF caller[p].drains THEN [Free EXCEPT !.pc = "drain", !.drains = TRUE] ELSE Free)
  /\ UNCHANGED <<items, closed, stopped, done, worker, failed, copied, panicked>>

SendOnClosed(p) ==
  /\ ~panicked /\ closed /\ caller[p].pc = "send"
  /\ panicked' = TRUE
  /\ UNCHANGED <<items, jobs, closed, stopped, done, worker, caller, failed, copied, accepted>>

\* Drain goes on until the queue is empty.
DrainOn(p) ==
  /\ ~panicked /\ caller[p].pc = "drain"
  /\ Pop(p) \/ (items = <<>> /\ Move(p, Free) /\ UNCHANGED items)
  /\ UNCHANGED <<jobs, closed, stopped, done, worker, failed, copied, accepted, panicked>>

\* Only the first Close does anything; the others wait for it.
Close(p) ==
  /\ ~panicked /\ caller[p] = Free /\ ~stopped
  /\ Orderly => \A q \in Caller : caller[q] = Free
  /\ stopped' = TRUE
  /\ Move(p, [Free EXCEPT !.pc = "close"])
  /\ UNCHANGED <<items, jobs, closed, done, worker, failed, copied, accepted, panicked>>

CloseChannel(p) ==
  /\ ~panicked /\ caller[p].pc = "close"
  /\ closed' = TRUE
  /\ Move(p, Free)
  /\ UNCHANGED <<items, jobs, stopped, done, worker, failed, copied, accepted, panicked>>

-----------------------------------------------------------------------------
(* Workers *)

Cancel ==
  /\ ~panicked /\ Cancelled /\ ~done
  /\ done' = TRUE
  /\ UNCHANGED <<items, jobs, closed, stopped, worker, caller, failed, copied, accepted, panicked>>

\* select takes either case when a task and the cancellation are both there.
Receive(w) ==
  /\ ~panicked /\ worker[w] = Ready /\ jobs # <<>>
  /\ worker' = [worker EXCEPT ![w] = [pc |-> "copying", task |-> Head(jobs)]]
  /\ jobs' = Tail(jobs)
  /\ UNCHANGED <<items, closed, stopped, done, caller, failed, copied, accepted, panicked>>

\* Seeded fault: a worker leaves when the channel is closed, whatever it holds.
ExitOnClose(w) ==
  /\ ~panicked /\ worker[w] = Ready /\ (done \/ closed)
  /\ worker' = [worker EXCEPT ![w].pc = "gone"]
  /\ UNCHANGED <<items, jobs, closed, stopped, done, caller, failed, copied, accepted, panicked>>

\* Seeded fault: a worker leaves on cancellation only.
ExitOnCancel(w) ==
  /\ ~panicked /\ worker[w] = Ready /\ done
  /\ worker' = [worker EXCEPT ![w].pc = "gone"]
  /\ UNCHANGED <<items, jobs, closed, stopped, done, caller, failed, copied, accepted, panicked>>

\* A closed channel is received from until its buffer is empty.
Exit(w) ==
  /\ ~panicked /\ worker[w] = Ready /\ (done \/ (closed /\ jobs = <<>>))
  /\ worker' = [worker EXCEPT ![w].pc = "gone"]
  /\ UNCHANGED <<items, jobs, closed, stopped, done, caller, failed, copied, accepted, panicked>>

\* Seeded fault: a failed copy ends its worker.
RecordAndLeave(w) ==
  /\ ~panicked /\ worker[w].pc = "copying"
  /\ failed' = failed \union {worker[w].task}
  /\ worker' = [worker EXCEPT ![w] = [Ready EXCEPT !.pc = "gone"]]
  /\ UNCHANGED <<items, jobs, closed, stopped, done, caller, copied, accepted, panicked>>

\* The copy ends, and how is recorded under the mutex.
Record(w) ==
  /\ ~panicked /\ worker[w].pc = "copying"
  /\ \/ failed' = failed \union {worker[w].task} /\ UNCHANGED copied
     \/ copied' = copied \union {worker[w].task} /\ UNCHANGED failed
  /\ worker' = [worker EXCEPT ![w] = Ready]
  /\ UNCHANGED <<items, jobs, closed, stopped, done, caller, accepted, panicked>>

-----------------------------------------------------------------------------

\* What a goroutine does once it has begun.
CallerStep(p) ==
  CheckStopped(p) \/ PutBack(p) \/ Send(p) \/ SendOnClosed(p) \/ DrainOn(p) \/ CloseChannel(p)

WorkerStep(w) == Receive(w) \/ Exit(w) \/ Record(w)

Next ==
  \/ \E p \in Caller : CallerStep(p) \/ Drain(p) \/ Close(p)
  \/ \E p \in Caller, t \in Task : Push(p, t) \/ Enqueue(p, t)
  \/ \E w \in Worker : WorkerStep(w)
  \/ Cancel

Spec == Init /\ [][Next]_vars

\* Goroutines run on; a copy ends, by its own timeout or its context.
Fairness ==
  /\ \A p \in Caller : SF_vars(Send(p)) /\ WF_vars(CallerStep(p))
  /\ \A w \in Worker : WF_vars(WorkerStep(w))

FairSpec == Spec /\ Fairness

-----------------------------------------------------------------------------
(* Properties *)

\* The channel is closed after it is marked stopped, and goroutines hold a task
\* exactly while they handle one.
TypeOK ==
  /\ Queued \subseteq Task /\ Buffered \subseteq Task /\ Len(jobs) <= Capacity
  /\ failed \union copied \subseteq accepted /\ accepted \subseteq Task
  /\ closed => stopped
  /\ \A p \in Caller : (caller[p].task # None) <=> caller[p].pc \in {"check", "send", "putBack"}
  /\ \A w \in Worker : (worker[w].task # None) <=> worker[w].pc = "copying"

InHand == {caller[p].task : p \in Caller} \union {worker[w].task : w \in Worker}

\* A task that Push or Enqueue took is queued, in a goroutine's hands, buffered,
\* or recorded, and queued once though Drain puts tasks back: no order of closing,
\* draining and pushing loses one or has it twice (coordinator.go:109, queue.go:28).
NothingLost ==
  /\ accepted \subseteq Queued \union Buffered \union InHand \union failed \union copied
  /\ \A i, j \in DOMAIN items : items[i] = items[j] => i = j

\* When the workers of a coordinator that was closed and not cancelled are gone,
\* every buffered task has been processed (coordinator.go:14).
StopsClean ==
  closed /\ ~done /\ (\A w \in Worker : worker[w].pc = "gone") => jobs = <<>>

\* Enqueue never panics (coordinator_test.go:21).
NeverPanics == ~panicked

\* Once closed, Wait returns (coordinator.go:90).
WaitReturns == closed ~> (\A w \in Worker : worker[w].pc = "gone") \/ panicked

\* Handing a task to the workers ends: no caller waits for ever at a full
\* channel (coordinator.go:75, 100).
HandsOff ==
  \A p \in Caller :
    caller[p].pc \in {"check", "send"} ~> caller[p].pc \notin {"check", "send"} \/ done \/ panicked
=============================================================================
