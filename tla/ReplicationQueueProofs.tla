------------------------ MODULE ReplicationQueueProofs ------------------------
(***************************************************************************)
(* Proofs about module ReplicationQueue, for any number of callers,        *)
(* workers and tasks and any capacity: no order of pushing, draining,      *)
(* enqueuing, closing and cancelling loses a task, the workers of a        *)
(* coordinator that was closed and not cancelled leave nothing behind, and *)
(* nobody panics while Close is called in order.                           *)
(***************************************************************************)
EXTENDS ReplicationQueue, Integers, TLAPS

Holding == {"check", "send", "putBack"}

CallerSet ==
  [pc : Holding, task : Task, drains : BOOLEAN]
    \union [pc : {"free", "drain", "close"}, task : {None}, drains : BOOLEAN]
WorkerSet == [pc : {"copying"}, task : Task] \union [pc : {"ready", "gone"}, task : {None}]

Typed ==
  /\ items \in Seq(Task) /\ jobs \in Seq(Task) /\ Len(jobs) <= Capacity
  /\ closed \in BOOLEAN /\ stopped \in BOOLEAN /\ done \in BOOLEAN
  /\ caller \in [Caller -> CallerSet] /\ worker \in [Worker -> WorkerSet]
  /\ failed \union copied \subseteq accepted /\ accepted \subseteq Task

\* What is in the channel and in the hands of workers has been accepted.
Known ==
  /\ Buffered \subseteq accepted
  /\ \A w \in Worker : worker[w].pc = "copying" => worker[w].task \in accepted

Once == \A i, j \in DOMAIN items : items[i] = items[j] => i = j

\* Where an accepted task may be; a caller of Enqueue may give up the one it holds.
Somewhere(t) ==
  \/ t \in Queued \/ t \in Buffered \/ t \in failed \/ t \in copied
  \/ \E p \in Caller : caller[p].drains /\ caller[p].task = t
  \/ \E w \in Worker : worker[w].task = t

Kept == \A t \in accepted : Somewhere(t)

\* Closing marks the coordinator stopped first, and a worker leaves when it is
\* cancelled or when nothing can be in the channel any more.
Closing ==
  /\ closed => stopped
  /\ \A p \in Caller : caller[p].pc = "close" => stopped
  /\ \A w \in Worker : worker[w].pc = "gone" => done \/ (closed /\ jobs = <<>>)

QueueInv == Typed /\ Known /\ Once /\ Kept /\ Closing

-----------------------------------------------------------------------------
(* Sequences *)

Elements(s) == {s[k] : k \in DOMAIN s}

LEMMA AppendElements ==
  ASSUME NEW s \in Seq(Task), NEW t \in Task
  PROVE  /\ Append(s, t) \in Seq(Task) /\ Len(Append(s, t)) = Len(s) + 1
         /\ Elements(Append(s, t)) = Elements(s) \union {t}
         /\ Append(s, t) # <<>>
<1> DEFINE a == Append(s, t)
<1>1. /\ a \in Seq(Task) /\ Len(a) = Len(s) + 1 /\ Len(s) \in Nat
      /\ DOMAIN a = 1..Len(s) + 1 /\ DOMAIN s = 1..Len(s)
      /\ (\A k \in 1..Len(s) : a[k] = s[k]) /\ a[Len(s) + 1] = t
  OBVIOUS
<1>2. ASSUME NEW x PROVE x \in Elements(a) <=> x \in Elements(s) \union {t}
  <2>1. ASSUME NEW k \in DOMAIN a, x = a[k] PROVE x \in Elements(s) \union {t}
    BY <1>1, <2>1 DEF Elements
  <2>2. ASSUME NEW k \in DOMAIN s, x = s[k] PROVE x \in Elements(a)
    BY <1>1, <2>2 DEF Elements
  <2>3. t \in Elements(a)
    <3>1. Len(s) + 1 \in DOMAIN a
      BY <1>1
    <3> QED
      BY <1>1, <3>1 DEF Elements
  <2> QED
    BY <2>1, <2>2, <2>3 DEF Elements
<1> QED
  BY <1>1, <1>2

LEMMA TailElements ==
  ASSUME NEW s \in Seq(Task), s # <<>>
  PROVE  /\ Tail(s) \in Seq(Task) /\ Len(Tail(s)) = Len(s) - 1 /\ Len(s) \in Nat \ {0}
         /\ Head(s) \in Task
         /\ Elements(s) = Elements(Tail(s)) \union {Head(s)}
<1> DEFINE a == Tail(s)
<1>1. /\ a \in Seq(Task) /\ Len(s) \in Nat \ {0} /\ Len(a) = Len(s) - 1
      /\ DOMAIN a = 1..Len(s) - 1 /\ DOMAIN s = 1..Len(s)
      /\ (\A k \in 1..Len(s) - 1 : a[k] = s[k + 1]) /\ Head(s) = s[1] /\ Head(s) \in Task
  OBVIOUS
<1>2. ASSUME NEW x PROVE x \in Elements(s) <=> x \in Elements(a) \union {Head(s)}
  <2>1. ASSUME NEW k \in DOMAIN a, x = a[k] PROVE x \in Elements(s)
    <3>1. k + 1 \in DOMAIN s /\ x = s[k + 1]
      BY <1>1, <2>1
    <3> QED
      BY <3>1 DEF Elements
  <2>2. ASSUME NEW k \in DOMAIN s, x = s[k] PROVE x \in Elements(a) \union {Head(s)}
    <3>1. CASE k = 1
      BY <1>1, <2>2, <3>1
    <3>2. CASE k # 1
      <4>1. k - 1 \in DOMAIN a /\ x = a[k - 1]
        BY <1>1, <2>2, <3>2
      <4> QED
        BY <4>1 DEF Elements
    <3> QED
      BY <3>1, <3>2
  <2>3. Head(s) \in Elements(s)
    BY <1>1 DEF Elements
  <2> QED
    BY <2>1, <2>2, <2>3 DEF Elements
<1> QED
  BY <1>1, <1>2

\* What Push leaves in the queue: no id twice.
LEMMA PushedOnce ==
  ASSUME Typed, Once, NEW t \in Task
  PROVE  /\ Pushed(t) \in Seq(Task)
         /\ {Pushed(t)[k] : k \in DOMAIN Pushed(t)} = Queued \union {t}
         /\ \A i, j \in DOMAIN Pushed(t) : Pushed(t)[i] = Pushed(t)[j] => i = j
<1>1. CASE t \in Queued
  BY <1>1 DEF Pushed, Typed, Once, Queued, Elements
<1>2. CASE t \notin Queued
  <2>1. Pushed(t) = Append(items, t) /\ items \in Seq(Task)
    BY <1>2 DEF Pushed, Typed
  <2>2. /\ DOMAIN Append(items, t) = 1..Len(items) + 1 /\ Len(items) \in Nat
        /\ DOMAIN items = 1..Len(items)
        /\ \A k \in 1..Len(items) : Append(items, t)[k] = items[k]
        /\ Append(items, t)[Len(items) + 1] = t
    BY <2>1
  <2>3. \A k \in 1..Len(items) : items[k] # t
    BY <1>2, <2>2 DEF Queued
  <2>4. \A i, j \in DOMAIN Append(items, t) : Append(items, t)[i] = Append(items, t)[j] => i = j
    BY <2>2, <2>3 DEF Once
  <2> QED
    BY <2>1, <2>4, AppendElements DEF Queued, Elements
<1> QED
  BY <1>1, <1>2

LEMMA PoppedOnce ==
  ASSUME Typed, Once, items # <<>>
  PROVE  \A i, j \in DOMAIN Tail(items) : Tail(items)[i] = Tail(items)[j] => i = j
<1>1. /\ DOMAIN Tail(items) = 1..Len(items) - 1 /\ Len(items) \in Nat
      /\ DOMAIN items = 1..Len(items)
      /\ \A k \in 1..Len(items) - 1 : Tail(items)[k] = items[k + 1]
  BY DEF Typed
<1> QED
  BY <1>1 DEF Once

-----------------------------------------------------------------------------
(* Steps *)

LEMMA InitQueue == Init => QueueInv
<1> SUFFICES ASSUME Init PROVE QueueInv
  OBVIOUS
<1>1. Free \in CallerSet /\ Ready \in WorkerSet /\ Free.pc = "free" /\ Ready.pc = "ready"
  BY DEF Free, Ready, CallerSet, WorkerSet, Holding
<1>2. /\ \A p \in Caller : caller[p] = Free
      /\ \A w \in Worker : worker[w] = Ready
  BY DEF Init
<1>3. Typed
  <2>1. <<>> \in Seq(Task) /\ Len(<<>>) = 0 /\ 0 <= Capacity
    BY SizeAssumption
  <2>2. caller \in [Caller -> CallerSet] /\ worker \in [Worker -> WorkerSet]
    BY <1>1 DEF Init
  <2> QED
    BY <2>1, <2>2 DEF Init, Typed
<1>4. Known /\ Once /\ Kept /\ Closing
  BY <1>1, <1>2 DEF Init, Known, Once, Kept, Closing, Buffered
<1> QED
  BY <1>3, <1>4 DEF QueueInv

\* A caller that moves keeps its types.
LEMMA MoveTyped ==
  ASSUME Typed, NEW p \in Caller, NEW new \in CallerSet, Move(p, new)
  PROVE  /\ caller' \in [Caller -> CallerSet] /\ caller'[p] = new
         /\ \A q \in Caller \ {p} : caller'[q] = caller[q]
  BY DEF Typed, Move

\* What a caller had drained is in the queue or the channel again, or still in
\* its hands.
LEMMA CallerKeeps ==
  ASSUME Typed, Kept, NEW p \in Caller, NEW new \in CallerSet, Move(p, new),
         UNCHANGED <<worker, failed, copied>>,
         \A t \in accepted' : t \in accepted \/ t \in Queued' \/ t \in Buffered',
         \A t \in Queued : t \in Queued' \/ (new.drains /\ new.task = t),
         Buffered \subseteq Buffered',
         caller[p].drains /\ caller[p].task # None =>
           \/ caller[p].task \in Queued' \union Buffered'
           \/ new.drains /\ new.task = caller[p].task
  PROVE  Kept'
<1> SUFFICES ASSUME NEW t \in accepted' PROVE Somewhere(t)'
  BY DEF Kept
<1>1. /\ caller'[p] = new
      /\ \A q \in Caller \ {p} : caller'[q] = caller[q]
  BY MoveTyped
<1>2. CASE t \in Queued' \/ t \in Buffered'
  BY <1>2 DEF Somewhere
<1>3. CASE t \notin Queued' /\ t \notin Buffered'
  <2>1. t \in accepted /\ Somewhere(t) /\ t # None
    BY <1>3, NoneAssumption DEF Kept, Typed
  <2>2. CASE t \in failed \/ t \in copied
    BY <2>2 DEF Somewhere
  <2>3. CASE \E w \in Worker : worker[w].task = t
    BY <2>3 DEF Somewhere
  <2>4. ASSUME NEW q \in Caller, caller[q].drains, caller[q].task = t PROVE Somewhere(t)'
    BY <1>1, <1>3, <2>1, <2>4 DEF Somewhere
  <2>5. CASE t \in Queued
    BY <1>1, <1>3, <2>5 DEF Somewhere
  <2> QED
    BY <1>3, <2>1, <2>2, <2>3, <2>4, <2>5 DEF Somewhere
<1> QED
  BY <1>2, <1>3

\* What a caller's step may do to the queue, the channel and the flags.
LEMMA CallerStepKeeps ==
  ASSUME QueueInv, NEW p \in Caller, NEW new \in CallerSet, Move(p, new), Kept', Once',
         UNCHANGED <<worker, failed, copied, done>>,
         items' \in Seq(Task), jobs' \in Seq(Task), Len(jobs') <= Capacity,
         accepted' \subseteq Task, accepted \subseteq accepted', Buffered' \subseteq accepted',
         closed' \in BOOLEAN, stopped' \in BOOLEAN, stopped => stopped', closed => closed',
         closed' => stopped', new.pc = "close" => stopped',
         closed => jobs' = jobs
  PROVE  QueueInv'
<1>1. /\ caller' \in [Caller -> CallerSet] /\ caller'[p] = new
      /\ \A q \in Caller \ {p} : caller'[q] = caller[q]
  BY MoveTyped DEF QueueInv
<1>2. Typed'
  BY <1>1 DEF QueueInv, Typed
<1>3. Known'
  BY DEF QueueInv, Known
<1>4. Closing'
  BY <1>1 DEF QueueInv, Closing
<1> QED
  BY <1>2, <1>3, <1>4 DEF QueueInv

LEMMA CallerKinds ==
  ASSUME Typed, NEW p \in Caller
  PROVE  /\ caller[p] \in CallerSet /\ caller[p].drains \in BOOLEAN
         /\ caller[p].pc \in Holding => caller[p].task \in Task
         /\ caller[p].pc \notin Holding => caller[p].task = None
         /\ \A pc \in Holding, t \in Task, d \in BOOLEAN :
              [pc |-> pc, task |-> t, drains |-> d] \in CallerSet
         /\ Free \in CallerSet
         /\ [Free EXCEPT !.pc = "close"] \in CallerSet
         /\ [Free EXCEPT !.pc = "drain", !.drains = TRUE] \in CallerSet
         /\ \A pc \in Holding : caller[p].pc \in Holding =>
              /\ [caller[p] EXCEPT !.pc = pc] \in CallerSet
              /\ [caller[p] EXCEPT !.pc = pc].task = caller[p].task
              /\ [caller[p] EXCEPT !.pc = pc].drains = caller[p].drains
              /\ [caller[p] EXCEPT !.pc = pc].pc = pc
<1>1. caller[p] \in CallerSet
  BY DEF Typed
<1>2. /\ caller[p].drains \in BOOLEAN
      /\ caller[p].pc \in Holding => caller[p].task \in Task
      /\ caller[p].pc \notin Holding => caller[p].task = None
  BY <1>1 DEF CallerSet, Holding
<1>3. /\ \A pc \in Holding, t \in Task, d \in BOOLEAN :
           [pc |-> pc, task |-> t, drains |-> d] \in CallerSet
      /\ Free \in CallerSet
      /\ [Free EXCEPT !.pc = "close"] \in CallerSet
      /\ [Free EXCEPT !.pc = "drain", !.drains = TRUE] \in CallerSet
  BY DEF CallerSet, Holding, Free
<1>4. ASSUME NEW pc \in Holding, caller[p].pc \in Holding
      PROVE  /\ [caller[p] EXCEPT !.pc = pc] \in CallerSet
             /\ [caller[p] EXCEPT !.pc = pc].task = caller[p].task
             /\ [caller[p] EXCEPT !.pc = pc].drains = caller[p].drains
             /\ [caller[p] EXCEPT !.pc = pc].pc = pc
  <2>1. caller[p] \in [pc : Holding, task : Task, drains : BOOLEAN]
    BY <1>1, <1>4 DEF CallerSet, Holding
  <2> QED
    BY <2>1 DEF CallerSet
<1> QED
  BY <1>1, <1>2, <1>3, <1>4

LEMMA PushKeeps ==
  ASSUME QueueInv, NEW p \in Caller, NEW t \in Task, Push(p, t)
  PROVE  QueueInv'
<1>1. /\ items' = Pushed(t) /\ accepted' = accepted \union {t}
      /\ UNCHANGED <<jobs, closed, stopped, done, worker, caller, failed, copied>>
  BY DEF Push
<1>2. /\ items' \in Seq(Task) /\ Queued' = Queued \union {t} /\ Once' /\ Buffered' = Buffered
  <2>1. Typed /\ Once
    BY DEF QueueInv
  <2>2. /\ Pushed(t) \in Seq(Task)
        /\ {Pushed(t)[k] : k \in DOMAIN Pushed(t)} = Queued \union {t}
        /\ \A i, j \in DOMAIN Pushed(t) : Pushed(t)[i] = Pushed(t)[j] => i = j
    BY <2>1, PushedOnce
  <2>3. Queued' = Queued \union {t} /\ Buffered' = Buffered
    BY <1>1, <2>2 DEF Queued, Buffered
  <2> QED
    BY <1>1, <2>2, <2>3 DEF Once
<1>3. Typed'
  BY <1>1, <1>2 DEF QueueInv, Typed
<1>4. Known' /\ Closing'
  BY <1>1, <1>2 DEF QueueInv, Known, Closing
<1>5. Kept'
  BY <1>1, <1>2 DEF QueueInv, Kept, Somewhere
<1> QED
  BY <1>2, <1>3, <1>4, <1>5 DEF QueueInv

LEMMA EnqueueKeeps ==
  ASSUME QueueInv, NEW p \in Caller, NEW t \in Task, Enqueue(p, t)
  PROVE  QueueInv'
<1> DEFINE new == [pc |-> "check", task |-> t, drains |-> FALSE]
<1>1. /\ Move(p, new) /\ caller[p] = Free
      /\ UNCHANGED <<items, jobs, closed, stopped, done, worker, failed, copied, accepted>>
  BY DEF Enqueue
<1>2. Typed /\ new \in CallerSet /\ new.pc = "check" /\ caller[p].task = None
  BY <1>1 DEF QueueInv, CallerSet, Holding, Free
<1>3. Queued' = Queued /\ Buffered' = Buffered /\ Once'
  BY <1>1 DEF Queued, Buffered, Once, QueueInv
<1> HIDE DEF new
<1>4. Kept'
  BY <1>1, <1>2, <1>3, CallerKeeps DEF QueueInv
<1> QED
  BY <1>1, <1>2, <1>3, <1>4, CallerStepKeeps DEF QueueInv, Typed, Known, Closing

\* Taking a task from the queue, at first and in the loop of Drain.
LEMMA PopKeeps ==
  ASSUME QueueInv, NEW p \in Caller, caller[p].task = None, Pop(p),
         UNCHANGED <<jobs, closed, stopped, done, worker, failed, copied, accepted>>
  PROVE  QueueInv'
<1> DEFINE new == [pc |-> "check", task |-> Head(items), drains |-> TRUE]
<1>1. Move(p, new) /\ items # <<>> /\ items' = Tail(items) /\ Typed /\ items \in Seq(Task)
  BY DEF Pop, QueueInv, Typed
<1>2. /\ items' \in Seq(Task) /\ Head(items) \in Task /\ Queued = Queued' \union {Head(items)}
  BY <1>1, TailElements DEF Queued, Elements
<1>3. /\ new \in CallerSet /\ new.pc = "check" /\ new.drains /\ new.task = Head(items)
  BY <1>2, CallerKinds, <1>1 DEF Holding
<1>4. Once' /\ Buffered' = Buffered
  BY <1>1, PoppedOnce DEF Once, QueueInv, Buffered
<1> HIDE DEF new
<1>5. Kept'
  BY <1>1, <1>2, <1>3, <1>4, CallerKeeps DEF QueueInv
<1> QED
  BY <1>1, <1>2, <1>3, <1>4, <1>5, CallerStepKeeps DEF QueueInv, Typed, Known, Closing

LEMMA DrainKeeps ==
  ASSUME QueueInv, NEW p \in Caller, Drain(p)
  PROVE  QueueInv'
  BY PopKeeps DEF Drain, Free

\* A step that only moves the caller, which keeps a task it has drained.
LEMMA HereKeeps ==
  ASSUME QueueInv, NEW p \in Caller, NEW new \in CallerSet, Move(p, new), new.pc # "close",
         caller[p].drains /\ caller[p].task # None => new.drains /\ new.task = caller[p].task,
         UNCHANGED <<items, jobs, closed, stopped, done, worker, failed, copied, accepted>>
  PROVE  QueueInv'
<1>1. Queued' = Queued /\ Buffered' = Buffered /\ Once' /\ Typed
  BY DEF Queued, Buffered, Once, QueueInv
<1>2. Kept'
  BY <1>1, CallerKeeps DEF QueueInv
<1> QED
  BY <1>1, <1>2, CallerStepKeeps DEF QueueInv, Typed, Known, Closing

LEMMA DrainOnKeeps ==
  ASSUME QueueInv, NEW p \in Caller, DrainOn(p)
  PROVE  QueueInv'
<1>1. caller[p].task = None /\ Free \in CallerSet /\ Free.pc = "free"
  BY CallerKinds DEF DrainOn, QueueInv, Holding, Free
<1>2. CASE Pop(p)
  BY <1>1, <1>2, PopKeeps DEF DrainOn
<1>3. CASE Move(p, Free) /\ UNCHANGED items
  BY <1>1, <1>3, HereKeeps DEF DrainOn
<1> QED
  BY <1>2, <1>3 DEF DrainOn

LEMMA CheckKeeps ==
  ASSUME QueueInv, NEW p \in Caller, CheckStopped(p)
  PROVE  QueueInv'
<1>1. /\ caller[p].pc \in Holding /\ Free \in CallerSet /\ Free.pc = "free"
      /\ {"send", "putBack"} \subseteq Holding
  BY CallerKinds DEF CheckStopped, QueueInv, Holding, Free
<1>2. ASSUME NEW pc \in {"send", "putBack"}, Move(p, [caller[p] EXCEPT !.pc = pc])
      PROVE  QueueInv'
  <2> DEFINE new == [caller[p] EXCEPT !.pc = pc]
  <2>1. /\ new \in CallerSet /\ new.pc # "close"
        /\ new.task = caller[p].task /\ new.drains = caller[p].drains
    BY <1>1, CallerKinds DEF QueueInv
  <2> HIDE DEF new
  <2> QED
    BY <1>2, <2>1, HereKeeps DEF CheckStopped, new
<1>3. CASE Move(p, Free) /\ ~caller[p].drains
  BY <1>1, <1>3, HereKeeps DEF CheckStopped
<1> QED
  BY <1>2, <1>3 DEF CheckStopped

LEMMA PutBackKeeps ==
  ASSUME QueueInv, NEW p \in Caller, PutBack(p)
  PROVE  QueueInv'
<1> DEFINE t == caller[p].task
<1>1. /\ t \in Task /\ Free \in CallerSet /\ Free.pc = "free" /\ Typed
  BY CallerKinds DEF PutBack, QueueInv, Holding, Free
<1>2. /\ items' = Pushed(t) /\ Move(p, Free)
      /\ UNCHANGED <<jobs, closed, stopped, done, worker, failed, copied, accepted>>
  BY DEF PutBack
<1>3. /\ items' \in Seq(Task) /\ Queued' = Queued \union {t} /\ Once' /\ Buffered' = Buffered
  <2>1. Typed /\ Once
    BY DEF QueueInv
  <2>2. /\ Pushed(t) \in Seq(Task)
        /\ {Pushed(t)[k] : k \in DOMAIN Pushed(t)} = Queued \union {t}
        /\ \A i, j \in DOMAIN Pushed(t) : Pushed(t)[i] = Pushed(t)[j] => i = j
    BY <1>1, <2>1, PushedOnce
  <2>3. Queued' = Queued \union {t} /\ Buffered' = Buffered
    BY <1>2, <2>2 DEF Queued, Buffered
  <2> QED
    BY <1>2, <2>2, <2>3 DEF Once
<1>4. Kept'
  BY <1>1, <1>2, <1>3, CallerKeeps DEF QueueInv
<1> QED
  BY <1>1, <1>2, <1>3, <1>4, CallerStepKeeps DEF QueueInv, Typed, Known, Closing

LEMMA SendKeeps ==
  ASSUME QueueInv, NEW p \in Caller, Send(p)
  PROVE  QueueInv'
<1> DEFINE t == caller[p].task
           new == IF caller[p].drains THEN [Free EXCEPT !.pc = "drain", !.drains = TRUE] ELSE Free
<1>1. /\ t \in Task /\ new \in CallerSet /\ new.pc \in {"drain", "free"} /\ Typed
      /\ jobs \in Seq(Task)
  BY CallerKinds DEF Send, QueueInv, Holding, Free, Typed
<1>2. /\ jobs' = Append(jobs, t) /\ Move(p, new) /\ ~closed /\ Len(jobs) < Capacity
      /\ accepted' = accepted \union {t}
      /\ UNCHANGED <<items, closed, stopped, done, worker, failed, copied>>
  BY DEF Send
<1>3. /\ jobs' \in Seq(Task) /\ Len(jobs') <= Capacity /\ Buffered' = Buffered \union {t}
      /\ Once' /\ Queued' = Queued
  BY <1>1, <1>2, AppendElements, SizeAssumption DEF QueueInv, Buffered, Elements, Once, Queued
<1> HIDE DEF new
<1>4. Kept'
  BY <1>1, <1>2, <1>3, CallerKeeps DEF QueueInv
<1> QED
  BY <1>1, <1>2, <1>3, <1>4, CallerStepKeeps DEF QueueInv, Typed, Known, Closing

LEMMA PanicKeeps ==
  ASSUME QueueInv, NEW p \in Caller, SendOnClosed(p)
  PROVE  QueueInv'
  BY DEF SendOnClosed, QueueInv, Typed, Known, Once, Kept, Somewhere, Closing, Queued, Buffered

LEMMA CloseKeeps ==
  ASSUME QueueInv, NEW p \in Caller, Close(p) \/ CloseChannel(p)
  PROVE  QueueInv'
<1> DEFINE new == [Free EXCEPT !.pc = "close"]
<1>0. caller[p].pc \notin Holding /\ Typed
  BY DEF Close, CloseChannel, QueueInv, Holding, Free
<1>1. /\ Free \in CallerSet /\ Free.pc = "free" /\ new \in CallerSet /\ new.pc = "close"
      /\ caller[p].task = None /\ Typed
  BY <1>0, CallerKinds DEF Free
<1>2. /\ UNCHANGED <<items, jobs, done, worker, failed, copied, accepted>>
      /\ Queued' = Queued /\ Buffered' = Buffered /\ Once'
  BY DEF Close, CloseChannel, Queued, Buffered, Once, QueueInv
<1>3. CASE Close(p)
  <2>1. Move(p, new) /\ stopped' = TRUE /\ closed' = closed
    BY <1>3 DEF Close
  <2> HIDE DEF new
  <2>2. Kept'
    BY <1>1, <1>2, <2>1, CallerKeeps DEF QueueInv
  <2> QED
    BY <1>1, <1>2, <2>1, <2>2, CallerStepKeeps DEF QueueInv, Typed, Known, Closing
<1>4. CASE CloseChannel(p)
  <2>1. Move(p, Free) /\ closed' = TRUE /\ stopped' = stopped /\ stopped
    BY <1>4 DEF CloseChannel, QueueInv, Closing
  <2>2. Kept'
    BY <1>1, <1>2, <2>1, CallerKeeps DEF QueueInv
  <2> QED
    BY <1>1, <1>2, <2>1, <2>2, CallerStepKeeps DEF QueueInv, Typed, Known, Closing
<1> QED
  BY <1>3, <1>4

LEMMA CancelKeeps ==
  ASSUME QueueInv, Cancel
  PROVE  QueueInv'
  BY DEF Cancel, QueueInv, Typed, Known, Once, Kept, Somewhere, Closing, Queued, Buffered

LEMMA WorkerKinds ==
  ASSUME Typed, NEW w \in Worker
  PROVE  /\ worker[w] \in WorkerSet
         /\ worker[w].pc = "copying" => worker[w].task \in Task
         /\ worker[w].pc # "copying" => worker[w].task = None
         /\ Ready \in WorkerSet /\ Ready.pc = "ready" /\ Ready.task = None
         /\ worker[w] = Ready => [worker[w] EXCEPT !.pc = "gone"] = [pc |-> "gone", task |-> None]
         /\ [pc |-> "gone", task |-> None] \in WorkerSet
  BY DEF Typed, WorkerSet, Ready

\* A worker moves; what it had is recorded, what it has got was in the channel.
LEMMA WorkerStepKeeps ==
  ASSUME QueueInv, NEW w \in Worker, NEW new \in WorkerSet, worker' = [worker EXCEPT ![w] = new],
         UNCHANGED <<items, closed, stopped, done, caller, accepted>>,
         jobs' \in Seq(Task), Len(jobs') <= Capacity, Buffered = Buffered' \union ({new.task} \ {None}),
         jobs = <<>> => jobs' = <<>>,
         failed \subseteq failed', copied \subseteq copied',
         failed' \union copied' = failed \union copied \union ({worker[w].task} \ {None}),
         new.pc = "gone" => done \/ (closed /\ jobs' = <<>>)
  PROVE  QueueInv'
<1>1. Typed /\ Known /\ Kept /\ Closing /\ Once
  BY DEF QueueInv
<1>2. worker[w].task # None => worker[w].task \in accepted
  BY <1>1, WorkerKinds DEF Known
<1>3. /\ worker' \in [Worker -> WorkerSet] /\ worker'[w] = new
      /\ \A v \in Worker \ {w} : worker'[v] = worker[v]
  BY <1>1 DEF Typed
<1>4. Typed' /\ Once'
  BY <1>1, <1>2, <1>3 DEF Typed, Once
<1>5. new.pc = "copying" => new.task \in Task
  BY DEF WorkerSet
<1>6. Known'
  BY <1>1, <1>3, <1>5, NoneAssumption DEF Known, Buffered
<1>7. ASSUME NEW t \in accepted PROVE Somewhere(t)'
  <2>1. Somewhere(t) /\ t # None /\ Queued' = Queued
    BY <1>1, NoneAssumption DEF Kept, Typed, Queued
  <2>2. ASSUME NEW v \in Worker, worker[v].task = t PROVE Somewhere(t)'
    <3>1. CASE v = w
      BY <2>1, <2>2, <3>1 DEF Somewhere
    <3>2. CASE v # w
      BY <1>3, <2>2, <3>2 DEF Somewhere
    <3> QED
      BY <3>1, <3>2
  <2>3. CASE t \in Buffered
    BY <1>3, <2>3 DEF Somewhere
  <2>4. CASE t \in Queued \/ t \in failed \/ t \in copied
             \/ \E p \in Caller : caller[p].drains /\ caller[p].task = t
    BY <2>1, <2>4 DEF Somewhere
  <2> QED
    BY <2>1, <2>2, <2>3, <2>4 DEF Somewhere
<1>8. Kept'
  BY <1>7 DEF Kept
<1>9. Closing'
  BY <1>1, <1>3 DEF Closing
<1> QED
  BY <1>4, <1>6, <1>8, <1>9 DEF QueueInv

LEMMA WorkerKeeps ==
  ASSUME QueueInv, NEW w \in Worker, WorkerStep(w)
  PROVE  QueueInv'
<1>1. Typed /\ jobs \in Seq(Task) /\ Len(jobs) <= Capacity /\ Capacity \in Nat
  BY SizeAssumption DEF QueueInv, Typed
<1>2. CASE Receive(w)
  <2> DEFINE new == [pc |-> "copying", task |-> Head(jobs)]
  <2>1. /\ worker' = [worker EXCEPT ![w] = new] /\ jobs' = Tail(jobs) /\ jobs # <<>>
        /\ worker[w].task = None
        /\ UNCHANGED <<items, closed, stopped, done, caller, failed, copied, accepted>>
    BY <1>2 DEF Receive, Ready
  <2>2. /\ jobs' \in Seq(Task) /\ Len(jobs') <= Capacity /\ Head(jobs) \in Task
        /\ Buffered = Buffered' \union {Head(jobs)}
    <3>1. /\ Tail(jobs) \in Seq(Task) /\ Len(Tail(jobs)) = Len(jobs) - 1
          /\ Len(jobs) \in Nat \ {0} /\ Head(jobs) \in Task
          /\ Elements(jobs) = Elements(Tail(jobs)) \union {Head(jobs)}
      BY <1>1, <2>1, TailElements
    <3>2. Buffered = Elements(jobs) /\ Buffered' = Elements(Tail(jobs))
      BY <2>1 DEF Buffered, Elements
    <3> QED
      BY <1>1, <2>1, <3>1, <3>2
  <2>3. new \in WorkerSet /\ new.pc = "copying" /\ new.task = Head(jobs) /\ new.task # None
    BY <2>2, NoneAssumption DEF WorkerSet
  <2> HIDE DEF new
  <2> QED
    BY <2>1, <2>2, <2>3, WorkerStepKeeps
<1>3. CASE Exit(w)
  <2> DEFINE new == [pc |-> "gone", task |-> None]
  <2>1. /\ worker[w] = Ready /\ worker' = [worker EXCEPT ![w].pc = "gone"]
        /\ done \/ (closed /\ jobs = <<>>)
        /\ UNCHANGED <<items, jobs, closed, stopped, done, caller, failed, copied, accepted>>
    BY <1>3 DEF Exit
  <2>2. /\ worker' = [worker EXCEPT ![w] = new] /\ worker[w].task = None
        /\ new \in WorkerSet /\ new.task = None
    BY <1>1, <2>1, WorkerKinds
  <2>3. Buffered' = Buffered
    BY <2>1 DEF Buffered
  <2> HIDE DEF new
  <2> QED
    BY <1>1, <2>1, <2>2, <2>3, WorkerStepKeeps
<1>4. CASE Record(w)
  <2>1. /\ worker[w].pc = "copying" /\ worker' = [worker EXCEPT ![w] = Ready]
        /\ UNCHANGED <<items, jobs, closed, stopped, done, caller, accepted>>
        /\ failed \subseteq failed' /\ copied \subseteq copied'
        /\ failed' \union copied' = failed \union copied \union {worker[w].task}
    BY <1>4 DEF Record
  <2>2. /\ Ready \in WorkerSet /\ Ready.task = None /\ Ready.pc = "ready"
        /\ worker[w].task # None
    BY <1>1, <2>1, WorkerKinds, NoneAssumption
  <2>3. Buffered' = Buffered
    BY <2>1 DEF Buffered
  <2> QED
    BY <1>1, <2>1, <2>2, <2>3, WorkerStepKeeps
<1> QED
  BY <1>2, <1>3, <1>4 DEF WorkerStep

LEMMA QueueInductive ==
  ASSUME QueueInv, [Next]_vars
  PROVE  QueueInv'
<1>1. ASSUME NEW p \in Caller, CallerStep(p) \/ Drain(p) \/ Close(p) PROVE QueueInv'
  BY <1>1, CheckKeeps, PutBackKeeps, SendKeeps, PanicKeeps, DrainOnKeeps, CloseKeeps, DrainKeeps
  DEF CallerStep
<1>2. ASSUME NEW p \in Caller, NEW t \in Task, Push(p, t) \/ Enqueue(p, t) PROVE QueueInv'
  BY <1>2, PushKeeps, EnqueueKeeps
<1>3. ASSUME NEW w \in Worker, WorkerStep(w) PROVE QueueInv'
  BY <1>3, WorkerKeeps
<1>4. CASE Cancel
  BY <1>4, CancelKeeps
<1>5. CASE UNCHANGED vars
  BY <1>5 DEF vars, QueueInv, Typed, Known, Once, Kept, Somewhere, Closing, Queued, Buffered
<1> QED
  BY <1>1, <1>2, <1>3, <1>4, <1>5 DEF Next

-----------------------------------------------------------------------------

LEMMA QueueTypes == QueueInv => TypeOK
<1> SUFFICES ASSUME QueueInv PROVE TypeOK
  OBVIOUS
<1>1. Queued \subseteq Task /\ Buffered \subseteq Task
  BY DEF QueueInv, Typed, Queued, Buffered
<1>2. ASSUME NEW p \in Caller
      PROVE  (caller[p].task # None) <=> caller[p].pc \in {"check", "send", "putBack"}
  BY CallerKinds, NoneAssumption DEF QueueInv, Holding
<1>3. ASSUME NEW w \in Worker PROVE (worker[w].task # None) <=> worker[w].pc = "copying"
  BY WorkerKinds, NoneAssumption DEF QueueInv
<1> QED
  BY <1>1, <1>2, <1>3 DEF QueueInv, Typed, Closing, TypeOK

LEMMA QueueImplies == QueueInv => NothingLost /\ StopsClean
<1>1. ASSUME QueueInv PROVE NothingLost
  BY <1>1 DEF QueueInv, Kept, Somewhere, Once, NothingLost, InHand
<1>2. ASSUME QueueInv PROVE StopsClean
  BY <1>2, WorkerAssumption DEF QueueInv, Closing, StopsClean
<1> QED
  BY <1>1, <1>2

\* The types of the pool, for any callers, workers, tasks and capacity.
THEOREM QueueTyped == Spec => []TypeOK
<1> QED
  BY InitQueue, QueueInductive, QueueTypes, PTL DEF Spec

\* No order of pushing, draining, enqueuing, closing and cancelling, by any number
\* of goroutines, loses a task that was accepted or queues it twice
\* (coordinator.go:109, queue.go:28).
THEOREM NeverLost == Spec => []NothingLost
<1> QED
  BY InitQueue, QueueInductive, QueueImplies, PTL DEF Spec

\* When the workers of a coordinator that was closed and not cancelled are gone,
\* nothing is left in the channel, however many they are (coordinator.go:14).
THEOREM LeavesNothing == Spec => []StopsClean
<1> QED
  BY InitQueue, QueueInductive, QueueImplies, PTL DEF Spec

-----------------------------------------------------------------------------
(* Closing in order. *)

\* Nobody is about to send once Close has begun.
OrderlyInv ==
  /\ stopped => \A p \in Caller : caller[p].pc # "send"
  /\ closed => stopped
  /\ ~panicked

\* Whoever closes does so when all callers are free, and from then on Enqueue is
\* refused before it sends.
LEMMA OrderlyNext ==
  ASSUME Orderly, QueueInv, OrderlyInv, [Next]_vars
  PROVE  OrderlyInv'
<1>1. DOMAIN caller = Caller
  BY DEF QueueInv, Typed
<1>2. CASE UNCHANGED vars
  BY <1>2 DEF OrderlyInv, vars
<1>3. ASSUME NEW p \in Caller, CheckStopped(p) PROVE OrderlyInv'
  <2>1. CASE stopped
    <3>1. PICK l : l.pc # "send" /\ caller' = [caller EXCEPT ![p] = l]
      <4>1. [caller[p] EXCEPT !.pc = "putBack"].pc # "send" /\ Free.pc # "send"
        <5>1. caller[p] \in CallerSet
          BY DEF QueueInv, Typed
        <5> QED
          BY <5>1 DEF CallerSet, Holding, Free
      <4> QED
        BY <1>3, <2>1, <4>1 DEF CheckStopped, Move
    <3>2. UNCHANGED <<stopped, closed, panicked>>
      BY <1>3 DEF CheckStopped
    <3> QED
      BY <1>1, <2>1, <3>1, <3>2 DEF OrderlyInv
  <2>2. CASE ~stopped
    <3>1. UNCHANGED <<stopped, closed, panicked>>
      BY <1>3 DEF CheckStopped
    <3> QED
      BY <2>2, <3>1 DEF OrderlyInv
  <2> QED
    BY <2>1, <2>2
<1>4. ASSUME NEW p \in Caller, PutBack(p) PROVE OrderlyInv'
  BY <1>1, <1>4 DEF OrderlyInv, PutBack, Move, Free
<1>5. ASSUME NEW p \in Caller, Send(p) PROVE OrderlyInv'
  BY <1>1, <1>5 DEF OrderlyInv, Send, Move, Free
<1>6. ASSUME NEW p \in Caller PROVE ~SendOnClosed(p)
  BY DEF OrderlyInv, SendOnClosed
<1>7. ASSUME NEW p \in Caller, DrainOn(p) \/ Drain(p) PROVE OrderlyInv'
  BY <1>1, <1>7 DEF OrderlyInv, DrainOn, Drain, Pop, Move, Free
<1>8. ASSUME NEW p \in Caller, CloseChannel(p) PROVE OrderlyInv'
  BY <1>1, <1>8 DEF OrderlyInv, QueueInv, Closing, CloseChannel, Move, Free
<1>9. ASSUME NEW p \in Caller, Close(p) PROVE OrderlyInv'
  BY <1>1, <1>9 DEF OrderlyInv, Close, Move, Free
<1>10. ASSUME NEW p \in Caller, NEW t \in Task, Push(p, t) \/ Enqueue(p, t) PROVE OrderlyInv'
  BY <1>1, <1>10 DEF OrderlyInv, Push, Enqueue, Move, Free
<1>11. ASSUME NEW w \in Worker, WorkerStep(w) PROVE OrderlyInv'
  BY <1>11 DEF OrderlyInv, WorkerStep, Receive, Exit, Record
<1>12. CASE Cancel
  BY <1>12 DEF OrderlyInv, Cancel
<1> QED
  BY <1>2, <1>3, <1>4, <1>5, <1>6, <1>7, <1>8, <1>9, <1>10, <1>11, <1>12 DEF Next, CallerStep

\* Enqueue never panics when Close is called only while nobody enqueues or drains,
\* however many goroutines go on to enqueue afterwards (coordinator.go:68-80,
\* coordinator_test.go:21).
THEOREM OrderlyNeverPanics == ASSUME Orderly PROVE Spec => []NeverPanics
<1>1. Init => QueueInv /\ OrderlyInv
  BY InitQueue DEF Init, OrderlyInv, Free
<1>2. QueueInv /\ [Next]_vars => QueueInv'
  BY QueueInductive
<1>3. QueueInv /\ OrderlyInv /\ [Next]_vars => OrderlyInv'
  BY OrderlyNext
<1>4. OrderlyInv => NeverPanics
  BY DEF OrderlyInv, NeverPanics
<1> QED
  BY <1>1, <1>2, <1>3, <1>4, PTL DEF Spec
=============================================================================
