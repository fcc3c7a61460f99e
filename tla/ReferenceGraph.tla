---------------------------- MODULE ReferenceGraph ----------------------------
(***************************************************************************)
(* The reference graph of domain/validation.go 116-173 with the mark set   *)
(* and the sweeper of package gc.  They have no locks: a caller uses them  *)
(* one call at a time, but manifests may come and go between its calls.    *)
(* Nothing in src/ connects them; a caller marks what is reachable from    *)
(* the tagged manifests and sweeps the keys it has listed.                 *)
(***************************************************************************)
EXTENDS Naturals, SequencesExt

CONSTANTS
  Digest,
  Contents,    \* what the manifests may refer to: functions from digests to sequences
  Concurrent,  \* are manifests added between the mark and the sweep?
  MaxAdded     \* a bound on how often manifests are added

VARIABLES
  refs,     \* what the manifest of a digest refers to, given by its content
  edges,    \* g.Edges: digests added, with their references
  reverse,  \* g.Reverse: how often each list has each digest
  queue, seen,  \* the search
  roots,    \* where it began
  keys,     \* the sweeper's keys
  phase,
  added

graph == <<refs, edges, reverse>>
vars == <<graph, queue, seen, roots, keys, phase, added>>

Init ==
  /\ refs \in Contents
  /\ edges = <<>>
  /\ reverse = [e \in Digest |-> [d \in Digest |-> 0]]
  /\ queue = <<>> /\ seen = {} /\ roots = {} /\ keys = {}
  /\ phase = "idle" /\ added = 0

-----------------------------------------------------------------------------
(* The graph *)

Times(d, e) == Cardinality({k \in DOMAIN refs[d] : refs[d][k] = e})

\* A reference that is repeated is recorded as often, and so is a manifest that
\* is added again.
AddManifest(d) ==
  /\ phase \in IF Concurrent THEN {"idle", "marked", "listed"} ELSE {"idle"}
  /\ added < MaxAdded /\ added' = added + 1
  /\ edges' = [x \in DOMAIN edges \union {d} |-> IF x = d THEN refs[d] ELSE edges[x]]
  /\ reverse' = [e \in Digest |-> [reverse[e] EXCEPT ![d] = @ + Times(d, e)]]
  /\ UNCHANGED <<refs, queue, seen, roots, keys, phase>>

\* Seeded fault: only one occurrence goes.
WithoutOne(list, d) == [list EXCEPT ![d] = IF @ = 0 THEN 0 ELSE @ - 1]

Without(list, d) == [list EXCEPT ![d] = 0]

RemoveManifest(d) ==
  /\ phase # "mark" /\ d \in DOMAIN edges
  /\ reverse' = [e \in Digest |->
                   IF Contains(edges[d], e) THEN Without(reverse[e], d) ELSE reverse[e]]
  /\ edges' = [x \in DOMAIN edges \ {d} |-> edges[x]]
  /\ UNCHANGED <<refs, queue, seen, roots, keys, phase, added>>

-----------------------------------------------------------------------------
(* Mark and sweep *)

\* Reachable, from the tagged manifests.
StartMark(R) ==
  /\ phase = "idle" /\ phase' = "mark"
  /\ roots' = R /\ queue' = SetToSeq(R) /\ seen' = {}
  /\ UNCHANGED <<graph, keys, added>>

Children(d) == IF d \in DOMAIN edges THEN edges[d] ELSE <<>>

QueueAfter(d) == Tail(queue) \o Children(d)

MarkStep ==
  /\ phase = "mark" /\ queue # <<>>
  /\ LET d == Head(queue)
     IN  IF d \in seen THEN queue' = Tail(queue) /\ UNCHANGED seen
         ELSE queue' = QueueAfter(d) /\ seen' = seen \union {d}
  /\ UNCHANGED <<graph, roots, keys, phase, added>>

\* Reachable returns what it has seen, and the caller marks that.
EndMark ==
  /\ phase = "mark" /\ queue = <<>>
  /\ phase' = "marked"
  /\ UNCHANGED <<graph, queue, seen, roots, keys, added>>

\* Everything that was added, and what it refers to.
Stored == DOMAIN edges \union UNION {ToSet(edges[d]) : d \in DOMAIN edges}

\* NewSweeper copies the keys.
ListKeys ==
  /\ phase = "marked"
  /\ keys' = Stored /\ phase' = "listed"
  /\ UNCHANGED <<graph, queue, seen, roots, added>>

\* Seeded fault: the marks are mixed up with the roots.
UnmarkedRoots == keys \ roots

\* What Sweep returns.
Unmarked == keys \ seen

\* The caller deletes it, and begins anew.
EndSweep ==
  /\ phase = "listed" /\ phase' = "idle"
  /\ edges' = [d \in DOMAIN edges \ Unmarked |-> edges[d]]
  /\ reverse' = [e \in Digest |-> [d \in Digest |-> IF d \in Unmarked THEN 0 ELSE reverse[e][d]]]
  /\ queue' = <<>> /\ seen' = {} /\ roots' = {} /\ keys' = {}
  /\ UNCHANGED <<refs, added>>

Next ==
  \/ \E d \in Digest : AddManifest(d) \/ RemoveManifest(d)
  \/ \E R \in SUBSET DOMAIN edges : StartMark(R)
  \/ MarkStep \/ EndMark \/ ListKeys \/ EndSweep

Spec == Init /\ [][Next]_vars

-----------------------------------------------------------------------------
(* Properties *)

Closed(S) == \A x \in S : ToSet(Children(x)) \subseteq S

\* What references lead to from R: what no closed set that has R can miss.
Reach(R) == {y \in Digest : \A S \in SUBSET Digest : R \subseteq S /\ Closed(S) => y \in S}

\* The dependents of a digest are the manifests in the graph that refer to it,
\* however often they were added and removed (validation.go 132-134, 162-171).
DependentsExact ==
  \A e \in Digest : {d \in Digest : reverse[e][d] > 0} = {d \in DOMAIN edges : Contains(edges[d], e)}

\* The search finds what the tagged manifests lead to over any number of
\* references, and nothing else; a sweep takes nothing they still lead to, also if
\* others were removed since the mark (validation.go 143-151, sweep.go:27).
SweepKeeps ==
  /\ phase = "mark" /\ queue = <<>> => seen = Reach(roots)
  /\ phase = "listed" => Unmarked \cap Reach(roots) = {}

\* No manifest is listed twice among the dependents of a digest it refers to once.
DependentsOnce == \A d, e \in Digest : reverse[e][d] <= 1
=============================================================================
