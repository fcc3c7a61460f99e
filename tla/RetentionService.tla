--------------------------- MODULE RetentionService ---------------------------
(***************************************************************************)
(* RetentionService.Evaluate (application/retention.go 25-93) for one      *)
(* repository, while manifests are pushed, tagged and deleted.  It reports *)
(* which manifests are worth keeping; the collection of ContentService     *)
(* asks the same question in its own way.  Digests and tag names are       *)
(* numbers in their order.  One policy applies, by number, not by age.     *)
(***************************************************************************)
EXTENDS Integers, SequencesExt

CONSTANTS Digest, Tag, KeepLast, PageLimit, MaxChanges

VARIABLES
  manifests,  \* the digests in the repository, the newest first
  tags,       \* per tag, the digest it names, 0 for none
  changes,
  evaluation  \* where Evaluate is and what it has found

vars == <<manifests, tags, changes, evaluation>>

\* always: history, the digests that have been tagged since the evaluation began.
Idle == [pc |-> "idle", listed |-> <<>>, last |-> 0, tagged |-> {}, index |-> 1,
         kept |-> {}, unreferenced |-> {}, always |-> {}]

Named(names) == {names[t] : t \in Tag} \ {0}

Init ==
  /\ manifests = <<>> /\ tags = [t \in Tag |-> 0]
  /\ changes = 0 /\ evaluation = Idle

-----------------------------------------------------------------------------
(* What others do meanwhile *)

Change(newManifests, newTags) ==
  /\ changes < MaxChanges /\ changes' = changes + 1
  /\ manifests' = newManifests /\ tags' = newTags
  /\ evaluation' = [evaluation EXCEPT !.always = @ \cap Named(newTags)]

Push(d) == ~Contains(manifests, d) /\ Change(<<d>> \o manifests, tags)

MoveTag(t, d) == Contains(manifests, d) /\ Change(manifests, [tags EXCEPT ![t] = d])

\* The tags of the manifest go, too.
Delete(d) ==
  /\ Contains(manifests, d)
  /\ Change(Remove(manifests, d), [t \in Tag |-> IF tags[t] = d THEN 0 ELSE tags[t]])

-----------------------------------------------------------------------------
(* Evaluate *)

Go(next) == evaluation' = next /\ UNCHANGED <<manifests, tags, changes>>

\* ListManifestDigests sorts by digest.
ListDigests ==
  /\ evaluation.pc = "idle"
  /\ Go([Idle EXCEPT !.pc = "tags", !.listed = SortSeq(manifests, <), !.always = Named(tags)])

\* Catalog.ListTags: the first name left out is Next, and the next page begins
\* behind it.
ListTags ==
  /\ evaluation.pc = "tags"
  /\ LET after == {t \in Tag : t > evaluation.last /\ tags[t] # 0}
         page == {t \in after : Cardinality({u \in after : u < t}) < PageLimit}
         left == after \ page
         found == [evaluation EXCEPT !.tagged = @ \union {tags[t] : t \in page}]
     IN  Go(IF left = {} THEN [found EXCEPT !.pc = "judge"]
            ELSE [found EXCEPT !.last = Min(left)])

\* Seeded fault: the number of manifests a policy keeps is all that counts.
KeptByNumber(index, d) == index <= KeepLast

Kept(index, d) == index <= KeepLast \/ d \in evaluation.tagged

\* A manifest that is gone gets no verdict, but its place counts.
Judge ==
  /\ evaluation.pc = "judge" /\ evaluation.index <= Len(evaluation.listed)
  /\ LET e == evaluation
         d == e.listed[e.index]
         judged == IF ~Contains(manifests, d) THEN e
                   ELSE IF Kept(e.index, d) THEN [e EXCEPT !.kept = @ \union {d}]
                   ELSE [e EXCEPT !.unreferenced = @ \union {d}]
     IN  Go([judged EXCEPT !.index = @ + 1])

Report ==
  /\ evaluation.pc = "judge" /\ evaluation.index > Len(evaluation.listed)
  /\ Go([evaluation EXCEPT !.pc = "done"])

Next ==
  \/ \E d \in Digest : Push(d) \/ Delete(d) \/ \E t \in Tag : MoveTag(t, d)
  \/ ListDigests \/ ListTags \/ Judge \/ Report

Spec == Init /\ [][Next]_vars

-----------------------------------------------------------------------------
(* Properties *)

Done == evaluation.pc = "done"

\* A manifest that was tagged all the time is not reported as unreferenced,
\* whatever was pushed, moved and deleted meanwhile (retention.go 38-57).
TaggedReported == Done => evaluation.always \cap evaluation.unreferenced = {}

\* What a collection would delete now (lifecycle.go 175-185).
Collected ==
  {manifests[k] : k \in KeepLast + 1 .. Len(manifests)} \ Named(tags)

\* When nothing changed since, a collection deletes what was reported.
ReportIsCollection ==
  Done /\ ToSet(evaluation.listed) = ToSet(manifests)
       /\ evaluation.tagged = Named(tags) => evaluation.unreferenced = Collected
=============================================================================
