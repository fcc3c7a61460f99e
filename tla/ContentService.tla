---------------------------- MODULE ContentService ----------------------------
(***************************************************************************)
(* What a registry holds: blobs, the manifests that reference them, the    *)
(* tags that name manifests, and the garbage collector that deletes what   *)
(* is not referenced (application/registry.go 267-360, lifecycle.go 46-80  *)
(* and 144-262) over the in-memory catalog (memory/catalog.go and          *)
(* catalog_more.go).                                                       *)
(*                                                                         *)
(* Every critical section of the catalog's mutex is a step; what a handler *)
(* computes until its next access belongs to the step before it.  Blobs    *)
(* get into the catalog in one step here: how they do is module            *)
(* UploadService.                                                          *)
(***************************************************************************)
EXTENDS Integers, Sequences, FiniteSetsExt

CONSTANTS
  Proc,          \* request goroutines
  Collector,     \* garbage collection requests
  Repo, Tag,     \* repository and tag names; tag names are ordered, from 1 on
  Layer,         \* digests of blobs that are no manifests
  Manifest,      \* digests of manifests
  Refs,          \* what a manifest references: config, layers, manifests, subject
  Policy,        \* retention policies that may be stored
  PageLimit,     \* the page size with which GarbageCollect lists tags, 1000
  ScanResult,    \* what the scanner may answer
  MaxTime,       \* a bound on the clock
  MaxVersion,    \* a bound on changes of a repository
  Events,        \* the kinds of request that occur
  Overlapping,   \* may requests overlap at all?
  None

Digest == Layer \union Manifest
Statuses == {"pending", "running", "passed", "failed", "unsupported"}

ASSUME NameAssumption ==
  /\ Tag \subseteq Nat \ {0} /\ Tag \cap Digest = {}
  /\ None \notin Digest \union Repo \union Tag
ASSUME ContentAssumption == Layer \cap Manifest = {} /\ Refs \in [Manifest -> Seq(Digest)]
ASSUME PolicyAssumption ==
  Policy \subseteq [id : Nat, repos : SUBSET Repo, keepLast : Nat, maxAge : Nat]
ASSUME ScanAssumption == ScanResult \subseteq Statuses
ASSUME BoundAssumption == PageLimit \in Nat \ {0} /\ MaxTime \in Nat /\ MaxVersion \in Nat
ASSUME SwitchAssumption == Overlapping \in BOOLEAN

VARIABLES
  repos,      \* repository records: version (0: none) and immutableTags
  blobs,      \* digests of the stored blobs
  manifests,  \* per repository and digest: lifecycle state and creation time
  tags,       \* per repository and name: a digest and whether it may change
  policies,   \* the stored retention policies
  scans,      \* scan reports by manifest digest, from which their id is made
  clock,
  req,        \* per process, the position and the locals of its handler
  gc          \* the same for collections

vars == <<repos, blobs, manifests, tags, policies, scans, clock, req, gc>>

NoRepository == [version |-> 0, immutable |-> FALSE]
NoManifest == [state |-> "none", created |-> 0]
NoTag == [digest |-> None, immutable |-> FALSE]
NoScan == [repo |-> None, status |-> "none"]

\* ref: the tag or digest the client names; todo: references still to check.
Idle == [pc |-> "idle", repo |-> None, version |-> 0, immutable |-> FALSE,
         manifest |-> None, found |-> NoManifest, ref |-> None, todo |-> <<>>,
         status |-> "none"]

\* all, policies: the snapshots taken; todo: repositories whose tags are to be
\* read; repo, last, tagged: the one being read, the page reached and the digests
\* tagged so far in it; reached: digests that stay; doomed: the manifests to
\* delete, with their repository; garbage: the blobs to delete.
Waiting == [pc |-> "idle", dry |-> TRUE, all |-> [r \in Repo |-> [m \in Manifest |-> NoManifest]],
            policies |-> {}, todo |-> {}, repo |-> None, last |-> 0, tagged |-> {},
            reached |-> {}, doomed |-> {}, garbage |-> {}]

Init ==
  /\ repos = [r \in Repo |-> NoRepository]
  /\ blobs = {} /\ policies = {} /\ clock = 0
  /\ manifests = [r \in Repo |-> [m \in Manifest |-> NoManifest]]
  /\ tags = [r \in Repo |-> [t \in Tag |-> NoTag]]
  /\ scans = [m \in Manifest |-> NoScan]
  /\ req = [p \in Proc |-> Idle]
  /\ gc = [c \in Collector |-> Waiting]

-----------------------------------------------------------------------------
(* Building blocks *)

Quiescent == (\A p \in Proc : req[p] = Idle) /\ (\A c \in Collector : gc[c] = Waiting)

May(kind) == kind \in Events /\ (Overlapping \/ Quiescent)

At(p, where) == req[p].pc = where
Continue(p, local) == req' = [req EXCEPT ![p] = local]
Return(p) == Continue(p, Idle)

Collects(c, where) == gc[c].pc = where
Proceed(c, local) == gc' = [gc EXCEPT ![c] = local]
Finish(c) == Proceed(c, Waiting)

Stored(r) == {m \in Manifest : manifests[r][m].state # "none"}

References(m) == {Refs[m][k] : k \in DOMAIN Refs[m]}

\* Catalog.PutManifest keeps the manifest it has.
PutManifest(r, m, manifest) ==
  manifests' = IF m \in Stored(r) THEN manifests
               ELSE [manifests EXCEPT ![r][m] = manifest]

\* Seeded fault: the tags of a deleted manifest stay.
DeleteOnly(r, m) ==
  /\ manifests' = [manifests EXCEPT ![r][m] = NoManifest]
  /\ UNCHANGED tags

\* Catalog.DeleteManifest deletes the tags that name the manifest with it.
DeleteFrom(r, m) ==
  /\ manifests' = [manifests EXCEPT ![r][m] = NoManifest]
  /\ tags' = [tags EXCEPT ![r] = [t \in Tag |-> IF @[t].digest = m THEN NoTag ELSE @[t]]]

-----------------------------------------------------------------------------
(* Repositories, blobs, policies and the clock *)

CreateRepository(r, immutable) ==
  /\ May("create")
  /\ repos[r].version = 0
  /\ repos' = [repos EXCEPT ![r] = [version |-> 1, immutable |-> immutable]]
  /\ UNCHANGED <<blobs, manifests, tags, policies, scans, clock, req, gc>>

\* A request whose If-Match-Version is not the version read changes nothing.
SetTagImmutability(p, r, value) ==
  /\ May("immutability") /\ At(p, "idle")
  /\ repos[r].version \in 1..(MaxVersion - 1)
  /\ Continue(p, [Idle EXCEPT !.pc = "update", !.repo = r, !.immutable = value,
                              !.version = repos[r].version + 1])
  /\ UNCHANGED <<repos, blobs, manifests, tags, policies, scans, clock, gc>>

UpdateRepository(p) ==
  /\ At(p, "update")
  /\ LET r == req[p]
     IN  IF repos[r.repo].version = r.version - 1
         THEN repos' = [repos EXCEPT ![r.repo] = [version |-> r.version, immutable |-> r.immutable]]
         ELSE UNCHANGED repos
  /\ Return(p)
  /\ UNCHANGED <<blobs, manifests, tags, policies, scans, clock, gc>>

\* The end of CompleteUpload.
PushBlob(d) ==
  /\ May("blob")
  /\ d \notin blobs
  /\ blobs' = blobs \union {d}
  /\ UNCHANGED <<repos, manifests, tags, policies, scans, clock, req, gc>>

\* RetentionPolicy.Applies holds of the repositories in repos, none when the
\* policy is disabled.
PutPolicy(policy) ==
  /\ May("policy")
  /\ policy \notin policies
  /\ policies' = {q \in policies : q.id # policy.id} \union {policy}
  /\ UNCHANGED <<repos, blobs, manifests, tags, scans, clock, req, gc>>

DeletePolicy(policy) ==
  /\ May("policy")
  /\ policy \in policies
  /\ policies' = policies \ {policy}
  /\ UNCHANGED <<repos, blobs, manifests, tags, scans, clock, req, gc>>

Tick ==
  /\ clock < MaxTime
  /\ clock' = clock + 1
  /\ UNCHANGED <<repos, blobs, manifests, tags, policies, scans, req, gc>>

-----------------------------------------------------------------------------
(* PutManifest and DeleteManifest *)

\* The repository is read here; what it says about tags is used at the end.
BeginPut(p, r, m, ref) ==
  /\ May("put") /\ At(p, "idle")
  /\ repos[r].version # 0
  /\ Continue(p, [Idle EXCEPT !.pc = "check", !.repo = r, !.immutable = repos[r].immutable,
                              !.manifest = m, !.ref = ref, !.todo = Refs[m],
                              !.found = [state |-> "quarantined", created |-> clock]])
  /\ UNCHANGED <<repos, blobs, manifests, tags, policies, scans, clock, gc>>

\* Seeded fault: whether the reference exists is not looked at.
CheckNothing(p) ==
  /\ At(p, "check") /\ req[p].todo # <<>>
  /\ Continue(p, [req[p] EXCEPT !.todo = Tail(@)])
  /\ UNCHANGED <<repos, blobs, manifests, tags, policies, scans, clock, gc>>

CheckReference(p) ==
  /\ At(p, "check") /\ req[p].todo # <<>>
  /\ IF Head(req[p].todo) \in blobs
     THEN Continue(p, [req[p] EXCEPT !.todo = Tail(@)])
     ELSE Return(p)
  /\ UNCHANGED <<repos, blobs, manifests, tags, policies, scans, clock, gc>>

\* The manifest is stored before a reference by digest is compared with it.
StoreManifest(p) ==
  /\ At(p, "check") /\ req[p].todo = <<>>
  /\ LET r == req[p]
     IN  /\ PutManifest(r.repo, r.manifest, r.found)
         /\ IF r.ref \in Tag THEN Continue(p, [r EXCEPT !.pc = "getTag"]) ELSE Return(p)
  /\ UNCHANGED <<repos, blobs, tags, policies, scans, clock, gc>>

\* Seeded fault: a tag moves whether or not it is immutable.
MovesAlways(tag, m) == TRUE

\* Tag.Move
Moves(tag, m) == tag.immutable => tag.digest = m

\* A tag that exists keeps its flag, a new one takes the repository's.
ReadTag(p) ==
  /\ At(p, "getTag")
  /\ LET r == req[p]
         old == tags[r.repo][r.ref]
     IN  \/ /\ old = NoTag
            /\ Continue(p, [r EXCEPT !.pc = "putTag"])
         \/ /\ old # NoTag /\ Moves(old, r.manifest)
            /\ Continue(p, [r EXCEPT !.pc = "putTag", !.immutable = old.immutable])
         \/ /\ old # NoTag /\ ~Moves(old, r.manifest)
            /\ Return(p)
  /\ UNCHANGED <<repos, blobs, manifests, tags, policies, scans, clock, gc>>

\* PutTag asks for nothing: not for the tag read, nor for the manifest.
PutTag(p) ==
  /\ At(p, "putTag")
  /\ LET r == req[p]
     IN  tags' = [tags EXCEPT ![r.repo][r.ref] = [digest |-> r.manifest, immutable |-> r.immutable]]
  /\ Return(p)
  /\ UNCHANGED <<repos, blobs, manifests, policies, scans, clock, gc>>

DeleteManifest(r, m) ==
  /\ May("delete")
  /\ m \in Stored(r)
  /\ DeleteFrom(r, m)
  /\ UNCHANGED <<repos, blobs, policies, scans, clock, req, gc>>

-----------------------------------------------------------------------------
(* SubmitScan *)

\* Lifecycle.CanTransition
Transitions ==
  {<<"quarantined", "scanning">>, <<"quarantined", "blocked">>, <<"quarantined", "expired">>,
   <<"scanning", "available">>, <<"scanning", "blocked">>, <<"scanning", "expired">>,
   <<"available", "blocked">>, <<"available", "retained">>, <<"available", "expired">>,
   <<"blocked", "scanning">>, <<"blocked", "expired">>,
   <<"retained", "available">>, <<"retained", "expired">>}

CanTransition(from, to) == from = to \/ <<from, to>> \in Transitions

NextState(status) ==
  IF status = "passed" THEN "available" ELSE IF status = "failed" THEN "blocked" ELSE "scanning"

\* A private copy of the manifest is scanned.
LoadForScan(p, r, ref, status) ==
  /\ May("scan") /\ At(p, "idle")
  /\ repos[r].version # 0
  /\ LET m == IF ref \in Tag THEN tags[r][ref].digest ELSE ref
     IN  /\ m \in Stored(r)
         /\ Continue(p, [Idle EXCEPT !.pc = "createScan", !.repo = r, !.manifest = m,
                                     !.found = manifests[r][m], !.status = status])
  /\ UNCHANGED <<repos, blobs, manifests, tags, policies, scans, clock, gc>>

CreateScan(p) ==
  /\ At(p, "createScan")
  /\ LET r == req[p]
         next == NextState(r.status)
     IN  IF scans[r.manifest] # NoScan THEN Return(p) /\ UNCHANGED scans
         ELSE /\ scans' = [scans EXCEPT ![r.manifest] = [repo |-> r.repo, status |-> r.status]]
              /\ IF CanTransition(r.found.state, next)
                 THEN Continue(p, [r EXCEPT !.pc = "storeScanned", !.found.state = next])
                 ELSE Return(p)
  /\ UNCHANGED <<repos, blobs, manifests, tags, policies, clock, gc>>

StoreScanned(p) ==
  /\ At(p, "storeScanned")
  /\ PutManifest(req[p].repo, req[p].manifest, req[p].found)
  /\ Return(p)
  /\ UNCHANGED <<repos, blobs, tags, policies, scans, clock, gc>>

-----------------------------------------------------------------------------
(* GarbageCollect *)

Listed(all, r) == {m \in Manifest : all[r][m].state # "none"}

\* A request may name one repository; it then sees the tags of that one only.
ListManifests(c, dry, only) ==
  /\ May("gc") /\ Collects(c, "idle")
  /\ Proceed(c, [Waiting EXCEPT !.pc = "policies", !.dry = dry, !.all = manifests,
                                !.todo = {r \in only : Listed(manifests, r) # {}}])
  /\ UNCHANGED <<repos, blobs, manifests, tags, policies, scans, clock, req>>

ListPolicies(c) ==
  /\ Collects(c, "policies")
  /\ Proceed(c, [gc[c] EXCEPT !.pc = IF gc[c].todo = {} THEN "blobs" ELSE "tags",
                              !.policies = policies])
  /\ UNCHANGED <<repos, blobs, manifests, tags, policies, scans, clock, req>>

\* Seeded fault: a policy keeps one manifest too few.
KeepsOneLess(policy, r, index, created) ==
  /\ r \in policy.repos
  /\ policy.keepLast > index + 1 \/ (policy.maxAge > 0 /\ created > clock - policy.maxAge)

\* The condition of the loop over the policies; index counts newer manifests.
Keeps(policy, r, index, created) ==
  /\ r \in policy.repos
  /\ policy.keepLast > index \/ (policy.maxAge > 0 /\ created > clock - policy.maxAge)

\* sort.Slice: newest first, equal times in any order.
Rankings(all, r) ==
  LET listed == Listed(all, r)
  IN  {rank \in [listed -> 0..(Cardinality(listed) - 1)] :
         \A a, b \in listed : /\ rank[a] = rank[b] => a = b
                              /\ all[r][a].created > all[r][b].created => rank[a] < rank[b]}

\* Seeded fault: tags protect nothing.
CandidatesWithTagged(local, r, tagged, rank) ==
  {m \in Listed(local.all, r) :
     ~\E policy \in local.policies : Keeps(policy, r, rank[m], local.all[r][m].created)}

Candidates(local, r, tagged, rank) ==
  {m \in Listed(local.all, r) \ tagged :
     ~\E policy \in local.policies : Keeps(policy, r, rank[m], local.all[r][m].created)}

\* Tags.ListTags: at most PageLimit names after last, in their order.
PageAfter(r, last) ==
  LET names == {t \in Tag : t > last /\ tags[r][t] # NoTag}
  IN  {t \in names : Cardinality({u \in names : u < t}) < PageLimit}

\* Seeded fault: whether there is a next page is asked of all names.
NextOfAll(r, last) ==
  LET left == {t \in Tag : tags[r][t] # NoTag} \ PageAfter(r, last)
  IN  IF left = {} THEN 0 ELSE Min(left)

\* Page.Next, 0 after the last page: the first name left out, which the next
\* page, of names after it, leaves out too.
NextLast(r, last) ==
  LET left == {t \in Tag : t > last /\ tags[r][t] # NoTag} \ PageAfter(r, last)
  IN  IF left = {} THEN 0 ELSE Min(left)

\* One page of tags; after the last one the manifests of the repository are
\* judged.  Repositories are visited in any order.
ListTags(c, r) ==
  /\ Collects(c, "tags")
  /\ IF gc[c].repo = None THEN r \in gc[c].todo ELSE r = gc[c].repo
  /\ LET local == gc[c]
         named == {tags[r][t].digest : t \in PageAfter(r, local.last)}
         tagged == local.tagged \union named
         next == NextLast(r, local.last)
     IN  IF next # 0
         THEN Proceed(c, [local EXCEPT !.repo = r, !.last = next, !.tagged = tagged])
         ELSE \E rank \in Rankings(local.all, r) :
                LET candidates == Candidates(local, r, tagged, rank)
                    rest == local.todo \ {r}
                IN  Proceed(c, [local EXCEPT
                      !.pc = IF rest = {} THEN "blobs" ELSE "tags",
                      !.todo = rest, !.repo = None, !.last = 0, !.tagged = {},
                      !.reached = @ \union tagged \union (Listed(local.all, r) \ candidates),
                      !.doomed = @ \union ({r} \X candidates)])
  /\ UNCHANGED <<repos, blobs, manifests, tags, policies, scans, clock, req>>

\* candidateContains looks for the digest in every repository's candidates.
Live(local) ==
  (UNION {Listed(local.all, r) : r \in Repo}) \ {pair[2] : pair \in local.doomed}

ReachedFrom(local) ==
  local.reached \union Live(local) \union UNION {References(m) : m \in Live(local)}

AfterDelete(c, local) ==
  IF local.doomed = {} /\ local.garbage = {} THEN Finish(c) ELSE Proceed(c, local)

ListBlobs(c) ==
  /\ Collects(c, "blobs")
  /\ LET reached == ReachedFrom(gc[c])
     IN  IF gc[c].dry THEN Finish(c)
         ELSE AfterDelete(c, [gc[c] EXCEPT !.pc = "delete", !.reached = reached,
                                           !.garbage = blobs \ reached])
  /\ UNCHANGED <<repos, blobs, manifests, tags, policies, scans, clock, req>>

\* One repository after another, the newest candidate first.
IsNext(local, r, m) ==
  /\ <<r, m>> \in local.doomed
  /\ local.repo # r => \A pair \in local.doomed : pair[1] # local.repo
  /\ \A pair \in local.doomed :
       pair[1] = r => local.all[r][pair[2]].created <= local.all[r][m].created

\* A candidate that is gone ends the collection with an error.
DeleteCandidate(c, r, m) ==
  /\ Collects(c, "delete") /\ IsNext(gc[c], r, m)
  /\ IF m \in Stored(r)
     THEN /\ DeleteFrom(r, m)
          /\ AfterDelete(c, [gc[c] EXCEPT !.repo = r, !.doomed = @ \ {<<r, m>>}])
     ELSE Finish(c) /\ UNCHANGED <<manifests, tags>>
  /\ UNCHANGED <<repos, blobs, policies, scans, clock, req>>

\* A blob that is gone is passed over.
DeleteGarbage(c, d) ==
  /\ Collects(c, "delete") /\ gc[c].doomed = {} /\ d \in gc[c].garbage
  /\ blobs' = blobs \ {d}
  /\ AfterDelete(c, [gc[c] EXCEPT !.garbage = @ \ {d}])
  /\ UNCHANGED <<repos, manifests, tags, policies, scans, clock, req>>

-----------------------------------------------------------------------------

Administration ==
  \/ \E r \in Repo, value \in BOOLEAN : CreateRepository(r, value)
  \/ \E p \in Proc, r \in Repo, value \in BOOLEAN : SetTagImmutability(p, r, value)
  \/ \E p \in Proc : UpdateRepository(p)
  \/ \E d \in Digest : PushBlob(d)
  \/ \E policy \in Policy : PutPolicy(policy) \/ DeletePolicy(policy)
  \/ Tick

Pushes ==
  \/ \E p \in Proc, r \in Repo, m \in Manifest, ref \in Tag \union Manifest : BeginPut(p, r, m, ref)
  \/ \E p \in Proc : CheckReference(p) \/ StoreManifest(p) \/ ReadTag(p) \/ PutTag(p)
  \/ \E r \in Repo, m \in Manifest : DeleteManifest(r, m)

Scans ==
  \/ \E p \in Proc, r \in Repo, ref \in Tag \union Manifest, status \in ScanResult :
       LoadForScan(p, r, ref, status)
  \/ \E p \in Proc : CreateScan(p) \/ StoreScanned(p)

\* What a collection that has begun does.
Collection(c) ==
  \/ ListPolicies(c) \/ ListBlobs(c)
  \/ \E r \in Repo : ListTags(c, r)
  \/ \E r \in Repo, m \in Manifest : DeleteCandidate(c, r, m)
  \/ \E d \in Digest : DeleteGarbage(c, d)

Collections ==
  \/ \E c \in Collector, dry \in BOOLEAN :
       \E only \in {Repo} \union {{r} : r \in Repo} : ListManifests(c, dry, only)
  \/ \E c \in Collector : Collection(c)

Next == Administration \/ Pushes \/ Scans \/ Collections

Spec == Init /\ [][Next]_vars

\* A collection is a goroutine that waits for nothing but the catalog's mutex.
Fairness == \A c \in Collector : WF_vars(Collection(c))

FairSpec == Spec /\ Fairness

-----------------------------------------------------------------------------
(* Properties *)

\* Every store holds records of its type: a tag that exists names a digest, a
\* scan that exists has a repository, and a collection deletes what it listed.
TypeOK ==
  /\ repos \in [Repo -> [version : 0..MaxVersion, immutable : BOOLEAN]]
  /\ blobs \subseteq Digest /\ policies \subseteq Policy /\ clock \in 0..MaxTime
  /\ \A r \in Repo, t \in Tag :
       tags[r][t] = NoTag \/ tags[r][t] \in [digest : Manifest, immutable : BOOLEAN]
  /\ \A r \in Repo : \A m \in Stored(r) :
       manifests[r][m].created \in 0..clock /\ repos[r].version # 0
  /\ \A m \in Manifest : scans[m] = NoScan \/ scans[m] \in [repo : Repo, status : Statuses]
  /\ \A p \in Proc : req[p].pc # "idle" => req[p].repo \in Repo
  /\ \A c \in Collector : \A pair \in gc[c].doomed : pair[2] \in Listed(gc[c].all, pair[1])

\* PutManifest refuses a manifest whose references are not stored and a
\* collection keeps what a manifest references: so what a stored manifest
\* references is stored (registry.go:279, lifecycle.go:201).
ReferencesStored == \A r \in Repo : \A m \in Stored(r) : References(m) \subseteq blobs

\* PutTag follows the manifest it names and DeleteManifest deletes the tags that
\* name it: a tag names a manifest of its repository (registry.go:284, catalog.go:224).
TagsResolve ==
  \A r \in Repo, t \in Tag : tags[r][t] # NoTag => tags[r][t].digest \in Stored(r)

\* An immutable tag names what it named until it is deleted, and stays immutable
\* (tag.go:25).
ImmutableTagsStay ==
  [][\A r \in Repo, t \in Tag :
       tags[r][t].immutable => tags'[r][t] \in {tags[r][t], NoTag}]_vars

\* No step of a collection deletes a manifest from under a tag (lifecycle.go:177).
CollectionKeepsTags ==
  [][\A c \in Collector : Collection(c) => tags' = tags]_vars

\* When a collection deletes a manifest, each policy it has read is honoured by
\* what is stored at that time: as many manifests as the policy keeps are no
\* older, whatever was pushed since it looked (lifecycle.go:182).
KeepLastHonoured ==
  [][\A c \in Collector : Collection(c) =>
       \A r \in Repo : \A m \in Stored(r) \ Stored(r)' :
         \A policy \in gc[c].policies : r \in policy.repos =>
           policy.keepLast <= Cardinality({n \in Stored(r) \ {m} :
             manifests[r][n].created >= manifests[r][m].created})]_vars

\* A collection keeps a manifest that one it spares references: the child
\* manifests of an index, the subject of a signature (lifecycle.go:201).
ChildrenKept ==
  [][\A c \in Collector : Collection(c) =>
       \A r \in Repo : \A m \in Stored(r) \ Stored(r)' : \A parent \in Stored(r)' :
         m \in References(parent) => <<r, parent>> \in gc[c].doomed]_vars

\* A manifest whose scan passed may be pulled once its request has returned
\* (lifecycle.go:66, manifest.go:50).
PassedScanReleases ==
  \A m \in Manifest :
    LET r == scans[m].repo
    IN  /\ scans[m].status = "passed" /\ m \in Stored(r)
        /\ \A p \in Proc : req[p] = Idle
        => manifests[r][m].state \in {"available", "retained"}

\* A collection ends, whatever happens to the tags while it pages through them
\* (lifecycle.go:241).
CollectionEnds == \A c \in Collector : gc[c] # Waiting ~> gc[c] = Waiting
=============================================================================
