------------------------- MODULE ContentServiceProofs -------------------------
(***************************************************************************)
(* Proofs about module ContentService, for any number of repositories,     *)
(* tags, layers, manifests and policies.  Of requests that do not overlap: *)
(* tags resolve, immutable tags stay, what manifests reference is stored   *)
(* (in one repository), and collections keep tags (of repositories whose   *)
(* tags fit a page).  Of requests that overlap a collection: it honours    *)
(* the policies it has read.                                               *)
(***************************************************************************)
EXTENDS ContentService, FiniteSetTheorems, WellFoundedInduction, NaturalsInduction, TLAPS

States == {"none", "quarantined", "scanning", "available", "blocked", "retained", "expired"}
ManifestSet == [state : States, created : Nat]
TagSet == [digest : Manifest, immutable : BOOLEAN] \union {NoTag}

RequestSet ==
  [pc : {"idle", "update", "check", "getTag", "putTag", "createScan", "storeScanned"},
   repo : Repo \union {None}, version : Nat, immutable : BOOLEAN,
   manifest : Manifest \union {None}, found : ManifestSet,
   ref : Tag \union Manifest \union {None}, todo : Seq(Digest), status : Statuses \union {"none"}]

CollectionSet ==
  [pc : {"idle", "policies", "tags", "blobs", "delete"}, dry : BOOLEAN,
   all : [Repo -> [Manifest -> ManifestSet]], policies : SUBSET Policy, todo : SUBSET Repo,
   repo : Repo \union {None}, last : Nat, tagged : SUBSET (Manifest \union {None}),
   reached : SUBSET (Digest \union {None}), doomed : SUBSET (Repo \X Manifest),
   garbage : SUBSET Digest]

\* A request that has begun knows its repository, one that puts or scans a
\* manifest that, and one that moves a tag its name.
Named(r) ==
  /\ r.pc # "idle" => r.repo \in Repo
  /\ r.pc \in {"check", "getTag", "putTag", "createScan", "storeScanned"} => r.manifest \in Manifest
  /\ r.pc \in {"getTag", "putTag"} => r.ref \in Tag

Typed ==
  /\ repos \in [Repo -> [version : Nat, immutable : BOOLEAN]]
  /\ blobs \subseteq Digest /\ policies \subseteq Policy /\ clock \in Nat
  /\ manifests \in [Repo -> [Manifest -> ManifestSet]]
  /\ tags \in [Repo -> [Tag -> TagSet]]
  /\ req \in [Proc -> RequestSet] /\ \A p \in Proc : Named(req[p])
  /\ gc \in [Collector -> CollectionSet]

-----------------------------------------------------------------------------
(* Requests that do not overlap *)

OnlyRequest(p) == (\A q \in Proc \ {p} : req[q] = Idle) /\ \A c \in Collector : gc[c] = Waiting
OnlyCollection(c) == (\A p \in Proc : req[p] = Idle) /\ \A d \in Collector \ {c} : gc[d] = Waiting

Serial ==
  /\ \A p \in Proc : req[p] # Idle => OnlyRequest(p)
  /\ \A c \in Collector : gc[c] # Waiting => OnlyCollection(c)

\* What a request that puts a manifest or a scan knows of what is stored.
KnowsTag(r) ==
  /\ r.pc \in {"getTag", "putTag", "createScan", "storeScanned"} => r.manifest \in Stored(r.repo)
  /\ r.pc = "check" => r.found.state = "quarantined"
  /\ r.pc = "putTag" =>
       \/ tags[r.repo][r.ref] = NoTag
       \/ Moves(tags[r.repo][r.ref], r.manifest) /\ r.immutable = tags[r.repo][r.ref].immutable

TagInv == Typed /\ Serial /\ TagsResolve /\ \A p \in Proc : KnowsTag(req[p])

Elements(s) == {s[k] : k \in DOMAIN s}

\* The references that are not stored are still to check.
KnowsBlobs(r) == r.pc = "check" => References(r.manifest) \subseteq blobs \union Elements(r.todo)

\* What a collection is about to delete no manifest that it leaves references.
KeepsBlobs(g) ==
  /\ g.pc \in {"policies", "tags", "blobs"} => g.all = manifests /\ g.garbage = {}
  /\ \A r \in Repo : \A m \in Stored(r) :
       <<r, m>> \in g.doomed \/ References(m) \cap g.garbage = {}

ReferenceInv ==
  /\ TagInv /\ ReferencesStored
  /\ \A p \in Proc : KnowsBlobs(req[p])
  /\ \A c \in Collector : KeepsBlobs(gc[c])

\* A collection of repositories whose tags fit a page dooms no tagged manifest.
SparesTagged(g) ==
  /\ g.pc \in {"policies", "tags"} => g.repo = None /\ g.last = 0
  /\ \A r \in Repo, t \in Tag : <<r, tags[r][t].digest>> \notin g.doomed

PageInv == Typed /\ Serial /\ \A c \in Collector : SparesTagged(gc[c])

-----------------------------------------------------------------------------
(* Types *)

LEMMA IdleTyped == Idle \in RequestSet /\ Idle.pc = "idle" /\ Named(Idle) /\ Waiting \in CollectionSet
<1>1. NoManifest \in ManifestSet /\ <<>> \in Seq(Digest)
  BY DEF NoManifest, ManifestSet, States
<1>2. Idle \in RequestSet /\ Idle.pc = "idle" /\ Named(Idle)
  BY <1>1 DEF Idle, RequestSet, Named
<1>3. Waiting \in CollectionSet
  BY <1>1 DEF Waiting, CollectionSet
<1> QED
  BY <1>2, <1>3

LEMMA TypedInit == Init => Typed
<1> SUFFICES ASSUME Init PROVE Typed
  OBVIOUS
<1>1. NoManifest \in ManifestSet /\ NoTag \in TagSet
  BY DEF NoManifest, ManifestSet, States, TagSet
<1>2. repos \in [Repo -> [version : Nat, immutable : BOOLEAN]]
  BY DEF Init, NoRepository
<1>3. manifests \in [Repo -> [Manifest -> ManifestSet]] /\ tags \in [Repo -> [Tag -> TagSet]]
  BY <1>1 DEF Init
<1>4. req \in [Proc -> RequestSet] /\ (\A p \in Proc : Named(req[p])) /\ gc \in [Collector -> CollectionSet]
  BY IdleTyped DEF Init
<1> QED
  BY <1>2, <1>3, <1>4 DEF Init, Typed

\* A request that goes on, or returns.
LEMMA ContinueTyped ==
  ASSUME Typed, NEW p \in Proc, NEW local \in RequestSet, Named(local), Continue(p, local),
         UNCHANGED <<repos, blobs, manifests, tags, policies, clock, gc>>
  PROVE  Typed'
  BY DEF Continue, Typed, Named

LEMMA ReturnTyped ==
  ASSUME Typed, NEW p \in Proc, Return(p),
         UNCHANGED <<repos, blobs, manifests, tags, policies, clock, gc>>
  PROVE  Typed'
  BY IdleTyped, ContinueTyped DEF Return

LEMMA ProceedTyped ==
  ASSUME Typed, NEW c \in Collector, NEW local \in CollectionSet, Proceed(c, local),
         UNCHANGED <<repos, blobs, manifests, tags, policies, clock, req>>
  PROVE  Typed'
  BY DEF Proceed, Typed

LEMMA AdministrationTyped == ASSUME Typed, Administration PROVE Typed'
<1>1. ASSUME NEW r \in Repo, NEW value \in BOOLEAN, CreateRepository(r, value) PROVE Typed'
  BY <1>1 DEF CreateRepository, Typed, Named
<1>2. ASSUME NEW p \in Proc, NEW r \in Repo, NEW value \in BOOLEAN, SetTagImmutability(p, r, value)
      PROVE  Typed'
  <2> DEFINE local == [Idle EXCEPT !.pc = "update", !.repo = r, !.immutable = value,
                                   !.version = repos[r].version + 1]
  <2>1. repos[r].version + 1 \in Nat
    BY DEF Typed
  <2>2. local \in RequestSet /\ Named(local)
    BY <2>1, IdleTyped DEF RequestSet, Named
  <2> HIDE DEF local
  <2> QED
    BY <1>2, <2>2, ContinueTyped DEF SetTagImmutability, local
<1>3. ASSUME NEW p \in Proc, UpdateRepository(p) PROVE Typed'
  <2> DEFINE new == [version |-> req[p].version, immutable |-> req[p].immutable]
  <2>1. req[p].repo \in Repo /\ req[p].version \in Nat /\ req[p].immutable \in BOOLEAN
    BY <1>3 DEF UpdateRepository, At, Typed, Named, RequestSet
  <2>4. new \in [version : Nat, immutable : BOOLEAN]
    BY <2>1
  <2> HIDE DEF new
  <2>2. repos' \in [Repo -> [version : Nat, immutable : BOOLEAN]]
    BY <1>3, <2>1, <2>4 DEF UpdateRepository, Typed, new
  <2> QED
    BY <1>3, <2>2, IdleTyped DEF UpdateRepository, Return, Continue, Typed, Named
<1>4. ASSUME NEW d \in Digest, PushBlob(d) PROVE Typed'
  BY <1>4 DEF PushBlob, Typed, Named
<1>5. ASSUME NEW policy \in Policy, PutPolicy(policy) \/ DeletePolicy(policy) PROVE Typed'
  <2>1. /\ policies' \subseteq Policy
        /\ UNCHANGED <<repos, blobs, manifests, tags, clock, req, gc>>
    BY <1>5 DEF PutPolicy, DeletePolicy, Typed
  <2> QED
    BY <2>1 DEF Typed, Named
<1>6. CASE Tick
  BY <1>6 DEF Tick, Typed, Named
<1> QED
  BY <1>1, <1>2, <1>3, <1>4, <1>5, <1>6 DEF Administration

LEMMA PutManifestTyped ==
  ASSUME Typed, NEW r \in Repo, NEW m \in Manifest, NEW manifest \in ManifestSet,
         PutManifest(r, m, manifest)
  PROVE  manifests' \in [Repo -> [Manifest -> ManifestSet]]
  BY DEF PutManifest, Typed

LEMMA DeleteTyped ==
  ASSUME Typed, NEW r \in Repo, NEW m, DeleteFrom(r, m)
  PROVE  /\ manifests' \in [Repo -> [Manifest -> ManifestSet]]
         /\ tags' \in [Repo -> [Tag -> TagSet]]
<1>1. NoManifest \in ManifestSet /\ NoTag \in TagSet
  BY DEF NoManifest, ManifestSet, States, TagSet
<1>2. manifests' \in [Repo -> [Manifest -> ManifestSet]]
  BY <1>1 DEF DeleteFrom, Typed
<1>3. [t \in Tag |-> IF tags[r][t].digest = m THEN NoTag ELSE tags[r][t]] \in [Tag -> TagSet]
  BY <1>1 DEF Typed
<1> QED
  BY <1>2, <1>3 DEF DeleteFrom, Typed

\* The tail of what is left to check.
LEMMA TodoTail ==
  ASSUME NEW s \in Seq(Digest), s # <<>>
  PROVE  Tail(s) \in Seq(Digest) /\ Elements(s) = Elements(Tail(s)) \union {Head(s)}
<1> DEFINE a == Tail(s)
<1>1. /\ a \in Seq(Digest) /\ Len(s) \in Nat \ {0} /\ Len(a) = Len(s) - 1
      /\ DOMAIN a = 1..Len(s) - 1 /\ DOMAIN s = 1..Len(s)
      /\ (\A k \in 1..Len(s) - 1 : a[k] = s[k + 1]) /\ Head(s) = s[1]
  OBVIOUS
<1>2. ASSUME NEW x PROVE x \in Elements(s) <=> x \in Elements(a) \union {Head(s)}
  <2>1. ASSUME NEW k \in DOMAIN a, x = a[k] PROVE x \in Elements(s)
    <3>1. k + 1 \in DOMAIN s /\ x = s[k + 1]
      BY <1>1, <2>1
    <3> QED
      BY <3>1 DEF Elements
  <2>2. ASSUME NEW k \in DOMAIN s, x = s[k] PROVE x \in Elements(a) \union {Head(s)}
    <3>1. CASE k = 1
      BY <1>1, <2>2, <3>1
    <3>2. CASE k # 1
      <4>1. k - 1 \in DOMAIN a /\ x = a[k - 1]
        BY <1>1, <2>2, <3>2
      <4> QED
        BY <4>1 DEF Elements
    <3> QED
      BY <3>1, <3>2
  <2>3. Head(s) \in Elements(s)
    BY <1>1 DEF Elements
  <2> QED
    BY <2>1, <2>2, <2>3 DEF Elements
<1> QED
  BY <1>1, <1>2

LEMMA TagTyped == ASSUME NEW tag \in TagSet PROVE tag.immutable \in BOOLEAN
<1>1. tag = NoTag => tag.immutable \in BOOLEAN
  BY DEF NoTag
<1>2. tag # NoTag => tag \in [digest : Manifest, immutable : BOOLEAN]
  BY DEF TagSet
<1> QED
  BY <1>1, <1>2

LEMMA BeginPutTyped ==
  ASSUME Typed, NEW p \in Proc, NEW r \in Repo, NEW m \in Manifest, NEW ref \in Tag \union Manifest,
         BeginPut(p, r, m, ref)
  PROVE  Typed'
<1> DEFINE new == [state |-> "quarantined", created |-> clock]
           local == [Idle EXCEPT !.pc = "check", !.repo = r, !.immutable = repos[r].immutable,
                                 !.manifest = m, !.ref = ref, !.todo = Refs[m], !.found = new]
<1>1. new \in ManifestSet /\ repos[r].immutable \in BOOLEAN /\ Refs[m] \in Seq(Digest)
  BY ContentAssumption DEF Typed, ManifestSet, States
<1> HIDE DEF new
<1>2. local \in RequestSet /\ Named(local)
  BY <1>1, IdleTyped DEF RequestSet, Named
<1> HIDE DEF local
<1> QED
  BY <1>2, ContinueTyped DEF BeginPut, local, new

LEMMA PushStepTyped ==
  ASSUME Typed, NEW p \in Proc, CheckReference(p) \/ StoreManifest(p) \/ ReadTag(p) \/ PutTag(p)
  PROVE  Typed'
<1> DEFINE r == req[p]
<1>1. /\ r \in RequestSet /\ r.repo \in Repo /\ r.manifest \in Manifest
      /\ r.todo \in Seq(Digest) /\ r.found \in ManifestSet /\ r.immutable \in BOOLEAN
      /\ r.pc \in {"getTag", "putTag"} => r.ref \in Tag
  BY DEF CheckReference, StoreManifest, ReadTag, PutTag, At, Typed, Named, RequestSet
<1>2. CASE CheckReference(p)
  <2> DEFINE local == [r EXCEPT !.todo = Tail(@)]
  <2>1. r.todo # <<>> /\ r.pc = "check"
    BY <1>2 DEF CheckReference, At
  <2>2. local \in RequestSet /\ Named(local)
    BY <1>1, <2>1, TodoTail DEF RequestSet, Named
  <2> HIDE DEF local
  <2> QED
    BY <1>2, <2>2, ContinueTyped, ReturnTyped DEF CheckReference, local
<1>3. CASE StoreManifest(p)
  <2> DEFINE local == [r EXCEPT !.pc = "getTag"]
  <2>1. manifests' \in [Repo -> [Manifest -> ManifestSet]]
    BY <1>1, <1>3, PutManifestTyped DEF StoreManifest
  <2>2. r.ref \in Tag => local \in RequestSet /\ Named(local)
    BY <1>1 DEF RequestSet, Named
  <2> HIDE DEF local
  <2>3. req' \in [Proc -> RequestSet] /\ \A q \in Proc : Named(req'[q])
    BY <1>3, <2>2, IdleTyped DEF StoreManifest, Return, Continue, Typed, local
  <2> QED
    BY <1>3, <2>1, <2>3 DEF StoreManifest, Typed
<1>4. CASE ReadTag(p)
  <2> DEFINE old == tags[r.repo][r.ref]
             fresh == [r EXCEPT !.pc = "putTag"]
             kept == [r EXCEPT !.pc = "putTag", !.immutable = old.immutable]
  <2>1. r.ref \in Tag
    BY <1>1, <1>4 DEF ReadTag, At
  <2>2. old.immutable \in BOOLEAN
    <3>1. old \in TagSet
      BY <1>1, <2>1 DEF Typed
    <3> QED
      BY <3>1, TagTyped
  <2>3. fresh \in RequestSet /\ Named(fresh) /\ kept \in RequestSet /\ Named(kept)
    BY <1>1, <2>1, <2>2 DEF RequestSet, Named
  <2>4. Continue(p, fresh) \/ Continue(p, kept) \/ Return(p)
    BY <1>4 DEF ReadTag
  <2> HIDE DEF fresh, kept
  <2> QED
    BY <1>4, <2>3, <2>4, ContinueTyped, ReturnTyped DEF ReadTag
<1>5. CASE PutTag(p)
  <2>1. r.ref \in Tag /\ [digest |-> r.manifest, immutable |-> r.immutable] \in TagSet
    BY <1>1, <1>5 DEF PutTag, At, TagSet
  <2>2. tags' \in [Repo -> [Tag -> TagSet]]
    BY <1>1, <1>5, <2>1 DEF PutTag, Typed
  <2>3. req' \in [Proc -> RequestSet] /\ \A q \in Proc : Named(req'[q])
    BY <1>5, IdleTyped DEF PutTag, Return, Continue, Typed
  <2> QED
    BY <1>5, <2>2, <2>3 DEF PutTag, Typed
<1> QED
  BY <1>2, <1>3, <1>4, <1>5

LEMMA PushesTyped == ASSUME Typed, Pushes PROVE Typed'
<1>1. ASSUME NEW r \in Repo, NEW m \in Manifest, DeleteManifest(r, m) PROVE Typed'
  BY <1>1, DeleteTyped DEF DeleteManifest, Typed, Named
<1> QED
  BY <1>1, BeginPutTyped, PushStepTyped DEF Pushes

LEMMA ScansTyped == ASSUME Typed, Scans PROVE Typed'
<1>1. ASSUME NEW p \in Proc, NEW r \in Repo, NEW ref \in Tag \union Manifest,
             NEW status \in ScanResult, LoadForScan(p, r, ref, status)
      PROVE  Typed'
  <2> DEFINE m == IF ref \in Tag THEN tags[r][ref].digest ELSE ref
             local == [Idle EXCEPT !.pc = "createScan", !.repo = r, !.manifest = m,
                                   !.found = manifests[r][m], !.status = status]
  <2>1. Continue(p, local) /\ m \in Manifest
    BY <1>1 DEF LoadForScan, Stored
  <2>2. manifests[r][m] \in ManifestSet /\ status \in Statuses
    BY <2>1, ScanAssumption DEF Typed
  <2> HIDE DEF m
  <2>3. local \in RequestSet /\ Named(local)
    BY <2>1, <2>2, IdleTyped DEF RequestSet, Named
  <2> HIDE DEF local
  <2> QED
    BY <1>1, <2>1, <2>3, ContinueTyped DEF LoadForScan
<1>2. ASSUME NEW p \in Proc, CreateScan(p) PROVE Typed'
  <2> DEFINE r == req[p]
             next == NextState(r.status)
             local == [r EXCEPT !.pc = "storeScanned", !.found.state = next]
  <2>1. r \in RequestSet /\ r.repo \in Repo /\ r.manifest \in Manifest /\ r.found \in ManifestSet
    BY <1>2 DEF CreateScan, At, Typed, Named, RequestSet
  <2>2. next \in States
    BY DEF NextState, States
  <2> HIDE DEF next
  <2>3. [r.found EXCEPT !.state = next] \in ManifestSet
    BY <2>1, <2>2 DEF ManifestSet
  <2>4. local \in RequestSet /\ Named(local)
    BY <2>1, <2>3 DEF RequestSet, Named
  <2>5. Continue(p, local) \/ Return(p)
    BY <1>2 DEF CreateScan, next
  <2> HIDE DEF local
  <2> QED
    BY <1>2, <2>4, <2>5, ContinueTyped, ReturnTyped DEF CreateScan
<1>3. ASSUME NEW p \in Proc, StoreScanned(p) PROVE Typed'
  <2>1. req[p].repo \in Repo /\ req[p].manifest \in Manifest /\ req[p].found \in ManifestSet
    BY <1>3 DEF StoreScanned, At, Typed, Named, RequestSet
  <2>2. manifests' \in [Repo -> [Manifest -> ManifestSet]]
    BY <1>3, <2>1, PutManifestTyped DEF StoreScanned
  <2>3. req' \in [Proc -> RequestSet] /\ \A q \in Proc : Named(req'[q])
    BY <1>3, IdleTyped DEF StoreScanned, Return, Continue, Typed
  <2> QED
    BY <1>3, <2>2, <2>3 DEF StoreScanned, Typed
<1> QED
  BY <1>1, <1>2, <1>3 DEF Scans

\* The least of some numbers is one of them.
LEMMA LeastIsIn ==
  ASSUME NEW S \in SUBSET Nat, S # {}
  PROVE  Min(S) \in S
<1> DEFINE R == {ss \in Nat \X Nat : ss[1] < ss[2]}
<1>1. IsWellFoundedOn(R, Nat)
  BY NatLessThanWellFounded DEF OpToRel
<1> HIDE DEF R
<1>2. PICK n \in S : \A m \in S : ~(<<m, n>> \in R)
  BY <1>1, WFMin
<1>3. ASSUME NEW m \in S PROVE n =< m
  <2>1. m \in Nat /\ n \in Nat
    OBVIOUS
  <2>2. <<m, n>> \in Nat \X Nat /\ <<m, n>>[1] = m /\ <<m, n>>[2] = n
    BY <2>1
  <2>3. ~(m < n)
    BY <1>2, <2>2 DEF R
  <2> QED
    BY <2>1, <2>3
<1> DEFINE Least(x) == \A y \in S : x =< y
<1>4. Min(S) = CHOOSE x \in S : Least(x)
  BY DEF Min
<1>5. \E x \in S : Least(x)
  BY <1>3
<1> HIDE DEF Least
<1> QED
  BY <1>4, <1>5

LEMMA FinishTyped ==
  ASSUME Typed, NEW c \in Collector, Finish(c),
         UNCHANGED <<repos, blobs, manifests, tags, policies, clock, req>>
  PROVE  Typed'
  BY IdleTyped, ProceedTyped DEF Finish

LEMMA ListManifestsTyped ==
  ASSUME Typed, NEW c \in Collector, NEW dry, dry \in BOOLEAN, NEW only \in SUBSET Repo,
         ListManifests(c, dry, only)
  PROVE  Typed'
<1> DEFINE rest == {r \in only : Listed(manifests, r) # {}}
           local == [Waiting EXCEPT !.pc = "policies", !.dry = dry, !.all = manifests, !.todo = rest]
<1>1. manifests \in [Repo -> [Manifest -> ManifestSet]] /\ rest \in SUBSET Repo
  BY DEF Typed
<1> HIDE DEF rest
<1>2. local \in CollectionSet
  BY <1>1, IdleTyped DEF CollectionSet
<1> HIDE DEF local
<1> QED
  BY <1>2, ProceedTyped DEF ListManifests, local, rest

LEMMA ListPoliciesTyped ==
  ASSUME Typed, NEW c \in Collector, ListPolicies(c)
  PROVE  Typed'
<1> DEFINE next == IF gc[c].todo = {} THEN "blobs" ELSE "tags"
           local == [gc[c] EXCEPT !.pc = next, !.policies = policies]
<1>1. gc[c] \in CollectionSet /\ policies \in SUBSET Policy /\ next \in {"blobs", "tags"}
  BY DEF Typed
<1> HIDE DEF next
<1>2. local \in CollectionSet
  BY <1>1 DEF CollectionSet
<1> HIDE DEF local
<1> QED
  BY <1>2, ProceedTyped DEF ListPolicies, local, next

\* What a page adds: digests that are tagged, and where the next page begins.
LEMMA PageTyped ==
  ASSUME Typed, NEW r \in Repo, NEW last
  PROVE  /\ {tags[r][t].digest : t \in PageAfter(r, last)} \subseteq Manifest
         /\ NextLast(r, last) \in Nat
<1>1. ASSUME NEW t \in PageAfter(r, last) PROVE tags[r][t].digest \in Manifest
  <2>1. t \in Tag /\ tags[r][t] # NoTag
    BY DEF PageAfter
  <2>2. tags[r][t] \in TagSet
    BY <2>1 DEF Typed
  <2> QED
    BY <2>1, <2>2 DEF TagSet
<1>2. NextLast(r, last) \in Nat
  <2> DEFINE left == {t \in Tag : t > last /\ tags[r][t] # NoTag} \ PageAfter(r, last)
  <2>1. left \in SUBSET Nat
    BY NameAssumption
  <2>2. left # {} => Min(left) \in Nat
    <3> HIDE DEF left
    <3> QED
      BY <2>1, LeastIsIn
  <2> QED
    BY <2>2 DEF NextLast
<1> QED
  BY <1>1, <1>2

\* A page that is not the last only remembers what it has read.
Reads(c, r) ==
  Proceed(c, [gc[c] EXCEPT !.repo = r, !.last = NextLast(r, gc[c].last),
     !.tagged = @ \union {tags[r][t].digest : t \in PageAfter(r, gc[c].last)}])

\* After the last page the manifests of the repository are judged.
Judged(local, r, tagged, candidates) ==
  LET rest == local.todo \ {r}
  IN  [local EXCEPT !.pc = IF rest = {} THEN "blobs" ELSE "tags",
         !.todo = rest, !.repo = None, !.last = 0, !.tagged = {},
         !.reached = @ \union tagged \union (Listed(local.all, r) \ candidates),
         !.doomed = @ \union ({r} \X candidates)]

TaggedSoFar(c, r) == gc[c].tagged \union {tags[r][t].digest : t \in PageAfter(r, gc[c].last)}

LEMMA ListTagsCases ==
  ASSUME NEW c \in Collector, NEW r \in Repo, ListTags(c, r)
  PROVE  \/ NextLast(r, gc[c].last) # 0 /\ Reads(c, r)
         \/ /\ NextLast(r, gc[c].last) = 0
            /\ \E rank \in Rankings(gc[c].all, r) :
                 LET tagged == TaggedSoFar(c, r)
                 IN  Proceed(c, Judged(gc[c], r, tagged, Candidates(gc[c], r, tagged, rank)))
  BY DEF ListTags, Reads, Judged, TaggedSoFar

LEMMA JudgedTyped ==
  ASSUME NEW local \in CollectionSet, NEW r \in Repo,
         NEW tagged \in SUBSET (Manifest \union {None}), NEW candidates \in SUBSET Manifest,
         NEW new, new = Judged(local, r, tagged, candidates)
  PROVE  /\ new \in CollectionSet /\ new.pc \in {"blobs", "tags"} /\ new.repo = None /\ new.last = 0
         /\ new.all = local.all /\ new.garbage = local.garbage /\ new.policies = local.policies
<1> DEFINE rest == local.todo \ {r}
           next == IF rest = {} THEN "blobs" ELSE "tags"
           kept == local.reached \union tagged \union (Listed(local.all, r) \ candidates)
           doomed == local.doomed \union ({r} \X candidates)
           made == [local EXCEPT !.pc = next, !.todo = rest, !.repo = None, !.last = 0,
                                 !.tagged = {}, !.reached = kept, !.doomed = doomed]
<1>1. /\ rest \in SUBSET Repo /\ next \in {"blobs", "tags"}
      /\ kept \in SUBSET (Digest \union {None}) /\ doomed \in SUBSET (Repo \X Manifest)
  BY DEF CollectionSet, Digest, Listed
<1>2. new = made
  BY DEF Judged
<1> HIDE DEF rest, next, kept, doomed
<1>3. /\ made \in CollectionSet /\ made.pc = next /\ made.repo = None /\ made.last = 0
      /\ made.all = local.all /\ made.garbage = local.garbage /\ made.policies = local.policies
  BY <1>1 DEF CollectionSet
<1> HIDE DEF made
<1> QED
  BY <1>1, <1>2, <1>3

LEMMA JudgedDooms ==
  ASSUME NEW local \in CollectionSet, NEW r \in Repo, NEW tagged, NEW candidates,
         NEW new, new = Judged(local, r, tagged, candidates)
  PROVE  new.doomed = local.doomed \union ({r} \X candidates)
<1> DEFINE rest == local.todo \ {r}
           next == IF rest = {} THEN "blobs" ELSE "tags"
           kept == local.reached \union tagged \union (Listed(local.all, r) \ candidates)
           doomed == local.doomed \union ({r} \X candidates)
           made == [local EXCEPT !.pc = next, !.todo = rest, !.repo = None, !.last = 0,
                                 !.tagged = {}, !.reached = kept, !.doomed = doomed]
<1>1. new = made
  BY DEF Judged
<1> HIDE DEF rest, next, kept, doomed
<1>2. new.doomed = doomed
  BY <1>1 DEF CollectionSet
<1> QED
  BY <1>2 DEF doomed

LEMMA JudgedTodo ==
  ASSUME NEW local \in CollectionSet, NEW r \in Repo, NEW tagged, NEW candidates,
         NEW new, new = Judged(local, r, tagged, candidates)
  PROVE  new.todo = local.todo \ {r}
<1> DEFINE rest == local.todo \ {r}
           next == IF rest = {} THEN "blobs" ELSE "tags"
           kept == local.reached \union tagged \union (Listed(local.all, r) \ candidates)
           doomed == local.doomed \union ({r} \X candidates)
           made == [local EXCEPT !.pc = next, !.todo = rest, !.repo = None, !.last = 0,
                                 !.tagged = {}, !.reached = kept, !.doomed = doomed]
<1>1. new = made
  BY DEF Judged
<1> HIDE DEF rest, next, kept, doomed
<1>2. new.todo = rest
  BY <1>1 DEF CollectionSet
<1> QED
  BY <1>2 DEF rest

LEMMA ListTagsTyped ==
  ASSUME Typed, NEW c \in Collector, NEW r \in Repo, ListTags(c, r)
  PROVE  Typed'
<1> DEFINE tagged == TaggedSoFar(c, r)
<1>1. gc[c] \in CollectionSet /\ tagged \in SUBSET (Manifest \union {None})
  BY PageTyped DEF Typed, CollectionSet, TaggedSoFar
<1>2. CASE Reads(c, r)
  <2> DEFINE local == [gc[c] EXCEPT !.repo = r, !.last = NextLast(r, gc[c].last),
                                    !.tagged = tagged]
  <2>1. NextLast(r, gc[c].last) \in Nat
    BY PageTyped
  <2>2. Proceed(c, local)
    BY <1>2 DEF Reads, TaggedSoFar
  <2> HIDE DEF tagged
  <2>3. local \in CollectionSet
    BY <1>1, <2>1 DEF CollectionSet
  <2> HIDE DEF local
  <2> QED
    BY <2>2, <2>3, ProceedTyped DEF ListTags
<1>3. ASSUME NEW rank,
             Proceed(c, Judged(gc[c], r, tagged, Candidates(gc[c], r, tagged, rank)))
      PROVE  Typed'
  <2>1. Candidates(gc[c], r, tagged, rank) \in SUBSET Manifest
    BY DEF Candidates, Listed
  <2> HIDE DEF tagged
  <2>2. \A new : new = Judged(gc[c], r, tagged, Candidates(gc[c], r, tagged, rank))
               => new \in CollectionSet
    BY <1>1, <2>1, JudgedTyped
  <2> QED
    BY <1>3, <2>2, ProceedTyped DEF ListTags
<1> QED
  BY <1>2, <1>3, ListTagsCases

\* Every digest reached is one that can be stored, or none.
LEMMA ReachedTyped ==
  ASSUME NEW local \in CollectionSet
  PROVE  ReachedFrom(local) \in SUBSET (Digest \union {None})
<1>1. Live(local) \subseteq Manifest
  BY DEF Live, Listed
<1>2. \A m \in Manifest : References(m) \subseteq Digest
  BY ContentAssumption DEF References
<1> QED
  BY <1>1, <1>2 DEF ReachedFrom, CollectionSet, Digest

LEMMA ListBlobsTyped ==
  ASSUME Typed, NEW c \in Collector, ListBlobs(c)
  PROVE  Typed'
<1> DEFINE reached == ReachedFrom(gc[c])
           garbage == blobs \ reached
           local == [gc[c] EXCEPT !.pc = "delete", !.reached = reached, !.garbage = garbage]
<1>1. Finish(c) \/ Proceed(c, local)
  BY DEF ListBlobs, AfterDelete
<1>2. gc[c] \in CollectionSet
  BY DEF Typed
<1>3. reached \in SUBSET (Digest \union {None}) /\ garbage \in SUBSET Digest
  BY <1>2, ReachedTyped DEF Typed
<1> HIDE DEF garbage, reached
<1>4. local \in CollectionSet
  BY <1>2, <1>3 DEF CollectionSet
<1> HIDE DEF local
<1> QED
  BY <1>1, <1>4, FinishTyped, ProceedTyped DEF ListBlobs

LEMMA DeleteCandidateTyped ==
  ASSUME Typed, NEW c \in Collector, NEW r \in Repo, NEW m \in Manifest, DeleteCandidate(c, r, m)
  PROVE  Typed'
<1> DEFINE rest == gc[c].doomed \ {<<r, m>>}
           local == [gc[c] EXCEPT !.repo = r, !.doomed = rest]
<1>1. gc[c] \in CollectionSet /\ rest \in SUBSET (Repo \X Manifest)
  BY DEF Typed, CollectionSet
<1> HIDE DEF rest
<1>2. local \in CollectionSet
  BY <1>1 DEF CollectionSet
<1> HIDE DEF local
<1>3. gc' \in [Collector -> CollectionSet]
  BY <1>2, IdleTyped DEF DeleteCandidate, AfterDelete, Finish, Proceed, Typed, local, rest
<1>4. /\ manifests' \in [Repo -> [Manifest -> ManifestSet]]
      /\ tags' \in [Repo -> [Tag -> TagSet]]
  BY DeleteTyped DEF DeleteCandidate, Typed
<1> QED
  BY <1>3, <1>4 DEF DeleteCandidate, Typed, Named

LEMMA DeleteGarbageTyped ==
  ASSUME Typed, NEW c \in Collector, NEW d \in Digest, DeleteGarbage(c, d)
  PROVE  Typed'
<1> DEFINE rest == gc[c].garbage \ {d}
           local == [gc[c] EXCEPT !.garbage = rest]
<1>1. gc[c] \in CollectionSet /\ rest \in SUBSET Digest
  BY DEF Typed, CollectionSet
<1> HIDE DEF rest
<1>2. local \in CollectionSet
  BY <1>1 DEF CollectionSet
<1> HIDE DEF local
<1>3. gc' \in [Collector -> CollectionSet]
  BY <1>2, IdleTyped DEF DeleteGarbage, AfterDelete, Finish, Proceed, Typed, local, rest
<1>4. blobs' \subseteq Digest
  BY DEF DeleteGarbage, Typed
<1> QED
  BY <1>3, <1>4 DEF DeleteGarbage, Typed, Named

LEMMA CollectionsTyped == ASSUME Typed, Collections PROVE Typed'
<1>1. ASSUME NEW c \in Collector, NEW dry \in BOOLEAN, NEW only \in {Repo} \union {{r} : r \in Repo},
             ListManifests(c, dry, only)
      PROVE  Typed'
  BY <1>1, ListManifestsTyped
<1>2. ASSUME NEW c \in Collector, Collection(c) PROVE Typed'
  BY <1>2, ListPoliciesTyped, ListBlobsTyped, ListTagsTyped, DeleteCandidateTyped,
     DeleteGarbageTyped DEF Collection
<1> QED
  BY <1>1, <1>2 DEF Collections

LEMMA TypedInductive == ASSUME Typed, [Next]_vars PROVE Typed'
<1>1. CASE UNCHANGED vars
  BY <1>1 DEF vars, Typed, Named
<1> QED
  BY <1>1, AdministrationTyped, PushesTyped, ScansTyped, CollectionsTyped DEF Next

-----------------------------------------------------------------------------
(* Requests that do not overlap *)

\* A step is one of a request or of a collection that is alone, or neither
\* begins nor ends anything.
LEMMA StepAlone ==
  ASSUME ~Overlapping, Serial, Next
  PROVE  \/ \E p \in Proc : OnlyRequest(p) /\ gc' = gc /\ \E local : Continue(p, local)
         \/ \E c \in Collector : OnlyCollection(c) /\ req' = req /\ \E local : Proceed(c, local)
         \/ req' = req /\ gc' = gc
<1>1. ASSUME NEW p \in Proc, req[p].pc # "idle" PROVE OnlyRequest(p)
  BY <1>1 DEF Serial, Idle
<1>2. ASSUME NEW c \in Collector, gc[c].pc # "idle" PROVE OnlyCollection(c)
  BY <1>2 DEF Serial, Waiting
<1>3. ASSUME NEW kind, May(kind)
      PROVE  (\A p \in Proc : OnlyRequest(p)) /\ \A c \in Collector : OnlyCollection(c)
  BY <1>3 DEF May, Quiescent, OnlyRequest, OnlyCollection
<1>4. CASE Administration
  BY <1>1, <1>3, <1>4 DEF Administration, CreateRepository, SetTagImmutability, UpdateRepository,
     PushBlob, PutPolicy, DeletePolicy, Tick, At, Return
<1>5. CASE Pushes
  <2>1. ASSUME NEW p \in Proc, NEW r \in Repo, NEW m \in Manifest, NEW ref, BeginPut(p, r, m, ref)
        PROVE  OnlyRequest(p) /\ gc' = gc /\ \E local : Continue(p, local)
    BY <1>3, <2>1 DEF BeginPut
  <2>2. ASSUME NEW p \in Proc, CheckReference(p) \/ StoreManifest(p) \/ ReadTag(p) \/ PutTag(p)
        PROVE  OnlyRequest(p) /\ gc' = gc /\ \E local : Continue(p, local)
    BY <1>1, <2>2 DEF CheckReference, StoreManifest, ReadTag, PutTag, At, Return
  <2> QED
    BY <1>5, <2>1, <2>2 DEF Pushes, DeleteManifest
<1>6. CASE Scans
  <2>1. ASSUME NEW p \in Proc, NEW r \in Repo, NEW ref, NEW status, LoadForScan(p, r, ref, status)
        PROVE  OnlyRequest(p) /\ gc' = gc /\ \E local : Continue(p, local)
    BY <1>3, <2>1 DEF LoadForScan
  <2>2. ASSUME NEW p \in Proc, CreateScan(p) \/ StoreScanned(p)
        PROVE  OnlyRequest(p) /\ gc' = gc /\ \E local : Continue(p, local)
    BY <1>1, <2>2 DEF CreateScan, StoreScanned, At, Return
  <2> QED
    BY <1>6, <2>1, <2>2 DEF Scans
<1>7. CASE Collections
  <2>1. ASSUME NEW c \in Collector, NEW dry, NEW only, ListManifests(c, dry, only)
        PROVE  OnlyCollection(c) /\ req' = req /\ \E local : Proceed(c, local)
    BY <1>3, <2>1 DEF ListManifests
  <2>2. ASSUME NEW c \in Collector, Collection(c)
        PROVE  OnlyCollection(c) /\ req' = req /\ \E local : Proceed(c, local)
    BY <1>2, <2>2 DEF Collection, ListPolicies, ListTags, ListBlobs, DeleteCandidate,
       DeleteGarbage, Collects, AfterDelete, Finish
  <2> QED
    BY <1>7, <2>1, <2>2 DEF Collections
<1> QED
  BY <1>4, <1>5, <1>6, <1>7 DEF Next

\* A collection that takes a step is alone.
LEMMA CollectsAlone ==
  ASSUME Serial, NEW c \in Collector, Collection(c)
  PROVE  OnlyCollection(c) /\ req' = req
<1>1. gc[c].pc # "idle" /\ req' = req
  BY DEF Collection, ListPolicies, ListTags, ListBlobs, DeleteCandidate, DeleteGarbage, Collects
<1> QED
  BY <1>1 DEF Serial, Waiting

LEMMA SerialInductive == ASSUME ~Overlapping, Typed, Serial, [Next]_vars PROVE Serial'
<1>1. ASSUME NEW p \in Proc, NEW local, OnlyRequest(p), Continue(p, local), gc' = gc PROVE Serial'
  BY <1>1 DEF OnlyRequest, OnlyCollection, Continue, Serial, Typed
<1>2. ASSUME NEW c \in Collector, NEW local, OnlyCollection(c), Proceed(c, local), req' = req
      PROVE  Serial'
  BY <1>2 DEF OnlyRequest, OnlyCollection, Proceed, Serial, Typed
<1>3. ASSUME req' = req, gc' = gc PROVE Serial'
  BY <1>3 DEF OnlyRequest, OnlyCollection, Serial
<1> QED
  BY <1>1, <1>2, <1>3, StepAlone DEF vars

\* What is stored after a manifest was put or deleted.
LEMMA PutStores ==
  ASSUME Typed, NEW r \in Repo, NEW m \in Manifest, NEW manifest \in ManifestSet,
         PutManifest(r, m, manifest), manifest.state # "none" \/ m \in Stored(r)
  PROVE  /\ m \in Stored(r)' /\ \A s \in Repo : Stored(s) \subseteq Stored(s)'
         /\ \A s \in Repo : \A n \in Stored(s)' : n \in Stored(s) \/ (s = r /\ n = m)
         /\ \A s \in Repo : \A n \in Stored(s) : manifests'[s][n] = manifests[s][n]
  BY DEF PutManifest, Stored, Typed

LEMMA DeleteStores ==
  ASSUME Typed, NEW r \in Repo, NEW m \in Manifest, DeleteFrom(r, m)
  PROVE  /\ Stored(r)' = Stored(r) \ {m}
         /\ \A s \in Repo \ {r} : Stored(s)' = Stored(s) /\ tags'[s] = tags[s]
         /\ \A s \in Repo, n \in Manifest : (s # r \/ n # m) => manifests'[s][n] = manifests[s][n]
         /\ \A t \in Tag : tags'[r][t] = IF tags[r][t].digest = m THEN NoTag ELSE tags[r][t]
  BY DEF DeleteFrom, Stored, Typed, NoManifest

LEMMA DeleteResolves ==
  ASSUME Typed, TagsResolve, NEW r \in Repo, NEW m \in Manifest, DeleteFrom(r, m)
  PROVE  TagsResolve'
  BY DeleteStores DEF TagsResolve

-----------------------------------------------------------------------------
(* Tags *)

KnowTags == \A p \in Proc : KnowsTag(req[p])

\* The request that moved is the only one that may know anything.
LEMMA OnlyItKnows ==
  ASSUME Typed, NEW p \in Proc, OnlyRequest(p), NEW local, Continue(p, local), KnowsTag(req[p])'
  PROVE  KnowTags'
<1> SUFFICES ASSUME NEW q \in Proc, q # p PROVE KnowsTag(req[q])'
  BY DEF KnowTags
<1>1. req'[q].pc = "idle"
  BY DEF Continue, OnlyRequest, Typed, Idle
<1> QED
  BY <1>1 DEF KnowsTag

LEMMA IdleKnowsNothing ==
  ASSUME Typed, NEW p \in Proc, OnlyRequest(p), Return(p)
  PROVE  KnowTags'
<1>1. req'[p].pc = "idle"
  BY DEF Return, Continue, Typed, Idle
<1>2. KnowsTag(req[p])'
  BY <1>1 DEF KnowsTag
<1> QED
  BY <1>2, OnlyItKnows DEF Return

\* What a step must do for tags to resolve and requests to know what they did.
TagStep == TagsResolve' /\ KnowTags'

LEMMA AdministrationTags == ASSUME ~Overlapping, TagInv, Administration PROVE TagStep
<1>1. manifests' = manifests /\ tags' = tags
  BY DEF Administration, CreateRepository, SetTagImmutability, UpdateRepository,
     PushBlob, PutPolicy, DeletePolicy, Tick
<1>2. TagsResolve'
  BY <1>1 DEF TagInv, TagsResolve, Stored
<1>3. CASE req' = req
  BY <1>1, <1>2, <1>3 DEF TagStep, KnowTags, TagInv, KnowsTag, Stored
<1>4. ASSUME NEW p \in Proc, NEW r \in Repo, NEW value, value \in BOOLEAN, SetTagImmutability(p, r, value)
      PROVE  TagStep
  <2> DEFINE local == [Idle EXCEPT !.pc = "update", !.repo = r, !.immutable = value,
                                   !.version = repos[r].version + 1]
  <2>1. local.pc = "update"
    BY DEF Idle
  <2>2. Continue(p, local) /\ OnlyRequest(p)
    BY <1>4 DEF SetTagImmutability, May, Quiescent, OnlyRequest
  <2> HIDE DEF local
  <2>3. KnowsTag(req[p])'
    BY <2>1, <2>2 DEF Continue, KnowsTag, TagInv, Typed
  <2> QED
    BY <1>2, <2>2, <2>3, OnlyItKnows DEF TagStep, TagInv
<1>5. ASSUME NEW p \in Proc, UpdateRepository(p) PROVE TagStep
  <2>1. OnlyRequest(p)
    BY <1>5 DEF UpdateRepository, At, TagInv, Serial, Idle
  <2> QED
    BY <1>2, <1>5, <2>1, IdleKnowsNothing DEF UpdateRepository, TagStep, TagInv
<1> QED
  BY <1>3, <1>4, <1>5 DEF Administration, CreateRepository, PushBlob, PutPolicy, DeletePolicy, Tick

LEMMA BeginPutTags ==
  ASSUME ~Overlapping, TagInv, NEW p \in Proc, NEW r \in Repo, NEW m \in Manifest,
         NEW ref \in Tag \union Manifest, BeginPut(p, r, m, ref)
  PROVE  TagStep
<1> DEFINE new == [state |-> "quarantined", created |-> clock]
           local == [Idle EXCEPT !.pc = "check", !.repo = r, !.immutable = repos[r].immutable,
                                 !.manifest = m, !.ref = ref, !.todo = Refs[m], !.found = new]
<1>1. OnlyRequest(p) /\ Continue(p, local)
  BY DEF BeginPut, May, Quiescent, OnlyRequest
<1>2. local.pc = "check" /\ local.found.state = "quarantined"
  BY DEF Idle
<1> HIDE DEF local
<1>3. KnowsTag(req[p])'
  BY <1>1, <1>2 DEF Continue, KnowsTag, TagInv, Typed
<1>4. TagsResolve'
  BY DEF BeginPut, TagInv, TagsResolve, Stored
<1> QED
  BY <1>1, <1>3, <1>4, OnlyItKnows DEF TagStep, TagInv

LEMMA PushStepTags ==
  ASSUME TagInv, NEW p \in Proc, CheckReference(p) \/ StoreManifest(p) \/ ReadTag(p) \/ PutTag(p)
  PROVE  TagStep
<1> DEFINE r == req[p]
<1>1. /\ r \in RequestSet /\ r.repo \in Repo /\ r.manifest \in Manifest
      /\ r.todo \in Seq(Digest) /\ r.found \in ManifestSet /\ r.immutable \in BOOLEAN
      /\ r.pc \in {"getTag", "putTag"} => r.ref \in Tag
      /\ Typed /\ TagsResolve /\ KnowsTag(r)
  BY DEF CheckReference, StoreManifest, ReadTag, PutTag, At, TagInv, Typed, Named, RequestSet
<1>2. OnlyRequest(p)
  BY DEF CheckReference, StoreManifest, ReadTag, PutTag, At, TagInv, Serial, Idle
<1>3. CASE CheckReference(p)
  <2> DEFINE local == [r EXCEPT !.todo = Tail(@)]
  <2>1. TagsResolve'
    BY <1>1, <1>3 DEF CheckReference, TagsResolve, Stored
  <2>2. Return(p) \/ Continue(p, local)
    BY <1>3 DEF CheckReference
  <2>3. local.pc = "check" /\ local.found = r.found
    BY <1>1, <1>3 DEF CheckReference, At, RequestSet
  <2> HIDE DEF local
  <2>4. ASSUME Continue(p, local) PROVE KnowsTag(req[p])'
    <3>1. req'[p] = local /\ r.pc = "check"
      BY <1>1, <1>3, <2>4 DEF Continue, Typed, CheckReference, At
    <3> QED
      BY <1>1, <2>3, <3>1 DEF KnowsTag
  <2> QED
    BY <1>1, <1>2, <2>1, <2>2, <2>4, OnlyItKnows, IdleKnowsNothing DEF TagStep
<1>4. CASE StoreManifest(p)
  <2> DEFINE local == [r EXCEPT !.pc = "getTag"]
  <2>1. r.found.state # "none" /\ PutManifest(r.repo, r.manifest, r.found)
    BY <1>1, <1>4 DEF StoreManifest, At, KnowsTag
  <2> PICK s \in Repo, m \in Manifest : s = r.repo /\ m = r.manifest
    BY <1>1
  <2>2. m \in Stored(s)' /\ \A q \in Repo : Stored(q) \subseteq Stored(q)'
    BY <1>1, <2>1, PutStores
  <2>3. TagsResolve'
    BY <1>1, <1>4, <2>2 DEF StoreManifest, TagsResolve
  <2>4. Return(p) \/ Continue(p, local)
    BY <1>4 DEF StoreManifest
  <2>5. local.pc = "getTag" /\ local.repo = r.repo /\ local.manifest = r.manifest
    BY <1>1 DEF RequestSet
  <2> HIDE DEF local
  <2>6. ASSUME Continue(p, local) PROVE KnowsTag(req[p])'
    <3>1. req'[p] = local
      BY <2>6, <1>1 DEF Continue, Typed
    <3> QED
      BY <2>2, <2>5, <3>1 DEF KnowsTag
  <2> QED
    BY <1>1, <1>2, <2>3, <2>4, <2>6, OnlyItKnows, IdleKnowsNothing DEF TagStep
<1>5. CASE ReadTag(p)
  <2> DEFINE old == tags[r.repo][r.ref]
             fresh == [r EXCEPT !.pc = "putTag"]
             kept == [r EXCEPT !.pc = "putTag", !.immutable = old.immutable]
  <2>1. r.ref \in Tag /\ r.manifest \in Stored(r.repo)
    BY <1>1, <1>5 DEF ReadTag, At, KnowsTag
  <2>2. TagsResolve' /\ tags' = tags /\ manifests' = manifests
    BY <1>1, <1>5 DEF ReadTag, TagsResolve, Stored
  <2>3. \/ Return(p)
        \/ old = NoTag /\ Continue(p, fresh)
        \/ Moves(old, r.manifest) /\ Continue(p, kept)
    BY <1>5 DEF ReadTag
  <2>4. /\ fresh.pc = "putTag" /\ fresh.repo = r.repo /\ fresh.manifest = r.manifest /\ fresh.ref = r.ref
        /\ kept.pc = "putTag" /\ kept.repo = r.repo /\ kept.manifest = r.manifest /\ kept.ref = r.ref
        /\ kept.immutable = old.immutable
    BY <1>1 DEF RequestSet
  <2> HIDE DEF fresh, kept
  <2>5. ASSUME NEW local, Continue(p, local), local.pc = "putTag", local.repo = r.repo,
               local.manifest = r.manifest, local.ref = r.ref,
               old = NoTag \/ (Moves(old, r.manifest) /\ local.immutable = old.immutable)
        PROVE  KnowsTag(req[p])'
    <3>1. req'[p] = local
      BY <2>5, <1>1 DEF Continue, Typed
    <3> QED
      BY <2>1, <2>2, <2>5, <3>1 DEF KnowsTag, Stored, Moves
  <2> QED
    BY <1>1, <1>2, <2>2, <2>3, <2>4, <2>5, OnlyItKnows, IdleKnowsNothing DEF TagStep
<1>6. CASE PutTag(p)
  <2> DEFINE new == [digest |-> r.manifest, immutable |-> r.immutable]
  <2>1. r.ref \in Tag /\ r.manifest \in Stored(r.repo)
    BY <1>1, <1>6 DEF PutTag, At, KnowsTag
  <2>2. tags' = [tags EXCEPT ![r.repo][r.ref] = new] /\ new.digest = r.manifest
    BY <1>6 DEF PutTag
  <2> HIDE DEF new
  <2>3. \A s \in Repo, t \in Tag : tags'[s][t] = tags[s][t] \/ (s = r.repo /\ tags'[s][t] = new)
    BY <1>1, <2>1, <2>2 DEF Typed
  <2>4. \A s \in Repo : Stored(s)' = Stored(s)
    BY <1>6 DEF PutTag, Stored
  <2>5. TagsResolve'
    BY <1>1, <2>1, <2>2, <2>3, <2>4 DEF TagsResolve
  <2> QED
    BY <1>1, <1>2, <1>6, <2>5, IdleKnowsNothing DEF PutTag, TagStep
<1> QED
  BY <1>3, <1>4, <1>5, <1>6

\* While every request is idle, none knows anything.
LEMMA AllIdle ==
  ASSUME \A p \in Proc : req'[p] = Idle
  PROVE  KnowTags'
  BY DEF KnowTags, KnowsTag, Idle

LEMMA PushesTags == ASSUME ~Overlapping, TagInv, Pushes PROVE TagStep
<1>1. ASSUME NEW r \in Repo, NEW m \in Manifest, DeleteManifest(r, m) PROVE TagStep
  <2>1. \A p \in Proc : req'[p] = Idle
    BY <1>1 DEF DeleteManifest, May, Quiescent
  <2> QED
    BY <1>1, <2>1, AllIdle, DeleteResolves DEF DeleteManifest, TagInv, TagStep
<1> QED
  BY <1>1, BeginPutTags, PushStepTags DEF Pushes

LEMMA ScansTags == ASSUME ~Overlapping, TagInv, Scans PROVE TagStep
<1>1. ASSUME NEW p \in Proc, NEW r \in Repo, NEW ref \in Tag \union Manifest,
             NEW status \in ScanResult, LoadForScan(p, r, ref, status)
      PROVE  TagStep
  <2> DEFINE m == IF ref \in Tag THEN tags[r][ref].digest ELSE ref
             local == [Idle EXCEPT !.pc = "createScan", !.repo = r, !.manifest = m,
                                   !.found = manifests[r][m], !.status = status]
  <2>1. OnlyRequest(p) /\ Continue(p, local) /\ m \in Stored(r)
    BY <1>1 DEF LoadForScan, May, Quiescent, OnlyRequest
  <2>2. TagsResolve' /\ manifests' = manifests
    BY <1>1 DEF LoadForScan, TagInv, TagsResolve, Stored
  <2> HIDE DEF m
  <2>3. local.pc = "createScan" /\ local.repo = r /\ local.manifest = m
    BY DEF Idle
  <2> HIDE DEF local
  <2>4. req'[p] = local
    BY <2>1 DEF Continue, TagInv, Typed
  <2>5. KnowsTag(req[p])'
    BY <2>1, <2>2, <2>3, <2>4 DEF KnowsTag, Stored
  <2> QED
    BY <2>1, <2>2, <2>5, OnlyItKnows DEF TagStep, TagInv
<1>2. ASSUME NEW p \in Proc, CreateScan(p) PROVE TagStep
  <2> DEFINE r == req[p]
             next == NextState(r.status)
             local == [r EXCEPT !.pc = "storeScanned", !.found.state = next]
  <2>1. r \in RequestSet /\ r.manifest \in Stored(r.repo) /\ OnlyRequest(p) /\ Typed
    BY <1>2 DEF CreateScan, At, TagInv, KnowsTag, Typed, Serial, Idle
  <2>2. Return(p) \/ Continue(p, local)
    BY <1>2 DEF CreateScan
  <2>3. TagsResolve' /\ manifests' = manifests
    BY <1>2 DEF CreateScan, TagInv, TagsResolve, Stored
  <2> HIDE DEF next
  <2>4. local.pc = "storeScanned" /\ local.repo = r.repo /\ local.manifest = r.manifest
    BY <2>1 DEF RequestSet
  <2> HIDE DEF local
  <2>5. ASSUME Continue(p, local) PROVE KnowsTag(req[p])'
    <3>1. req'[p] = local
      BY <2>1, <2>5 DEF Continue, Typed
    <3> QED
      BY <2>1, <2>3, <2>4, <3>1 DEF KnowsTag, Stored
  <2> QED
    BY <2>1, <2>2, <2>3, <2>5, OnlyItKnows, IdleKnowsNothing DEF TagStep
<1>3. ASSUME NEW p \in Proc, StoreScanned(p) PROVE TagStep
  <2>1. /\ req[p].repo \in Repo /\ req[p].manifest \in Stored(req[p].repo)
        /\ OnlyRequest(p) /\ Typed
    BY <1>3 DEF StoreScanned, At, TagInv, KnowsTag, Typed, Named, Serial, Idle
  <2>2. manifests' = manifests
    BY <1>3, <2>1 DEF StoreScanned, PutManifest
  <2>3. TagsResolve'
    BY <1>3, <2>2 DEF StoreScanned, TagInv, TagsResolve, Stored
  <2> QED
    BY <1>3, <2>1, <2>3, IdleKnowsNothing DEF StoreScanned, TagStep
<1> QED
  BY <1>1, <1>2, <1>3 DEF Scans

LEMMA CollectionsTags == ASSUME ~Overlapping, TagInv, Collections PROVE TagStep
<1>1. ASSUME NEW c \in Collector, NEW dry, NEW only, ListManifests(c, dry, only)
      PROVE  TagStep
  <2>1. (\A p \in Proc : req'[p] = Idle) /\ TagsResolve'
    BY <1>1 DEF ListManifests, May, Quiescent, TagInv, TagsResolve, Stored
  <2> QED
    BY <2>1, AllIdle DEF TagStep
<1>2. ASSUME NEW c \in Collector, Collection(c) PROVE TagStep
  <2>1. gc[c].pc # "idle" /\ req' = req
    BY <1>2 DEF Collection, ListPolicies, ListTags, ListBlobs, DeleteCandidate, DeleteGarbage, Collects
  <2>2. \A p \in Proc : req'[p] = Idle
    BY <2>1 DEF TagInv, Serial, OnlyCollection, Waiting
  <2>3. CASE manifests' = manifests /\ tags' = tags
    BY <2>2, <2>3, AllIdle DEF TagStep, TagInv, TagsResolve, Stored
  <2>4. ASSUME NEW r \in Repo, NEW m \in Manifest, DeleteFrom(r, m) PROVE TagStep
    BY <2>2, <2>4, AllIdle, DeleteResolves DEF TagStep, TagInv
  <2> QED
    BY <1>2, <2>3, <2>4 DEF Collection, ListPolicies, ListTags, ListBlobs, DeleteCandidate, DeleteGarbage
<1> QED
  BY <1>1, <1>2 DEF Collections

LEMMA TagInductive == ASSUME ~Overlapping, TagInv, [Next]_vars PROVE TagInv'
<1>1. Typed' /\ Serial'
  BY TypedInductive, SerialInductive DEF TagInv
<1>2. CASE UNCHANGED vars
  BY <1>1, <1>2 DEF vars, TagInv, TagsResolve, KnowsTag, Stored
<1>3. CASE Next
  BY <1>1, <1>3, AdministrationTags, PushesTags, ScansTags, CollectionsTags
     DEF Next, TagInv, TagStep, KnowTags
<1> QED
  BY <1>2, <1>3

LEMMA TagInit == Init => TagInv
<1> SUFFICES ASSUME Init PROVE TagInv
  OBVIOUS
<1>1. Serial
  BY DEF Init, Serial
<1>2. (\A p \in Proc : KnowsTag(req[p])) /\ TagsResolve
  BY DEF Init, KnowsTag, Idle, TagsResolve
<1> QED
  BY <1>1, <1>2, TypedInit DEF TagInv

\* PutTag follows the manifest it names and DeleteManifest deletes the tags
\* that name it (registry.go:284, catalog.go:224): without overlapping requests
\* every tag names a manifest of its repository.
THEOREM TagsName == ASSUME ~Overlapping PROVE Spec => []TagsResolve
<1>1. TagInv /\ [Next]_vars => TagInv'
  BY TagInductive
<1>2. TagInv => TagsResolve
  BY DEF TagInv
<1> QED
  BY <1>1, <1>2, TagInit, PTL DEF Spec

\* An immutable tag names what it named until it is deleted, and stays
\* immutable (tag.go:25): what ReadTag has read is what PutTag overwrites.
THEOREM ImmutableKept == ASSUME ~Overlapping PROVE Spec => ImmutableTagsStay
<1> DEFINE Stays == \A r \in Repo, t \in Tag :
             tags[r][t].immutable => tags'[r][t] \in {tags[r][t], NoTag}
<1>1. ASSUME TagInv, [Next]_vars PROVE Stays
  <2>1. ASSUME NEW r \in Repo, NEW m \in Manifest, DeleteFrom(r, m) PROVE Stays
    BY <1>1, <2>1, DeleteStores DEF TagInv
  <2>2. ASSUME NEW p \in Proc, PutTag(p) PROVE Stays
    <3> DEFINE r == req[p]
               old == tags[r.repo][r.ref]
               new == [digest |-> r.manifest, immutable |-> r.immutable]
    <3>1. /\ Typed /\ r.repo \in Repo /\ r.ref \in Tag
          /\ old = NoTag \/ (Moves(old, r.manifest) /\ r.immutable = old.immutable)
      BY <1>1, <2>2 DEF PutTag, At, TagInv, KnowsTag, Typed, Named
    <3>2. old.immutable => new = old
      <4>1. old \in TagSet
        BY <3>1 DEF Typed
      <4>2. old.immutable => old # NoTag
        BY DEF NoTag
      <4>3. old.immutable => old # NoTag /\ old.digest = r.manifest /\ r.immutable = old.immutable
        BY <3>1, <4>2, Zenon DEF Moves
      <4>4. old # NoTag => old = [digest |-> old.digest, immutable |-> old.immutable]
        BY <4>1 DEF TagSet
      <4> QED
        BY <4>3, <4>4
    <3>3. tags' = [tags EXCEPT ![r.repo][r.ref] = new]
      BY <2>2 DEF PutTag
    <3> HIDE DEF new
    <3>4. \A s \in Repo, t \in Tag :
            tags'[s][t] = tags[s][t] \/ (s = r.repo /\ t = r.ref /\ tags'[s][t] = new)
      BY <3>1, <3>3 DEF Typed
    <3> QED
      BY <3>2, <3>4
  <2>3. tags' = tags => Stays
    OBVIOUS
  <2> HIDE DEF Stays
  <2>4. CASE Administration \/ Scans
    BY <2>3, <2>4 DEF Administration, CreateRepository, SetTagImmutability, UpdateRepository,
       PushBlob, PutPolicy, DeletePolicy, Tick, Scans, LoadForScan, CreateScan, StoreScanned
  <2>5. CASE Pushes
    BY <2>1, <2>2, <2>3, <2>5 DEF Pushes, BeginPut, CheckReference, StoreManifest, ReadTag, DeleteManifest
  <2>6. CASE Collections
    BY <2>1, <2>3, <2>6 DEF Collections, ListManifests, Collection, ListPolicies, ListTags,
       ListBlobs, DeleteCandidate, DeleteGarbage
  <2> QED
    BY <1>1, <2>3, <2>4, <2>5, <2>6 DEF Next, vars
<1>2. TagInv /\ [Next]_vars => TagInv'
  BY TagInductive
<1>3. TagInv /\ [Next]_vars => [Stays]_vars
  BY <1>1
<1> QED
  BY <1>2, <1>3, TagInit, PTL DEF Spec, ImmutableTagsStay

-----------------------------------------------------------------------------
(* What manifests reference *)

Known == \A p \in Proc : KnowsBlobs(req[p])
Kept == \A c \in Collector : KeepsBlobs(gc[c])
ReferenceStep == ReferencesStored' /\ Known' /\ Kept'

LEMMA WaitingKeeps == ASSUME NEW c \in Collector, gc'[c] = Waiting PROVE KeepsBlobs(gc[c])'
<1>1. gc'[c].pc = "idle" /\ gc'[c].garbage = {}
  BY DEF Waiting
<1> QED
  BY <1>1 DEF KeepsBlobs

\* A request that is alone need only say what it knows itself.
LEMMA OnlyItKnowsBlobs ==
  ASSUME Typed, NEW p \in Proc, OnlyRequest(p), gc' = gc, NEW local, Continue(p, local),
         KnowsBlobs(req[p])', ReferencesStored'
  PROVE  ReferenceStep
<1>1. ASSUME NEW q \in Proc, q # p PROVE KnowsBlobs(req[q])'
  <2>1. req'[q].pc = "idle"
    BY <1>1 DEF Continue, OnlyRequest, Typed, Idle
  <2> QED
    BY <2>1 DEF KnowsBlobs
<1>2. Kept'
  BY WaitingKeeps DEF Kept, OnlyRequest
<1> QED
  BY <1>1, <1>2 DEF ReferenceStep, Known

LEMMA ReturnKnowsBlobs ==
  ASSUME Typed, NEW p \in Proc, OnlyRequest(p), gc' = gc, Return(p), ReferencesStored'
  PROVE  ReferenceStep
<1>1. req'[p].pc = "idle"
  BY DEF Return, Continue, Typed, Idle
<1>2. KnowsBlobs(req[p])'
  BY <1>1 DEF KnowsBlobs
<1> QED
  BY <1>2, OnlyItKnowsBlobs DEF Return

\* A step of a request that is alone and is not about to check references.
LEMMA NoCheck ==
  ASSUME Typed, NEW p \in Proc, OnlyRequest(p), gc' = gc, NEW local \in RequestSet,
         Continue(p, local), local.pc # "check", ReferencesStored'
  PROVE  ReferenceStep
<1>1. req'[p] = local
  BY DEF Continue, Typed
<1>2. KnowsBlobs(req[p])'
  BY <1>1 DEF KnowsBlobs
<1> QED
  BY <1>2, OnlyItKnowsBlobs

\* A step between requests.
LEMMA QuietStep ==
  ASSUME Quiescent, req' = req, gc' = gc, ReferencesStored'
  PROVE  ReferenceStep
<1>1. Known'
  BY DEF Known, KnowsBlobs, Quiescent, Idle
<1>2. Kept'
  BY WaitingKeeps DEF Kept, Quiescent
<1> QED
  BY <1>1, <1>2 DEF ReferenceStep

LEMMA AdministrationReferences == ASSUME ~Overlapping, ReferenceInv, Administration PROVE ReferenceStep
<1>1. manifests' = manifests /\ blobs \subseteq blobs'
  BY DEF Administration, CreateRepository, SetTagImmutability, UpdateRepository,
     PushBlob, PutPolicy, DeletePolicy, Tick
<1>2. ReferencesStored'
  BY <1>1 DEF ReferenceInv, ReferencesStored, Stored
<1>3. ASSUME NEW r \in Repo, NEW value, CreateRepository(r, value) PROVE ReferenceStep
  BY <1>2, <1>3, QuietStep DEF CreateRepository, May
<1>4. ASSUME NEW p \in Proc, NEW r \in Repo, NEW value, value \in BOOLEAN, SetTagImmutability(p, r, value)
      PROVE  ReferenceStep
  <2> DEFINE local == [Idle EXCEPT !.pc = "update", !.repo = r, !.immutable = value,
                                   !.version = repos[r].version + 1]
  <2>1. repos[r].version + 1 \in Nat
    BY DEF ReferenceInv, TagInv, Typed
  <2>2. local \in RequestSet /\ local.pc # "check"
    <3>1. local.pc = "update"
      BY DEF Idle
    <3>2. local \in RequestSet
      BY <1>4, <2>1, IdleTyped DEF RequestSet
    <3> QED
      BY <3>1, <3>2
  <2>3. Continue(p, local) /\ OnlyRequest(p)
    BY <1>4 DEF SetTagImmutability, May, Quiescent, OnlyRequest
  <2> HIDE DEF local
  <2> QED
    BY <1>2, <1>4, <2>2, <2>3, NoCheck DEF SetTagImmutability, ReferenceInv, TagInv
<1>5. ASSUME NEW p \in Proc, UpdateRepository(p) PROVE ReferenceStep
  <2>1. OnlyRequest(p)
    BY <1>5 DEF UpdateRepository, At, ReferenceInv, TagInv, Serial, Idle
  <2> QED
    BY <1>2, <1>5, <2>1, ReturnKnowsBlobs DEF UpdateRepository, ReferenceInv, TagInv
<1>6. ASSUME NEW d \in Digest, PushBlob(d) PROVE ReferenceStep
  BY <1>2, <1>6, QuietStep DEF PushBlob, May
<1>7. ASSUME NEW policy, PutPolicy(policy) \/ DeletePolicy(policy) PROVE ReferenceStep
  BY <1>2, <1>7, QuietStep DEF PutPolicy, DeletePolicy, May
<1>8. CASE Tick
  BY <1>2, <1>8 DEF Tick, ReferenceInv, ReferenceStep, Known, Kept, KnowsBlobs, KeepsBlobs, Stored
<1> QED
  BY <1>3, <1>4, <1>5, <1>6, <1>7, <1>8 DEF Administration

LEMMA PushesReferences == ASSUME ~Overlapping, ReferenceInv, Pushes PROVE ReferenceStep
<1> USE DEF ReferenceInv, TagInv
<1>1. ASSUME NEW p \in Proc, NEW r \in Repo, NEW m \in Manifest, NEW ref \in Tag \union Manifest,
             BeginPut(p, r, m, ref)
      PROVE  ReferenceStep
  <2> DEFINE new == [state |-> "quarantined", created |-> clock]
             local == [Idle EXCEPT !.pc = "check", !.repo = r, !.immutable = repos[r].immutable,
                                   !.manifest = m, !.ref = ref, !.todo = Refs[m], !.found = new]
  <2>1. OnlyRequest(p) /\ Continue(p, local) /\ gc' = gc
    BY <1>1 DEF BeginPut, May, Quiescent, OnlyRequest
  <2>2. local.manifest = m /\ local.todo = Refs[m]
    BY DEF Idle
  <2> HIDE DEF local
  <2>3. req'[p] = local
    BY <2>1 DEF Continue, Typed
  <2>4. KnowsBlobs(req[p])'
    BY <2>2, <2>3 DEF KnowsBlobs, References, Elements
  <2>5. ReferencesStored'
    BY <1>1 DEF BeginPut, ReferencesStored, Stored
  <2> QED
    BY <2>1, <2>4, <2>5, OnlyItKnowsBlobs
<1>2. ASSUME NEW p \in Proc, CheckReference(p) PROVE ReferenceStep
  <2> DEFINE r == req[p]
             local == [r EXCEPT !.todo = Tail(@)]
  <2>1. /\ r \in RequestSet /\ r.todo \in Seq(Digest) /\ r.todo # <<>> /\ r.pc = "check"
        /\ OnlyRequest(p) /\ gc' = gc /\ blobs' = blobs
    BY <1>2 DEF CheckReference, At, Typed, RequestSet, Serial, Idle
  <2>2. ReferencesStored'
    BY <1>2 DEF CheckReference, ReferencesStored, Stored
  <2>3. CASE Return(p)
    BY <2>1, <2>2, <2>3, ReturnKnowsBlobs
  <2>4. CASE Head(r.todo) \in blobs /\ Continue(p, local)
    <3>1. local.manifest = r.manifest /\ local.todo = Tail(r.todo)
      BY <2>1 DEF RequestSet
    <3>2. References(r.manifest) \subseteq blobs \union Elements(local.todo)
      BY <2>1, <2>4, <3>1, TodoTail DEF KnowsBlobs
    <3> HIDE DEF local
    <3>3. req'[p] = local
      BY <2>4 DEF Continue, Typed
    <3>4. KnowsBlobs(req[p])'
      BY <2>1, <3>1, <3>2, <3>3 DEF KnowsBlobs
    <3> QED
      BY <2>1, <2>2, <2>4, <3>4, OnlyItKnowsBlobs
  <2> QED
    BY <1>2, <2>3, <2>4 DEF CheckReference
<1>3. ASSUME NEW p \in Proc, StoreManifest(p) PROVE ReferenceStep
  <2> DEFINE r == req[p]
             local == [r EXCEPT !.pc = "getTag"]
  <2>1. /\ r \in RequestSet /\ r.repo \in Repo /\ r.manifest \in Manifest /\ r.found \in ManifestSet
        /\ r.found.state # "none" /\ r.todo = <<>> /\ r.pc = "check"
        /\ PutManifest(r.repo, r.manifest, r.found)
        /\ OnlyRequest(p) /\ gc' = gc /\ blobs' = blobs
    BY <1>3 DEF StoreManifest, At, Typed, Named, RequestSet, Serial, Idle, KnowsTag
  <2>2. References(r.manifest) \subseteq blobs
    BY <2>1 DEF KnowsBlobs, Elements
  <2>3. \A s \in Repo : \A n \in Stored(s)' : n \in Stored(s) \/ n = r.manifest
    BY <2>1, PutStores
  <2>4. ReferencesStored'
    BY <2>1, <2>2, <2>3 DEF ReferencesStored
  <2>5. Continue(p, local) \/ Return(p)
    BY <1>3 DEF StoreManifest
  <2>6. local \in RequestSet /\ local.pc # "check"
    BY <2>1 DEF RequestSet
  <2> HIDE DEF local
  <2> QED
    BY <2>1, <2>4, <2>5, <2>6, NoCheck, ReturnKnowsBlobs
<1>4. ASSUME NEW p \in Proc, ReadTag(p) \/ PutTag(p) PROVE ReferenceStep
  <2> DEFINE r == req[p]
             old == tags[r.repo][r.ref]
             fresh == [r EXCEPT !.pc = "putTag"]
             kept == [r EXCEPT !.pc = "putTag", !.immutable = old.immutable]
  <2>1. r \in RequestSet /\ OnlyRequest(p) /\ gc' = gc
    BY <1>4 DEF ReadTag, PutTag, At, Typed, Serial, Idle
  <2>2. ReferencesStored'
    BY <1>4 DEF ReadTag, PutTag, ReferencesStored, Stored
  <2>3. old.immutable \in BOOLEAN \/ Return(p)
    <3>1. CASE ReadTag(p)
      <4>1. r.repo \in Repo /\ r.ref \in Tag
        BY <3>1 DEF ReadTag, At, Typed, Named
      <4>2. old \in TagSet
        BY <4>1 DEF Typed
      <4> QED
        BY <4>2, TagTyped
    <3> QED
      BY <1>4, <3>1 DEF PutTag
  <2>4. Continue(p, fresh) \/ Continue(p, kept) \/ Return(p)
    BY <1>4 DEF ReadTag, PutTag
  <2>5. /\ fresh \in RequestSet /\ fresh.pc # "check" /\ kept.pc # "check"
        /\ kept \in RequestSet \/ Return(p)
    BY <2>1, <2>3 DEF RequestSet
  <2> HIDE DEF fresh, kept
  <2> QED
    BY <2>1, <2>2, <2>4, <2>5, NoCheck, ReturnKnowsBlobs
<1>5. ASSUME NEW r \in Repo, NEW m \in Manifest, DeleteManifest(r, m) PROVE ReferenceStep
  <2>1. \A s \in Repo : Stored(s)' \subseteq Stored(s)
    BY <1>5, DeleteStores DEF DeleteManifest
  <2>2. ReferencesStored'
    BY <1>5, <2>1 DEF DeleteManifest, ReferencesStored
  <2> QED
    BY <1>5, <2>2, QuietStep DEF DeleteManifest, May
<1> QED
  BY <1>1, <1>2, <1>3, <1>4, <1>5 DEF Pushes

LEMMA ScansReferences == ASSUME ~Overlapping, ReferenceInv, Scans PROVE ReferenceStep
<1> USE DEF ReferenceInv, TagInv
<1>1. ASSUME NEW p \in Proc, NEW r \in Repo, NEW ref \in Tag \union Manifest,
             NEW status \in ScanResult, LoadForScan(p, r, ref, status)
      PROVE  ReferenceStep
  <2> DEFINE m == IF ref \in Tag THEN tags[r][ref].digest ELSE ref
             local == [Idle EXCEPT !.pc = "createScan", !.repo = r, !.manifest = m,
                                   !.found = manifests[r][m], !.status = status]
  <2>1. OnlyRequest(p) /\ Continue(p, local) /\ m \in Manifest
    BY <1>1 DEF LoadForScan, May, Quiescent, OnlyRequest, Stored
  <2>2. manifests[r][m] \in ManifestSet /\ status \in Statuses
    BY <2>1, ScanAssumption DEF Typed
  <2>3. ReferencesStored' /\ gc' = gc
    BY <1>1 DEF LoadForScan, ReferencesStored, Stored
  <2> HIDE DEF m
  <2>4. local \in RequestSet /\ local.pc # "check"
    BY <2>1, <2>2, IdleTyped DEF RequestSet
  <2> HIDE DEF local
  <2> QED
    BY <2>1, <2>3, <2>4, NoCheck
<1>2. ASSUME NEW p \in Proc, CreateScan(p) PROVE ReferenceStep
  <2> DEFINE r == req[p]
             next == NextState(r.status)
             local == [r EXCEPT !.pc = "storeScanned", !.found.state = next]
  <2>1. r \in RequestSet /\ r.found \in ManifestSet /\ OnlyRequest(p) /\ gc' = gc
    BY <1>2 DEF CreateScan, At, Typed, RequestSet, Serial, Idle
  <2>2. next \in States
    BY DEF NextState, States
  <2>3. ReferencesStored'
    BY <1>2 DEF CreateScan, ReferencesStored, Stored
  <2>4. Continue(p, local) \/ Return(p)
    BY <1>2 DEF CreateScan
  <2> HIDE DEF next
  <2>5. [r.found EXCEPT !.state = next] \in ManifestSet
    BY <2>1, <2>2 DEF ManifestSet
  <2>6. local \in RequestSet /\ local.pc # "check"
    BY <2>1, <2>5 DEF RequestSet
  <2> HIDE DEF local
  <2> QED
    BY <2>1, <2>3, <2>4, <2>6, NoCheck, ReturnKnowsBlobs
<1>3. ASSUME NEW p \in Proc, StoreScanned(p) PROVE ReferenceStep
  <2>1. req[p].manifest \in Stored(req[p].repo) /\ OnlyRequest(p) /\ gc' = gc
    BY <1>3 DEF StoreScanned, At, KnowsTag, Serial, Idle
  <2>2. ReferencesStored'
    BY <1>3, <2>1 DEF StoreScanned, PutManifest, ReferencesStored, Stored
  <2> QED
    BY <1>3, <2>1, <2>2, ReturnKnowsBlobs DEF StoreScanned
<1> QED
  BY <1>1, <1>2, <1>3 DEF Scans

\* A step of a collection that is alone.
LEMMA OnlyItKeeps ==
  ASSUME Typed, NEW c \in Collector, OnlyCollection(c), req' = req, NEW local, Proceed(c, local),
         KeepsBlobs(gc[c])', ReferencesStored'
  PROVE  ReferenceStep
<1>1. ASSUME NEW d \in Collector, d # c PROVE KeepsBlobs(gc[d])'
  <2>1. gc'[d] = Waiting
    BY <1>1 DEF Proceed, OnlyCollection, Typed
  <2> QED
    BY <2>1, WaitingKeeps
<1>2. Known'
  BY DEF Known, KnowsBlobs, OnlyCollection, Idle
<1> QED
  BY <1>1, <1>2 DEF ReferenceStep, Kept

LEMMA FinishKeeps ==
  ASSUME Typed, NEW c \in Collector, OnlyCollection(c), req' = req, Finish(c), ReferencesStored'
  PROVE  ReferenceStep
<1>1. gc'[c] = Waiting
  BY DEF Finish, Proceed, Typed
<1> QED
  BY <1>1, WaitingKeeps, OnlyItKeeps DEF Finish

\* While there is no garbage, a collection may doom what it likes.
LEMMA LookingKeeps ==
  ASSUME Typed, NEW c \in Collector, OnlyCollection(c), req' = req, NEW local \in CollectionSet,
         Proceed(c, local), local.garbage = {}, local.all = manifests, manifests' = manifests,
         blobs' = blobs, ReferencesStored
  PROVE  ReferenceStep
<1>1. gc'[c] = local /\ manifests' = local.all
  BY DEF Proceed, Typed
<1>2. KeepsBlobs(gc[c])'
  BY <1>1 DEF KeepsBlobs
<1>3. ReferencesStored'
  BY DEF ReferencesStored, Stored
<1> QED
  BY <1>2, <1>3, OnlyItKeeps

LEMMA ListManifestsReferences ==
  ASSUME ~Overlapping, ReferenceInv, NEW c \in Collector, NEW dry, dry \in BOOLEAN,
         NEW only \in SUBSET Repo, ListManifests(c, dry, only)
  PROVE  ReferenceStep
<1> DEFINE rest == {r \in only : Listed(manifests, r) # {}}
           local == [Waiting EXCEPT !.pc = "policies", !.dry = dry, !.all = manifests, !.todo = rest]
<1>1. manifests \in [Repo -> [Manifest -> ManifestSet]] /\ rest \in SUBSET Repo /\ Typed
  BY DEF ReferenceInv, TagInv, Typed
<1>2. OnlyCollection(c)
  BY DEF ListManifests, May, Quiescent, OnlyCollection
<1>3. local.garbage = {} /\ local.all = manifests
  BY DEF Waiting
<1> HIDE DEF rest
<1>4. local \in CollectionSet
  BY <1>1, IdleTyped DEF CollectionSet
<1> HIDE DEF local
<1> QED
  BY <1>1, <1>2, <1>3, <1>4, LookingKeeps DEF ListManifests, local, rest, ReferenceInv

LEMMA ListPoliciesReferences ==
  ASSUME ReferenceInv, NEW c \in Collector, OnlyCollection(c), ListPolicies(c)
  PROVE  ReferenceStep
<1> DEFINE next == IF gc[c].todo = {} THEN "blobs" ELSE "tags"
           local == [gc[c] EXCEPT !.pc = next, !.policies = policies]
<1>1. /\ gc[c] \in CollectionSet /\ policies \in SUBSET Policy /\ next \in {"blobs", "tags"}
      /\ gc[c].all = manifests /\ gc[c].garbage = {} /\ Typed
  BY DEF ListPolicies, Collects, ReferenceInv, TagInv, Typed, KeepsBlobs
<1> HIDE DEF next
<1>2. local \in CollectionSet /\ local.all = manifests /\ local.garbage = {}
  BY <1>1 DEF CollectionSet
<1> HIDE DEF local
<1> QED
  BY <1>1, <1>2, LookingKeeps DEF ListPolicies, local, next, ReferenceInv

LEMMA ListTagsReferences ==
  ASSUME ReferenceInv, NEW c \in Collector, OnlyCollection(c), NEW r \in Repo, ListTags(c, r)
  PROVE  ReferenceStep
<1> DEFINE tagged == TaggedSoFar(c, r)
<1>1. /\ gc[c] \in CollectionSet /\ gc[c].all = manifests /\ gc[c].garbage = {} /\ Typed
      /\ req' = req /\ manifests' = manifests /\ blobs' = blobs /\ ReferencesStored
  BY DEF ListTags, Collects, ReferenceInv, TagInv, Typed, KeepsBlobs
<1>2. tagged \in SUBSET (Manifest \union {None}) /\ NextLast(r, gc[c].last) \in Nat
  BY <1>1, PageTyped DEF CollectionSet, TaggedSoFar
<1>3. CASE Reads(c, r)
  <2> DEFINE local == [gc[c] EXCEPT !.repo = r, !.last = NextLast(r, gc[c].last),
                                    !.tagged = tagged]
  <2>1. Proceed(c, local)
    BY <1>3 DEF Reads, TaggedSoFar
  <2> HIDE DEF tagged
  <2>2. local \in CollectionSet /\ local.all = manifests /\ local.garbage = {}
    BY <1>1, <1>2 DEF CollectionSet
  <2> HIDE DEF local
  <2> QED
    BY <1>1, <2>1, <2>2, LookingKeeps
<1>4. ASSUME NEW rank, Proceed(c, Judged(gc[c], r, tagged, Candidates(gc[c], r, tagged, rank)))
      PROVE  ReferenceStep
  <2> DEFINE candidates == Candidates(gc[c], r, tagged, rank)
             local == Judged(gc[c], r, tagged, candidates)
  <2>1. candidates \in SUBSET Manifest
    BY DEF Candidates, Listed
  <2> HIDE DEF tagged, candidates
  <2>2. local \in CollectionSet /\ local.all = gc[c].all /\ local.garbage = gc[c].garbage
    <3>1. gc[c] \in CollectionSet /\ tagged \in SUBSET (Manifest \union {None})
      BY <1>1, <1>2
    <3> QED
      BY <2>1, <3>1, JudgedTyped
  <2>3. Proceed(c, local)
    BY <1>4 DEF candidates
  <2> HIDE DEF local
  <2> QED
    BY <1>1, <2>2, <2>3, LookingKeeps
<1> QED
  BY <1>3, <1>4, ListTagsCases

\* What is not doomed is live, in a catalog of one repository, and so are the
\* digests it references: they are no garbage.
LEMMA ListBlobsReferences ==
  ASSUME \A r, s \in Repo : r = s,
         ReferenceInv, NEW c \in Collector, OnlyCollection(c), ListBlobs(c)
  PROVE  ReferenceStep
<1> DEFINE reached == ReachedFrom(gc[c])
           garbage == blobs \ reached
           local == [gc[c] EXCEPT !.pc = "delete", !.reached = reached, !.garbage = garbage]
<1>1. /\ gc[c] \in CollectionSet /\ gc[c].all = manifests /\ Typed
      /\ req' = req /\ manifests' = manifests
  BY DEF ListBlobs, Collects, ReferenceInv, TagInv, Typed, KeepsBlobs
<1>2. ReferencesStored'
  BY DEF ListBlobs, ReferenceInv, ReferencesStored, Stored
<1>3. Finish(c) \/ Proceed(c, local)
  BY DEF ListBlobs, AfterDelete
<1>4. reached \in SUBSET (Digest \union {None}) /\ garbage \in SUBSET Digest
  BY <1>1, ReachedTyped DEF Typed
<1>5. ASSUME NEW r \in Repo, NEW m \in Stored(r), <<r, m>> \notin gc[c].doomed
      PROVE  References(m) \cap garbage = {}
  <2>1. \A pair \in gc[c].doomed : pair[2] # m
    <3> SUFFICES ASSUME NEW pair \in gc[c].doomed, pair[2] = m PROVE FALSE
      OBVIOUS
    <3>1. pair \in Repo \X Manifest
      BY <1>1 DEF CollectionSet
    <3>2. pair = <<pair[1], pair[2]>> /\ pair[1] = r
      BY <3>1
    <3> QED
      BY <1>5, <3>2
  <2>2. m \in Live(gc[c])
    <3>1. m \in Listed(gc[c].all, r)
      BY <1>1 DEF Listed, Stored
    <3>2. m \in UNION {Listed(gc[c].all, s) : s \in Repo}
      BY <3>1
    <3>3. m \notin {pair[2] : pair \in gc[c].doomed}
      BY <2>1
    <3> QED
      BY <3>2, <3>3 DEF Live
  <2>3. References(m) \subseteq reached
    BY <2>2 DEF ReachedFrom
  <2> QED
    BY <2>3
<1> HIDE DEF garbage, reached
<1>6. local.pc = "delete" /\ local.garbage = garbage /\ local.doomed = gc[c].doomed
  BY <1>1 DEF CollectionSet
<1> HIDE DEF local
<1>7. ASSUME Proceed(c, local) PROVE KeepsBlobs(gc[c])'
  <2>1. gc'[c] = local
    BY <1>1, <1>7 DEF Proceed, Typed
  <2> QED
    BY <1>1, <1>5, <1>6, <2>1 DEF KeepsBlobs, Stored
<1> QED
  BY <1>1, <1>2, <1>3, <1>7, OnlyItKeeps, FinishKeeps

LEMMA DeleteCandidateReferences ==
  ASSUME ReferenceInv, NEW c \in Collector, OnlyCollection(c), NEW r \in Repo, NEW m \in Manifest,
         DeleteCandidate(c, r, m)
  PROVE  ReferenceStep
<1> DEFINE rest == gc[c].doomed \ {<<r, m>>}
           local == [gc[c] EXCEPT !.repo = r, !.doomed = rest]
<1>1. /\ gc[c] \in CollectionSet /\ Typed /\ req' = req /\ blobs' = blobs /\ gc[c].pc = "delete"
      /\ KeepsBlobs(gc[c]) /\ ReferencesStored
  BY DEF DeleteCandidate, Collects, ReferenceInv, TagInv, Typed
<1>2. CASE m \notin Stored(r)
  <2>1. manifests' = manifests /\ Finish(c)
    BY <1>2 DEF DeleteCandidate
  <2>2. ReferencesStored'
    BY <1>1, <2>1 DEF ReferencesStored, Stored
  <2> QED
    BY <1>1, <2>1, <2>2, FinishKeeps
<1>3. CASE m \in Stored(r)
  <2>1. DeleteFrom(r, m) /\ (Finish(c) \/ Proceed(c, local))
    BY <1>3 DEF DeleteCandidate, AfterDelete
  <2>2. \A s \in Repo : Stored(s)' = IF s = r THEN Stored(s) \ {m} ELSE Stored(s)
    BY <1>1, <2>1, DeleteStores
  <2>3. ReferencesStored'
    BY <1>1, <2>2 DEF ReferencesStored
  <2> HIDE DEF rest
  <2>4. local.pc = "delete" /\ local.garbage = gc[c].garbage /\ local.doomed = rest
    BY <1>1 DEF CollectionSet
  <2> HIDE DEF local
  <2>5. ASSUME Proceed(c, local) PROVE KeepsBlobs(gc[c])'
    <3>1. gc'[c] = local
      BY <1>1, <2>5 DEF Proceed, Typed
    <3>2. ASSUME NEW s \in Repo, NEW n \in Stored(s)'
          PROVE  <<s, n>> \in local.doomed \/ References(n) \cap local.garbage = {}
      <4>1. n \in Stored(s) /\ (s # r \/ n # m)
        BY <2>2, <3>2
      <4>2. <<s, n>> \in gc[c].doomed \/ References(n) \cap gc[c].garbage = {}
        BY <1>1, <4>1 DEF KeepsBlobs
      <4>3. <<s, n>> # <<r, m>>
        BY <4>1
      <4> QED
        BY <2>4, <4>2, <4>3 DEF rest
    <3> QED
      BY <2>4, <3>1, <3>2 DEF KeepsBlobs
  <2> QED
    BY <1>1, <2>1, <2>3, <2>5, OnlyItKeeps, FinishKeeps
<1> QED
  BY <1>2, <1>3

LEMMA DeleteGarbageReferences ==
  ASSUME ReferenceInv, NEW c \in Collector, OnlyCollection(c), NEW d \in Digest, DeleteGarbage(c, d)
  PROVE  ReferenceStep
<1> DEFINE rest == gc[c].garbage \ {d}
           local == [gc[c] EXCEPT !.garbage = rest]
<1>1. /\ gc[c] \in CollectionSet /\ Typed /\ req' = req /\ manifests' = manifests
      /\ gc[c].pc = "delete" /\ gc[c].doomed = {} /\ d \in gc[c].garbage /\ blobs' = blobs \ {d}
      /\ KeepsBlobs(gc[c]) /\ ReferencesStored
  BY DEF DeleteGarbage, Collects, ReferenceInv, TagInv, Typed
<1>2. \A r \in Repo : \A m \in Stored(r) : References(m) \cap gc[c].garbage = {}
  BY <1>1 DEF KeepsBlobs
<1>3. ReferencesStored'
  BY <1>1, <1>2 DEF ReferencesStored, Stored
<1>4. Finish(c) \/ Proceed(c, local)
  BY DEF DeleteGarbage, AfterDelete
<1> HIDE DEF rest
<1>5. local.pc = "delete" /\ local.garbage = rest
  BY <1>1 DEF CollectionSet
<1> HIDE DEF local
<1>6. ASSUME Proceed(c, local) PROVE KeepsBlobs(gc[c])'
  <2>1. gc'[c] = local
    BY <1>1, <1>6 DEF Proceed, Typed
  <2> QED
    BY <1>1, <1>2, <1>5, <2>1 DEF KeepsBlobs, Stored, rest
<1> QED
  BY <1>1, <1>3, <1>4, <1>6, OnlyItKeeps, FinishKeeps

LEMMA CollectionsReferences ==
  ASSUME ~Overlapping, \A r, s \in Repo : r = s, ReferenceInv, Collections
  PROVE  ReferenceStep
<1>1. ASSUME NEW c \in Collector, NEW dry \in BOOLEAN, NEW only \in {Repo} \union {{r} : r \in Repo},
             ListManifests(c, dry, only)
      PROVE  ReferenceStep
  <2>1. only \in SUBSET Repo /\ dry \in BOOLEAN
    BY <1>1
  <2> QED
    BY <1>1, <2>1, ListManifestsReferences
<1>2. ASSUME NEW c \in Collector, Collection(c) PROVE ReferenceStep
  <2>1. OnlyCollection(c)
    BY <1>2, CollectsAlone DEF ReferenceInv, TagInv
  <2> QED
    BY <1>2, <2>1, ListPoliciesReferences, ListBlobsReferences, ListTagsReferences,
       DeleteCandidateReferences, DeleteGarbageReferences DEF Collection
<1> QED
  BY <1>1, <1>2 DEF Collections

\* PutManifest refuses a manifest whose references are not stored and a
\* collection keeps what a manifest references (registry.go:279,
\* lifecycle.go:201): without overlapping requests, in a catalog of one
\* repository, what a stored manifest references is stored.
THEOREM ReferencesKept ==
  ASSUME ~Overlapping, \A r, s \in Repo : r = s
  PROVE  Spec => []ReferencesStored
<1>1. Init => ReferenceInv
  <2> SUFFICES ASSUME Init PROVE ReferenceInv
    OBVIOUS
  <2>1. ReferencesStored /\ \A p \in Proc : KnowsBlobs(req[p])
    BY DEF Init, ReferencesStored, Stored, NoManifest, KnowsBlobs, Idle
  <2>2. \A c \in Collector : KeepsBlobs(gc[c])
    BY DEF Init, KeepsBlobs, Waiting
  <2> QED
    BY <2>1, <2>2, TagInit DEF ReferenceInv
<1>2. ASSUME ReferenceInv, [Next]_vars PROVE ReferenceInv'
  <2>1. TagInv'
    BY <1>2, TagInductive DEF ReferenceInv
  <2>2. CASE UNCHANGED vars
    BY <1>2, <2>1, <2>2 DEF vars, ReferenceInv, ReferencesStored, KnowsBlobs, KeepsBlobs, Stored
  <2>3. CASE Next
    BY <1>2, <2>1, <2>3, AdministrationReferences, PushesReferences, ScansReferences,
       CollectionsReferences DEF Next, ReferenceInv, ReferenceStep, Known, Kept
  <2> QED
    BY <1>2, <2>2, <2>3
<1>3. ReferenceInv => ReferencesStored
  BY DEF ReferenceInv
<1> QED
  BY <1>1, <1>2, <1>3, PTL DEF Spec

-----------------------------------------------------------------------------
(* Pages of tags *)

\* Tags that fit a page are on the first one.
LEMMA OnePage ==
  ASSUME IsFiniteSet(Tag), Cardinality(Tag) <= PageLimit, NEW r \in Repo
  PROVE  /\ PageAfter(r, 0) = {t \in Tag : tags[r][t] # NoTag}
         /\ NextLast(r, 0) = 0
<1> DEFINE names == {t \in Tag : t > 0 /\ tags[r][t] # NoTag}
<1>1. names = {t \in Tag : tags[r][t] # NoTag}
  <2>1. \A t \in Tag : t > 0
    BY NameAssumption
  <2> QED
    BY <2>1
<1>2. ASSUME NEW t \in names PROVE Cardinality({u \in names : u < t}) < PageLimit
  <2> DEFINE before == {u \in names : u < t}
  <2>1. t \in Nat /\ t \in Tag /\ ~(t < t)
    BY NameAssumption
  <2>2. before \subseteq Tag \ {t}
    BY <2>1
  <2>3. IsFiniteSet(Tag \ {t}) /\ Cardinality(Tag \ {t}) = Cardinality(Tag) - 1
    BY <2>1, FS_RemoveElement
  <2> HIDE DEF before
  <2>4. IsFiniteSet(before) /\ Cardinality(before) <= Cardinality(Tag \ {t})
    BY <2>2, <2>3, FS_Subset
  <2>5. Cardinality(before) \in Nat /\ Cardinality(Tag) \in Nat
    BY <2>4, FS_CardinalityType
  <2>6. Cardinality(before) < PageLimit
    BY <2>3, <2>4, <2>5, BoundAssumption
  <2> QED
    BY <2>6 DEF before
<1>3. PageAfter(r, 0) = names
  BY <1>2 DEF PageAfter
<1>4. NextLast(r, 0) = 0
  BY <1>3 DEF NextLast
<1> QED
  BY <1>1, <1>3, <1>4

SparesAll == \A c \in Collector : SparesTagged(gc[c])

LEMMA WaitingSpares == ASSUME NEW c \in Collector, gc'[c] = Waiting PROVE SparesTagged(gc[c])'
<1>1. gc'[c].pc = "idle" /\ gc'[c].doomed = {}
  BY DEF Waiting
<1> QED
  BY <1>1 DEF SparesTagged

LEMMA OnlyItSpares ==
  ASSUME Typed, NEW c \in Collector, OnlyCollection(c), NEW local, Proceed(c, local),
         SparesTagged(gc[c])'
  PROVE  SparesAll'
<1> SUFFICES ASSUME NEW d \in Collector, d # c PROVE SparesTagged(gc[d])'
  BY DEF SparesAll
<1>1. gc'[d] = Waiting
  BY DEF Proceed, OnlyCollection, Typed
<1> QED
  BY <1>1, WaitingSpares

LEMMA FinishSpares ==
  ASSUME Typed, NEW c \in Collector, OnlyCollection(c), Finish(c)
  PROVE  SparesAll'
<1>1. gc'[c] = Waiting
  BY DEF Finish, Proceed, Typed
<1> QED
  BY <1>1, WaitingSpares, OnlyItSpares DEF Finish

\* A step that dooms nothing more and starts no page.
LEMMA SameSpares ==
  ASSUME Typed, NEW c \in Collector, OnlyCollection(c), SparesTagged(gc[c]), NEW local \in CollectionSet,
         Proceed(c, local), local.doomed \subseteq gc[c].doomed, tags' = tags,
         local.pc \in {"policies", "tags"} => local.repo = None /\ local.last = 0
  PROVE  SparesAll'
<1>1. gc'[c] = local
  BY DEF Proceed, Typed
<1>2. SparesTagged(gc[c])'
  BY <1>1 DEF SparesTagged
<1> QED
  BY <1>2, OnlyItSpares

LEMMA ListManifestsSpares ==
  ASSUME Typed, NEW c \in Collector, OnlyCollection(c), NEW dry, dry \in BOOLEAN,
         NEW only \in SUBSET Repo, ListManifests(c, dry, only), SparesTagged(gc[c])
  PROVE  SparesAll'
<1> DEFINE rest == {r \in only : Listed(manifests, r) # {}}
           local == [Waiting EXCEPT !.pc = "policies", !.dry = dry, !.all = manifests, !.todo = rest]
<1>1. manifests \in [Repo -> [Manifest -> ManifestSet]] /\ rest \in SUBSET Repo
  BY DEF Typed
<1>2. local.doomed = {} /\ local.repo = None /\ local.last = 0
  BY DEF Waiting
<1> HIDE DEF rest
<1>3. local \in CollectionSet
  BY <1>1, IdleTyped DEF CollectionSet
<1> HIDE DEF local
<1> QED
  BY <1>2, <1>3, SameSpares DEF ListManifests, local, rest

LEMMA ListPoliciesSpares ==
  ASSUME Typed, NEW c \in Collector, OnlyCollection(c), ListPolicies(c), SparesTagged(gc[c])
  PROVE  SparesAll'
<1> DEFINE next == IF gc[c].todo = {} THEN "blobs" ELSE "tags"
           local == [gc[c] EXCEPT !.pc = next, !.policies = policies]
<1>1. /\ gc[c] \in CollectionSet /\ policies \in SUBSET Policy /\ next \in {"blobs", "tags"}
      /\ gc[c].repo = None /\ gc[c].last = 0
  BY DEF ListPolicies, Collects, Typed, SparesTagged
<1> HIDE DEF next
<1>2. local \in CollectionSet /\ local.doomed = gc[c].doomed /\ local.repo = None /\ local.last = 0
  BY <1>1 DEF CollectionSet
<1> HIDE DEF local
<1> QED
  BY <1>2, SameSpares DEF ListPolicies, local, next

\* The one page holds every tag: what it names is no candidate.
LEMMA ListTagsSpares ==
  ASSUME IsFiniteSet(Tag), Cardinality(Tag) <= PageLimit,
         Typed, NEW c \in Collector, OnlyCollection(c), NEW r \in Repo, ListTags(c, r), SparesTagged(gc[c])
  PROVE  SparesAll'
<1> DEFINE tagged == TaggedSoFar(c, r)
<1>1. /\ gc[c] \in CollectionSet /\ gc[c].repo = None /\ gc[c].last = 0
      /\ \A s \in Repo, t \in Tag : <<s, tags[s][t].digest>> \notin gc[c].doomed
  BY DEF ListTags, Collects, Typed, SparesTagged
<1>2. tagged \in SUBSET (Manifest \union {None})
  BY <1>1, PageTyped DEF CollectionSet, TaggedSoFar
<1>3. \A t \in Tag : tags[r][t] # NoTag => tags[r][t].digest \in tagged
  BY <1>1, OnePage DEF TaggedSoFar
<1>4. PICK rank : Proceed(c, Judged(gc[c], r, tagged, Candidates(gc[c], r, tagged, rank)))
  BY <1>1, OnePage, ListTagsCases
<1> DEFINE candidates == Candidates(gc[c], r, tagged, rank)
<1>5. candidates \in SUBSET (Manifest \ tagged)
  BY DEF Candidates, Listed
<1> HIDE DEF tagged, candidates
<1> DEFINE local == Judged(gc[c], r, tagged, candidates)
<1>6. local \in CollectionSet /\ local.repo = None /\ local.last = 0
  BY <1>1, <1>2, <1>5, JudgedTyped
<1>7. local.doomed = gc[c].doomed \union ({r} \X candidates)
  BY <1>1, JudgedDooms
<1>8. Proceed(c, local) /\ tags' = tags
  BY <1>4 DEF candidates, ListTags
<1> HIDE DEF local
<1>9. gc'[c] = local
  BY <1>8 DEF Proceed, Typed
<1>10. ASSUME NEW s \in Repo, NEW t \in Tag PROVE <<s, tags[s][t].digest>> \notin local.doomed
  <2>1. tags[r][t].digest \notin candidates
    <3>1. CASE tags[r][t] = NoTag
      BY <1>5, <3>1, NameAssumption DEF NoTag, Digest
    <3>2. CASE tags[r][t] # NoTag
      BY <1>3, <1>5, <3>2
    <3> QED
      BY <3>1, <3>2
  <2> QED
    BY <1>1, <1>7, <2>1
<1>11. SparesTagged(gc[c])'
  BY <1>6, <1>8, <1>9, <1>10 DEF SparesTagged
<1> QED
  BY <1>8, <1>11, OnlyItSpares

LEMMA ListBlobsSpares ==
  ASSUME Typed, NEW c \in Collector, OnlyCollection(c), ListBlobs(c), SparesTagged(gc[c])
  PROVE  SparesAll'
<1> DEFINE reached == ReachedFrom(gc[c])
           garbage == blobs \ reached
           local == [gc[c] EXCEPT !.pc = "delete", !.reached = reached, !.garbage = garbage]
<1>1. Finish(c) \/ Proceed(c, local)
  BY DEF ListBlobs, AfterDelete
<1>2. gc[c] \in CollectionSet
  BY DEF Typed
<1>3. reached \in SUBSET (Digest \union {None}) /\ garbage \in SUBSET Digest
  BY <1>2, ReachedTyped DEF Typed
<1> HIDE DEF garbage, reached
<1>4. local \in CollectionSet /\ local.doomed = gc[c].doomed /\ local.pc = "delete"
  BY <1>2, <1>3 DEF CollectionSet
<1> HIDE DEF local
<1> QED
  BY <1>1, <1>4, FinishSpares, SameSpares DEF ListBlobs

\* A candidate has no tag: deleting it deletes none.
LEMMA DeletesNoTag ==
  ASSUME Typed, NEW c \in Collector, SparesTagged(gc[c]), NEW r \in Repo, NEW m \in Manifest,
         DeleteCandidate(c, r, m)
  PROVE  tags' = tags
<1>1. CASE m \notin Stored(r)
  BY <1>1 DEF DeleteCandidate
<1>2. CASE m \in Stored(r)
  <2>1. DeleteFrom(r, m) /\ <<r, m>> \in gc[c].doomed
    BY <1>2 DEF DeleteCandidate, IsNext
  <2>2. \A t \in Tag : tags[r][t].digest # m
    BY <2>1 DEF SparesTagged
  <2>3. [t \in Tag |-> IF tags[r][t].digest = m THEN NoTag ELSE tags[r][t]] = tags[r]
    BY <2>2 DEF Typed
  <2> QED
    BY <2>1, <2>3 DEF DeleteFrom, Typed
<1> QED
  BY <1>1, <1>2

LEMMA DeletingSpares ==
  ASSUME Typed, NEW c \in Collector, OnlyCollection(c), SparesTagged(gc[c]),
         \/ \E r \in Repo, m \in Manifest : DeleteCandidate(c, r, m)
         \/ \E d \in Digest : DeleteGarbage(c, d)
  PROVE  SparesAll'
<1>1. gc[c] \in CollectionSet /\ gc[c].pc = "delete"
  BY DEF DeleteCandidate, DeleteGarbage, Collects, Typed
<1>2. ASSUME NEW r \in Repo, NEW m \in Manifest, DeleteCandidate(c, r, m) PROVE SparesAll'
  <2> DEFINE rest == gc[c].doomed \ {<<r, m>>}
             local == [gc[c] EXCEPT !.repo = r, !.doomed = rest]
  <2>1. rest \in SUBSET (Repo \X Manifest) /\ rest \subseteq gc[c].doomed
    BY <1>1 DEF CollectionSet
  <2> HIDE DEF rest
  <2>2. local \in CollectionSet /\ local.doomed = rest /\ local.pc = "delete"
    BY <1>1, <2>1 DEF CollectionSet
  <2>3. Finish(c) \/ Proceed(c, local)
    BY <1>2 DEF DeleteCandidate, AfterDelete, rest
  <2> HIDE DEF local
  <2> QED
    BY <1>2, <2>1, <2>2, <2>3, DeletesNoTag, FinishSpares, SameSpares
<1>3. ASSUME NEW d \in Digest, DeleteGarbage(c, d) PROVE SparesAll'
  <2> DEFINE rest == gc[c].garbage \ {d}
             local == [gc[c] EXCEPT !.garbage = rest]
  <2>1. rest \in SUBSET Digest
    BY <1>1 DEF CollectionSet
  <2> HIDE DEF rest
  <2>2. local \in CollectionSet /\ local.doomed = gc[c].doomed /\ local.pc = "delete"
    BY <1>1, <2>1 DEF CollectionSet
  <2>3. (Finish(c) \/ Proceed(c, local)) /\ tags' = tags
    BY <1>3 DEF DeleteGarbage, AfterDelete, rest
  <2> HIDE DEF local
  <2> QED
    BY <2>2, <2>3, FinishSpares, SameSpares
<1> QED
  BY <1>2, <1>3

LEMMA PageInductive ==
  ASSUME ~Overlapping, IsFiniteSet(Tag), Cardinality(Tag) <= PageLimit, PageInv, [Next]_vars
  PROVE  PageInv'
<1>1. Typed' /\ Serial'
  BY TypedInductive, SerialInductive DEF PageInv
<1>2. ASSUME tags' = tags, gc' = gc PROVE SparesAll'
  BY <1>2 DEF PageInv, SparesAll, SparesTagged
<1>3. ASSUME \A c \in Collector : gc'[c] = Waiting PROVE SparesAll'
  BY <1>3, WaitingSpares DEF SparesAll
<1>4. CASE UNCHANGED vars
  BY <1>1, <1>2, <1>4 DEF vars, PageInv, SparesAll
<1>5. CASE Administration \/ Scans
  <2>1. tags' = tags /\ gc' = gc
    BY <1>5 DEF Administration, CreateRepository, SetTagImmutability, UpdateRepository,
       PushBlob, PutPolicy, DeletePolicy, Tick, Scans, LoadForScan, CreateScan, StoreScanned
  <2> QED
    BY <1>1, <1>2, <2>1 DEF PageInv, SparesAll
<1>6. CASE Pushes
  <2>1. ASSUME NEW p \in Proc, PutTag(p) PROVE \A c \in Collector : gc'[c] = Waiting
    <3>1. req[p] # Idle /\ gc' = gc
      BY <2>1 DEF PutTag, At, Idle
    <3> QED
      BY <3>1 DEF PageInv, Serial, OnlyRequest
  <2>2. ASSUME NEW r \in Repo, NEW m \in Manifest, DeleteManifest(r, m)
        PROVE  \A c \in Collector : gc'[c] = Waiting
    BY <2>2 DEF DeleteManifest, May, Quiescent
  <2>3. SparesAll'
    BY <1>2, <1>3, <1>6, <2>1, <2>2 DEF Pushes, BeginPut, CheckReference, StoreManifest, ReadTag
  <2> QED
    BY <1>1, <2>3 DEF PageInv, SparesAll
<1>7. CASE Collections
  <2>1. ASSUME NEW c \in Collector, NEW dry \in BOOLEAN, NEW only \in {Repo} \union {{r} : r \in Repo},
               ListManifests(c, dry, only)
        PROVE  SparesAll'
    <3>1. only \in SUBSET Repo /\ dry \in BOOLEAN /\ OnlyCollection(c) /\ Typed /\ SparesTagged(gc[c])
      BY <2>1 DEF ListManifests, May, Quiescent, OnlyCollection, PageInv
    <3> QED
      BY <2>1, <3>1, ListManifestsSpares
  <2>2. ASSUME NEW c \in Collector, Collection(c) PROVE SparesAll'
    <3>1. OnlyCollection(c) /\ Typed /\ SparesTagged(gc[c])
      BY <2>2, CollectsAlone DEF PageInv
    <3> QED
      BY <2>2, <3>1, ListPoliciesSpares, ListBlobsSpares, ListTagsSpares, DeletingSpares DEF Collection
  <2> QED
    BY <1>1, <1>7, <2>1, <2>2 DEF Collections, PageInv, SparesAll
<1> QED
  BY <1>4, <1>5, <1>6, <1>7 DEF Next

\* No step of a collection deletes a manifest from under a tag
\* (lifecycle.go:177), of repositories whose tags fit a page of listAllTags:
\* the next page would leave a tag out.
THEOREM TagsSpared ==
  ASSUME ~Overlapping, IsFiniteSet(Tag), Cardinality(Tag) <= PageLimit
  PROVE  Spec => CollectionKeepsTags
<1> DEFINE Keeps1 == \A c \in Collector : Collection(c) => tags' = tags
<1>1. ASSUME PageInv, [Next]_vars PROVE Keeps1
  <2> SUFFICES ASSUME NEW c \in Collector, Collection(c) PROVE tags' = tags
    OBVIOUS
  <2>1. Typed /\ SparesTagged(gc[c])
    BY <1>1 DEF PageInv
  <2> QED
    BY <2>1, DeletesNoTag DEF Collection, ListPolicies, ListBlobs, ListTags, DeleteGarbage
<1>2. Init => PageInv
  BY TagInit DEF Init, TagInv, PageInv, SparesTagged, Waiting
<1>3. PageInv /\ [Next]_vars => PageInv'
  BY PageInductive
<1>4. PageInv /\ [Next]_vars => [Keeps1]_vars
  BY <1>1
<1> QED
  BY <1>2, <1>3, <1>4, PTL DEF Spec, CollectionKeepsTags

-----------------------------------------------------------------------------
(* What a collection that others overlap does to what policies keep *)

\* While a collection looks, what it has listed is as it has listed it.
Listing(g) ==
  g.pc \in {"policies", "tags", "blobs"} =>
    \A r \in Repo : \A n \in Listed(g.all, r) : manifests[r][n] = g.all[r][n]

\* It judges the manifests of a repository once.
Visits(g) ==
  /\ g.pc = "policies" => g.doomed = {} /\ g.repo = None
  /\ g.pc = "tags" => /\ g.repo \in g.todo \union {None}
                      /\ \A r \in g.todo, m \in Manifest : <<r, m>> \notin g.doomed

\* So many stored manifests as the policy keeps are no older than m, and stay.
Outlived(g, r, m, policy) ==
  \E K \in SUBSET Stored(r) :
    /\ IsFiniteSet(K) /\ Cardinality(K) = policy.keepLast
    /\ \A n \in K : <<r, n>> \notin g.doomed /\ manifests[r][n].created >= manifests[r][m].created

Honours(g) ==
  \A r \in Repo, m \in Manifest : <<r, m>> \in g.doomed =>
    /\ m \in Stored(r)
    /\ \A policy \in g.policies : r \in policy.repos => Outlived(g, r, m, policy)

HonourInv == Typed /\ \A c \in Collector : Listing(gc[c]) /\ Visits(gc[c]) /\ Honours(gc[c])

\* An injective ranking of n manifests gives each rank below n once.
LEMMA RankedBelow ==
  ASSUME NEW S, IsFiniteSet(S), NEW rank \in [S -> 0..(Cardinality(S) - 1)],
         \A a, b \in S : rank[a] = rank[b] => a = b,
         NEW k \in Nat, k <= Cardinality(S), NEW K, K = {n \in S : rank[n] < k}
  PROVE  IsFiniteSet(K) /\ Cardinality(K) = k
<1> DEFINE f == [n \in K |-> rank[n]]
<1>1. PICK N \in Nat : N = Cardinality(S)
  BY FS_CardinalityType
<1> DEFINE T == 0..(N - 1)
<1>2. IsFiniteSet(T) /\ Cardinality(T) = N
  <2>1. N - 1 \in Int /\ (IF 0 > N - 1 THEN 0 ELSE (N - 1) - 0 + 1) = N
    OBVIOUS
  <2> QED
    BY <2>1, FS_Interval
<1>3. rank \in [S -> T]
  BY <1>1
<1> HIDE DEF T
<1>4. rank \in Surjection(S, T)
  <2>1. rank \in Injection(S, T)
    BY <1>3 DEF Injection, IsInjective
  <2> QED
    BY <1>1, <1>2, <2>1, FS_Injection
<1>5. \A i \in 0..(k - 1) : \E n \in S : rank[n] = i
  <2> SUFFICES ASSUME NEW i \in 0..(k - 1) PROVE \E n \in S : rank[n] = i
    OBVIOUS
  <2>1. i \in T
    BY <1>1 DEF T
  <2> QED
    BY <1>4, <2>1 DEF Surjection
<1>6. IsFiniteSet(K)
  BY FS_Subset
<1>7. f \in [K -> 0..(k - 1)]
  <2>1. \A n \in K : rank[n] \in T /\ rank[n] < k
    BY <1>3
  <2> QED
    BY <1>1, <1>3, <2>1 DEF T
<1>8. \A a, b \in K : f[a] = f[b] => a = b
  OBVIOUS
<1>9. \A i \in 0..(k - 1) : \E n \in K : f[n] = i
  <2> SUFFICES ASSUME NEW i \in 0..(k - 1) PROVE \E n \in K : f[n] = i
    OBVIOUS
  <2>1. PICK n \in S : rank[n] = i
    BY <1>5
  <2>2. n \in K /\ f[n] = i
    BY <2>1
  <2> QED
    BY <2>2
<1> HIDE DEF f
<1>10. f \in Bijection(K, 0..(k - 1))
  BY <1>7, <1>8, <1>9 DEF Bijection, Injection, IsInjective, Surjection
<1>11. Cardinality(0..(k - 1)) = Cardinality(K)
  BY <1>6, <1>10, FS_Bijection DEF ExistsBijection
<1>12. Cardinality(0..(k - 1)) = k
  <2>1. k - 1 \in Int /\ (IF 0 > k - 1 THEN 0 ELSE (k - 1) - 0 + 1) = k
    OBVIOUS
  <2> QED
    BY <2>1, FS_Interval
<1> QED
  BY <1>6, <1>11, <1>12

\* What is stored stays, as it is.
Grows == \A r \in Repo : \A n \in Stored(r) : manifests'[r][n] = manifests[r][n]

LEMMA GrowsStored == ASSUME Grows PROVE \A r \in Repo : Stored(r) \subseteq Stored(r)'
  BY DEF Grows, Stored

LEMMA SameGrows == ASSUME manifests' = manifests PROVE Grows
  BY DEF Grows

HonourAll == \A c \in Collector : Listing(gc[c]) /\ Visits(gc[c]) /\ Honours(gc[c])


\* What a collection dooms meanwhile stays, and so do the manifests that outlive it.
LEMMA HonoursStay ==
  ASSUME NEW c \in Collector, Honours(gc[c]), Grows, gc'[c].doomed = gc[c].doomed,
         gc'[c].policies = gc[c].policies
  PROVE  Honours(gc[c])'
<1> SUFFICES ASSUME NEW r \in Repo, NEW m \in Manifest, <<r, m>> \in gc[c].doomed
             PROVE  /\ m \in Stored(r)'
                    /\ \A policy \in gc[c].policies : r \in policy.repos => Outlived(gc[c], r, m, policy)'
  BY DEF Honours
<1>1. m \in Stored(r) /\ Stored(r) \subseteq Stored(r)' /\ manifests'[r][m] = manifests[r][m]
  BY GrowsStored DEF Honours, Grows
<1>2. ASSUME NEW policy \in gc[c].policies, r \in policy.repos PROVE Outlived(gc[c], r, m, policy)'
  <2>1. PICK K \in SUBSET Stored(r) :
          /\ IsFiniteSet(K) /\ Cardinality(K) = policy.keepLast
          /\ \A n \in K : <<r, n>> \notin gc[c].doomed /\ manifests[r][n].created >= manifests[r][m].created
    BY <1>2 DEF Honours, Outlived
  <2>2. \A n \in K : manifests'[r][n] = manifests[r][n]
    BY DEF Grows
  <2> QED
    BY <1>1, <2>1, <2>2 DEF Outlived
<1> QED
  BY <1>1, <1>2

LEMMA ListingStays ==
  ASSUME NEW c \in Collector, Listing(gc[c]), Grows, Typed,
         gc'[c].pc \in {"policies", "tags", "blobs"} =>
            gc[c].pc \in {"policies", "tags", "blobs"} /\ gc'[c].all = gc[c].all
  PROVE  Listing(gc[c])'
<1> SUFFICES ASSUME gc'[c].pc \in {"policies", "tags", "blobs"}, NEW r \in Repo,
                    NEW n \in Listed(gc[c].all, r)
             PROVE  manifests'[r][n] = gc[c].all[r][n]
  BY DEF Listing
<1>1. manifests[r][n] = gc[c].all[r][n]
  BY DEF Listing
<1>2. n \in Stored(r)
  BY <1>1 DEF Stored, Listed
<1> QED
  BY <1>1, <1>2 DEF Grows

\* A step of something else.
LEMMA OthersHonour == ASSUME HonourInv, gc' = gc, Grows PROVE HonourAll'
<1> SUFFICES ASSUME NEW c \in Collector PROVE Listing(gc[c])' /\ Visits(gc[c])' /\ Honours(gc[c])'
  BY DEF HonourAll
<1>1. Listing(gc[c])' /\ Honours(gc[c])'
  BY HonoursStay, ListingStays DEF HonourInv
<1>2. Visits(gc[c])'
  BY DEF HonourInv, Visits
<1> QED
  BY <1>1, <1>2

\* A step of the one collector.
LEMMA ItHonours ==
  ASSUME \A c, d \in Collector : c = d, NEW c \in Collector,
         Listing(gc[c])', Visits(gc[c])', Honours(gc[c])'
  PROVE  HonourAll'
  BY DEF HonourAll

LEMMA FinishHonours ==
  ASSUME \A c, d \in Collector : c = d, Typed, NEW c \in Collector, Finish(c)
  PROVE  HonourAll'
<1>1. gc'[c] = Waiting /\ Waiting.pc = "idle" /\ Waiting.doomed = {}
  BY DEF Finish, Proceed, Typed, Waiting
<1>2. Listing(gc[c])' /\ Visits(gc[c])' /\ Honours(gc[c])'
  BY <1>1 DEF Listing, Visits, Honours
<1> QED
  BY <1>2, ItHonours

LEMMA ListManifestsHonours ==
  ASSUME \A c, d \in Collector : c = d, HonourInv, NEW c \in Collector, NEW dry, NEW only,
         ListManifests(c, dry, only)
  PROVE  HonourAll'
<1> DEFINE rest == {r \in only : Listed(manifests, r) # {}}
           local == [Waiting EXCEPT !.pc = "policies", !.dry = dry, !.all = manifests, !.todo = rest]
<1>1. local.pc = "policies" /\ local.all = manifests /\ local.doomed = {} /\ local.repo = None
  BY DEF Waiting
<1>2. Proceed(c, local) /\ manifests' = manifests
  BY DEF ListManifests
<1> HIDE DEF local
<1>3. gc'[c] = local
  BY <1>2 DEF Proceed, HonourInv, Typed
<1>4. Listing(gc[c])' /\ Visits(gc[c])' /\ Honours(gc[c])'
  BY <1>1, <1>2, <1>3 DEF Listing, Visits, Honours
<1> QED
  BY <1>4, ItHonours

LEMMA ListPoliciesHonours ==
  ASSUME \A c, d \in Collector : c = d, HonourInv, NEW c \in Collector, ListPolicies(c)
  PROVE  HonourAll'
<1> DEFINE next == IF gc[c].todo = {} THEN "blobs" ELSE "tags"
           local == [gc[c] EXCEPT !.pc = next, !.policies = policies]
<1>1. /\ gc[c] \in CollectionSet /\ next \in {"blobs", "tags"} /\ gc[c].pc = "policies"
      /\ gc[c].doomed = {} /\ gc[c].repo = None /\ Typed
  BY DEF ListPolicies, Collects, HonourInv, Typed, Visits
<1>2. Proceed(c, local) /\ manifests' = manifests
  BY DEF ListPolicies
<1> HIDE DEF next
<1>3. /\ local.pc = next /\ local.all = gc[c].all /\ local.doomed = {} /\ local.repo = None
      /\ local.todo = gc[c].todo
  BY <1>1 DEF CollectionSet
<1> HIDE DEF local
<1>4. gc'[c] = local
  BY <1>1, <1>2 DEF Proceed, Typed
<1>5. Listing(gc[c])'
  BY <1>1, <1>2, <1>3, <1>4, SameGrows, ListingStays DEF HonourInv
<1>6. Visits(gc[c])' /\ Honours(gc[c])'
  BY <1>1, <1>3, <1>4 DEF Visits, Honours
<1> QED
  BY <1>5, <1>6, ItHonours

\* So many listed manifests are no older than m, and no candidates.
Precede(local, r, candidates, m, policy) ==
  \E K \in SUBSET Listed(local.all, r) :
    /\ IsFiniteSet(K) /\ Cardinality(K) = policy.keepLast
    /\ \A n \in K : /\ n \notin candidates
                    /\ local.all[r][n].created >= local.all[r][m].created

\* As many listed manifests as the policy keeps come before a candidate: they are
\* no candidates, and no older.
LEMMA RankedOutlive ==
  ASSUME IsFiniteSet(Manifest), NEW local \in CollectionSet, NEW r \in Repo, NEW tagged,
         NEW rank \in Rankings(local.all, r),
         NEW candidates, candidates = Candidates(local, r, tagged, rank), NEW m \in candidates,
         NEW policy \in local.policies, r \in policy.repos
  PROVE  Precede(local, r, candidates, m, policy)
<1> DEFINE S == Listed(local.all, r)
           K == {n \in S : rank[n] < policy.keepLast}
<1>1. IsFiniteSet(S)
  BY FS_Subset DEF Listed
<1>2. /\ rank \in [S -> 0..(Cardinality(S) - 1)]
      /\ \A a, b \in S : rank[a] = rank[b] => a = b
      /\ \A a, b \in S : local.all[r][a].created > local.all[r][b].created => rank[a] < rank[b]
  BY DEF Rankings
<1>3. policy.keepLast \in Nat /\ Cardinality(S) \in Nat
  BY <1>1, FS_CardinalityType, PolicyAssumption DEF CollectionSet
<1>4. m \in S /\ ~(policy.keepLast > rank[m])
  BY DEF Candidates, Keeps
<1>5. \A n \in S : rank[n] \in Nat /\ rank[n] < Cardinality(S) /\ local.all[r][n].created \in Nat
  BY <1>2, <1>3 DEF CollectionSet, ManifestSet, Listed
<1> HIDE DEF S
<1>6. policy.keepLast <= Cardinality(S)
  <2>1. rank[m] \in Nat /\ rank[m] < Cardinality(S) /\ ~(policy.keepLast > rank[m])
    BY <1>4, <1>5
  <2> QED
    BY <1>3, <2>1
<1>7. IsFiniteSet(K) /\ Cardinality(K) = policy.keepLast
  <2>1. K = {n \in S : rank[n] < policy.keepLast}
    OBVIOUS
  <2> HIDE DEF K
  <2> QED
    BY <1>1, <1>2, <1>3, <1>6, <2>1, RankedBelow
<1>8. ASSUME NEW n \in K
      PROVE  /\ n \notin candidates
             /\ local.all[r][n].created >= local.all[r][m].created
  <2>1. n \in S /\ rank[n] < policy.keepLast /\ policy.keepLast > rank[n]
    BY <1>3, <1>5
  <2>2. Keeps(policy, r, rank[n], local.all[r][n].created)
    BY <2>1 DEF Keeps
  <2>3. n \notin candidates
    BY <2>2 DEF Candidates
  <2>4. ~(local.all[r][m].created > local.all[r][n].created)
    BY <1>2, <1>3, <1>4, <1>5, <2>1
  <2> QED
    BY <1>4, <1>5, <2>1, <2>3, <2>4
<1> QED
  BY <1>7, <1>8 DEF S, Precede

\* A manifest is doomed when its repository is judged: what outlives it then is
\* stored, and dooms of other repositories do not touch it.
LEMMA ListTagsHonours ==
  ASSUME IsFiniteSet(Manifest), \A c, d \in Collector : c = d, HonourInv, NEW c \in Collector,
         NEW r \in Repo, ListTags(c, r)
  PROVE  HonourAll'
<1> DEFINE g == gc[c]
           tagged == TaggedSoFar(c, r)
<1>1. /\ g \in CollectionSet /\ g.pc = "tags" /\ Typed /\ Listing(g) /\ Visits(g) /\ Honours(g)
      /\ manifests' = manifests /\ Grows
  BY SameGrows DEF ListTags, Collects, HonourInv, Typed
<1>2. r \in g.todo
  BY <1>1, NameAssumption DEF ListTags, Visits
<1>3. tagged \in SUBSET (Manifest \union {None}) /\ NextLast(r, g.last) \in Nat
  BY <1>1, PageTyped DEF CollectionSet, TaggedSoFar
<1>4. CASE Reads(c, r)
  <2> DEFINE local == [g EXCEPT !.repo = r, !.last = NextLast(r, g.last), !.tagged = tagged]
  <2>1. Proceed(c, local)
    BY <1>4 DEF Reads, TaggedSoFar
  <2> HIDE DEF tagged
  <2>2. /\ local.pc = g.pc /\ local.all = g.all /\ local.doomed = g.doomed /\ local.repo = r
        /\ local.todo = g.todo /\ local.policies = g.policies
    BY <1>1, <1>3 DEF CollectionSet
  <2> HIDE DEF local
  <2>3. gc'[c] = local
    BY <1>1, <2>1 DEF Proceed, Typed
  <2>4. Listing(gc[c])' /\ Honours(gc[c])'
    BY <1>1, <2>2, <2>3, ListingStays, HonoursStay
  <2>5. Visits(gc[c])'
    BY <1>1, <1>2, <2>2, <2>3 DEF Visits
  <2> QED
    BY <2>4, <2>5, ItHonours
<1>5. ASSUME NEW rank \in Rankings(g.all, r),
             Proceed(c, Judged(g, r, tagged, Candidates(g, r, tagged, rank)))
      PROVE  HonourAll'
  <2> DEFINE candidates == Candidates(g, r, tagged, rank)
             local == Judged(g, r, tagged, candidates)
  <2>1. candidates \in SUBSET Manifest /\ candidates \subseteq Listed(g.all, r)
    BY DEF Candidates, Listed
  <2>2. ASSUME NEW m \in candidates, NEW policy \in g.policies, r \in policy.repos
        PROVE  Precede(g, r, candidates, m, policy)
    <3>1. candidates = Candidates(g, r, tagged, rank) /\ g \in CollectionSet
      BY <1>1
    <3> HIDE DEF candidates, tagged
    <3> QED
      BY <2>2, <3>1, RankedOutlive
  <2> HIDE DEF tagged, candidates
  <2>3. local \in CollectionSet /\ local.pc \in {"blobs", "tags"} /\ local.repo = None
        /\ local.all = g.all /\ local.policies = g.policies
    BY <1>1, <1>3, <2>1, JudgedTyped
  <2>5. local.todo = g.todo \ {r}
    BY <1>1, JudgedTodo
  <2>4. local.doomed = g.doomed \union ({r} \X candidates)
    BY <1>1, JudgedDooms
  <2>6. Proceed(c, local)
    BY <1>5 DEF candidates
  <2> HIDE DEF local
  <2>7. gc'[c] = local
    BY <1>1, <2>6 DEF Proceed, Typed
  <2>8. Listing(gc[c])'
    BY <1>1, <2>3, <2>7, ListingStays
  <2>9. Visits(gc[c])'
    <3>1. ASSUME NEW s \in local.todo, NEW m \in Manifest PROVE <<s, m>> \notin local.doomed
      <4>1. s \in g.todo /\ s # r
        BY <2>5
      <4>2. <<s, m>> \notin g.doomed
        BY <1>1, <4>1 DEF Visits
      <4> QED
        BY <2>4, <4>1, <4>2
    <3> QED
      BY <2>3, <2>7, <3>1 DEF Visits
  <2>10. \A n \in Listed(g.all, r) : n \in Stored(r) /\ manifests[r][n] = g.all[r][n]
    BY <1>1 DEF Listing, Listed, Stored
  <2>11. ASSUME NEW s \in Repo, NEW m \in Manifest, <<s, m>> \in local.doomed
         PROVE  /\ m \in Stored(s)
                /\ \A policy \in local.policies : s \in policy.repos => Outlived(local, s, m, policy)
    <3>1. CASE s = r
      <4>1. m \in candidates
        <5>1. <<r, m>> \notin g.doomed
          BY <1>1, <1>2 DEF Visits
        <5> QED
          BY <2>4, <2>11, <3>1, <5>1
      <4>2. ASSUME NEW policy \in local.policies, r \in policy.repos PROVE Outlived(local, r, m, policy)
        <5>1. PICK K \in SUBSET Listed(g.all, r) :
                /\ IsFiniteSet(K) /\ Cardinality(K) = policy.keepLast
                /\ \A n \in K : n \notin candidates /\ g.all[r][n].created >= g.all[r][m].created
          BY <2>2, <2>3, <4>1, <4>2 DEF Precede
        <5>2. \A n \in K : <<r, n>> \notin local.doomed
          <6> SUFFICES ASSUME NEW n \in K PROVE <<r, n>> \notin local.doomed
            OBVIOUS
          <6>1. n \in Manifest /\ n \notin candidates
            BY <5>1 DEF Listed
          <6>2. <<r, n>> \notin g.doomed
            BY <1>1, <1>2, <6>1 DEF Visits
          <6> QED
            BY <2>4, <6>1, <6>2
        <5>3. \A n \in K : manifests[r][n].created >= manifests[r][m].created
          BY <2>1, <2>10, <4>1, <5>1
        <5>4. K \in SUBSET Stored(r)
          BY <2>10
        <5> QED
          BY <5>1, <5>2, <5>3, <5>4 DEF Outlived
      <4> QED
        BY <2>1, <2>10, <3>1, <4>1, <4>2
    <3>2. CASE s # r
      <4>1. <<s, m>> \in g.doomed
        BY <2>4, <2>11, <3>2
      <4>2. \A n : <<s, n>> \notin g.doomed => <<s, n>> \notin local.doomed
        BY <2>4, <3>2
      <4>3. ASSUME NEW policy \in local.policies, s \in policy.repos PROVE Outlived(local, s, m, policy)
        <5>1. PICK K \in SUBSET Stored(s) :
                /\ IsFiniteSet(K) /\ Cardinality(K) = policy.keepLast
                /\ \A n \in K : /\ <<s, n>> \notin g.doomed
                                /\ manifests[s][n].created >= manifests[s][m].created
          BY <1>1, <2>3, <4>1, <4>3 DEF Honours, Outlived
        <5> QED
          BY <4>2, <5>1 DEF Outlived
      <4> QED
        BY <1>1, <4>1, <4>3 DEF Honours
    <3> QED
      BY <3>1, <3>2
  <2>12. Honours(gc[c])'
    BY <1>1, <2>7, <2>11 DEF Honours, Outlived, Stored
  <2> QED
    BY <2>8, <2>9, <2>12, ItHonours
<1> QED
  BY <1>4, <1>5, ListTagsCases

LEMMA ListBlobsHonours ==
  ASSUME \A c, d \in Collector : c = d, HonourInv, NEW c \in Collector, ListBlobs(c)
  PROVE  HonourAll'
<1> DEFINE reached == ReachedFrom(gc[c])
           garbage == blobs \ reached
           local == [gc[c] EXCEPT !.pc = "delete", !.reached = reached, !.garbage = garbage]
<1>1. Finish(c) \/ Proceed(c, local)
  BY DEF ListBlobs, AfterDelete
<1>2. /\ gc[c] \in CollectionSet /\ Typed /\ Listing(gc[c]) /\ Honours(gc[c])
      /\ manifests' = manifests /\ Grows
  BY SameGrows DEF ListBlobs, HonourInv, Typed
<1> HIDE DEF garbage, reached
<1>3. local.pc = "delete" /\ local.doomed = gc[c].doomed /\ local.policies = gc[c].policies
  BY <1>2 DEF CollectionSet
<1> HIDE DEF local
<1>4. ASSUME Proceed(c, local) PROVE HonourAll'
  <2>1. gc'[c] = local
    BY <1>2, <1>4 DEF Proceed, Typed
  <2>2. Listing(gc[c])' /\ Visits(gc[c])'
    BY <1>3, <2>1 DEF Listing, Visits
  <2>3. Honours(gc[c])'
    BY <1>2, <1>3, <2>1, HonoursStay
  <2> QED
    BY <2>2, <2>3, ItHonours
<1> QED
  BY <1>1, <1>2, <1>4, FinishHonours

\* What is deleted was doomed, and what outlives another candidate was not.
LEMMA DeleteCandidateHonours ==
  ASSUME \A c, d \in Collector : c = d, HonourInv, NEW c \in Collector, NEW r \in Repo,
         NEW m \in Manifest, DeleteCandidate(c, r, m)
  PROVE  HonourAll'
<1> DEFINE rest == gc[c].doomed \ {<<r, m>>}
           local == [gc[c] EXCEPT !.repo = r, !.doomed = rest]
<1>1. /\ gc[c] \in CollectionSet /\ gc[c].pc = "delete" /\ Typed /\ Honours(gc[c])
      /\ <<r, m>> \in gc[c].doomed
  BY DEF DeleteCandidate, Collects, IsNext, HonourInv, Typed
<1>2. m \in Stored(r)
  BY <1>1 DEF Honours
<1>3. DeleteFrom(r, m) /\ (Finish(c) \/ Proceed(c, local))
  BY <1>2 DEF DeleteCandidate, AfterDelete
<1>4. /\ \A s \in Repo : Stored(s)' = IF s = r THEN Stored(s) \ {m} ELSE Stored(s)
      /\ \A s \in Repo, n \in Manifest : (s # r \/ n # m) => manifests'[s][n] = manifests[s][n]
  BY <1>1, <1>3, DeleteStores
<1> HIDE DEF rest
<1>5. local.pc = "delete" /\ local.doomed = rest /\ local.policies = gc[c].policies
  BY <1>1 DEF CollectionSet
<1> HIDE DEF local
<1>6. ASSUME Proceed(c, local) PROVE HonourAll'
  <2>1. gc'[c] = local
    BY <1>1, <1>6 DEF Proceed, Typed
  <2>2. Listing(gc[c])' /\ Visits(gc[c])'
    BY <1>5, <2>1 DEF Listing, Visits
  <2>3. ASSUME NEW s \in Repo, NEW x \in Manifest, <<s, x>> \in rest
        PROVE  /\ x \in Stored(s)'
               /\ \A policy \in gc[c].policies : s \in policy.repos => Outlived(gc[c], s, x, policy)'
    <3>1. <<s, x>> \in gc[c].doomed /\ (s # r \/ x # m)
      BY <2>3 DEF rest
    <3>2. x \in Stored(s) /\ x \in Stored(s)'
      BY <1>1, <1>4, <3>1 DEF Honours
    <3>3. ASSUME NEW policy \in gc[c].policies, s \in policy.repos
          PROVE  Outlived(gc[c], s, x, policy)'
      <4>1. PICK K \in SUBSET Stored(s) :
              /\ IsFiniteSet(K) /\ Cardinality(K) = policy.keepLast
              /\ \A n \in K : /\ <<s, n>> \notin gc[c].doomed
                              /\ manifests[s][n].created >= manifests[s][x].created
        BY <1>1, <3>1, <3>3 DEF Honours, Outlived
      <4>2. \A n \in K : n \in Manifest /\ (s # r \/ n # m)
        BY <1>1, <4>1 DEF Stored
      <4>3. /\ K \in SUBSET Stored(s)' /\ manifests'[s][x] = manifests[s][x]
            /\ \A n \in K : manifests'[s][n] = manifests[s][n]
        BY <1>4, <3>1, <4>2
      <4>4. \A n \in K : <<s, n>> \notin gc'[c].doomed
        BY <1>5, <2>1, <4>1 DEF rest
      <4> QED
        BY <4>1, <4>3, <4>4 DEF Outlived
    <3> QED
      BY <3>2, <3>3
  <2>4. Honours(gc[c])'
    BY <1>5, <2>1, <2>3 DEF Honours
  <2> QED
    BY <2>2, <2>4, ItHonours
<1> QED
  BY <1>1, <1>3, <1>6, FinishHonours

LEMMA DeleteGarbageHonours ==
  ASSUME \A c, d \in Collector : c = d, HonourInv, NEW c \in Collector, NEW d \in Digest,
         DeleteGarbage(c, d)
  PROVE  HonourAll'
<1> DEFINE rest == gc[c].garbage \ {d}
           local == [gc[c] EXCEPT !.garbage = rest]
<1>1. /\ gc[c] \in CollectionSet /\ gc[c].pc = "delete" /\ Typed /\ Honours(gc[c])
      /\ manifests' = manifests /\ Grows
  BY SameGrows DEF DeleteGarbage, Collects, HonourInv, Typed
<1>2. Finish(c) \/ Proceed(c, local)
  BY DEF DeleteGarbage, AfterDelete
<1> HIDE DEF rest
<1>3. local.pc = "delete" /\ local.doomed = gc[c].doomed /\ local.policies = gc[c].policies
  BY <1>1 DEF CollectionSet
<1> HIDE DEF local
<1>4. ASSUME Proceed(c, local) PROVE HonourAll'
  <2>1. gc'[c] = local
    BY <1>1, <1>4 DEF Proceed, Typed
  <2>2. Listing(gc[c])' /\ Visits(gc[c])'
    BY <1>3, <2>1 DEF Listing, Visits
  <2>3. Honours(gc[c])'
    BY <1>1, <1>3, <2>1, HonoursStay
  <2> QED
    BY <2>2, <2>3, ItHonours
<1> QED
  BY <1>1, <1>2, <1>4, FinishHonours

LEMMA HonourInductive ==
  ASSUME IsFiniteSet(Manifest), \A c, d \in Collector : c = d, "delete" \notin Events,
         HonourInv, [Next]_vars
  PROVE  HonourInv'
<1>1. Typed'
  BY TypedInductive DEF HonourInv
<1>2. CASE gc' = gc /\ manifests' = manifests
  BY <1>1, <1>2, SameGrows, OthersHonour DEF HonourInv, HonourAll
<1>3. ASSUME NEW r \in Repo, NEW m, NEW manifest, PutManifest(r, m, manifest), gc' = gc
      PROVE  HonourInv'
  <2>1. Grows
    BY <1>3 DEF PutManifest, Grows, Stored, HonourInv, Typed
  <2> QED
    BY <1>1, <1>3, <2>1, OthersHonour DEF HonourInv, HonourAll
<1>4. CASE Administration
  BY <1>2, <1>4 DEF Administration, CreateRepository, SetTagImmutability, UpdateRepository,
     PushBlob, PutPolicy, DeletePolicy, Tick
<1>5. CASE Pushes
  <2>1. ASSUME NEW p \in Proc, StoreManifest(p) PROVE HonourInv'
    BY <1>3, <2>1 DEF StoreManifest, At, HonourInv, Typed, Named
  <2> QED
    BY <1>2, <1>5, <2>1 DEF Pushes, BeginPut, CheckReference, ReadTag, PutTag, DeleteManifest, May
<1>6. CASE Scans
  <2>1. ASSUME NEW p \in Proc, StoreScanned(p) PROVE HonourInv'
    BY <1>3, <2>1 DEF StoreScanned, At, HonourInv, Typed, Named
  <2> QED
    BY <1>2, <1>6, <2>1 DEF Scans, LoadForScan, CreateScan
<1>7. CASE Collections
  <2>1. ASSUME NEW c \in Collector, Collection(c) PROVE HonourAll'
    BY <2>1, ListPoliciesHonours, ListBlobsHonours, ListTagsHonours, DeleteCandidateHonours,
       DeleteGarbageHonours DEF Collection
  <2> QED
    BY <1>1, <1>7, <2>1, ListManifestsHonours DEF Collections, HonourInv, HonourAll
<1> QED
  BY <1>2, <1>4, <1>5, <1>6, <1>7 DEF Next, vars

\* When a collection deletes a manifest, each policy it has read is honoured by
\* what is stored at that time (lifecycle.go:182), whatever was pushed since it
\* looked: of one collection at a time, while clients delete no manifest.
THEOREM PoliciesHonoured ==
  ASSUME IsFiniteSet(Manifest), \A c, d \in Collector : c = d, "delete" \notin Events
  PROVE  Spec => KeepLastHonoured
<1> DEFINE Honoured == \A c \in Collector : Collection(c) =>
             \A r \in Repo : \A m \in Stored(r) \ Stored(r)' :
               \A policy \in gc[c].policies : r \in policy.repos =>
                 policy.keepLast <= Cardinality({n \in Stored(r) \ {m} :
                   manifests[r][n].created >= manifests[r][m].created})
<1>1. ASSUME HonourInv, [Next]_vars PROVE Honoured
  <2> SUFFICES ASSUME NEW c \in Collector, Collection(c), NEW r \in Repo,
                      NEW m \in Stored(r) \ Stored(r)', NEW policy \in gc[c].policies,
                      r \in policy.repos
               PROVE  policy.keepLast <= Cardinality({n \in Stored(r) \ {m} :
                        manifests[r][n].created >= manifests[r][m].created})
    OBVIOUS
  <2> DEFINE L == {n \in Stored(r) \ {m} : manifests[r][n].created >= manifests[r][m].created}
  <2>1. Typed /\ Honours(gc[c]) /\ m \in Manifest
    BY <1>1 DEF HonourInv, Stored
  <2>2. PICK s \in Repo, x \in Manifest : DeleteCandidate(c, s, x) /\ DeleteFrom(s, x)
    <3>1. manifests' # manifests
      BY DEF Stored
    <3> QED
      BY <3>1 DEF Collection, ListPolicies, ListBlobs, ListTags, DeleteGarbage, DeleteCandidate
  <2>3. s = r /\ x = m
    BY <2>1, <2>2, DeleteStores
  <2>4. <<r, m>> \in gc[c].doomed
    BY <2>2, <2>3 DEF DeleteCandidate, IsNext
  <2>5. PICK K \in SUBSET Stored(r) :
          /\ IsFiniteSet(K) /\ Cardinality(K) = policy.keepLast
          /\ \A n \in K : /\ <<r, n>> \notin gc[c].doomed
                          /\ manifests[r][n].created >= manifests[r][m].created
    BY <2>1, <2>4 DEF Honours, Outlived
  <2>6. K \subseteq L
    BY <2>4, <2>5
  <2>7. IsFiniteSet(L)
    BY FS_Subset DEF Stored
  <2> HIDE DEF L
  <2>8. Cardinality(K) <= Cardinality(L)
    BY <2>6, <2>7, FS_Subset
  <2> QED
    BY <2>5, <2>8 DEF L
<1>2. Init => HonourInv
  BY TypedInit DEF Init, HonourInv, Listing, Visits, Honours, Waiting
<1>3. HonourInv /\ [Next]_vars => HonourInv'
  BY HonourInductive
<1>4. HonourInv /\ [Next]_vars => [Honoured]_vars
  BY <1>1
<1> QED
  BY <1>2, <1>3, <1>4, PTL DEF Spec, KeepLastHonoured
=============================================================================
