# A specification of the artifact registry

TLA+ modules for the content-addressed artifact registry in `src/`, TLC
configurations that check them on small instances, and proofs of the most
important theorems for every instance. Paths below are relative to
`src/internal/` unless they start with `src/`.

## 1. The system

The registry is one Go process. HTTP handlers (`distribution/transport/http`)
call two services (`application/registry.go`, `application/lifecycle.go`), which
work on private copies of records that they read from and store back into an
in-memory catalog (`memory/catalog.go`, `memory/catalog_more.go`), and on files
in a local directory (`memory/object.go`). The catalog protects each operation
with one mutex; nothing protects a sequence of operations except the version
numbers that some updates compare. The catalog is lost when the process stops,
the files stay.

| component | state | operations that change it | what makes it correct | module |
|---|---|---|---|---|
| registry service, uploads (`application/registry.go` 80-222, 361-423) | locals of a request | StartUpload, UploadChunk, CompleteUpload, AbortUpload, CreateRepository | content is published once, under its own digest; a session that is being finalized ends; reservations are settled once | `UploadService` |
| upload session (`domain/upload.go`) | state, chunks, declared size, version | RecordChunk, Finalize, Complete, Abort | chunks never overlap, and are the whole file when the session is finalized | `UploadSession` |
| quota record (`domain/policy.go`) | limit, used, reserved, version | Reserve, Commit, Release | used + reserved within the limit, equal to what uploads hold | `Quota`, `AtomicQuota` |
| registry service, content (`application/registry.go` 64-79, 267-360) | locals of a request | PutManifest, DeleteManifest, SetTagImmutability | references resolve, tags resolve, immutable tags stay | `ContentService` |
| lifecycle service (`application/lifecycle.go`) | locals of a request or collection | SubmitScan, CreatePolicy, GarbageCollect, CreateReplication, RunReplication | a collection deletes only what nothing needs; a lease excludes other runners | `ContentService`, `ReplicationTask` |
| catalog (`memory/catalog*.go`) | repositories, blobs, manifests, tags, uploads, quotas, scans, tasks, policies | one critical section per operation; conditional updates of repositories, uploads, quotas and tasks | no update is applied to a record the caller did not read | each of its clients |
| object store (`memory/object.go`) | files | WriteAt, Put, Move, Delete | a name always has whole content | `UploadService` |
| janitor (`memory/janitor.go`) | none | Run | only expired sessions go | `UploadService`, `BlobPush` |
| HTTP transport (`distribution/transport/http`) | the limiter's entries | route, dispatch by hand below `/v2/`, one handler per operation | the handler that was meant gets the request; sending a request again does no harm | `Router`, `BlobPush`, `RateLimiter` |
| replication task (`domain/replication.go`) | state, lease, attempts, version | Claim, Succeed, Fail | claimed by one at a time, success is final | `ReplicationTask` |
| copy coordinator (`application/replication.go`) | task store | Begin, Checkpoint, Finish | only the claimant ends a task | `CopyCoordinator` |
| replication queue and workers (`replicationctl/`) | queue, channel, closed flag, worker goroutines | Push, Enqueue, Drain, Close, worker | no task lost, none twice, everybody stops | `ReplicationQueue` |
| lease manager (`domain/lease.go`) | leases by id | Acquire, Renew, Release, Sweep | one owner at a time | `LeaseManager` |
| quota service (`application/quota.go`) | reservations held by callers | Reserve, Commit, Release | a reservation is settled once, also beside the registry's own updates | `QuotaService`, `Ledger` |
| retention service (`application/retention.go`) | none | Evaluate | keeps what is tagged, agrees with the collection | `RetentionService` |
| reference graph, mark and sweep (`domain/validation.go` 116-173, `gc/`) | maps | AddManifest, Remove, Reachable, Mark, Sweep | what is reachable is kept | `ReferenceGraph` |
| uploader (`uploader/`) | chunks, parts | Add, Remove | the prefix is right whatever order chunks come in | `Uploader` |
| ledger and meter (`quota/`) | reservations, a number | see the files | a reservation moves from reserved to committed or released, once | `Ledger` |
| outbox (`domain/events.go`) | state, attempts, next attempt | Claim, MarkPublished, MarkFailed | published in the end, though publishers die | `Outbox` |
| histogram (`platform/observability/metrics.go`) | values, count, sum | Observe, Snapshot | the sum is that of what was observed | `Histogram` |
| scanner engine (`scanner/`), queries, configuration, bootstrap | a map of scans; none | Scan; none | | not modelled, see the end |

`src/internal/bootstrap/app.go` wires the HTTP transport, the registry and
lifecycle services, the catalog and the object store. The janitor, the quota
service, the copy coordinator, the replication queue, the lease manager, the
retention service, the outbox and the packages `gc`, `quota`, `scanner` and
`uploader` exist but nothing starts them; their modules let callers do what the
types and the comments allow.

How the parts interact: a request is routed, then dispatched by its path, then
decoded into one service call; a completed upload puts a blob into the catalog;
a manifest may be stored when the blobs it references are there; tags name
manifests; a collection reads manifests, policies, tags and blobs in that order
and then deletes manifests and blobs; replication reads and updates tasks, and
so would the coordinator; the registry and the quota service would write one
quota record. Requests meet only in the catalog and in the files.

Hard behaviour, all listed with their lines in `PROJECT.json` under `hazards`:
private copies that are stale when they are stored; a write to a file before
the record that allows it is compared; a temporary file name shared by two
completions; checks and updates in different critical sections; collections
that decide on old lists; errors after the point of no return; a catalog that
forgets while files remember; requests that are sent again because their answer
was lost; leases that end while their holder works; times read before a mutex
is had; closing a channel others send to; a sum updated without the mutex.

## 2. The modules

| module | models | state |
|---|---|---|
| `UploadSession` | `domain/upload.go`: the session record, acceptance of chunks, finalization | none (pure operators) |
| `Quota` | `domain/policy.go` 38-78: Reserve, Commit, Release | none (pure operators) |
| `UploadService` | the upload path over catalog and object store, step by step, with the janitor, deleteBlob and restarts; extends the two above | catalog (`repos quota uploads blobs`), files (`tempFile blobFile putFile data`), environment (`minted expired restarts`), `req` |
| `AtomicQuota` | the abstract specification of the quota record | `quota` |
| `Router` | the patterns of net/http's ServeMux and the two dispatchers behind them | none (pure operators) |
| `BlobPush` | clients that push blobs through `Router` to the upload handlers, over a network that loses and delays; extends `Router`, `UploadSession`, `Quota` | server (`uploads expired quota blobs files minted`), `flight answer client faults`, history `leaked` |
| `ContentService` | manifests, tags, scans, policies, garbage collection | catalog (`repos blobs manifests tags policies scans`), `clock`, `req`, `gc` |
| `ReplicationTask` | the tasks of the API and the requests that run them | `tasks clock runner`, history `target` |
| `CopyCoordinator` | the coordinator's calls on the same tasks; extends `ReplicationTask` | `worker turn` |
| `ReplicationQueue` | queue, channel, workers, Close and cancellation | `items jobs closed stopped done worker caller failed copied`, history `accepted`, `panicked` |
| `LeaseManager` | `domain/lease.go`: acquire, renew, release, sweep | `leases clock call`, history `told` |
| `QuotaService` | the quota service beside the registry's updates of the same record; extends `Quota` | `tenant copies current holder upload renewals`, history `again` |
| `Ledger` | the abstract specification of who holds which reservation (`quota/ledger.go`) | `reservations` |
| `RetentionService` | Evaluate, page by page, while the repository changes | `manifests tags changes evaluation` |
| `ReferenceGraph` | graph, search, mark set and sweeper; `reverse` counts how often an edge is listed | `refs edges reverse queue seen roots keys phase added` |
| `Uploader` | the session and the writer of `uploader/` | `chunks parts` |
| `RateLimiter` | the fixed window of `middleware.go` | `entry now stamp`, history `admitted` |
| `Histogram` | Observe and Snapshot | `values count sum observer reading`, history |
| `Outbox` | an outbox record and its publishers | `record publisher crashes failures` |
| `Library` | the parts that keep their state to themselves, side by side; extends `QuotaService` and `Router`, instantiates the others | `part request` and the variables of its parts |
| `UploadServiceProofs`, `ContentServiceProofs`, `ReplicationTaskProofs`, `ReplicationQueueProofs`, `BlobPushProofs`, `RouterProofs`, `LibraryProofs` | theorems about `UploadService`, `ContentService`, `ReplicationTask` with `CopyCoordinator`, `ReplicationQueue`, `BlobPush`, `Router`, and the parts of `Library` | |
| `FiniteSums` | lemmas about sums over finite sets | |
| `MC...` | instances for TLC: the small sets | |

How they correspond to the code. A request is a process. `req[p].pc` names the
next access to shared state, the other fields are the handler's local
variables, in particular the private copy of a record. One action is one
critical section of the catalog's mutex or one file operation, with what the
handler computes between that access and the next one. A handler that returns
goes back to `Idle`, which also closes its files. Conditional updates compare
the stored version with the one that was read (`SameUpload`, `SameQuota`,
`SameTask`, `SameVersion`). The read that begins a handler is part of its first
action. Where a service has a mutex of its own (`QuotaService`,
`CopyCoordinator`, `LeaseManager`), the call that has it is a variable
(`current`, `turn`, `call`), and others who write the same record without it
come between its steps.

`BlobPush` looks at the same handlers from outside: there a handler is one
step, and what varies is the network. The two views divide the hazards: how the
steps of two handlers interleave is the subject of `UploadService`, what a
client may do again is the subject of `BlobPush`.

`Library` extends two small modules and instantiates seven more. They share
nothing in the program, so a behaviour of `Library` is one of a single part,
chosen in the initial state by `part`; the state space is the union of theirs,
not the product. Its constants are those of its parts, so the theorems about
them are stated for the same definitions that the run checks.

What is abstracted. SHA-256 is an injective constructor (`DigestBytes`).
Contents are short sequences of byte values. Reading a whole file to hash it is
one step (`Hash`), writing a chunk is one step of which a cancellation may
leave any prefix. Files are inodes with names and open descriptors, so a rename
under an open reader leaves the reader on the old bytes. Random identifiers
never repeat. A tag name is a number, because the paging of tags depends on the
order of names and on nothing else. A request's path is the sequence of its
segments. Wall-clock time is a counter or, for sessions, the set of those that
have expired. Observed durations are natural numbers. Audit records,
timestamps, formatting and validation of input are left out: no decision reads
them, or they refuse a request before it touches anything.

Definitions whose comment begins with "Seeded fault" are wrong variants of the
definition that follows them. No specification uses them; `PROJECT.json` lists
each with the property that notices it.

## 3. What is checked

`PROJECT.json` lists the runs. Deadlock is not checked: the instances bound
identifiers, clocks and attempts, and when they are used up, or when nobody
asks for anything, the system rightly stops. That requests get an answer is
checked by the liveness properties instead.

| run | question | instance |
|---|---|---|
| `UploadSessions` | does a session move by legal transitions, once, with chunks that never overlap and are the whole upload once it is finalized? | 2 requests at a time on 1 session, 4 kinds of chunk over 2 bytes (whole, halves, a clash), declared size 2, aborts, expiry, janitor, deleteBlob |
| `UploadQuota` | does the quota record behave as one atomic record, within its limit, and account for every upload? | 3 uploads of 1 byte, limit 2, 2 requests at a time, cancelled writes, right and wrong digests |
| `UploadIntegrity` | does a listed digest have a file with its content? | 2 clients, same or different content, one request at a time on each session, aborts, expiry, 1 restart |
| `PushRetries` | what do clients see of lost and late requests, and what are they charged? | 2 clients pushing 2 bytes one by one, one of them a wrong byte, 3 identifiers, limit 4, 1 request given up (and sent again while the first may still arrive), mounts, expiry, janitor; fair |
| `ContentSerial` | do references, tags and immutability survive every sequence of requests, collections included? | 1 repository, 1 layer, an image and an index over it, 2 tags, 3 policies, 2 ticks, one request at a time |
| `ContentOverlap` | does a collection keep what its policies say and does it end, whatever happens meanwhile? | 2 manifests, 2 tags on pages of 1, 1 policy, everything interleaved; fair |
| `QueueTasks` | is a task ever lost or queued twice, do workers leave tasks behind, does Wait return, is every hand-off over some time? | 2 callers, 1 worker, 2 tasks, buffer 1, at most 1 queued, cancellation, Close at any time; fair |
| `TaskRuns` | does a lease exclude others, is success final, is a task ended only by its claimant? | 2 requests and 2 workers of the coordinator, 1 task, 4 attempts, leases of 2 and 3 ticks, 6 ticks and 6 versions |
| `Library` | do the parts that keep their state to themselves do what they promise? | see below |
| `UploadLateChunk`, `QueuePanics`, `RouteReads` | see "Where the code does something else than it says" | |

The parts of `Library`:

| part | property | instance |
|---|---|---|
| leases | `PromiseKept`: an owner has a lease to itself until the end it was told | 2 owners with a goroutine each, 1 lease, terms of 0 to 2 in 4 ticks, calls that come late |
| quota | `HoldersCovered`: in a tenant's first repository what is reserved is what callers hold and uploads have open, less what an upload that is settled again takes; `LimitShared`: the limit holds, also while a second repository begins the record anew; `LedgerAccepts`: a `Ledger` would accept every value a call returns (`Ledger!Spec` as a property) | 2 callers, 2 uploads of the registry, 1 or 2 bytes, limit 3, 1 later repository, at most 6 different records; an upload is settled as often as the registry may, completed, refused and aborted, from any copy a handler may hold |
| graph | `DependentsExact`: Reverse is the inverse of Edges after any additions and removals; `SweepKeeps`: the mark is what references lead to from the roots (the least set that contains them and is closed) and the sweep leaves it | 3 digests, every acyclic content with up to 2 references (repeated ones included), 4 additions |
| retention | `TaggedReported`: what was tagged all the time is reported as kept | 3 manifests, 3 tags, 5 changes, tags on one page |
| uploader | `PrefixExact`: ContiguousEnd is the length of the prefix the chunks cover | every sequence of up to 4 chunks over 4 bytes |
| limiter | `AtMostTwice`: a span shorter than a window by the longest wait for the mutex admits at most twice the rate, with clock readings out of order | 3 handlers, rate 3, window 3, readings up to 2 late, 7 ticks |
| histogram | `SumBounded`: the sum is exact unless observations overlap, and never too large | 2 goroutines, values 1 and 2, capacity 2, 4 observations, quantiles read at any time |
| outbox | `AllPublished`: a record is published in the end | 2 publishers, 2 crashes, 2 failures; fair |
| router | `WritesArrive`: a request that writes reaches its handler, which sees the client's name and reference | 4 names of 1 to 3 segments, 6 references, every operation |

Why the bounds are enough. The hazards are races of two requests, or of a
request with a collection, on one record; two processes and one or two records
show each of them, and the counterexamples below all fit these instances. Two
bytes are the least for which chunks can be out of order, leave a gap and
overlap; three are the least for which a chunk can bridge two others. Three
uploads are needed for a release to take the bytes of another than the one that
gains. One request that is given up leaves a duplicate in flight that meets
every later request of its client; a second one only repeats that, except for
two late duplicates of one client, which are beyond the bound. Four runners let
one copy while two others have come and gone. Pages of one tag show every page
boundary. What the bounds cut off is repetition: more restarts, more attempts,
more versions of one repository.

Each property is preceded by a comment that says what it means and at which
lines of the code it could go wrong. Type invariants are in a run where they
relate pieces of state (`UploadService`, whose `TypeOK` says which locals a
handler has at each position, and `BlobPush`); `ReplicationQueue`'s is checked
by `QueueWorkers.cfg` (2 workers, buffer 2, safety only), which is not one of
the runs.

Fairness. `ContentOverlap` and `QueueTasks` assume weak
fairness of what a goroutine does once it has begun: Go's scheduler runs every
runnable goroutine, and no handler waits for another except at the channel and
the mutexes, whose critical sections end. Nobody is obliged to begin a request.
Sends on the channel are strongly fair, because the runtime wakes blocked
senders in the order they came. A copy ends, by its own timeout or context.
`PushRetries` assumes that clients go on and that a request whose client still
waits for it arrives and is answered: a lost one is one its client gives up
first. The outbox assumes that some publisher keeps trying and time passes,
with finitely many crashes. Nothing is assumed of the janitor, which nothing
starts. That a session which is being finalized ends is not checked as a liveness
property: whatever the fairness, a handler may fail after it has stored
"finalizing", and then nobody takes the session out of that state (`NeverStranded`
below).

### Where the code does something else than it says

Three runs are expected to fail, and do; `findings` quotes the lines.

- `UploadLateChunk`: a chunk request that read its session before the session
  was finalized writes its bytes (registry.go 129) after the digest was
  verified. The write comes before the version check, so it succeeds and the
  blob is published with other bytes than its digest.
- `QueuePanics`: Enqueue tests the closed flag under the mutex and sends
  without it (coordinator.go 68-77); a Close in between makes the send panic.
  If Close begins only while nobody enqueues or drains, no send panics
  (`OrderlyNeverPanics`, proved).
- `RouteReads`: `GET /v2/` (router.go 30) is more specific than `/v2/`
  (router.go 31), so net/http gives every GET and HEAD below `/v2/` to the
  version check. No blob, manifest or tag can be read there. This depends on
  the ServeMux of Go 1.22 and later, which is modelled from its documentation.

These are reasons why the passing runs have the switches they have
(`Overlapping`, `Orderly`, `Recreation`, `OwnerOf`, `Careful`, `Concurrent`,
`Prompt`, `Tidy`, a page that holds all tags). Other properties fail in a
narrower setting. Some have a configuration of their own, which is not one of
the runs and is used the same way (`tlc -config X.cfg M.tla`):

| configuration (module) | property | what happens |
|---|---|---|
| `UploadDoubleRelease` (MCUploadService) | `UploadsAccounted` | an upload whose digest was refused has given its reservation back; aborting it gives back that of another (registry.go 185, 370) |
| `UploadQuotaReset` (MCUploadService) | `UploadsAccounted` | a tenant's second repository starts a new quota record (registry.go 55) |
| `UploadStranded` (MCUploadService) | `NeverStranded` | two completions of the same content share the name of the temporary file; the second rename fails after its session was stored as finalizing (object.go 35-49) |
| `UploadBlobDeleted` (MCUploadService) | `BlobIntegrity` | DeleteBlob forgets the entry and then unlinks the file that an upload has stored anew (catalog.go 154) |
| `ContentSharedManifest` (MCContentService) | `ReferencesStored` | a candidate in one repository counts as removed in all, and the layers of the tagged copy elsewhere are deleted (lifecycle.go 196) |
| `ContentTagPages` (MCContentService) | `CollectionKeepsTags` | ListTags returns as Next the first name it left out and the next page starts after it (catalog_more.go 36, 44): a collection overlooks a tag at every page boundary, deletes the manifest under it, and the tag (lifecycle.go 250) |
| `ContentTagRace` (MCContentService) | `ImmutableTagsStay` | two first pushes of one immutable tag (registry.go 291-304) |
| `ContentScan` (MCContentService) | `PassedScanReleases` | from quarantined a manifest cannot become available, and PutManifest keeps what it has: a passed scan releases nothing (lifecycle.go 73-76) |
| `ContentChildren` (MCContentService) | `ChildrenKept` | the children of a tagged index are collected (lifecycle.go 177) |
| `QueueBlocks` (MCReplicationQueue) | `HandsOff` | after a cancellation nobody receives, and Drain waits at the full channel (coordinator.go 49, 75) |
| `TaskRecreated` (MCReplicationTask) | `LeaseExcludes` | a task created again under its id forgets its lease (catalog_more.go 214) |

The others are found by changing one of the runs' configurations as the first
column says. Where a property is named alone, it replaces those of the cfg (as
INVARIANT, or PROPERTY where it is an action formula), and `Parts` may be
narrowed to the one part concerned.

| change | property | what happens |
|---|---|---|
| `TaskRecreated`: `Target <- Targets2`, that invariant | `TargetKept` | versions begin at 1 again, so a stale claim replaces the new task (lifecycle.go 121) |
| `ContentSerial`: `Overlapping = TRUE`, `Proc <- Procs2`, one of the invariants | `ReferencesStored`, `TagsResolve` | a collection between the reference check and the storing of a manifest (registry.go 280); a manifest deleted between the two halves of a push (registry.go 284, 304) |
| `UploadStranded`: `Cancellation = TRUE`, `Proc <- Procs1`, `Id <- Ids1` | `NeverStranded` | one upload, one request at a time: the request is cancelled while PutBlob copies the content, after the session was stored as finalizing; CompleteUpload returns the error and the session stays finalizing (registry.go 207-211, object.go 41-44) |
| `UploadIntegrity`: `Cancellation = TRUE` | `BlobIntegrity` | two completions of one content share the temporary file of the copy: one creates it anew and so empties it, the other renames it, and the copy that was to fill it is cancelled (object.go 35-49) |
| `TaskRuns`: `Prompt = FALSE` | `ClaimReported` | Finish ends whatever claim the task has: a worker that reports after its lease ended ends that of another (replication.go 57) |
| `PushRetries`: `Client <- Clients1`, `Expiring = FALSE`, `Limit = 2`, that invariant | `AloneFits` | the answer to POST is lost, the client begins again, and its own first upload holds the quota (router.go 162) |
| `PushRetries`: `Client <- Clients1`, `Expiring = FALSE`, that invariant | `RetriedCompletion` | the answer to PUT is lost, the client asks again and is refused although its blob is there: CompleteUpload reads the size of the temporary file first, and the first PUT has moved that file, so the answer is 500 (registry.go 154); if the registry had the blob the file is still there, and the answer is 409 (registry.go 158) |
| `PushRetries`: `Client <- Clients1`, that invariant | `NothingLeaks` | the janitor deletes expired uploads and leaves their bytes reserved for ever (janitor.go 34) |
| `PushRetries`: `Tidy = FALSE`, `Expiring = FALSE`, that invariant | `ReservedOnce` | the untidy client: it gives up a PUT and then deletes the upload; if the PUT was carried out, the release takes the reservation of another upload (registry.go 370) |
| `Library`: `OwnerOf <- Same` | `PromiseKept` | one goroutine of an owner releases a lease, another renews it with a time not after the release: the renewal succeeds on a released lease, which anybody may acquire (lease.go 35, 50, 65) |
| `Library`: `Careful = FALSE` | `HoldersCovered`, `LedgerAccepts`, `LimitShared` | a reservation is a value, and Commit leaves it reserved: its holder may commit it again, release it after it was committed, or commit more than it reserved, at the cost of other holders (quota.go 48) |
| `Library`: that invariant | `HeldExactly` | a second repository of the tenant begins the record anew, and what callers hold is reserved no more (registry.go 55); with `MaxRenewals = 0`: an upload that is settled again, completed or refused and then aborted, takes what callers hold (registry.go 370) |
| `Library`: `Concurrent = TRUE` | `SweepKeeps` | a manifest added between the mark and the sweep is swept although a tagged one refers to it (sweep.go 27) |
| `Library`: that invariant | `DependentsOnce` | a manifest that is added twice, or refers to something twice, is listed twice in Reverse (validation.go 132) |
| `Library`: `PageLimit = 1` | `TaggedReported` | the paging of tags overlooks some, and the report calls their manifests unreferenced (retention.go 62) |
| `Library`: that invariant | `ReportIsCollection` | the report keeps by rank in digest order, the collection by age: they disagree (retention.go 62, lifecycle.go 182) |
| `Library`: that invariant | `ValidNeverOverlaps` | hasOverlap looks for equal offsets only: chunks that begin at different bytes and overlap are valid, although the writer's comment says that it refuses them (session.go 45, writer.go 15) |
| `Library`: that invariant | `SumExact` | two observations load the same sum (metrics.go 38) |
| `Library`: that invariant | `QuantilesOrdered` | Snapshot reads the median and the tail in two critical sections, and the values change in between (metrics.go 56) |
| `Library`: that property | `NotSentAgain` | Claim takes a record that another publisher is sending, so it is sent again after it was published (events.go 70) |
| `Library`: that invariant | `AtMostTwiceInWindow` | with a request that took its time before the mutex was had, a span as long as a window admits three times the rate (middleware.go 37) |
| `Library`: `Names <- WordyNames` | `WritesArrive` | a repository whose name has a segment `manifests`, `blobs` or the like gets the requests of another, or none (router.go 51) |

## 4. What is proved

The theorems hold for every value of the constants that satisfies the
assumptions named with them: any number of requests, uploads, sizes, clients,
manifests, references, tasks, workers, leases.

| theorem | states | argument |
|---|---|---|
| `UploadServiceProofs` | | |
| `TypeCorrect` | `[]TypeOK` | inductive because it contains `WellFormed`: which locals a handler has set at each position |
| `QuotaBounded` | `[]QuotaWithinLimit` | a handler stores a private copy, so the bound must hold of the copies, and a commit adds the size of the upload, so that must be what was reserved (`QuotaInv`) |
| `QuotaAtomic` | `Spec => QuotaIsAtomic`, if the tenant has one repository | a step-by-step refinement. `AtomicInv`: a copy that is about to be stored was made of a version the tenant had, and if that is still the stored version the copy follows from the stored record by one legal operation on a declared size |
| `FinalizeOnce` | `[]FinalizeExclusive` | `ExclusiveInv`: a copy is never newer than the stored session, a session with a finalizer is finalizing or gone, an open one has none, identifiers are drawn once |
| `ChunksAreTheFile` | `[]ChunksTile` | `TileInv`: the temporary file of an open session is at least as long as each recorded chunk ends, no temporary file is a blob's file under another name (creating one truncates it), a copy that has the stored version is the stored session |
| `SessionsMoveOn` | `SessionsAdvance` | the same invariant; a step changes a session as `Advances` says, and only its finalizer ends it |
| `UploadsPaid` | `[]UploadsAccounted`, if the tenant has one repository, nobody aborts, and uploads and requests are finitely many | `AccountInv`: the record covers what is owed for each upload, also for one that was deleted while its completion runs, and what is promised to each that is about to be created; each step that changes the record changes one of them by as much |
| `ContentKept` | `[]BlobIntegrity`, if requests on one upload do not overlap, no copy is cancelled and no blob is deleted (`Prudent`) | `ContentInv`: an inode serves one upload or one digest; a completion knows what the file holds that it moves or reads, because it is alone at its upload; a file created anew is empty until a completion of its digest, still to copy, has filled it |
| `ContentServiceProofs` | | |
| `TagsName` | `[]TagsResolve`, if requests do not overlap | `TagInv`: what a request found is still so, because it is alone |
| `ImmutableKept` | `ImmutableTagsStay`, if requests do not overlap | the same: what ReadTag has read is what PutTag overwrites |
| `ReferencesKept` | `[]ReferencesStored`, if requests do not overlap and there is one repository | `ReferenceInv`: the references a push has not found stored are still to check; what a collection is about to delete no manifest it leaves references |
| `TagsSpared` | `CollectionKeepsTags`, if requests do not overlap and the tags fit a page | `PageInv`: a collection dooms no manifest a tag names |
| `PoliciesHonoured` | `KeepLastHonoured`, for one collector, if no client deletes, whatever else overlaps | `HonourInv`: of each doomed manifest and each policy read there are as many stored manifests no older than it as the policy keeps, and they are not doomed |
| `ReplicationTaskProofs` | | |
| `LeaseRespected` | `[]LeaseExcludes`, if ids are used once | `LeaseInv`: a runner that copies under a lease that has not ended holds the stored version of its task, running with that lease; runners past their claim hold different attempts |
| `SuccessHolds` | `SuccessIsFinal`, likewise | a runner's copy extends a version at which the task was running, and a succeeded task has a higher one |
| `ClaimantHolds` | `EndedByClaimant`, likewise | the version check lets a runner store its end only on the version of its own claim |
| `CopiesExclude`, `ReportsHold` | `[]CopyExcludes`, `ClaimReported` of `CopySpec`, if ids are used once and workers report within their lease | `CopyInv`: a worker that is due has the task running with the attempt and the lease of its claim; runners and workers hold different attempts; the call that has the mutex works on a version that is stored or gone |
| `LeaseBeside`, `SuccessBeside`, `ClaimantBeside` | the first three beside the coordinator | from `CopyInv`, which contains `LeaseInv` |
| `ReplicationQueueProofs` | | |
| `QueueTyped` | `[]TypeOK` | part of `QueueInv` |
| `NeverLost` | `[]NothingLost` | `QueueInv`: every accepted task is somewhere, and each hand-over names the next place before the last one forgets it |
| `OrderlyNeverPanics` | `[]NeverPanics`, if Close begins only when all callers are free (`Orderly`) | `OrderlyInv`: once the coordinator is stopped nobody is about to send, since whoever checks then is refused |
| `LeavesNothing` | `[]StopsClean` | `QueueInv`: a worker leaves when it is cancelled, or when the channel is closed and empty; nothing is sent on a closed channel |
| `BlobPushProofs` | | |
| `PushTyped` | `[]TypeOK` | `PushInv`: an upload a client knows of is its own, the request a client waits for is the only one of its attempt, and its path and method are those of the client's step |
| `CreatedStored` | `[]CreatedMeansStored` | the same invariant; 201 is answered after the blob was stored, and nothing in this model deletes one |
| `CausesHold` | `[]RefusedForCause` | the same invariant; acknowledged pieces are recorded, so a repeated one finds itself (`Known`) and a completion finds all of them and the file, unless it was carried out before (`Outcome`). Then the status depends on whether that moved the file away |
| `ChargesHold` | `[]ChargedOnce`, for clients that are `Tidy` | `ChargesInv`: the totals over all uploads; a step changes one upload and the quota by as much. A tidy client's aborted upload was open |
| `LibraryProofs`, `RouterProofs` | | |
| `PromisesHold` | `[]PromiseKept`, if every owner has one goroutine | `LeaseInv`: calls carry times that have come, so nobody acquires or sweeps a lease whose promised end has not; a lease its owner has not given up is not released, and renewals come from owners that have not given it up |
| `LedgerFollows` | `Spec => Kept!Spec`, the property `LedgerAccepts`, if callers are `Careful` | a step-by-step refinement. `LedgerInv`: the call that has the mutex is one its caller may make, and stays so |
| `LimitHolds` | `[]LimitShared`, likewise | `LimitInv`: every copy of a record there ever was is within its limit, too, so whichever is stored again the limit holds, and a commit adds no more than was reserved |
| `ReservationsCovered` | `[]HoldersCovered`, likewise, for finitely many callers and uploads | `ServiceInv`: while there is one repository a copy that has the record's version is the record (`Latest`), so a call that stores stores what follows from the record as it is; each step changes what is held and what is reserved by as much, or takes more from the record than from what is held (`Accounted`) |
| `PrefixFollows` | `[]PrefixExact` | the chunks can be sorted (`SortedExists`); after each chunk the loop has the end of the prefix of those so far (`ExtendExact`: behind a gap nothing begins earlier), so the fold returns the end for all of them (`FoldExact`) |
| `PartsApart` | `LibrarySpec` implies the specification of each part | a step of `Library` is one of a single part. So the theorems of the parts, stated of their own specifications, hold of what the run `Library` checks |
| `SumsHold` | `[]SumBounded`, for finitely many goroutines | `TimingsInv`: what is stored, or what a goroutine has loaded, and what is still to be added never exceed the total, and while no two overlapped the sum and that make up the total |
| `RateHolds` | `[]AtMostTwice`, for `Delay <= Window` | `LimiterInv`: a span that begins in the last window sees what that window counted, one that ends in it at most the rate more, and a reset forgets only a window that ended long ago |
| `TaggedKept` | `[]TaggedReported`, if the tags fit a page | `RetentionInv`: what was tagged all the time is among the tags that were listed, and none of it is reported |
| `DependentsHold` | `[]DependentsExact`, for finitely many manifests | `DependentsInv`: an entry of Reverse counts an edge of Edges |
| `SweepSpares` | `[]SweepKeeps`, likewise, if no manifest is added between the mark and the sweep | `SearchInv`: what was seen leads only to what was seen or is queued, and all of it is in every closed set that has the roots |
| `WritesReach` | `[]WritesArrive`, if no name has a keyword where the dispatcher looks for it (`PlainName`) | of the patterns that match a request one is the most specific, and it is taken (`TakenServes`); the dispatcher's loop passes over the name and ends at the keyword behind it (`EndsBehind`) |

The assumptions, and why they are made. Each switch excludes behaviour of the
code, and section 3 shows what then fails: `~Overlapping` (`ContentSerial` with
overlapping requests), `Prudent` (overlap: `UploadLateChunk`; a cancelled copy:
`UploadIntegrity` with `Cancellation`; a deleted blob: `UploadBlobDeleted`),
`Orderly` (`QueuePanics`), one repository (`UploadQuotaReset`,
`ContentSharedManifest`), no aborts (`UploadDoubleRelease`), tags that fit a
page (`ContentTagPages`), ids used once, which is `~Recreation`
(`TaskRecreated`), and the changes of `Prompt`, `OwnerOf`, `Careful`,
`Concurrent`, `PageLimit`, `Tidy` and `Names`. `PoliciesHonoured` leaves out
other deletions because a client may delete what a policy would have kept.
`Delay <= Window` bounds how late a handler gets the mutex; without it a span
of the property would be empty. Sets are finite where a sum or a page goes over
them; no theorem bounds their size. What is assumed of constants in an ASSUME
is what the code's types say (sizes are natural numbers, a buffer has room, a
coordinator has a worker, identifiers differ from their absence), and every
ASSUME is evaluated by a run.

Why the invariants are stronger than the properties. A handler stores a private
copy, so a property of the stores says nothing of what will be stored next;
`QuotaInv`, `ExclusiveInv`, `AtomicInv`, `TileInv`, `ContentInv`, `LeaseInv`, `CopyInv` and
`ServiceInv` speak of the copies and of the versions they were made of. Most
proofs go action by action. Frame lemmas (`OthersFrame`, `QuietFrame`,
`SameQuotaFrame`, `OthersFresh`) cover what an action leaves alone; where a
step is large (`Advances`, `Handled`, `Recharges`) it is first shown to do one
of a few things, and the invariant is shown to survive each of those.

Sums. `UploadsAccounted`, `ChargedOnce`, `HoldersCovered`, `SumBounded` and
`AtMostTwice` are sums over a finite set. `FiniteSums` shows how a sum changes
when one summand does, when an element comes or goes, and when a mask does. The
induction behind it cites no theorem with an operator parameter: of the finite
sets for which a fact fails it takes one of least cardinality. Whatever proof
needs a sum cites these lemmas and no other induction; the same device serves
`PoliciesHonoured`, which counts manifests. So it does `PrefixFollows`: the fold
of the community modules is a recursive function on sets of positions, some
function satisfies that recursion (the end of the prefix of each set), and of
the sets on which another would differ one is smallest. The loop in
domain/upload.go 91-106 is the same, so `FoldExact` is also the reason why
`UploadSession` may define ContiguousEnd by its meaning.

Refinement. `AtomicQuota` is what the registry's handlers promise together: one
record on which reservations, commits and releases are atomic. `UploadService`
implements it with the record's private copies hidden (`QuotaIsAtomic`, checked
by `UploadQuota`, proved as `QuotaAtomic`). `Ledger` is what the quota service
promises its callers: a reservation is made, then committed or released, once.
`QuotaService` implements it (`LedgerAccepts`, checked by `Library`, proved as
`LedgerFollows`).

What the proofs changed in the model. In `ContentService` a set difference bound
tighter than the union it was meant for, so that one manifest's references were
not counted as live; the proof of `ReferencesKept` did not go through. The first
statement of `AtMostTwice` spoke of a whole window and was false for late
clocks: it is now about a span shorter by `Delay`, and `AtMostTwiceInWindow`
keeps the old statement as a counterexample. `ReplicationQueue` needed
`Worker # {}`: Wait of a coordinator without workers returns while tasks are in
the channel.

What is only model-checked. Every safety invariant and every action property of
a passing run is a theorem, and so are both refinements. What is left is
liveness (`CollectionEnds`, `WaitReturns`, `HandsOff`,
`PushSettles`, `AllPublished`): fairness and ENABLED are out of the prover's
reach.

## 5. What is not modelled

Read-only operations have no action, except where others change what they read
on the way (`RetentionService`, `ReadMedian` and `ReadTail` of `Histogram`):
GetBlob, the listings, `application/query.go`, `application/security.go`,
DryRun, Estimate and FindOrphans of the janitor. MountBlob reads only and is
modelled because of what its answer promises (`BlobPush`).

Validation, parsing and formatting (`domain/metadata.go`, `media.go`,
`limits.go`, `manifest.go`'s parser, the validator of `validation.go`,
`httpx`) decide on one request without looking at shared state. So do the
handlers of `management.go`: each decodes, calls one method that is modelled,
and encodes.

The scanner engine (`scanner/`) is a map that one goroutine fills; nothing in
the program uses it and no order of its calls matters. The meter
(`quota/meter.go`) adds to a number under a mutex. Counters, gauges and spans
are one atomic operation each or belong to one goroutine. Start-up and
configuration are wiring; that the catalog starts empty and the directory keeps
its files is `Restart` in `UploadService`.

Audit records are appended and never read by a decision. Age is left out of
retention policies: a manifest's age only moves it from kept to deletable, which
the policies by number do as well.
