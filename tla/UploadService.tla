---------------------------- MODULE UploadService ----------------------------
(***************************************************************************)
(* RegistryService's upload path (application/registry.go) over the        *)
(* in-memory catalog and the local object store (memory/).                 *)
(*                                                                         *)
(* Every request is a process; a step is one access to shared state: one   *)
(* critical section of the catalog's mutex or one operation on the file    *)
(* system.  What a handler computes between two accesses belongs to the    *)
(* access that precedes it.  The catalog is lost on a restart, files stay. *)
(* The repositories of the model belong to one tenant; quotas of different *)
(* tenants share nothing.                                                  *)
(***************************************************************************)
EXTENDS UploadSession, Quota, FiniteSetsExt

CONSTANTS
  Proc,           \* request goroutines
  Id,             \* the upload identifiers a run can draw (a bound)
  Repo,           \* repository names, all of one tenant
  Inode,          \* file identities (a bound)
  Byte, Zero,     \* byte values; the value a hole in a file reads as
  Payload,        \* contents whose digests clients may claim
  Piece,          \* what a chunk request may carry: [start, bytes]
  ExpectedSize,   \* sizes a client may declare, NoSize among them or not
  Limit,          \* quota limits a repository may be created with
  MaxBlobSize,    \* REGISTRY_MAX_BLOB
  MaxRestarts,    \* a bound on crashes
  Events,         \* the kinds of request and event that occur
  Overlapping,    \* may two requests on one session be in flight at once?
  Cancellation,   \* may a client's context be cancelled during a copy?
  None            \* "no such file" and "no such identifier"

ASSUME ByteAssumption == Zero \in Byte
ASSUME PieceAssumption ==
  Piece \subseteq {p \in [start : Nat, bytes : Seq(Byte)] : Len(p.bytes) > 0}
ASSUME PayloadAssumption == Payload \subseteq Seq(Byte)
ASSUME SizeAssumption ==
  /\ MaxBlobSize \in Nat
  /\ ExpectedSize \subseteq Nat \union {NoSize}
ASSUME LimitAssumption == Limit \subseteq Nat
ASSUME BoundAssumption == MaxRestarts \in Nat
ASSUME NoneAssumption == None \notin Inode /\ None \notin Id
ASSUME SwitchAssumption == Overlapping \in BOOLEAN /\ Cancellation \in BOOLEAN

VARIABLES
  \* The catalog: volatile.
  repos,     \* repositories that exist
  quota,     \* the tenant's quota record
  uploads,   \* session records by identifier
  blobs,     \* digests the catalog lists
  \* The object store: durable.
  tempFile,  \* uploads/<id>: an inode or None
  blobFile,  \* blobs/sha256/<digest>
  putFile,   \* blobs/sha256/<digest>.tmp
  data,      \* the bytes of each inode
  \* The environment.
  minted,    \* identifiers drawn so far: random tokens never repeat
  expired,   \* sessions whose ExpiresAt has passed
  restarts,
  req        \* per process, the handler's position and its local variables

files == <<tempFile, blobFile, putFile, data>>
vars  == <<repos, quota, uploads, blobs, files, minted, expired, restarts, req>>

Digest == {DigestBytes(c) : c \in Payload}

\* pc: the next access; op: the kind of request; id, sess: the upload and the
\* private copy GetUpload returned; piece: the chunk sent; claim: the digest
\* the client claims; quota: the copy GetQuota returned; reads, writes: open
\* descriptors; todo: what Janitor.Run has still to delete.
Idle == [pc |-> "idle", op |-> "none", id |-> None, sess |-> NoSession,
         piece |-> [start |-> 0, bytes |-> <<>>], claim |-> DigestBytes(<<>>),
         size |-> 0, quota |-> NoQuota, reads |-> None, writes |-> None, todo |-> {}]

Init ==
  /\ repos = {} /\ quota = NoQuota /\ blobs = {}
  /\ uploads = [i \in Id |-> NoSession]
  /\ tempFile = [i \in Id |-> None]
  /\ blobFile = [d \in Digest |-> None]
  /\ putFile = [d \in Digest |-> None]
  /\ data = [n \in Inode |-> <<>>]
  /\ minted = {} /\ expired = {} /\ restarts = 0
  /\ req = [p \in Proc |-> Idle]

-----------------------------------------------------------------------------
(* Files *)

\* An inode lives while a name or an open descriptor refers to it.
Linked == {tempFile[i] : i \in Id} \union {blobFile[d] : d \in Digest}
            \union {putFile[d] : d \in Digest}
            \union {req[p].reads : p \in Proc} \union {req[p].writes : p \in Proc}

FreeInode == Inode \ Linked

NewInode == CHOOSE n \in Inode : n \notin Linked

\* The bytes after a step; those of an inode nothing refers to are gone.
Store(bytes) == data' = [n \in Inode |-> IF n \in Linked' THEN bytes[n] ELSE <<>>]

Larger(m, n) == IF m >= n THEN m ELSE n
Smaller(m, n) == IF m <= n THEN m ELSE n

\* Seek and write: a gap before the offset reads as zero bytes.
Overwrite(content, offset, bytes) ==
  [k \in 1..Larger(Len(content), offset + Len(bytes)) |->
     IF k > offset /\ k <= offset + Len(bytes) THEN bytes[k - offset]
     ELSE IF k <= Len(content) THEN content[k]
     ELSE Zero]

-----------------------------------------------------------------------------
(* Building blocks of the handlers *)

At(p, where) == req[p].pc = where

\* The handler goes on with these local variables, or returns.
Continue(p, local) == req' = [req EXCEPT ![p] = local]
Return(p) == Continue(p, Idle)

\* A client that waits for each answer sends one request on a session at a time.
MaySend(p, kind, i) ==
  /\ At(p, "idle")
  /\ kind \in Events
  /\ Overlapping \/ \A q \in Proc : req[q].id = i => req[q].op = "janitor"

\* UpdateUpload and UpdateQuota store a copy iff the stored version is the
\* one the caller read.
\* Seeded fault: any version will do.
SameUploadAnyVersion(i, version) == uploads[i].state # "none"
\* Seeded fault: an upload that is gone is stored again.
SameUploadOrGone(i, version) == uploads[i].version \in {0, version}

SameUpload(i, version) ==
  /\ uploads[i].state # "none"
  /\ uploads[i].version = version

\* Seeded fault: any version will do.
SameQuotaAnyVersion(version) == quota.version # 0

SameQuota(version) == quota.version # 0 /\ quota.version = version

\* Where a handler goes after its reservation is settled.
AfterQuota(p) ==
  IF req[p].op = "abort" THEN Continue(p, [req[p] EXCEPT !.pc = "forget", !.quota = NoQuota])
  ELSE Return(p)

-----------------------------------------------------------------------------
(* CreateRepository *)

CreateRepository(p, r, limit) ==
  /\ At(p, "idle") /\ "create" \in Events
  /\ r \notin repos
  /\ repos' = repos \union {r}
  /\ Continue(p, [Idle EXCEPT !.pc = "putQuota", !.op = "create", !.quota = NewQuota(limit)])
  /\ UNCHANGED <<quota, uploads, blobs, files, minted, expired, restarts>>

\* PutQuota replaces whatever record the tenant has.
PutQuota(p) ==
  /\ At(p, "putQuota")
  /\ quota' = req[p].quota
  /\ Return(p)
  /\ UNCHANGED <<repos, uploads, blobs, files, minted, expired, restarts>>

-----------------------------------------------------------------------------
(* StartUpload *)

\* An upload without a declared size reserves nothing.  (Bound: a start is
\* issued only while an identifier is left for it.)
StartUpload(p, expected) ==
  /\ At(p, "idle") /\ "start" \in Events
  /\ Cardinality(minted) + Cardinality({q \in Proc : req[q].op = "start"}) < Cardinality(Id)
  /\ repos # {}
  /\ expected <= MaxBlobSize
  /\ \/ /\ expected = NoSize
        /\ Continue(p, [Idle EXCEPT !.pc = "createUpload", !.op = "start",
                                    !.sess = NewUploadSession(expected)])
     \/ /\ expected # NoSize
        /\ quota.version # 0
        /\ CanReserve(quota, expected)
        /\ Continue(p, [Idle EXCEPT !.pc = "reserve", !.op = "start",
                                    !.sess = NewUploadSession(expected),
                                    !.quota = Reserve(quota, expected)])
  /\ UNCHANGED <<repos, quota, uploads, blobs, files, minted, expired, restarts>>

StoreReservation(p) ==
  /\ At(p, "reserve")
  /\ \/ /\ SameQuota(req[p].quota.version - 1)
        /\ quota' = req[p].quota
        /\ Continue(p, [req[p] EXCEPT !.pc = "createUpload", !.quota = NoQuota])
     \/ /\ ~SameQuota(req[p].quota.version - 1)
        /\ Return(p)
        /\ UNCHANGED quota
  /\ UNCHANGED <<repos, uploads, blobs, files, minted, expired, restarts>>

CreateUpload(p, i) ==
  /\ At(p, "createUpload")
  /\ i \notin minted
  /\ minted' = minted \union {i}
  /\ uploads' = [uploads EXCEPT ![i] = req[p].sess]
  /\ Return(p)
  /\ UNCHANGED <<repos, quota, blobs, files, expired, restarts>>

-----------------------------------------------------------------------------
(* UploadChunk *)

UploadChunk(p, i, piece) ==
  /\ MaySend(p, "chunk", i)
  /\ uploads[i].state # "none"
  /\ Len(piece.bytes) <= MaxBlobSize
  /\ ~HasExactChunk(uploads[i], ChunkOf(piece))
  /\ Continue(p, [Idle EXCEPT !.pc = "openTemp", !.op = "chunk", !.id = i,
                              !.sess = uploads[i], !.piece = piece])
  /\ UNCHANGED <<repos, quota, uploads, blobs, files, minted, expired, restarts>>

\* OpenFile(O_CREATE): the file is there from now on, whatever follows.
OpenTemp(p) ==
  /\ At(p, "openTemp")
  /\ LET i == req[p].id
         Opened(n) == Continue(p, [req[p] EXCEPT !.pc = "write", !.writes = n])
     IN  \/ tempFile[i] # None /\ Opened(tempFile[i]) /\ UNCHANGED tempFile
         \/ /\ tempFile[i] = None /\ FreeInode # {}
            /\ Opened(NewInode)
            /\ tempFile' = [tempFile EXCEPT ![i] = NewInode]
  /\ UNCHANGED <<repos, quota, uploads, blobs, blobFile, putFile, data, minted, expired, restarts>>

\* The bytes go through the descriptor, wherever its file has been moved to.
WriteChunk(p) ==
  /\ At(p, "write")
  /\ Continue(p, [req[p] EXCEPT !.pc = "record", !.writes = None])
  /\ UNCHANGED <<repos, quota, uploads, blobs, tempFile, blobFile, putFile, minted, expired, restarts>>
  /\ Store([data EXCEPT ![req[p].writes] =
              Overwrite(@, req[p].piece.start, req[p].piece.bytes)])

\* The context is cancelled before the copy is done: a prefix is on disk.
CancelWrite(p, written) ==
  /\ At(p, "write") /\ Cancellation
  /\ written \in 0..(Len(req[p].piece.bytes) - 1)
  /\ Return(p)
  /\ UNCHANGED <<repos, quota, uploads, blobs, tempFile, blobFile, putFile, minted, expired, restarts>>
  /\ LET prefix == SubSeq(req[p].piece.bytes, 1, written)
     IN  Store([data EXCEPT ![req[p].writes] =
                  IF written = 0 THEN @ ELSE Overwrite(@, req[p].piece.start, prefix)])

RecordAndUpdate(p) ==
  /\ At(p, "record")
  /\ LET i == req[p].id
         s == req[p].sess
         chunk == ChunkOf(req[p].piece)
     IN  IF CanRecord(s, chunk, i \in expired) /\ SameUpload(i, s.version)
         THEN uploads' = [uploads EXCEPT ![i] = RecordChunk(s, chunk)]
         ELSE UNCHANGED uploads
  /\ Return(p)
  /\ UNCHANGED <<repos, quota, blobs, files, minted, expired, restarts>>

-----------------------------------------------------------------------------
(* CompleteUpload *)

CompleteUpload(p, i, digest) ==
  /\ MaySend(p, "complete", i)
  /\ uploads[i].state # "none"
  /\ Continue(p, [Idle EXCEPT !.pc = "stat", !.op = "complete", !.id = i,
                              !.sess = uploads[i], !.claim = digest])
  /\ UNCHANGED <<repos, quota, uploads, blobs, files, minted, expired, restarts>>

\* Size of the temporary file, then CanFinalize and Finalize on the copy.
Stat(p) ==
  /\ At(p, "stat")
  /\ LET r == req[p]
         file == tempFile[r.id]
     IN  IF file # None /\ CanFinalize(r.sess, Len(data[file]), r.id \in expired)
         THEN Continue(p, [r EXCEPT !.pc = "finalize", !.size = Len(data[file]),
                                    !.sess = Finalize(r.sess)])
         ELSE Return(p)
  /\ UNCHANGED <<repos, quota, uploads, blobs, files, minted, expired, restarts>>

StoreFinalizing(p) ==
  /\ At(p, "finalize")
  /\ LET r == req[p]
     IN  IF SameUpload(r.id, r.sess.version - 1)
         THEN /\ uploads' = [uploads EXCEPT ![r.id] = r.sess]
              /\ Continue(p, [r EXCEPT !.pc = "hash"])
         ELSE Return(p) /\ UNCHANGED uploads
  /\ UNCHANGED <<repos, quota, blobs, files, minted, expired, restarts>>

\* Seeded fault: what is on disk is not hashed, the claim is believed.
HashBelieving(file, n, claim) == claim

\* The digest of the first n bytes; an empty upload is not read at all.
HashOf(file, n, claim) == DigestBytes(IF n = 0 THEN <<>> ELSE SubSeq(data[file], 1, n))

\* Opening a range that ends beyond the file is an error.
Readable(file, n) == file # None /\ Len(data[file]) >= n

Hash(p) ==
  /\ At(p, "hash")
  /\ LET r == req[p]
         file == tempFile[r.id]
     IN  \/ /\ r.size # 0 /\ ~Readable(file, r.size)
            /\ Return(p)
         \/ /\ r.size = 0 \/ Readable(file, r.size)
            /\ IF HashOf(file, r.size, r.claim) = r.claim
               THEN Continue(p, [r EXCEPT !.pc = "exists"])
               ELSE Continue(p, [r EXCEPT !.pc = "storeAborted", !.sess = Abort(r.sess)])
  /\ UNCHANGED <<repos, quota, uploads, blobs, files, minted, expired, restarts>>

\* Digest mismatch: the result of the update is ignored, the reservation goes.
StoreAborted(p) ==
  /\ At(p, "storeAborted")
  /\ LET r == req[p]
     IN  /\ IF SameUpload(r.id, r.sess.version - 1)
            THEN uploads' = [uploads EXCEPT ![r.id] = r.sess]
            ELSE UNCHANGED uploads
         /\ IF r.sess.expected = NoSize THEN Return(p)
            ELSE Continue(p, [r EXCEPT !.pc = "readForRelease"])
  /\ UNCHANGED <<repos, quota, blobs, files, minted, expired, restarts>>

Exists(p) ==
  /\ At(p, "exists")
  /\ Continue(p, [req[p] EXCEPT !.pc = IF blobFile[req[p].claim] = None THEN "move" ELSE "open"])
  /\ UNCHANGED <<repos, quota, uploads, blobs, files, minted, expired, restarts>>

Move(p) ==
  /\ At(p, "move")
  /\ LET r == req[p]
     IN  \/ /\ tempFile[r.id] = None
            /\ Return(p)
            /\ UNCHANGED <<tempFile, blobFile>>
         \/ /\ tempFile[r.id] # None
            /\ tempFile' = [tempFile EXCEPT ![r.id] = None]
            /\ blobFile' = [blobFile EXCEPT ![r.claim] = tempFile[r.id]]
            /\ Continue(p, [r EXCEPT !.pc = "open"])
  /\ UNCHANGED <<repos, quota, uploads, blobs, putFile, minted, expired, restarts>>
  /\ Store(data)

OpenBlobFile(p) ==
  /\ At(p, "open")
  /\ LET r == req[p]
         file == blobFile[r.claim]
     IN  IF r.size = 0 THEN Continue(p, [r EXCEPT !.pc = "lookup"])
         ELSE IF Readable(file, r.size)
              THEN Continue(p, [r EXCEPT !.pc = "lookup", !.reads = file])
              ELSE Return(p)
  /\ UNCHANGED <<repos, quota, uploads, blobs, files, minted, expired, restarts>>

\* Catalog.PutBlob, first critical section.  A listed digest has the size of
\* its content, so the size conflict of the code cannot arise.
LookupBlob(p) ==
  /\ At(p, "lookup")
  /\ IF req[p].claim \in blobs
     THEN Continue(p, [req[p] EXCEPT !.pc = "complete", !.reads = None])
     ELSE Continue(p, [req[p] EXCEPT !.pc = "createPut"])
  /\ UNCHANGED <<repos, quota, uploads, blobs, tempFile, blobFile, putFile, minted, expired, restarts>>
  /\ Store(data)

\* ObjectStore.Put: Create truncates a file that another request is writing.
CreatePutFile(p) ==
  /\ At(p, "createPut")
  /\ UNCHANGED <<repos, quota, uploads, blobs, tempFile, blobFile, minted, expired, restarts>>
  /\ LET d == req[p].claim
         Opened(n) == Continue(p, [req[p] EXCEPT !.pc = "copy", !.writes = n])
     IN  \/ /\ putFile[d] # None
            /\ Opened(putFile[d])
            /\ UNCHANGED putFile
            /\ Store([data EXCEPT ![putFile[d]] = <<>>])
         \/ /\ putFile[d] = None /\ FreeInode # {}
            /\ Opened(NewInode)
            /\ putFile' = [putFile EXCEPT ![d] = NewInode]
            /\ UNCHANGED data

CopyToPutFile(p) ==
  /\ At(p, "copy")
  /\ Continue(p, [req[p] EXCEPT !.pc = "rename", !.writes = None])
  /\ UNCHANGED <<repos, quota, uploads, blobs, tempFile, blobFile, putFile, minted, expired, restarts>>
  /\ LET r == req[p]
         content == IF r.size = 0 THEN <<>>
                    ELSE SubSeq(data[r.reads], 1, Smaller(r.size, Len(data[r.reads])))
     IN  Store([data EXCEPT ![r.writes] = Overwrite(@, 0, content)])

\* A cancelled copy removes the file by its name and fails.
CancelCopy(p) ==
  /\ At(p, "copy") /\ Cancellation
  /\ putFile' = [putFile EXCEPT ![req[p].claim] = None]
  /\ Return(p)
  /\ UNCHANGED <<repos, quota, uploads, blobs, tempFile, blobFile, minted, expired, restarts>>
  /\ Store(data)

RenamePutFile(p) ==
  /\ At(p, "rename")
  /\ LET d == req[p].claim
     IN  \/ /\ putFile[d] = None
            /\ Return(p)
            /\ UNCHANGED <<blobFile, putFile>>
         \/ /\ putFile[d] # None
            /\ blobFile' = [blobFile EXCEPT ![d] = putFile[d]]
            /\ putFile' = [putFile EXCEPT ![d] = None]
            /\ Continue(p, [req[p] EXCEPT !.pc = "insert", !.reads = None])
  /\ UNCHANGED <<repos, quota, uploads, blobs, tempFile, minted, expired, restarts>>
  /\ Store(data)

\* Catalog.PutBlob, second critical section.
InsertBlob(p) ==
  /\ At(p, "insert")
  /\ blobs' = blobs \union {req[p].claim}
  /\ Continue(p, [req[p] EXCEPT !.pc = "complete"])
  /\ UNCHANGED <<repos, quota, uploads, files, minted, expired, restarts>>

StoreCompleted(p) ==
  /\ At(p, "complete")
  /\ LET r == req[p]
     IN  /\ IF SameUpload(r.id, r.sess.version)
            THEN uploads' = [uploads EXCEPT ![r.id] = Complete(r.sess)]
            ELSE UNCHANGED uploads
         /\ IF r.sess.expected = NoSize THEN Return(p)
            ELSE Continue(p, [r EXCEPT !.pc = "readForCommit"])
  /\ UNCHANGED <<repos, quota, blobs, files, minted, expired, restarts>>

-----------------------------------------------------------------------------
(* Settling a reservation: a read and a conditional write, both may fail    *)
(* without anybody being told.                                              *)

ReadForCommit(p) ==
  /\ At(p, "readForCommit")
  /\ LET r == req[p]
     IN  IF quota.version # 0 /\ CanCommit(quota, r.sess.expected, r.size)
         THEN Continue(p, [r EXCEPT !.pc = "settle",
                                    !.quota = Commit(quota, r.sess.expected, r.size)])
         ELSE AfterQuota(p)
  /\ UNCHANGED <<repos, quota, uploads, blobs, files, minted, expired, restarts>>

ReadForRelease(p) ==
  /\ At(p, "readForRelease")
  /\ LET r == req[p]
     IN  IF quota.version # 0 /\ CanRelease(quota, r.sess.expected)
         THEN Continue(p, [r EXCEPT !.pc = "settle",
                                    !.quota = Release(quota, r.sess.expected)])
         ELSE AfterQuota(p)
  /\ UNCHANGED <<repos, quota, uploads, blobs, files, minted, expired, restarts>>

StoreSettlement(p) ==
  /\ At(p, "settle")
  /\ IF SameQuota(req[p].quota.version - 1) THEN quota' = req[p].quota ELSE UNCHANGED quota
  /\ AfterQuota(p)
  /\ UNCHANGED <<repos, uploads, blobs, files, minted, expired, restarts>>

-----------------------------------------------------------------------------
(* AbortUpload, Janitor.Run and Catalog.DeleteUpload *)

\* Abort changes only the handler's copy, which is never stored; the release
\* does not ask what state the session was in.
AbortUpload(p, i) ==
  /\ MaySend(p, "abort", i)
  /\ uploads[i].state # "none"
  /\ Continue(p, [Idle EXCEPT !.pc = IF uploads[i].expected = NoSize THEN "forget" ELSE "readForRelease",
                              !.op = "abort", !.id = i, !.sess = Abort(uploads[i])])
  /\ UNCHANGED <<repos, quota, uploads, blobs, files, minted, expired, restarts>>

JanitorRun(p) ==
  /\ At(p, "idle") /\ "janitor" \in Events
  /\ LET old == {i \in Id : uploads[i].state # "none" /\ i \in expired}
     IN  \E i \in old :
           Continue(p, [Idle EXCEPT !.pc = "forget", !.op = "janitor", !.id = i,
                                    !.todo = old \ {i}])
  /\ UNCHANGED <<repos, quota, uploads, blobs, files, minted, expired, restarts>>

\* The janitor goes on with the next expired upload, AbortUpload returns.
NextUpload(p) ==
  \/ req[p].todo = {} /\ Return(p)
  \/ \E i \in req[p].todo :
       Continue(p, [req[p] EXCEPT !.pc = "forget", !.id = i, !.todo = @ \ {i}])

ForgetUpload(p) ==
  /\ At(p, "forget")
  /\ LET i == req[p].id
     IN  \/ /\ uploads[i].state = "none"
            /\ NextUpload(p)
            /\ UNCHANGED uploads
         \/ /\ uploads[i].state # "none"
            /\ uploads' = [uploads EXCEPT ![i] = NoSession]
            /\ Continue(p, [req[p] EXCEPT !.pc = "removeTemp"])
  /\ UNCHANGED <<repos, quota, blobs, files, minted, expired, restarts>>

RemoveTempFile(p) ==
  /\ At(p, "removeTemp")
  /\ tempFile' = [tempFile EXCEPT ![req[p].id] = None]
  /\ NextUpload(p)
  /\ UNCHANGED <<repos, quota, uploads, blobs, blobFile, putFile, minted, expired, restarts>>
  /\ Store(data)

-----------------------------------------------------------------------------
(* Catalog.DeleteBlob, called by GarbageCollect for a blob no manifest uses *)

DeleteBlob(p, d) ==
  /\ At(p, "idle") /\ "deleteBlob" \in Events
  /\ d \in blobs
  /\ blobs' = blobs \ {d}
  /\ Continue(p, [Idle EXCEPT !.pc = "unlink", !.op = "deleteBlob", !.claim = d])
  /\ UNCHANGED <<repos, quota, uploads, files, minted, expired, restarts>>

UnlinkBlob(p) ==
  /\ At(p, "unlink")
  /\ blobFile' = [blobFile EXCEPT ![req[p].claim] = None]
  /\ Return(p)
  /\ UNCHANGED <<repos, quota, uploads, blobs, tempFile, putFile, minted, expired, restarts>>
  /\ Store(data)

-----------------------------------------------------------------------------
(* Environment *)

Expire(i) ==
  /\ "expire" \in Events
  /\ uploads[i].state # "none" /\ i \notin expired
  /\ expired' = expired \union {i}
  /\ UNCHANGED <<repos, quota, uploads, blobs, files, minted, restarts, req>>

\* The process stops and starts again over the same storage directory.
Restart ==
  /\ restarts < MaxRestarts
  /\ restarts' = restarts + 1
  /\ repos' = {} /\ quota' = NoQuota /\ blobs' = {}
  /\ uploads' = [i \in Id |-> NoSession]
  /\ req' = [p \in Proc |-> Idle]
  /\ UNCHANGED <<tempFile, blobFile, putFile, minted, expired>>
  /\ Store(data)

-----------------------------------------------------------------------------
Begin(p) ==
  \/ \E r \in Repo, limit \in Limit : CreateRepository(p, r, limit)
  \/ \E e \in ExpectedSize : StartUpload(p, e)
  \/ \E i \in Id, piece \in Piece : UploadChunk(p, i, piece)
  \/ \E i \in Id, d \in Digest : CompleteUpload(p, i, d)
  \/ \E i \in Id : AbortUpload(p, i)
  \/ JanitorRun(p)
  \/ \E d \in Digest : DeleteBlob(p, d)

QuotaStep(p) ==
  \/ PutQuota(p) \/ StoreReservation(p)
  \/ ReadForCommit(p) \/ ReadForRelease(p) \/ StoreSettlement(p)

SessionStep(p) ==
  \/ \E i \in Id : CreateUpload(p, i)
  \/ RecordAndUpdate(p) \/ StoreFinalizing(p) \/ StoreAborted(p) \/ StoreCompleted(p)
  \/ ForgetUpload(p)

FileStep(p) ==
  \/ OpenTemp(p) \/ WriteChunk(p) \/ (\E n \in 0..MaxBlobSize : CancelWrite(p, n))
  \/ Stat(p) \/ Hash(p) \/ Exists(p) \/ Move(p) \/ OpenBlobFile(p)
  \/ CreatePutFile(p) \/ CopyToPutFile(p) \/ CancelCopy(p) \/ RenamePutFile(p)
  \/ RemoveTempFile(p) \/ UnlinkBlob(p)

BlobStep(p) == LookupBlob(p) \/ InsertBlob(p)

Handler(p) == QuotaStep(p) \/ SessionStep(p) \/ FileStep(p) \/ BlobStep(p)

Environment == Restart \/ \E i \in Id : Expire(i)

Next == (\E p \in Proc : Begin(p) \/ Handler(p)) \/ Environment

Spec == Init /\ [][Next]_vars

-----------------------------------------------------------------------------
(* Properties *)

ChunkSet == {ChunkOf(piece) : piece \in Piece}

SessionSet ==
  [state : {"none", "open", "finalizing", "completed", "aborted"},
   chunks : SUBSET ChunkSet, expected : Nat \union {NoSize}, version : Nat]

QuotaSet == [limit : Nat, used : Nat, reserved : Nat, version : Nat]

Positions ==
  {"idle", "putQuota", "reserve", "createUpload", "openTemp", "write", "record",
   "stat", "finalize", "hash", "storeAborted", "exists", "move", "open", "lookup",
   "createPut", "copy", "rename", "insert", "complete", "readForCommit",
   "readForRelease", "settle", "forget", "removeTemp", "unlink"}

Operations == {"none", "create", "start", "chunk", "complete", "abort", "janitor", "deleteBlob"}

\* Which positions each kind of request goes through, and with which locals.
WellFormed(r) ==
  \/ r.op = "none" /\ r.pc = "idle"
  \/ r.op = "create" /\ r.pc = "putQuota"
  \/ r.op = "start" /\ r.pc \in {"reserve", "createUpload"}
  \/ /\ r.op = "chunk" /\ r.pc \in {"openTemp", "write", "record"}
     /\ r.id \in Id /\ r.piece \in Piece
  \/ /\ r.op = "complete"
     /\ r.pc \in {"stat", "finalize", "hash", "storeAborted", "exists", "move", "open",
                  "lookup", "createPut", "copy", "rename", "insert", "complete",
                  "readForCommit", "readForRelease", "settle"}
     /\ r.id \in Id /\ r.claim \in Digest
     /\ r.pc \in {"lookup", "createPut", "copy"} => r.size = 0 \/ r.reads \in Inode
  \/ /\ r.op = "abort" /\ r.pc \in {"readForRelease", "settle", "forget", "removeTemp"}
     /\ r.id \in Id
  \/ r.op = "janitor" /\ r.pc \in {"forget", "removeTemp"} /\ r.id \in Id
  \/ r.op = "deleteBlob" /\ r.pc = "unlink" /\ r.claim \in Digest

RequestSet ==
  [pc : Positions, op : Operations, id : Id \union {None}, sess : SessionSet,
   piece : Piece \union {Idle.piece}, claim : Digest \union {Idle.claim}, size : Nat,
   quota : QuotaSet, reads : Inode \union {None}, writes : Inode \union {None},
   todo : SUBSET Id]

\* Type invariant: every store and every handler holds records of its type.
TypeOK ==
  /\ repos \subseteq Repo /\ quota \in QuotaSet /\ blobs \subseteq Digest
  /\ uploads \in [Id -> SessionSet]
  /\ tempFile \in [Id -> Inode \union {None}]
  /\ blobFile \in [Digest -> Inode \union {None}]
  /\ putFile \in [Digest -> Inode \union {None}]
  /\ data \in [Inode -> Seq(Byte)]
  /\ minted \subseteq Id /\ expired \subseteq Id /\ restarts \in Nat
  /\ req \in [Proc -> RequestSet]
  /\ \A p \in Proc : WellFormed(req[p])

\* What a tenant has used and what is reserved for running uploads stay
\* within the limit: reserve, release and commit (registry.go 386-423) check
\* only one side each, and Commit trusts that an upload is as long as declared.
QuotaWithinLimit == quota.used + quota.reserved <= quota.limit

\* The handlers of CompleteUpload that have stored "finalizing".
Finalizers(i) ==
  {p \in Proc : /\ req[p].id = i
                /\ req[p].op = "complete"
                /\ req[p].pc \notin {"stat", "finalize"}}

\* Only one of any number of concurrent completions of a session gets past
\* the conditional update (registry.go 165), so content is published once.
FinalizeExclusive ==
  \A i \in Id : \A p, q \in Finalizers(i) : p = q

ChunksEnd(s) == Max({0} \union {c.range.end + 1 : c \in s.chunks})

\* Recorded chunks never overlap, and those of a session that is being or has
\* been finalized are exactly the bytes 0 .. n-1 of an upload of the declared
\* size, whatever chunks raced with the completion (upload.go 123-167).
ChunksTile ==
  \A i \in Id :
    LET s == uploads[i]
    IN  /\ \A c, d \in s.chunks : c # d => ~Overlaps(c.range, d.range)
        /\ s.state \in {"finalizing", "completed"} =>
             /\ \A b \in 0..(ChunksEnd(s) - 1) : Covered(s.chunks, b)
             /\ s.expected # NoSize => s.expected = ChunksEnd(s)
             /\ \A p \in Finalizers(i) : req[p].size = ChunksEnd(s)

\* A session that nobody completes is not left in "finalizing", a state in
\* which it accepts neither chunks nor another completion (registry.go 165-216).
NeverStranded ==
  \A i \in Id : uploads[i].state = "finalizing" => Finalizers(i) # {}

Completing(d) == \E p \in Proc : req[p].op = "complete" /\ req[p].claim = d

\* A digest the catalog lists has a file, and unless a completion of the same
\* digest is under way the file holds the bytes the digest was computed from.
BlobIntegrity ==
  \A d \in blobs :
    /\ blobFile[d] # None
    /\ DigestBytes(data[blobFile[d]]) = d \/ Completing(d)

Declared(s) == IF s.state \in {"none", "aborted"} \/ s.expected = NoSize THEN 0 ELSE s.expected

\* Every live or completed upload that declared its size is accounted for in
\* the tenant's quota, so the limit bounds what the tenant stores
\* (registry.go 92-96, 185, 219, 370).
UploadsAccounted ==
  SumFunctionOnSet([i \in Id |-> Declared(uploads[i])], Id) <= quota.used + quota.reserved

\* A session's record is created once, then changes only by one legal
\* transition per version, and once deleted is never stored again by a
\* handler that still holds a copy (catalog_more.go 78-101).
SessionStepOK(i) ==
  LET s == uploads[i]
      t == uploads'[i]
  IN  \/ t = s
      \/ t.state = "none"
      \/ s.state = "none" /\ i \notin minted /\ t.state = "open" /\ t.version = 1
      \/ /\ t.version = s.version + 1 /\ t.expected = s.expected
         /\ \/ s.state = "open" /\ t.state = "open"
                 /\ s.chunks \subseteq t.chunks
            \/ s.state = "open" /\ t.state = "finalizing" /\ t.chunks = s.chunks
            \/ s.state = "finalizing" /\ t.state \in {"completed", "aborted"}
                 /\ t.chunks = s.chunks

SessionsAdvance == [][\A i \in Id : SessionStepOK(i)]_vars

\* The conditional writes make every change of the quota record one atomic
\* change of its current value: no reservation, commit or release is lost or
\* applied to a stale record while the tenant has a single repository.
Tenant == INSTANCE AtomicQuota WITH
  quota <- quota, Limit <- Limit, ExpectedSize <- ExpectedSize

QuotaIsAtomic == Tenant!Spec
=============================================================================
