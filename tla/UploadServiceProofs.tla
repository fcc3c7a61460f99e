------------------------ MODULE UploadServiceProofs ------------------------
(***************************************************************************)
(* Theorems about UploadService, for any number of requests, uploads,      *)
(* repositories and files.                                                 *)
(***************************************************************************)
EXTENDS UploadService, FiniteSums

\* Writing bytes into a file's content gives a file's content.
LEMMA OverwriteType ==
  ASSUME NEW content \in Seq(Byte), NEW offset \in Nat, NEW bytes \in Seq(Byte)
  PROVE  Overwrite(content, offset, bytes) \in Seq(Byte)
<1> DEFINE n == Larger(Len(content), offset + Len(bytes))
<1>1. n \in Nat
  BY DEF Larger
<1>2. \A k \in 1..n : Overwrite(content, offset, bytes)[k] \in Byte
  BY ByteAssumption DEF Overwrite, Larger
<1>3. Overwrite(content, offset, bytes) \in [1..n -> Byte]
  BY <1>2 DEF Overwrite
<1> QED
  BY <1>1, <1>3

\* Every inode keeps holding a sequence of bytes.
LEMMA StoreType ==
  ASSUME NEW bytes \in [Inode -> Seq(Byte)], Store(bytes)
  PROVE  data' \in [Inode -> Seq(Byte)]
BY DEF Store

LEMMA IdleType == Idle \in RequestSet /\ WellFormed(Idle)
BY DEF Idle, RequestSet, WellFormed, Positions, Operations, SessionSet, QuotaSet,
       NoSession, NoQuota, NoSize

\* Every handler's position and locals belong together.
RequestsOK == req \in [Proc -> RequestSet] /\ \A p \in Proc : WellFormed(req[p])

LEMMA ContinueType ==
  ASSUME TypeOK, NEW p \in Proc, NEW local \in RequestSet, WellFormed(local),
         Continue(p, local)
  PROVE  RequestsOK'
BY DEF TypeOK, RequestsOK, Continue

LEMMA ReturnType ==
  ASSUME TypeOK, NEW p \in Proc, Return(p)
  PROVE  RequestsOK'
BY IdleType, ContinueType DEF Return

LEMMA RequestFields ==
  ASSUME TypeOK, NEW p \in Proc
  PROVE  /\ req[p] \in RequestSet /\ WellFormed(req[p])
         /\ req[p].sess \in SessionSet /\ req[p].quota \in QuotaSet /\ req[p].size \in Nat
         /\ req[p].reads \in Inode \union {None} /\ req[p].writes \in Inode \union {None}
         /\ req[p].todo \in SUBSET Id
BY DEF TypeOK, RequestSet


-----------------------------------------------------------------------------
(* Sessions, quotas and requests keep their types. *)

LEMMA SessionOpsType ==
  ASSUME NEW s \in SessionSet
  PROVE  /\ Finalize(s) \in SessionSet
         /\ Complete(s) \in SessionSet
         /\ Abort(s) \in SessionSet
         /\ \A piece \in Piece : RecordChunk(s, ChunkOf(piece)) \in SessionSet
         /\ s.expected # NoSize => s.expected \in Nat
<1>1. s.version + 1 \in Nat
  BY DEF SessionSet
<1>2. /\ Finalize(s) \in SessionSet
      /\ Complete(s) \in SessionSet
      /\ Abort(s) \in SessionSet
  BY <1>1 DEF SessionSet, Finalize, Complete, Abort
<1>3. ASSUME NEW piece \in Piece
      PROVE  RecordChunk(s, ChunkOf(piece)) \in SessionSet
  <2>1. s.chunks \union {ChunkOf(piece)} \in SUBSET ChunkSet
    BY DEF ChunkSet, SessionSet
  <2> QED
    BY <1>1, <2>1 DEF SessionSet, RecordChunk
<1>4. s.expected # NoSize => s.expected \in Nat
  BY DEF SessionSet
<1> QED
  BY <1>2, <1>3, <1>4

LEMMA NewSessionType ==
  /\ NoSession \in SessionSet
  /\ \A e \in ExpectedSize : NewUploadSession(e) \in SessionSet
BY SizeAssumption DEF NoSession, NewUploadSession, SessionSet

LEMMA QuotaOpsType ==
  ASSUME NEW q \in QuotaSet, NEW n \in Nat, NEW m \in Nat
  PROVE  /\ Reserve(q, n) \in QuotaSet
         /\ CanCommit(q, n, m) => Commit(q, n, m) \in QuotaSet
         /\ CanRelease(q, n) => Release(q, n) \in QuotaSet
<1>1. /\ q.version + 1 \in Nat /\ q.reserved + n \in Nat /\ q.used + m \in Nat
      /\ n <= q.reserved => q.reserved - n \in Nat
  BY DEF QuotaSet
<1> QED
  BY <1>1 DEF QuotaSet, Reserve, CanCommit, Commit, CanRelease, Release

LEMMA NewQuotaType ==
  /\ NoQuota \in QuotaSet
  /\ \A limit \in Limit : NewQuota(limit) \in QuotaSet
BY LimitAssumption DEF NoQuota, NewQuota, QuotaSet

\* After its reservation is settled an abort goes on to delete the session.
LEMMA AfterQuotaType ==
  ASSUME TypeOK, NEW p \in Proc, AfterQuota(p)
  PROVE  RequestsOK'
<1> DEFINE local == [req[p] EXCEPT !.pc = "forget", !.quota = NoQuota]
<1>1. req[p] \in RequestSet /\ WellFormed(req[p])
  BY RequestFields
<1>2. local \in RequestSet
  BY <1>1, NewQuotaType DEF RequestSet, Positions
<1>3. req[p].op = "abort" => WellFormed(local)
  BY <1>1 DEF RequestSet, WellFormed
<1> QED
  BY <1>2, <1>3, ContinueType, ReturnType DEF AfterQuota

\* The janitor goes on to an upload that is still on its list.
LEMMA NextUploadType ==
  ASSUME TypeOK, NEW p \in Proc, NextUpload(p), req[p].pc \in {"forget", "removeTemp"}
  PROVE  RequestsOK'
<1>1. ASSUME NEW i \in req[p].todo,
             Continue(p, [req[p] EXCEPT !.pc = "forget", !.id = i, !.todo = @ \ {i}])
      PROVE  RequestsOK'
  <2> DEFINE local == [req[p] EXCEPT !.pc = "forget", !.id = i, !.todo = @ \ {i}]
  <2>1. req[p] \in RequestSet /\ WellFormed(req[p]) /\ req[p].todo \in SUBSET Id
    BY RequestFields
  <2>2. local \in RequestSet
    BY <2>1 DEF RequestSet, Positions
  <2>3. WellFormed(local)
    BY <2>1 DEF RequestSet, WellFormed
  <2> QED
    BY <1>1, <2>2, <2>3, ContinueType
<1> QED
  BY <1>1, ReturnType DEF NextUpload

-----------------------------------------------------------------------------
(* Every action preserves the types. *)

LEMMA BeginType ==
  ASSUME TypeOK, NEW p \in Proc, Begin(p)
  PROVE  TypeOK'
<1>1. ASSUME NEW r \in Repo, NEW limit \in Limit, CreateRepository(p, r, limit)
      PROVE  TypeOK'
  <2> DEFINE local == [Idle EXCEPT !.pc = "putQuota", !.op = "create", !.quota = NewQuota(limit)]
  <2>1. local \in RequestSet
    BY NewQuotaType, IdleType DEF RequestSet, Positions, Operations
  <2>2. WellFormed(local)
    BY NewQuotaType, IdleType DEF WellFormed, Idle
  <2>3. RequestsOK'
    BY <1>1, <2>1, <2>2, ContinueType DEF CreateRepository
  <2> QED
    BY <1>1, <2>3 DEF CreateRepository, TypeOK, RequestsOK, files
<1>2. ASSUME NEW e \in ExpectedSize, StartUpload(p, e)
      PROVE  TypeOK'
  <2> DEFINE free == [Idle EXCEPT !.pc = "createUpload", !.op = "start", !.sess = NewUploadSession(e)]
             metered == [Idle EXCEPT !.pc = "reserve", !.op = "start",
                                     !.sess = NewUploadSession(e), !.quota = Reserve(quota, e)]
  <2>1. free \in RequestSet /\ WellFormed(free)
    <3>1. free \in RequestSet
      BY IdleType, NewSessionType DEF RequestSet, Positions, Operations
    <3>2. WellFormed(free)
      BY DEF WellFormed, Idle
    <3> QED  BY <3>1, <3>2
  <2>2. ASSUME e # NoSize
        PROVE  metered \in RequestSet /\ WellFormed(metered)
    <3>1. Reserve(quota, e) \in QuotaSet
      BY <2>2, SizeAssumption, QuotaOpsType DEF TypeOK
    <3>2. metered \in RequestSet
      BY <3>1, IdleType, NewSessionType DEF RequestSet, Positions, Operations
    <3>3. WellFormed(metered)
      BY DEF WellFormed, Idle
    <3> QED  BY <3>2, <3>3
  <2>3. RequestsOK'
    BY <1>2, <2>1, <2>2, ContinueType DEF StartUpload
  <2> QED
    BY <1>2, <2>3 DEF StartUpload, TypeOK, RequestsOK, files
<1>3. ASSUME NEW i \in Id, NEW c \in Piece, UploadChunk(p, i, c)
      PROVE  TypeOK'
  <2> DEFINE local == [Idle EXCEPT !.pc = "openTemp", !.op = "chunk", !.id = i,
                                    !.sess = uploads[i], !.piece = c]
  <2>1. local \in RequestSet
    BY IdleType DEF RequestSet, Positions, Operations, TypeOK
  <2>2. WellFormed(local)
    BY IdleType DEF WellFormed, Idle
  <2>3. RequestsOK'
    BY <1>3, <2>1, <2>2, ContinueType DEF UploadChunk
  <2> QED
    BY <1>3, <2>3 DEF UploadChunk, TypeOK, RequestsOK, files
<1>4. ASSUME NEW i \in Id, NEW d \in Digest, CompleteUpload(p, i, d)
      PROVE  TypeOK'
  <2> DEFINE local == [Idle EXCEPT !.pc = "stat", !.op = "complete", !.id = i,
                                    !.sess = uploads[i], !.claim = d]
  <2>1. local \in RequestSet
    BY IdleType DEF RequestSet, Positions, Operations, TypeOK
  <2>2. WellFormed(local)
    BY IdleType DEF WellFormed, Idle
  <2>3. RequestsOK'
    BY <1>4, <2>1, <2>2, ContinueType DEF CompleteUpload
  <2> QED
    BY <1>4, <2>3 DEF CompleteUpload, TypeOK, RequestsOK, files
<1>5. ASSUME NEW i \in Id, AbortUpload(p, i)
      PROVE  TypeOK'
  <2> DEFINE local(where) == [Idle EXCEPT !.pc = where, !.op = "abort", !.id = i,
                                           !.sess = Abort(uploads[i])]
  <2>1. Abort(uploads[i]) \in SessionSet
    BY SessionOpsType DEF TypeOK
  <2>2. \A where \in {"forget", "readForRelease"} : local(where) \in RequestSet
    BY <2>1, IdleType DEF RequestSet, Positions, Operations
  <2>3. \A where \in {"forget", "readForRelease"} : WellFormed(local(where))
    BY DEF WellFormed, Idle
  <2>4. RequestsOK'
    BY <1>5, <2>2, <2>3, ContinueType DEF AbortUpload
  <2> QED
    BY <1>5, <2>4 DEF AbortUpload, TypeOK, RequestsOK, files
<1>6. ASSUME JanitorRun(p)
      PROVE  TypeOK'
  <2> DEFINE old == {i \in Id : uploads[i].state # "none" /\ i \in expired}
             local(i) == [Idle EXCEPT !.pc = "forget", !.op = "janitor", !.id = i,
                                      !.todo = old \ {i}]
  <2>1. \A i \in old : i \in Id /\ old \ {i} \in SUBSET Id
    OBVIOUS
  <2>2. PICK i \in old : Continue(p, local(i))
    BY <1>6 DEF JanitorRun
  <2> HIDE DEF old
  <2>3. local(i) \in RequestSet
    BY <2>1, IdleType DEF RequestSet, Positions, Operations
  <2>4. WellFormed(local(i))
    BY <2>1 DEF WellFormed, Idle
  <2>5. RequestsOK'
    BY <2>2, <2>3, <2>4, ContinueType
  <2> QED
    BY <1>6, <2>5 DEF JanitorRun, TypeOK, RequestsOK, files
<1>7. ASSUME NEW d \in Digest, DeleteBlob(p, d)
      PROVE  TypeOK'
  <2> DEFINE local == [Idle EXCEPT !.pc = "unlink", !.op = "deleteBlob", !.claim = d]
  <2>1. local \in RequestSet
    BY IdleType DEF RequestSet, Positions, Operations
  <2>2. WellFormed(local)
    BY IdleType DEF WellFormed, Idle
  <2>3. RequestsOK'
    BY <1>7, <2>1, <2>2, ContinueType DEF DeleteBlob
  <2> QED
    BY <1>7, <2>3 DEF DeleteBlob, TypeOK, RequestsOK, files
<1> QED
  BY <1>1, <1>2, <1>3, <1>4, <1>5, <1>6, <1>7 DEF Begin

LEMMA QuotaStepType ==
  ASSUME TypeOK, NEW p \in Proc, QuotaStep(p)
  PROVE  TypeOK'
<1> DEFINE r == req[p]
<1>1. /\ r \in RequestSet /\ WellFormed(r) /\ r.quota \in QuotaSet
      /\ r.sess \in SessionSet /\ r.size \in Nat
  BY RequestFields
<1>2. CASE PutQuota(p)
  BY <1>1, <1>2, ReturnType DEF PutQuota, TypeOK, RequestsOK, files
<1>3. CASE StoreReservation(p)
  <2> DEFINE local == [r EXCEPT !.pc = "createUpload", !.quota = NoQuota]
  <2>1. local \in RequestSet
    BY <1>1, NewQuotaType DEF RequestSet, Positions
  <2>2. WellFormed(local)
    BY <1>1, <1>3 DEF RequestSet, WellFormed, StoreReservation, At
  <2>3. RequestsOK'
    BY <1>3, <2>1, <2>2, ContinueType, ReturnType DEF StoreReservation
  <2> QED
    BY <1>1, <1>3, <2>3 DEF StoreReservation, TypeOK, RequestsOK, files
<1>4. ASSUME NEW q \in QuotaSet, r.pc \in {"readForCommit", "readForRelease"}
      PROVE  LET local == [r EXCEPT !.pc = "settle", !.quota = q]
             IN  local \in RequestSet /\ WellFormed(local)
  <2> DEFINE local == [r EXCEPT !.pc = "settle", !.quota = q]
  <2>1. local \in RequestSet
    BY <1>1 DEF RequestSet, Positions
  <2>2. WellFormed(local)
    BY <1>1, <1>4 DEF RequestSet, WellFormed
  <2> QED
    BY <2>1, <2>2
<1>5. CASE ReadForCommit(p)
  <2>1. CanCommit(quota, r.sess.expected, r.size) => r.sess.expected \in Nat
    BY <1>1 DEF CanCommit, SessionSet, NoSize
  <2>2. CanCommit(quota, r.sess.expected, r.size) => Commit(quota, r.sess.expected, r.size) \in QuotaSet
    BY <1>1, <2>1, QuotaOpsType DEF TypeOK
  <2>3. RequestsOK'
    BY <1>4, <1>5, <2>2, ContinueType, AfterQuotaType DEF ReadForCommit, At
  <2> QED
    BY <1>5, <2>3 DEF ReadForCommit, TypeOK, RequestsOK, files
<1>6. CASE ReadForRelease(p)
  <2>1. CanRelease(quota, r.sess.expected) => r.sess.expected \in Nat
    BY <1>1 DEF CanRelease, SessionSet, NoSize
  <2>2. CanRelease(quota, r.sess.expected) => Release(quota, r.sess.expected) \in QuotaSet
    BY <1>1, <2>1, QuotaOpsType DEF TypeOK
  <2>3. RequestsOK'
    BY <1>4, <1>6, <2>2, ContinueType, AfterQuotaType DEF ReadForRelease, At
  <2> QED
    BY <1>6, <2>3 DEF ReadForRelease, TypeOK, RequestsOK, files
<1>7. CASE StoreSettlement(p)
  <2>1. RequestsOK'
    BY <1>7, AfterQuotaType DEF StoreSettlement
  <2> QED
    BY <1>1, <1>7, <2>1 DEF StoreSettlement, TypeOK, RequestsOK, files
<1> QED
  BY <1>2, <1>3, <1>5, <1>6, <1>7 DEF QuotaStep

LEMMA SessionStepType ==
  ASSUME TypeOK, NEW p \in Proc, SessionStep(p)
  PROVE  TypeOK'
<1> DEFINE r == req[p]
           local(where) == [r EXCEPT !.pc = where]
<1>1. r \in RequestSet /\ WellFormed(r) /\ r.sess \in SessionSet
  BY RequestFields
<1>2. \A where \in Positions : local(where) \in RequestSet
  BY <1>1 DEF RequestSet
<1>3. ASSUME NEW i \in Id, CreateUpload(p, i)
      PROVE  TypeOK'
  BY <1>1, <1>3, ReturnType DEF CreateUpload, TypeOK, RequestsOK, files
<1>4. CASE RecordAndUpdate(p)
  <2>1. r.id \in Id /\ r.piece \in Piece
    BY <1>1, <1>4 DEF RecordAndUpdate, At, RequestSet, WellFormed
  <2>2. uploads' \in [Id -> SessionSet]
    BY <1>1, <1>4, <2>1, SessionOpsType DEF RecordAndUpdate, TypeOK
  <2> QED
    BY <1>4, <2>2, ReturnType DEF RecordAndUpdate, TypeOK, RequestsOK, files
<1>5. CASE StoreFinalizing(p)
  <2>1. WellFormed(local("hash"))
    BY <1>1, <1>5 DEF StoreFinalizing, At, RequestSet, WellFormed
  <2>2. RequestsOK'
    BY <1>2, <1>5, <2>1, ContinueType, ReturnType DEF StoreFinalizing, Positions
  <2> QED
    BY <1>1, <1>5, <2>2 DEF StoreFinalizing, TypeOK, RequestsOK, files
<1>6. CASE StoreAborted(p)
  <2>1. WellFormed(local("readForRelease"))
    BY <1>1, <1>6 DEF StoreAborted, At, RequestSet, WellFormed
  <2>2. RequestsOK'
    BY <1>2, <1>6, <2>1, ContinueType, ReturnType DEF StoreAborted, Positions
  <2> QED
    BY <1>1, <1>6, <2>2 DEF StoreAborted, TypeOK, RequestsOK, files
<1>7. CASE StoreCompleted(p)
  <2>1. WellFormed(local("readForCommit"))
    BY <1>1, <1>7 DEF StoreCompleted, At, RequestSet, WellFormed
  <2>2. RequestsOK'
    BY <1>2, <1>7, <2>1, ContinueType, ReturnType DEF StoreCompleted, Positions
  <2> QED
    BY <1>1, SessionOpsType, <1>7, <2>2 DEF StoreCompleted, TypeOK, RequestsOK, files
<1>8. CASE ForgetUpload(p)
  <2>1. WellFormed(local("removeTemp"))
    BY <1>1, <1>8 DEF ForgetUpload, At, RequestSet, WellFormed
  <2>2. RequestsOK'
    BY <1>2, <1>8, <2>1, ContinueType, NextUploadType DEF ForgetUpload, At, Positions
  <2> QED
    BY <1>8, <2>2, NewSessionType DEF ForgetUpload, TypeOK, RequestsOK, files
<1> QED
  BY <1>3, <1>4, <1>5, <1>6, <1>7, <1>8 DEF SessionStep

LEMMA BlobStepType ==
  ASSUME TypeOK, NEW p \in Proc, BlobStep(p)
  PROVE  TypeOK'
<1> DEFINE r == req[p]
<1>1. r \in RequestSet /\ WellFormed(r)
  BY RequestFields
<1>2. CASE LookupBlob(p)
  <2> DEFINE listed == [r EXCEPT !.pc = "complete", !.reads = None]
             new == [r EXCEPT !.pc = "createPut"]
  <2>1. listed \in RequestSet /\ new \in RequestSet
    BY <1>1 DEF RequestSet, Positions
  <2>2. WellFormed(listed) /\ WellFormed(new)
    BY <1>1, <1>2 DEF LookupBlob, At, RequestSet, WellFormed
  <2>3. RequestsOK'
    BY <1>2, <2>1, <2>2, ContinueType DEF LookupBlob
  <2>4. data' \in [Inode -> Seq(Byte)]
    BY <1>2, StoreType DEF LookupBlob, TypeOK
  <2> QED
    BY <1>2, <2>3, <2>4 DEF LookupBlob, TypeOK, RequestsOK
<1>3. CASE InsertBlob(p)
  <2> DEFINE local == [r EXCEPT !.pc = "complete"]
  <2>1. local \in RequestSet
    BY <1>1 DEF RequestSet, Positions
  <2>2. WellFormed(local) /\ r.claim \in Digest
    BY <1>1, <1>3 DEF InsertBlob, At, RequestSet, WellFormed
  <2>3. RequestsOK'
    BY <1>3, <2>1, <2>2, ContinueType DEF InsertBlob
  <2> QED
    BY <1>3, <2>2, <2>3 DEF InsertBlob, TypeOK, RequestsOK, files
<1> QED
  BY <1>2, <1>3 DEF BlobStep

LEMMA FileStepType ==
  ASSUME TypeOK, NEW p \in Proc, FileStep(p)
  PROVE  TypeOK'
<1> DEFINE r == req[p]
           goto(where) == [r EXCEPT !.pc = where]
<1>1. /\ r \in RequestSet /\ WellFormed(r) /\ r.sess \in SessionSet /\ r.size \in Nat
      /\ r.reads \in Inode \union {None} /\ r.writes \in Inode \union {None}
  BY RequestFields
<1>2. \A where \in Positions : goto(where) \in RequestSet
  BY <1>1 DEF RequestSet
<1>3. FreeInode # {} => NewInode \in Inode
  BY DEF FreeInode, NewInode
<1>4. \A piece \in Piece : piece.bytes \in Seq(Byte) /\ piece.start \in Nat
  BY PieceAssumption
<1>5. CASE OpenTemp(p)
  <2> DEFINE local(n) == [r EXCEPT !.pc = "write", !.writes = n]
  <2>1. \A n \in Inode \union {None} : local(n) \in RequestSet
    BY <1>1 DEF RequestSet, Positions
  <2>2. \A n \in Inode \union {None} : WellFormed(local(n))
    BY <1>1, <1>5 DEF OpenTemp, At, RequestSet, WellFormed
  <2>3. r.id \in Id
    BY <1>1, <1>5 DEF OpenTemp, At, RequestSet, WellFormed
  <2>4. RequestsOK'
    BY <1>3, <1>5, <2>1, <2>2, <2>3, ContinueType DEF OpenTemp, TypeOK
  <2>5. tempFile' \in [Id -> Inode \union {None}]
    BY <1>3, <1>5 DEF OpenTemp, TypeOK
  <2> QED
    BY <1>5, <2>4, <2>5 DEF OpenTemp, TypeOK, RequestsOK
<1>6. CASE WriteChunk(p)
  <2> DEFINE local == [r EXCEPT !.pc = "record", !.writes = None]
  <2>1. local \in RequestSet
    BY <1>1 DEF RequestSet, Positions
  <2>2. WellFormed(local) /\ r.piece \in Piece
    BY <1>1, <1>6 DEF WriteChunk, At, RequestSet, WellFormed
  <2>3. RequestsOK'
    BY <1>6, <2>1, <2>2, ContinueType DEF WriteChunk
  <2>4. [data EXCEPT ![r.writes] = Overwrite(@, r.piece.start, r.piece.bytes)]
          \in [Inode -> Seq(Byte)]
    BY <1>1, <1>4, <2>2, OverwriteType DEF TypeOK
  <2>5. data' \in [Inode -> Seq(Byte)]
    BY <1>6, <2>4, StoreType DEF WriteChunk
  <2> QED
    BY <1>6, <2>3, <2>5 DEF WriteChunk, TypeOK, RequestsOK
<1>7. ASSUME NEW n \in 0..MaxBlobSize, CancelWrite(p, n)
      PROVE  TypeOK'
  <2> DEFINE prefix == SubSeq(r.piece.bytes, 1, n)
  <2>1. r.piece \in Piece
    BY <1>1, <1>7 DEF CancelWrite, At, RequestSet, WellFormed
  <2>2. prefix \in Seq(Byte)
    BY <1>4, <1>7, <2>1 DEF CancelWrite
  <2>3. [data EXCEPT ![r.writes] = IF n = 0 THEN @ ELSE Overwrite(@, r.piece.start, prefix)]
          \in [Inode -> Seq(Byte)]
    BY <1>1, <1>4, <2>1, <2>2, OverwriteType DEF TypeOK
  <2>4. data' \in [Inode -> Seq(Byte)]
    BY <1>7, <2>3, StoreType DEF CancelWrite
  <2> QED
    BY <1>7, <2>4, ReturnType DEF CancelWrite, TypeOK, RequestsOK
<1>8. CASE Stat(p)
  <2> DEFINE local(n) == [r EXCEPT !.pc = "finalize", !.size = n, !.sess = Finalize(r.sess)]
  <2>1. Finalize(r.sess) \in SessionSet
    BY <1>1, SessionOpsType
  <2>2. \A n \in Nat : local(n) \in RequestSet
    BY <1>1, <2>1 DEF RequestSet, Positions
  <2>3. \A n \in Nat : WellFormed(local(n))
    BY <1>1, <1>8 DEF Stat, At, RequestSet, WellFormed
  <2>4. r.id \in Id
    BY <1>1, <1>8 DEF Stat, At, RequestSet, WellFormed
  <2>5. tempFile[r.id] # None => Len(data[tempFile[r.id]]) \in Nat
    BY <2>4 DEF TypeOK
  <2>6. RequestsOK'
    BY <1>8, <2>2, <2>3, <2>5, ContinueType, ReturnType DEF Stat
  <2> QED
    BY <1>8, <2>6 DEF Stat, TypeOK, RequestsOK, files
<1>9. CASE Hash(p)
  <2> DEFINE local == [r EXCEPT !.pc = "storeAborted", !.sess = Abort(r.sess)]
  <2>1. Abort(r.sess) \in SessionSet
    BY <1>1, SessionOpsType
  <2>2. local \in RequestSet
    BY <1>1, <2>1 DEF RequestSet, Positions
  <2>3. WellFormed(local) /\ WellFormed(goto("exists"))
    BY <1>1, <1>9 DEF Hash, At, RequestSet, WellFormed
  <2>4. RequestsOK'
    BY <1>2, <1>9, <2>2, <2>3, ContinueType, ReturnType DEF Hash, Positions
  <2> QED
    BY <1>9, <2>4 DEF Hash, TypeOK, RequestsOK, files
<1>10. CASE Exists(p)
  <2>1. WellFormed(goto("move")) /\ WellFormed(goto("open"))
    BY <1>1, <1>10 DEF Exists, At, RequestSet, WellFormed
  <2>2. RequestsOK'
    BY <1>2, <1>10, <2>1, ContinueType DEF Exists, Positions
  <2> QED
    BY <1>10, <2>2 DEF Exists, TypeOK, RequestsOK, files
<1>11. CASE Move(p)
  <2>1. WellFormed(goto("open")) /\ r.id \in Id /\ r.claim \in Digest
    BY <1>1, <1>11 DEF Move, At, RequestSet, WellFormed
  <2>2. RequestsOK'
    BY <1>2, <1>11, <2>1, ContinueType, ReturnType DEF Move, Positions
  <2>3. data' \in [Inode -> Seq(Byte)]
    BY <1>11, StoreType DEF Move, TypeOK
  <2> QED
    BY <1>11, <2>1, <2>2, <2>3 DEF Move, TypeOK, RequestsOK
<1>12. CASE OpenBlobFile(p)
  <2> DEFINE local(n) == [r EXCEPT !.pc = "lookup", !.reads = n]
  <2>1. r.claim \in Digest
    BY <1>1, <1>12 DEF OpenBlobFile, At, RequestSet, WellFormed
  <2>2. \A n \in Inode : local(n) \in RequestSet
    BY <1>1 DEF RequestSet, Positions
  <2>3. \A n \in Inode : WellFormed(local(n))
    BY <1>1, <1>12 DEF OpenBlobFile, At, RequestSet, WellFormed
  <2>4. r.size = 0 => WellFormed(goto("lookup"))
    BY <1>1, <1>12 DEF OpenBlobFile, At, RequestSet, WellFormed
  <2>5. blobFile[r.claim] # None => blobFile[r.claim] \in Inode
    BY <2>1 DEF TypeOK
  <2>6. RequestsOK'
    BY <1>2, <1>12, <2>2, <2>3, <2>4, <2>5, ContinueType, ReturnType
    DEF OpenBlobFile, Readable, Positions
  <2> QED
    BY <1>12, <2>6 DEF OpenBlobFile, TypeOK, RequestsOK, files
<1>13. CASE CreatePutFile(p)
  <2> DEFINE local(n) == [r EXCEPT !.pc = "copy", !.writes = n]
  <2>1. \A n \in Inode : local(n) \in RequestSet
    BY <1>1 DEF RequestSet, Positions
  <2>2. \A n \in Inode : WellFormed(local(n))
    BY <1>1, <1>13 DEF CreatePutFile, At, RequestSet, WellFormed
  <2>3. r.claim \in Digest
    BY <1>1, <1>13 DEF CreatePutFile, At, RequestSet, WellFormed
  <2>4. putFile[r.claim] # None => putFile[r.claim] \in Inode
    BY <2>3 DEF TypeOK
  <2>5. RequestsOK'
    BY <1>3, <1>13, <2>1, <2>2, <2>4, ContinueType DEF CreatePutFile
  <2>6. data' \in [Inode -> Seq(Byte)]
    <3>1. [data EXCEPT ![putFile[r.claim]] = <<>>] \in [Inode -> Seq(Byte)]
      <4>1. <<>> \in Seq(Byte)
        OBVIOUS
      <4> QED
        BY <4>1 DEF TypeOK
    <3> QED
      BY <1>13, <3>1, StoreType DEF CreatePutFile, TypeOK
  <2>7. putFile' \in [Digest -> Inode \union {None}]
    BY <1>3, <1>13 DEF CreatePutFile, TypeOK
  <2> QED
    BY <1>13, <2>5, <2>6, <2>7 DEF CreatePutFile, TypeOK, RequestsOK
<1>14. CASE CopyToPutFile(p)
  <2> DEFINE local == [r EXCEPT !.pc = "rename", !.writes = None]
             content == IF r.size = 0 THEN <<>>
                        ELSE SubSeq(data[r.reads], 1, Smaller(r.size, Len(data[r.reads])))
  <2>1. local \in RequestSet
    BY <1>1 DEF RequestSet, Positions
  <2>2. WellFormed(local) /\ (r.size = 0 \/ r.reads \in Inode)
    BY <1>1, <1>14 DEF CopyToPutFile, At, RequestSet, WellFormed
  <2>3. RequestsOK'
    BY <1>14, <2>1, <2>2, ContinueType DEF CopyToPutFile
  <2>4. content \in Seq(Byte)
    <3>1. ASSUME NEW s \in Seq(Byte), NEW n \in Nat
          PROVE  SubSeq(s, 1, Smaller(n, Len(s))) \in Seq(Byte)
      BY DEF Smaller
    <3> QED
      BY <1>1, <2>2, <3>1 DEF TypeOK
  <2>5. [data EXCEPT ![r.writes] = Overwrite(@, 0, content)] \in [Inode -> Seq(Byte)]
    BY <1>1, <2>4, OverwriteType DEF TypeOK
  <2>6. data' \in [Inode -> Seq(Byte)]
    BY <1>14, <2>5, StoreType DEF CopyToPutFile
  <2> QED
    BY <1>14, <2>3, <2>6 DEF CopyToPutFile, TypeOK, RequestsOK
<1>15. CASE CancelCopy(p)
  <2>1. data' \in [Inode -> Seq(Byte)]
    BY <1>15, StoreType DEF CancelCopy, TypeOK
  <2> QED
    BY <1>15, <2>1, ReturnType DEF CancelCopy, TypeOK, RequestsOK
<1>16. CASE RenamePutFile(p)
  <2> DEFINE local == [r EXCEPT !.pc = "insert", !.reads = None]
  <2>1. local \in RequestSet
    BY <1>1 DEF RequestSet, Positions
  <2>2. WellFormed(local) /\ r.claim \in Digest
    BY <1>1, <1>16 DEF RenamePutFile, At, RequestSet, WellFormed
  <2>3. RequestsOK'
    BY <1>16, <2>1, <2>2, ContinueType, ReturnType DEF RenamePutFile
  <2>4. data' \in [Inode -> Seq(Byte)]
    BY <1>16, StoreType DEF RenamePutFile, TypeOK
  <2> QED
    BY <1>16, <2>2, <2>3, <2>4 DEF RenamePutFile, TypeOK, RequestsOK
<1>17. CASE RemoveTempFile(p)
  <2>1. RequestsOK'
    BY <1>17, NextUploadType DEF RemoveTempFile, At
  <2>2. data' \in [Inode -> Seq(Byte)]
    BY <1>17, StoreType DEF RemoveTempFile, TypeOK
  <2> QED
    BY <1>17, <2>1, <2>2 DEF RemoveTempFile, TypeOK, RequestsOK
<1>18. CASE UnlinkBlob(p)
  <2>1. data' \in [Inode -> Seq(Byte)]
    BY <1>18, StoreType DEF UnlinkBlob, TypeOK
  <2> QED
    BY <1>18, <2>1, ReturnType DEF UnlinkBlob, TypeOK, RequestsOK
<1> QED
  BY <1>5, <1>6, <1>7, <1>8, <1>9, <1>10, <1>11, <1>12, <1>13, <1>14, <1>15, <1>16,
     <1>17, <1>18 DEF FileStep

LEMMA EnvironmentType ==
  ASSUME TypeOK, Environment
  PROVE  TypeOK'
<1>1. CASE Restart
  <2>1. data' \in [Inode -> Seq(Byte)]
    BY <1>1, StoreType DEF Restart, TypeOK
  <2> QED
    BY <1>1, <2>1, IdleType, NewQuotaType, NewSessionType DEF Restart, TypeOK
<1>2. ASSUME NEW i \in Id, Expire(i)
      PROVE  TypeOK'
  BY <1>2 DEF Expire, TypeOK, files
<1> QED
  BY <1>1, <1>2 DEF Environment

LEMMA TypeInit == Init => TypeOK
BY IdleType, NewQuotaType, NewSessionType DEF Init, TypeOK

LEMMA TypeNext == TypeOK /\ [Next]_vars => TypeOK'
<1> SUFFICES ASSUME TypeOK, [Next]_vars
             PROVE  TypeOK'
  OBVIOUS
<1>1. CASE UNCHANGED vars
  BY <1>1 DEF vars, files, TypeOK
<1>2. ASSUME NEW p \in Proc, Handler(p)
      PROVE  TypeOK'
  BY <1>2, QuotaStepType, SessionStepType, FileStepType, BlobStepType DEF Handler
<1> QED
  BY <1>1, <1>2, BeginType, EnvironmentType DEF Next

\* Whatever the requests, their interleaving and the crashes, every store and
\* every handler holds records of its type, and a handler's locals are those
\* its position needs.
THEOREM TypeCorrect == Spec => []TypeOK
BY TypeInit, TypeNext, PTL DEF Spec


-----------------------------------------------------------------------------
(* The quota.  The record is within its limit, and so is every copy a        *)
(* handler is about to store; that a commit keeps it so rests on the size of *)
(* a finalized upload being the size that was reserved for it.               *)

Bounded(q) == q.used + q.reserved <= q.limit

SizedAsDeclared(r) ==
  r.op = "complete" /\ r.pc # "stat" /\ r.sess.expected # NoSize => r.size = r.sess.expected

QuotaInv ==
  /\ Bounded(quota)
  /\ \A p \in Proc : Bounded(req[p].quota) /\ SizedAsDeclared(req[p])

\* A handler step that leaves the stored record alone.
LEMMA QuotaFrame ==
  ASSUME TypeOK, QuotaInv, NEW p \in Proc, NEW local, Continue(p, local),
         Bounded(local.quota), SizedAsDeclared(local), Bounded(quota')
  PROVE  QuotaInv'
BY DEF TypeOK, QuotaInv, Continue

LEMMA QuotaFrameReturn ==
  ASSUME TypeOK, QuotaInv, NEW p \in Proc, Return(p), Bounded(quota')
  PROVE  QuotaInv'
<1>1. Bounded(Idle.quota) /\ SizedAsDeclared(Idle)
  BY DEF Bounded, SizedAsDeclared, Idle, NoQuota
<1> QED
  BY <1>1, QuotaFrame DEF Return

LEMMA QuotaOpsBounded ==
  ASSUME NEW q \in QuotaSet, Bounded(q), NEW n \in Nat
  PROVE  /\ CanReserve(q, n) => Bounded(Reserve(q, n))
         /\ CanCommit(q, n, n) => Bounded(Commit(q, n, n))
         /\ CanRelease(q, n) => Bounded(Release(q, n))
BY DEF QuotaSet, Bounded, CanReserve, Remaining, Reserve, CanCommit, Commit, CanRelease, Release

LEMMA BeginBounded ==
  ASSUME TypeOK, QuotaInv, NEW p \in Proc, Begin(p)
  PROVE  QuotaInv'
<1>1. Bounded(quota)
  BY DEF QuotaInv
<1>2. ASSUME NEW r \in Repo, NEW limit \in Limit, CreateRepository(p, r, limit)
      PROVE  QuotaInv'
  <2> DEFINE local == [Idle EXCEPT !.pc = "putQuota", !.op = "create", !.quota = NewQuota(limit)]
  <2>1. Bounded(local.quota) /\ SizedAsDeclared(local)
    BY LimitAssumption DEF Bounded, SizedAsDeclared, Idle, NewQuota
  <2> QED
    BY <1>1, <1>2, <2>1, QuotaFrame DEF CreateRepository
<1>3. ASSUME NEW e \in ExpectedSize, StartUpload(p, e)
      PROVE  QuotaInv'
  <2> DEFINE free == [Idle EXCEPT !.pc = "createUpload", !.op = "start", !.sess = NewUploadSession(e)]
             metered == [Idle EXCEPT !.pc = "reserve", !.op = "start",
                                     !.sess = NewUploadSession(e), !.quota = Reserve(quota, e)]
  <2>1. Bounded(free.quota) /\ SizedAsDeclared(free)
    BY DEF Bounded, SizedAsDeclared, Idle, NoQuota
  <2>2. e # NoSize /\ CanReserve(quota, e) => Bounded(metered.quota) /\ SizedAsDeclared(metered)
    <3>1. e # NoSize /\ CanReserve(quota, e) => Bounded(Reserve(quota, e))
      BY <1>1, SizeAssumption, QuotaOpsBounded DEF TypeOK
    <3> QED
      BY <3>1 DEF SizedAsDeclared, Idle
  <2> QED
    BY <1>1, <1>3, <2>1, <2>2, QuotaFrame DEF StartUpload
<1>4. ASSUME NEW local, local.quota = NoQuota,
             local.op # "complete" \/ local.pc = "stat", Continue(p, local), UNCHANGED quota
      PROVE  QuotaInv'
  <2>1. Bounded(local.quota) /\ SizedAsDeclared(local)
    BY <1>4 DEF Bounded, SizedAsDeclared, NoQuota
  <2> QED
    BY <1>1, <1>4, <2>1, QuotaFrame
<1>5. ASSUME NEW i \in Id, NEW c \in Piece, UploadChunk(p, i, c)
      PROVE  QuotaInv'
  BY <1>4, <1>5 DEF UploadChunk, Idle
<1>6. ASSUME NEW i \in Id, NEW d \in Digest, CompleteUpload(p, i, d)
      PROVE  QuotaInv'
  BY <1>4, <1>6 DEF CompleteUpload, Idle
<1>7. ASSUME NEW i \in Id, AbortUpload(p, i)
      PROVE  QuotaInv'
  BY <1>4, <1>7 DEF AbortUpload, Idle
<1>8. CASE JanitorRun(p)
  BY <1>4, <1>8 DEF JanitorRun, Idle
<1>9. ASSUME NEW d \in Digest, DeleteBlob(p, d)
      PROVE  QuotaInv'
  BY <1>4, <1>9 DEF DeleteBlob, Idle
<1> QED
  BY <1>2, <1>3, <1>5, <1>6, <1>7, <1>8, <1>9 DEF Begin

\* A handler that goes on with the same upload, size and quota copy.
LEMMA SameQuotaFrame ==
  ASSUME TypeOK, QuotaInv, NEW p \in Proc, NEW local, Continue(p, local), UNCHANGED quota,
         local.quota = req[p].quota \/ local.quota = NoQuota,
         local.op = req[p].op, local.size = req[p].size,
         local.sess.expected = req[p].sess.expected,
         req[p].pc # "stat"
  PROVE  QuotaInv'
<1>1. Bounded(local.quota)
  BY DEF QuotaInv, Bounded, NoQuota
<1>2. SizedAsDeclared(local)
  BY DEF QuotaInv, SizedAsDeclared
<1> QED
  BY <1>1, <1>2, QuotaFrame DEF QuotaInv

LEMMA AfterQuotaBounded ==
  ASSUME TypeOK, QuotaInv, NEW p \in Proc, AfterQuota(p), Bounded(quota'), req[p].pc # "stat"
  PROVE  QuotaInv'
<1> DEFINE local == [req[p] EXCEPT !.pc = "forget", !.quota = NoQuota]
<1>1. req[p] \in RequestSet
  BY RequestFields
<1>2. Bounded(local.quota) /\ SizedAsDeclared(local)
  BY <1>1 DEF QuotaInv, Bounded, NoQuota, SizedAsDeclared, RequestSet
<1> QED
  BY <1>2, QuotaFrame, QuotaFrameReturn DEF AfterQuota

LEMMA NextUploadBounded ==
  ASSUME TypeOK, QuotaInv, NEW p \in Proc, NextUpload(p), UNCHANGED quota, req[p].pc # "stat"
  PROVE  QuotaInv'
<1> DEFINE local(i) == [req[p] EXCEPT !.pc = "forget", !.id = i, !.todo = @ \ {i}]
<1>1. req[p] \in RequestSet
  BY RequestFields
<1>2. ASSUME NEW i, Continue(p, local(i))
      PROVE  QuotaInv'
  BY <1>1, <1>2, SameQuotaFrame DEF RequestSet
<1> QED
  BY <1>2, QuotaFrameReturn DEF NextUpload, QuotaInv

LEMMA QuotaStepBounded ==
  ASSUME TypeOK, QuotaInv, NEW p \in Proc, QuotaStep(p)
  PROVE  QuotaInv'
<1> DEFINE r == req[p]
<1>1. /\ r \in RequestSet /\ WellFormed(r) /\ r.sess \in SessionSet
      /\ Bounded(quota) /\ Bounded(r.quota) /\ SizedAsDeclared(r) /\ quota \in QuotaSet
  BY RequestFields DEF QuotaInv, TypeOK
<1>2. CASE PutQuota(p)
  BY <1>1, <1>2, QuotaFrameReturn DEF PutQuota
<1>3. CASE StoreReservation(p)
  <2> DEFINE local == [r EXCEPT !.pc = "createUpload", !.quota = NoQuota]
  <2>1. Bounded(local.quota) /\ SizedAsDeclared(local)
    BY <1>1, <1>3 DEF StoreReservation, At, Bounded, NoQuota, SizedAsDeclared, RequestSet, WellFormed
  <2>2. Bounded(quota')
    BY <1>1, <1>3 DEF StoreReservation
  <2> QED
    BY <1>3, <2>1, <2>2, QuotaFrame, QuotaFrameReturn DEF StoreReservation
<1>4. ASSUME NEW q, Bounded(q), Continue(p, [r EXCEPT !.pc = "settle", !.quota = q]),
             UNCHANGED quota, r.pc # "stat"
      PROVE  QuotaInv'
  <2> DEFINE local == [r EXCEPT !.pc = "settle", !.quota = q]
  <2>1. Bounded(local.quota) /\ SizedAsDeclared(local)
    BY <1>1, <1>4 DEF SizedAsDeclared, RequestSet
  <2> QED
    BY <1>1, <1>4, <2>1, QuotaFrame
<1>5. CASE ReadForCommit(p)
  <2>1. CanCommit(quota, r.sess.expected, r.size) => r.sess.expected \in Nat
    BY <1>1 DEF CanCommit, SessionSet, NoSize
  <2>2. r.sess.expected \in Nat => r.size = r.sess.expected
    BY <1>1, <1>5 DEF SizedAsDeclared, ReadForCommit, At, RequestSet, WellFormed, NoSize
  <2>3. CanCommit(quota, r.sess.expected, r.size) => Bounded(Commit(quota, r.sess.expected, r.size))
    BY <1>1, <2>1, <2>2, QuotaOpsBounded
  <2> QED
    BY <1>1, <1>4, <1>5, <2>3, AfterQuotaBounded DEF ReadForCommit, At
<1>6. CASE ReadForRelease(p)
  <2>1. CanRelease(quota, r.sess.expected) => r.sess.expected \in Nat
    BY <1>1 DEF CanRelease, SessionSet, NoSize
  <2>2. CanRelease(quota, r.sess.expected) => Bounded(Release(quota, r.sess.expected))
    BY <1>1, <2>1, QuotaOpsBounded
  <2> QED
    BY <1>1, <1>4, <1>6, <2>2, AfterQuotaBounded DEF ReadForRelease, At
<1>7. CASE StoreSettlement(p)
  <2>1. Bounded(quota')
    BY <1>1, <1>7 DEF StoreSettlement
  <2> QED
    BY <1>7, <2>1, AfterQuotaBounded DEF StoreSettlement, At
<1> QED
  BY <1>2, <1>3, <1>5, <1>6, <1>7 DEF QuotaStep

LEMMA SessionStepBounded ==
  ASSUME TypeOK, QuotaInv, NEW p \in Proc, SessionStep(p)
  PROVE  QuotaInv'
<1> DEFINE goto(where) == [req[p] EXCEPT !.pc = where]
<1>1. req[p] \in RequestSet /\ Bounded(quota)
  BY RequestFields DEF QuotaInv
<1>2. UNCHANGED quota
  BY DEF SessionStep, CreateUpload, RecordAndUpdate, StoreFinalizing, StoreAborted,
         StoreCompleted, ForgetUpload
<1>3. Return(p) => QuotaInv'
  BY <1>1, <1>2, QuotaFrameReturn
<1>4. ASSUME NEW where, Continue(p, goto(where)), req[p].pc # "stat"
      PROVE  QuotaInv'
  BY <1>1, <1>2, <1>4, SameQuotaFrame DEF RequestSet
<1>5. CASE StoreFinalizing(p) \/ StoreAborted(p) \/ StoreCompleted(p)
  BY <1>3, <1>4, <1>5 DEF StoreFinalizing, StoreAborted, StoreCompleted, At
<1>6. CASE ForgetUpload(p)
  BY <1>1, <1>3, <1>4, <1>6, NextUploadBounded DEF ForgetUpload, At
<1>7. CASE (\E i \in Id : CreateUpload(p, i)) \/ RecordAndUpdate(p)
  BY <1>3, <1>7 DEF CreateUpload, RecordAndUpdate
<1> QED
  BY <1>5, <1>6, <1>7 DEF SessionStep

LEMMA FileStepBounded ==
  ASSUME TypeOK, QuotaInv, NEW p \in Proc, FileStep(p) \/ BlobStep(p)
  PROVE  QuotaInv'
<1> DEFINE r == req[p]
           goto(where) == [r EXCEPT !.pc = where]
<1>1. r \in RequestSet /\ WellFormed(r) /\ r.sess \in SessionSet /\ Bounded(quota)
  BY RequestFields DEF QuotaInv
<1>2. UNCHANGED quota
  BY DEF FileStep, BlobStep, OpenTemp, WriteChunk, CancelWrite, Stat, Hash, Exists, Move,
         OpenBlobFile, CreatePutFile, CopyToPutFile, CancelCopy, RenamePutFile,
         RemoveTempFile, UnlinkBlob, LookupBlob, InsertBlob, files
<1>3. Return(p) => QuotaInv'
  BY <1>1, <1>2, QuotaFrameReturn
<1>4. ASSUME NEW where, r.pc # "stat", NEW m, NEW n,
             \/ Continue(p, goto(where))
             \/ Continue(p, [r EXCEPT !.pc = where, !.writes = m])
             \/ Continue(p, [r EXCEPT !.pc = where, !.reads = m])
      PROVE  QuotaInv'
  BY <1>1, <1>2, <1>4, SameQuotaFrame DEF RequestSet
<1>5. CASE OpenTemp(p) \/ WriteChunk(p) \/ Exists(p) \/ Move(p)
  BY <1>3, <1>4, <1>5 DEF OpenTemp, WriteChunk, Exists, Move, At
<1>6. CASE OpenBlobFile(p) \/ CreatePutFile(p) \/ CopyToPutFile(p) \/ RenamePutFile(p)
  BY <1>3, <1>4, <1>6 DEF OpenBlobFile, CreatePutFile, CopyToPutFile, RenamePutFile, At
<1>7. CASE BlobStep(p)
  BY <1>3, <1>4, <1>7 DEF BlobStep, LookupBlob, InsertBlob, At
<1>8. CASE CancelCopy(p) \/ UnlinkBlob(p) \/ \E n \in 0..MaxBlobSize : CancelWrite(p, n)
  BY <1>3, <1>8 DEF CancelCopy, UnlinkBlob, CancelWrite
<1>9. CASE RemoveTempFile(p)
  BY <1>2, <1>9, NextUploadBounded DEF RemoveTempFile, At
<1>10. CASE Stat(p)
  <2> DEFINE n == Len(data[tempFile[r.id]])
             local == [r EXCEPT !.pc = "finalize", !.size = n, !.sess = Finalize(r.sess)]
  <2>1. CanFinalize(r.sess, n, r.id \in expired) => SizedAsDeclared(local)
    BY <1>1 DEF CanFinalize, SizedAsDeclared, Finalize, RequestSet, SessionSet
  <2>2. Bounded(local.quota)
    BY <1>1 DEF QuotaInv, RequestSet
  <2> QED
    BY <1>1, <1>2, <1>3, <1>10, <2>1, <2>2, QuotaFrame DEF Stat
<1>11. CASE Hash(p)
  <2> DEFINE local == [r EXCEPT !.pc = "storeAborted", !.sess = Abort(r.sess)]
  <2>1. /\ local.quota = r.quota /\ local.op = r.op /\ local.size = r.size
        /\ local.sess.expected = r.sess.expected
    BY <1>1 DEF RequestSet, Abort, SessionSet
  <2>2. Continue(p, local) /\ r.pc # "stat" => QuotaInv'
    BY <1>2, <2>1, SameQuotaFrame
  <2> QED
    BY <1>3, <1>4, <1>11, <2>2 DEF Hash, At
<1> QED
  BY <1>5, <1>6, <1>7, <1>8, <1>9, <1>10, <1>11 DEF FileStep

LEMMA QuotaInit == Init => QuotaInv
BY DEF Init, QuotaInv, Bounded, NoQuota, SizedAsDeclared, Idle

LEMMA QuotaNext == TypeOK /\ QuotaInv /\ [Next]_vars => QuotaInv'
<1> SUFFICES ASSUME TypeOK, QuotaInv, [Next]_vars
             PROVE  QuotaInv'
  OBVIOUS
<1>1. CASE UNCHANGED vars
  BY <1>1 DEF vars, QuotaInv
<1>2. CASE Environment
  BY <1>2 DEF Environment, Restart, Expire, QuotaInv, Bounded, NoQuota, SizedAsDeclared, Idle
<1> QED
  BY <1>1, <1>2, BeginBounded, QuotaStepBounded, SessionStepBounded, FileStepBounded
  DEF Next, Handler

\* What a tenant uses and what is reserved for it never exceed the limit, for
\* any number of concurrent uploads, aborts and crashes.
THEOREM QuotaBounded == Spec => []QuotaWithinLimit
<1>1. QuotaInv => QuotaWithinLimit
  BY DEF QuotaInv, Bounded, QuotaWithinLimit
<1> QED
  BY <1>1, TypeCorrect, QuotaInit, QuotaNext, PTL DEF Spec

-----------------------------------------------------------------------------
(* The quota record of a tenant with one repository implements AtomicQuota.  *)
(* A second repository opens the record again, and then it does not.         *)

OneRepository == \A r, s \in Repo : r = s

Sizes == ExpectedSize \union {NoSize}

\* How a record follows from another.
Follows(old, new) == \E n \in ExpectedSize :
  \/ CanReserve(old, n) /\ new = Reserve(old, n)
  \/ CanCommit(old, n, n) /\ new = Commit(old, n, n)
  \/ CanRelease(old, n) /\ new = Release(old, n)

OpenedAs(new) == \E limit \in Limit : new = NewQuota(limit)

\* Every upload has a size somebody may have declared.
SizesInv ==
  /\ \A i \in Id : uploads[i].expected \in Sizes
  /\ \A p \in Proc : req[p].sess.expected \in Sizes

\* The record is opened once.
OpeningInv ==
  /\ repos = {} => quota = NoQuota
  /\ \A p \in Proc : At(p, "putQuota") =>
       /\ repos # {} /\ quota = NoQuota /\ OpenedAs(req[p].quota)
       /\ \A q \in Proc : At(q, "putQuota") => q = p

\* A copy that is about to be stored was made of a record the tenant has or had,
\* and follows from it.
CopyFits(p) ==
  At(p, "reserve") \/ At(p, "settle") =>
    /\ req[p].quota.version - 1 \in 1..quota.version
    /\ req[p].quota.version - 1 = quota.version => Follows(quota, req[p].quota)

AtomicInv == SizesInv /\ OpeningInv /\ \A p \in Proc : CopyFits(p)

\* Positions at which a handler holds a copy of the record.
Holding == {"putQuota", "reserve", "settle"}

-----------------------------------------------------------------------------
(* Steps that leave the record alone *)

LEMMA OthersStay ==
  ASSUME TypeOK, NEW p \in Proc, NEW local, Continue(p, local)
  PROVE  req'[p] = local /\ \A q \in Proc : q # p => req'[q] = req[q]
BY DEF TypeOK, Continue

\* A handler that goes on without a copy of the record, about an upload of a size
\* somebody may have declared.
WithoutCopy(p) ==
  /\ req'[p].pc \notin Holding /\ req'[p].sess.expected \in Sizes
  /\ \A q \in Proc : q # p => req'[q] = req[q]

LEMMA WithoutCopyAtomic ==
  ASSUME TypeOK, AtomicInv, NEW p \in Proc, WithoutCopy(p), quota' = quota, repos' = repos,
         \A i \in Id : uploads'[i].expected \in Sizes
  PROVE  AtomicInv'
<1>1. SizesInv'
  BY DEF AtomicInv, SizesInv, WithoutCopy
<1>2. ASSUME NEW q \in Proc, req'[q].pc \in Holding
      PROVE  q # p /\ req'[q] = req[q]
  BY <1>2 DEF WithoutCopy
<1>3. OpeningInv'
  BY <1>2 DEF AtomicInv, OpeningInv, At, Holding, OpenedAs
<1>4. ASSUME NEW q \in Proc
      PROVE  CopyFits(q)'
  BY <1>2, <1>4 DEF AtomicInv, CopyFits, At, Holding, Follows
<1> QED
  BY <1>1, <1>3, <1>4 DEF AtomicInv

LEMMA LocalWithoutCopy ==
  ASSUME TypeOK, NEW p \in Proc, NEW local, Continue(p, local),
         local.pc \notin Holding, local.sess.expected \in Sizes
  PROVE  WithoutCopy(p)
BY OthersStay DEF WithoutCopy

LEMMA ReturnWithoutCopy ==
  ASSUME TypeOK, NEW p \in Proc, Return(p)
  PROVE  WithoutCopy(p)
<1>1. Idle.pc \notin Holding /\ Idle.sess.expected \in Sizes
  BY DEF Idle, NoSession, Sizes, Holding
<1> QED
  BY <1>1, LocalWithoutCopy DEF Return

LEMMA SameExpected ==
  ASSUME NEW s \in SessionSet
  PROVE  /\ Finalize(s).expected = s.expected
         /\ Complete(s).expected = s.expected
         /\ Abort(s).expected = s.expected
         /\ \A c : RecordChunk(s, c).expected = s.expected
BY DEF SessionSet, Finalize, Complete, Abort, RecordChunk

LEMMA NextUploadWithoutCopy ==
  ASSUME TypeOK, AtomicInv, NEW p \in Proc, NextUpload(p)
  PROVE  WithoutCopy(p)
<1>1. req[p] \in RequestSet /\ req[p].sess.expected \in Sizes
  BY RequestFields DEF AtomicInv, SizesInv
<1>2. ASSUME NEW i \in req[p].todo,
             Continue(p, [req[p] EXCEPT !.pc = "forget", !.id = i, !.todo = @ \ {i}])
      PROVE  WithoutCopy(p)
  <2> DEFINE local == [req[p] EXCEPT !.pc = "forget", !.id = i, !.todo = @ \ {i}]
  <2>1. local.pc = "forget" /\ local.sess = req[p].sess
    BY <1>1 DEF RequestSet
  <2> QED
    BY <1>1, <1>2, <2>1, LocalWithoutCopy DEF Holding
<1> QED
  BY <1>2, ReturnWithoutCopy DEF NextUpload

LEMMA AfterQuotaWithoutCopy ==
  ASSUME TypeOK, AtomicInv, NEW p \in Proc, AfterQuota(p)
  PROVE  WithoutCopy(p)
<1> DEFINE local == [req[p] EXCEPT !.pc = "forget", !.quota = NoQuota]
<1>1. req[p] \in RequestSet /\ req[p].sess.expected \in Sizes
  BY RequestFields DEF AtomicInv, SizesInv
<1>2. local.pc = "forget" /\ local.sess = req[p].sess
  BY <1>1 DEF RequestSet
<1> QED
  BY <1>1, <1>2, LocalWithoutCopy, ReturnWithoutCopy DEF AfterQuota, Holding

LEMMA FileStepWithoutCopy ==
  ASSUME TypeOK, AtomicInv, NEW p \in Proc, FileStep(p) \/ BlobStep(p)
  PROVE  WithoutCopy(p)
<1> DEFINE r == req[p]
           goto(where) == [r EXCEPT !.pc = where]
           write(where, n) == [r EXCEPT !.pc = where, !.writes = n]
           read(where, n) == [r EXCEPT !.pc = where, !.reads = n]
<1>1. r \in RequestSet /\ r.sess \in SessionSet /\ r.sess.expected \in Sizes
  BY RequestFields DEF AtomicInv, SizesInv
<1>2. \A where : goto(where).pc = where /\ goto(where).sess = r.sess
  BY <1>1 DEF RequestSet
<1>3. \A where, n : write(where, n).pc = where /\ write(where, n).sess = r.sess
  BY <1>1 DEF RequestSet
<1>4. \A where, n : read(where, n).pc = where /\ read(where, n).sess = r.sess
  BY <1>1 DEF RequestSet
<1> HIDE DEF goto, write, read
<1>5. CASE OpenTemp(p)
  <2>1. \E n : Continue(p, write("write", n))
    BY <1>5 DEF OpenTemp, write
  <2> QED
    BY <1>1, <1>3, <2>1, LocalWithoutCopy DEF Holding
<1>6. CASE WriteChunk(p)
  BY <1>1, <1>3, <1>6, LocalWithoutCopy DEF WriteChunk, Holding, write
<1>7. CASE CopyToPutFile(p)
  BY <1>1, <1>3, <1>7, LocalWithoutCopy DEF CopyToPutFile, Holding, write
<1>8. CASE CreatePutFile(p)
  <2>1. \E n : Continue(p, write("copy", n))
    BY <1>8 DEF CreatePutFile, write
  <2> QED
    BY <1>1, <1>3, <2>1, LocalWithoutCopy DEF Holding
<1>9. CASE Exists(p)
  <2>1. Continue(p, goto("move")) \/ Continue(p, goto("open"))
    BY <1>9 DEF Exists, goto
  <2> QED
    BY <1>1, <1>2, <2>1, LocalWithoutCopy DEF Holding
<1>10. CASE Move(p)
  BY <1>1, <1>2, <1>10, LocalWithoutCopy, ReturnWithoutCopy DEF Move, Holding, goto
<1>11. CASE OpenBlobFile(p)
  <2>1. Return(p) \/ Continue(p, goto("lookup")) \/ \E n : Continue(p, read("lookup", n))
    BY <1>11 DEF OpenBlobFile, goto, read
  <2> QED
    BY <1>1, <1>2, <1>4, <2>1, LocalWithoutCopy, ReturnWithoutCopy DEF Holding
<1>12. CASE RenamePutFile(p)
  <2>1. Return(p) \/ Continue(p, read("insert", None))
    BY <1>12 DEF RenamePutFile, read
  <2> QED
    BY <1>1, <1>4, <2>1, LocalWithoutCopy, ReturnWithoutCopy DEF Holding
<1>13. CASE LookupBlob(p)
  <2>1. Continue(p, goto("createPut")) \/ Continue(p, read("complete", None))
    BY <1>13 DEF LookupBlob, goto, read
  <2> QED
    BY <1>1, <1>2, <1>4, <2>1, LocalWithoutCopy DEF Holding
<1>14. CASE InsertBlob(p)
  BY <1>1, <1>2, <1>14, LocalWithoutCopy DEF InsertBlob, Holding, goto
<1>15. CASE CancelCopy(p) \/ UnlinkBlob(p) \/ \E n \in 0..MaxBlobSize : CancelWrite(p, n)
  BY <1>15, ReturnWithoutCopy DEF CancelCopy, UnlinkBlob, CancelWrite
<1>16. CASE RemoveTempFile(p)
  BY <1>16, NextUploadWithoutCopy DEF RemoveTempFile
<1>17. CASE Stat(p)
  <2> DEFINE local(n) == [r EXCEPT !.pc = "finalize", !.size = n, !.sess = Finalize(r.sess)]
  <2>1. \A n : local(n).pc = "finalize" /\ local(n).sess = Finalize(r.sess)
    BY <1>1 DEF RequestSet
  <2>2. Return(p) \/ \E n : Continue(p, local(n))
    BY <1>17 DEF Stat
  <2> HIDE DEF local
  <2> QED
    BY <1>1, <2>1, <2>2, SameExpected, LocalWithoutCopy, ReturnWithoutCopy DEF Holding
<1>18. CASE Hash(p)
  <2> DEFINE local == [r EXCEPT !.pc = "storeAborted", !.sess = Abort(r.sess)]
  <2>1. local.pc = "storeAborted" /\ local.sess = Abort(r.sess)
    BY <1>1 DEF RequestSet
  <2>2. Return(p) \/ Continue(p, goto("exists")) \/ Continue(p, local)
    BY <1>18 DEF Hash, goto
  <2> HIDE DEF local
  <2> QED
    BY <1>1, <1>2, <2>1, <2>2, SameExpected, LocalWithoutCopy, ReturnWithoutCopy DEF Holding
<1> QED
  BY <1>5, <1>6, <1>7, <1>8, <1>9, <1>10, <1>11, <1>12, <1>13, <1>14, <1>15, <1>16,
     <1>17, <1>18 DEF FileStep, BlobStep

LEMMA FileStepAtomic ==
  ASSUME TypeOK, AtomicInv, NEW p \in Proc, FileStep(p) \/ BlobStep(p)
  PROVE  AtomicInv' /\ quota' = quota
<1>1. quota' = quota /\ repos' = repos /\ uploads' = uploads
  BY DEF FileStep, BlobStep, OpenTemp, WriteChunk, CancelWrite, Stat, Hash, Exists, Move,
         OpenBlobFile, CreatePutFile, CopyToPutFile, CancelCopy, RenamePutFile,
         RemoveTempFile, UnlinkBlob, LookupBlob, InsertBlob, files
<1> QED
  BY <1>1, FileStepWithoutCopy, WithoutCopyAtomic DEF AtomicInv, SizesInv

LEMMA SessionStepWithoutCopy ==
  ASSUME TypeOK, AtomicInv, NEW p \in Proc, SessionStep(p)
  PROVE  WithoutCopy(p)
<1> DEFINE r == req[p]
           goto(where) == [r EXCEPT !.pc = where]
<1>1. r \in RequestSet /\ r.sess.expected \in Sizes
  BY RequestFields DEF AtomicInv, SizesInv
<1>2. \A where : goto(where).pc = where /\ goto(where).sess = r.sess
  BY <1>1 DEF RequestSet
<1> HIDE DEF goto
<1>3. ASSUME NEW where, where \notin Holding, Continue(p, goto(where))
      PROVE  WithoutCopy(p)
  BY <1>1, <1>2, <1>3, LocalWithoutCopy
<1>4. CASE RecordAndUpdate(p) \/ \E i \in Id : CreateUpload(p, i)
  BY <1>4, ReturnWithoutCopy DEF CreateUpload, RecordAndUpdate
<1>5. CASE StoreFinalizing(p)
  <2>1. Return(p) \/ Continue(p, goto("hash"))
    BY <1>5 DEF StoreFinalizing, goto
  <2> QED
    BY <1>3, <2>1, ReturnWithoutCopy DEF Holding
<1>6. CASE StoreAborted(p)
  <2>1. Return(p) \/ Continue(p, goto("readForRelease"))
    BY <1>6 DEF StoreAborted, goto
  <2> QED
    BY <1>3, <2>1, ReturnWithoutCopy DEF Holding
<1>7. CASE StoreCompleted(p)
  <2>1. Return(p) \/ Continue(p, goto("readForCommit"))
    BY <1>7 DEF StoreCompleted, goto
  <2> QED
    BY <1>3, <2>1, ReturnWithoutCopy DEF Holding
<1>8. CASE ForgetUpload(p)
  <2>1. NextUpload(p) \/ Continue(p, goto("removeTemp"))
    BY <1>8 DEF ForgetUpload, goto
  <2> QED
    BY <1>3, <2>1, NextUploadWithoutCopy DEF Holding
<1> QED
  BY <1>4, <1>5, <1>6, <1>7, <1>8 DEF SessionStep

LEMMA SessionStepAtomic ==
  ASSUME TypeOK, AtomicInv, NEW p \in Proc, SessionStep(p)
  PROVE  AtomicInv' /\ quota' = quota
<1> DEFINE r == req[p]
<1>1. quota' = quota /\ repos' = repos
  BY DEF SessionStep, CreateUpload, RecordAndUpdate, StoreFinalizing, StoreAborted,
         StoreCompleted, ForgetUpload
<1>2. /\ r.sess \in SessionSet /\ r.sess.expected \in Sizes
      /\ uploads \in [Id -> SessionSet] /\ \A i \in Id : uploads[i].expected \in Sizes
  BY RequestFields DEF AtomicInv, SizesInv, TypeOK
<1>3. ASSUME NEW i, NEW s, s.expected \in Sizes, uploads' = [uploads EXCEPT ![i] = s]
      PROVE  \A j \in Id : uploads'[j].expected \in Sizes
  BY <1>2, <1>3
<1>4. \/ uploads' = uploads
      \/ \E i, s : s.expected \in Sizes /\ uploads' = [uploads EXCEPT ![i] = s]
  <2>1. NoSession.expected \in Sizes
    BY DEF NoSession, Sizes
  <2>2. /\ Complete(r.sess).expected \in Sizes
        /\ \A c : RecordChunk(r.sess, c).expected \in Sizes
    BY <1>2, SameExpected
  <2> QED
    BY <1>2, <2>1, <2>2 DEF SessionStep, CreateUpload, RecordAndUpdate, StoreFinalizing,
       StoreAborted, StoreCompleted, ForgetUpload
<1>5. \A j \in Id : uploads'[j].expected \in Sizes
  BY <1>2, <1>3, <1>4
<1> QED
  BY <1>1, <1>5, SessionStepWithoutCopy, WithoutCopyAtomic

-----------------------------------------------------------------------------
(* Requests that begin *)

\* The service's operations on a record and those of the abstract specification
\* are the same.
LEMMA SameOperations ==
  ASSUME NEW q, NEW n
  PROVE  /\ Tenant!CanReserve(q, n) <=> CanReserve(q, n)
         /\ Tenant!CanCommit(q, n, n) <=> CanCommit(q, n, n)
         /\ Tenant!CanRelease(q, n) <=> CanRelease(q, n)
         /\ Tenant!Reserve(q, n) = Reserve(q, n)
         /\ Tenant!Commit(q, n, n) = Commit(q, n, n)
         /\ Tenant!Release(q, n) = Release(q, n)
         /\ Tenant!NewQuota(n) = NewQuota(n)
         /\ Tenant!NoQuota = NoQuota
BY DEF Tenant!CanReserve, CanReserve, Tenant!Remaining, Remaining, Tenant!CanCommit, CanCommit,
       Tenant!CanRelease, CanRelease, Tenant!Reserve, Reserve, Tenant!Commit, Commit,
       Tenant!Release, Release, Tenant!NewQuota, NewQuota, Tenant!NoQuota, NoQuota

LEMMA FollowsIsStep ==
  ASSUME Follows(quota, quota')
  PROVE  Tenant!Next
BY SameOperations DEF Follows, Tenant!Next, Tenant!ReserveBytes, Tenant!CommitBytes,
   Tenant!ReleaseBytes

\* A result is one version later.
LEMMA FollowsVersion ==
  ASSUME NEW q \in QuotaSet, NEW n
  PROVE  /\ Reserve(q, n).version = q.version + 1
         /\ Commit(q, n, n).version = q.version + 1
         /\ Release(q, n).version = q.version + 1
BY DEF QuotaSet, Reserve, Commit, Release

\* A handler takes a copy of the record that follows from it.
LEMMA CopyAtomic ==
  ASSUME TypeOK, AtomicInv, NEW p \in Proc, NEW local, Continue(p, local),
         UNCHANGED <<quota, repos, uploads>>, local.pc \in {"reserve", "settle"},
         local.sess.expected \in Sizes, quota.version # 0,
         Follows(quota, local.quota), local.quota.version = quota.version + 1
  PROVE  AtomicInv'
<1>1. req'[p] = local /\ \A q \in Proc : q # p => req'[q] = req[q]
  BY OthersStay
<1>2. SizesInv'
  BY <1>1 DEF AtomicInv, SizesInv
<1>3. ASSUME NEW q \in Proc, req'[q].pc = "putQuota"
      PROVE  q # p /\ req'[q] = req[q]
  BY <1>1, <1>3
<1>4. OpeningInv'
  BY <1>3 DEF AtomicInv, OpeningInv, At, OpenedAs
<1>5. quota.version \in Nat \ {0}
  BY DEF TypeOK, QuotaSet
<1>6. CopyFits(p)'
  BY <1>1, <1>5 DEF CopyFits, Follows
<1>7. ASSUME NEW q \in Proc, q # p
      PROVE  CopyFits(q)'
  BY <1>1, <1>7 DEF AtomicInv, CopyFits, At, Follows
<1> QED
  BY <1>2, <1>4, <1>6, <1>7 DEF AtomicInv

\* Nobody opens the record, and nobody holds a copy to store.
LEMMA NobodyHolds ==
  ASSUME TypeOK, AtomicInv, quota = NoQuota, NEW p \in Proc
  PROVE  ~At(p, "reserve") /\ ~At(p, "settle")
BY DEF AtomicInv, CopyFits, NoQuota

LEMMA CreateAtomic ==
  ASSUME OneRepository, TypeOK, AtomicInv, NEW p \in Proc, NEW r \in Repo, NEW limit \in Limit,
         CreateRepository(p, r, limit)
  PROVE  AtomicInv' /\ quota' = quota
<1> DEFINE local == [Idle EXCEPT !.pc = "putQuota", !.op = "create", !.quota = NewQuota(limit)]
<1>1. repos = {} /\ quota = NoQuota /\ repos' # {} /\ UNCHANGED <<quota, uploads>>
  BY DEF OneRepository, TypeOK, AtomicInv, OpeningInv, CreateRepository
<1>2. /\ local.pc = "putQuota" /\ local.sess.expected \in Sizes
      /\ local.quota = NewQuota(limit)
  BY DEF Idle, NoSession, Sizes
<1>3. req'[p] = local /\ \A q \in Proc : q # p => req'[q] = req[q]
  BY OthersStay DEF CreateRepository
<1> HIDE DEF local
<1>4. \A q \in Proc : ~At(q, "putQuota") /\ ~At(q, "reserve") /\ ~At(q, "settle")
  BY <1>1, NobodyHolds DEF AtomicInv, OpeningInv
<1>5. SizesInv'
  BY <1>1, <1>2, <1>3 DEF AtomicInv, SizesInv
<1>6. OpeningInv'
  BY <1>1, <1>2, <1>3, <1>4 DEF OpeningInv, OpenedAs, At
<1>7. \A q \in Proc : CopyFits(q)'
  BY <1>2, <1>3, <1>4 DEF CopyFits, At
<1> QED
  BY <1>1, <1>5, <1>6, <1>7 DEF AtomicInv

LEMMA StartAtomic ==
  ASSUME TypeOK, AtomicInv, NEW p \in Proc, NEW e \in ExpectedSize, StartUpload(p, e)
  PROVE  AtomicInv' /\ quota' = quota
<1> DEFINE free == [Idle EXCEPT !.pc = "createUpload", !.op = "start", !.sess = NewUploadSession(e)]
           metered == [Idle EXCEPT !.pc = "reserve", !.op = "start",
                                   !.sess = NewUploadSession(e), !.quota = Reserve(quota, e)]
<1>1. UNCHANGED <<quota, repos, uploads>> /\ quota \in QuotaSet
  BY DEF StartUpload, TypeOK
<1>2. NewUploadSession(e).expected \in Sizes
  BY DEF NewUploadSession, Sizes
<1>3. /\ free.pc = "createUpload" /\ free.sess = NewUploadSession(e)
      /\ metered.pc = "reserve" /\ metered.sess = NewUploadSession(e)
      /\ metered.quota = Reserve(quota, e)
  BY DEF Idle
<1>4. \/ Continue(p, free)
      \/ CanReserve(quota, e) /\ quota.version # 0 /\ Continue(p, metered)
  BY DEF StartUpload
<1> HIDE DEF free, metered
<1>5. CASE Continue(p, free)
  <2>1. WithoutCopy(p)
    BY <1>2, <1>3, <1>5, LocalWithoutCopy DEF Holding
  <2> QED
    BY <1>1, <2>1, WithoutCopyAtomic DEF AtomicInv, SizesInv
<1>6. CASE CanReserve(quota, e) /\ quota.version # 0 /\ Continue(p, metered)
  <2>1. Follows(quota, metered.quota) /\ metered.quota.version = quota.version + 1
    BY <1>1, <1>3, <1>6, FollowsVersion DEF Follows
  <2> QED
    BY <1>1, <1>2, <1>3, <1>6, <2>1, CopyAtomic
<1> QED
  BY <1>4, <1>5, <1>6

LEMMA BeginAtomic ==
  ASSUME OneRepository, TypeOK, AtomicInv, NEW p \in Proc, Begin(p)
  PROVE  AtomicInv' /\ quota' = quota
<1>1. ASSUME NEW local, Continue(p, local), local.pc \notin Holding,
             local.sess.expected \in Sizes, UNCHANGED <<quota, repos, uploads>>
      PROVE  AtomicInv' /\ quota' = quota
  <2>1. WithoutCopy(p)
    BY <1>1, LocalWithoutCopy
  <2> QED
    BY <1>1, <2>1, WithoutCopyAtomic DEF AtomicInv, SizesInv
<1>2. /\ uploads \in [Id -> SessionSet] /\ \A i \in Id : uploads[i].expected \in Sizes
      /\ Idle.sess.expected \in Sizes
  BY DEF AtomicInv, SizesInv, TypeOK, Idle, NoSession, Sizes
<1>3. ASSUME NEW i \in Id, NEW piece \in Piece, UploadChunk(p, i, piece)
      PROVE  AtomicInv' /\ quota' = quota
  <2> DEFINE local == [Idle EXCEPT !.pc = "openTemp", !.op = "chunk", !.id = i,
                                    !.sess = uploads[i], !.piece = piece]
  <2>1. local.pc = "openTemp" /\ local.sess = uploads[i]
    BY DEF Idle
  <2>2. Continue(p, local) /\ UNCHANGED <<quota, repos, uploads>>
    BY <1>3 DEF UploadChunk
  <2> HIDE DEF local
  <2> QED
    BY <1>1, <1>2, <2>1, <2>2 DEF Holding
<1>4. ASSUME NEW i \in Id, NEW d \in Digest, CompleteUpload(p, i, d)
      PROVE  AtomicInv' /\ quota' = quota
  <2> DEFINE local == [Idle EXCEPT !.pc = "stat", !.op = "complete", !.id = i,
                                    !.sess = uploads[i], !.claim = d]
  <2>1. local.pc = "stat" /\ local.sess = uploads[i]
    BY DEF Idle
  <2>2. Continue(p, local) /\ UNCHANGED <<quota, repos, uploads>>
    BY <1>4 DEF CompleteUpload
  <2> HIDE DEF local
  <2> QED
    BY <1>1, <1>2, <2>1, <2>2 DEF Holding
<1>5. ASSUME NEW i \in Id, AbortUpload(p, i)
      PROVE  AtomicInv' /\ quota' = quota
  <2> DEFINE where == IF uploads[i].expected = NoSize THEN "forget" ELSE "readForRelease"
             local == [Idle EXCEPT !.pc = where, !.op = "abort", !.id = i,
                                   !.sess = Abort(uploads[i])]
  <2>1. local.pc = where /\ local.sess = Abort(uploads[i])
    BY DEF Idle
  <2>2. Continue(p, local) /\ UNCHANGED <<quota, repos, uploads>>
    BY <1>5 DEF AbortUpload
  <2>3. where \notin Holding
    BY DEF Holding
  <2>4. Abort(uploads[i]).expected \in Sizes
    BY <1>2, SameExpected
  <2> HIDE DEF local, where
  <2> QED
    BY <1>1, <2>1, <2>2, <2>3, <2>4
<1>6. CASE JanitorRun(p)
  <2> DEFINE old == {i \in Id : uploads[i].state # "none" /\ i \in expired}
             local(i) == [Idle EXCEPT !.pc = "forget", !.op = "janitor", !.id = i,
                                      !.todo = old \ {i}]
  <2>1. \A i : local(i).pc = "forget" /\ local(i).sess = Idle.sess
    BY DEF Idle
  <2>2. PICK i \in old : Continue(p, local(i))
    BY <1>6 DEF JanitorRun
  <2>3. UNCHANGED <<quota, repos, uploads>>
    BY <1>6 DEF JanitorRun
  <2> HIDE DEF local, old
  <2> QED
    BY <1>1, <1>2, <2>1, <2>2, <2>3 DEF Holding
<1>7. ASSUME NEW d \in Digest, DeleteBlob(p, d)
      PROVE  AtomicInv' /\ quota' = quota
  <2> DEFINE local == [Idle EXCEPT !.pc = "unlink", !.op = "deleteBlob", !.claim = d]
  <2>1. local.pc = "unlink" /\ local.sess = Idle.sess
    BY DEF Idle
  <2>2. Continue(p, local) /\ UNCHANGED <<quota, repos, uploads>>
    BY <1>7 DEF DeleteBlob
  <2> HIDE DEF local
  <2> QED
    BY <1>1, <1>2, <2>1, <2>2 DEF Holding
<1> QED
  BY <1>3, <1>4, <1>5, <1>6, <1>7, CreateAtomic, StartAtomic DEF Begin

-----------------------------------------------------------------------------
(* Steps that store the record or take a copy of it *)

\* A handler that stores its copy makes one step of the record, and the copies the
\* others hold become stale.
LEMMA StoreAtomic ==
  ASSUME TypeOK, AtomicInv, NEW p \in Proc, At(p, "reserve") \/ At(p, "settle"),
         SameQuota(req[p].quota.version - 1), quota' = req[p].quota, WithoutCopy(p),
         UNCHANGED <<repos, uploads>>
  PROVE  AtomicInv' /\ Tenant!Next
<1>1. /\ quota.version \in Nat \ {0} /\ req[p].quota.version \in Nat
      /\ req[p].quota.version - 1 = quota.version
  BY RequestFields DEF TypeOK, QuotaSet, SameQuota
<1>2. Follows(quota, quota') /\ quota'.version = quota.version + 1
  BY <1>1 DEF AtomicInv, CopyFits
<1>3. SizesInv'
  BY DEF AtomicInv, SizesInv, WithoutCopy
<1>4. quota # NoQuota
  BY <1>1 DEF NoQuota
<1>5. OpeningInv'
  BY <1>4 DEF AtomicInv, OpeningInv, At, WithoutCopy, Holding
<1>6. ASSUME NEW q \in Proc, At(q, "reserve")' \/ At(q, "settle")'
      PROVE  /\ req'[q].quota.version - 1 \in 1..quota'.version
             /\ req'[q].quota.version - 1 # quota'.version
  <2>1. q # p /\ req'[q] = req[q] /\ (At(q, "reserve") \/ At(q, "settle"))
    BY <1>6 DEF WithoutCopy, Holding, At
  <2>2. req[q].quota.version \in Nat /\ req[q].quota.version - 1 \in 1..quota.version
    BY <2>1, RequestFields DEF AtomicInv, CopyFits, QuotaSet
  <2> QED
    BY <1>1, <1>2, <2>1, <2>2
<1>7. \A q \in Proc : CopyFits(q)'
  BY <1>6 DEF CopyFits
<1> QED
  BY <1>2, <1>3, <1>5, <1>7, FollowsIsStep DEF AtomicInv

LEMMA PutQuotaAtomic ==
  ASSUME TypeOK, AtomicInv, NEW p \in Proc, PutQuota(p)
  PROVE  AtomicInv' /\ Tenant!Next
<1>1. quota = NoQuota /\ repos # {} /\ OpenedAs(quota') /\ UNCHANGED <<repos, uploads>>
  BY DEF PutQuota, AtomicInv, OpeningInv
<1>2. WithoutCopy(p)
  BY ReturnWithoutCopy DEF PutQuota
<1>3. SizesInv'
  BY <1>1, <1>2 DEF AtomicInv, SizesInv, WithoutCopy
<1>4. \A q \in Proc : At(q, "putQuota") => q = p
  BY DEF PutQuota, AtomicInv, OpeningInv
<1>5. OpeningInv'
  BY <1>1, <1>2, <1>4 DEF OpeningInv, WithoutCopy, Holding, At
<1>6. \A q \in Proc : CopyFits(q)'
  BY <1>1, <1>2, NobodyHolds DEF CopyFits, WithoutCopy, Holding, At
<1>7. Tenant!Open
  BY <1>1, SameOperations DEF OpenedAs, Tenant!Open
<1> QED
  BY <1>3, <1>5, <1>6, <1>7 DEF AtomicInv, Tenant!Next

\* A declared size that is at least zero is one somebody declared.
LEMMA DeclaredSize ==
  ASSUME NEW n \in Sizes, n >= 0
  PROVE  n \in ExpectedSize
BY DEF Sizes, NoSize

LEMMA ReadAtomic ==
  ASSUME TypeOK, QuotaInv, AtomicInv, NEW p \in Proc, ReadForCommit(p) \/ ReadForRelease(p)
  PROVE  AtomicInv' /\ quota' = quota
<1> DEFINE r == req[p]
           n == r.sess.expected
           local(q) == [r EXCEPT !.pc = "settle", !.quota = q]
<1>1. /\ r \in RequestSet /\ WellFormed(r) /\ n \in Sizes /\ quota \in QuotaSet
  BY RequestFields DEF AtomicInv, SizesInv, TypeOK
<1>2. UNCHANGED <<quota, repos, uploads>>
  BY DEF ReadForCommit, ReadForRelease
<1>3. \A q : local(q).pc = "settle" /\ local(q).sess = r.sess /\ local(q).quota = q
  BY <1>1 DEF RequestSet
<1>4. ASSUME NEW q, Continue(p, local(q)), quota.version # 0, Follows(quota, q),
             q.version = quota.version + 1
      PROVE  AtomicInv'
  <2> HIDE DEF local
  <2> QED
    BY <1>1, <1>2, <1>3, <1>4, CopyAtomic
<1>5. ASSUME AfterQuota(p)
      PROVE  AtomicInv'
  BY <1>2, <1>5, AfterQuotaWithoutCopy, WithoutCopyAtomic DEF AtomicInv, SizesInv
<1>6. CASE ReadForCommit(p)
  <2>1. r.op = "complete" /\ r.pc = "readForCommit"
    BY <1>1, <1>6 DEF ReadForCommit, At, WellFormed
  <2>2. n # NoSize => r.size = n
    BY <2>1 DEF QuotaInv, SizedAsDeclared
  <2>3. ASSUME CanCommit(quota, n, r.size)
        PROVE  /\ Follows(quota, Commit(quota, n, r.size))
               /\ Commit(quota, n, r.size).version = quota.version + 1
    <3>1. n \in ExpectedSize /\ r.size = n
      BY <1>1, <2>2, <2>3, DeclaredSize DEF CanCommit, NoSize
    <3> QED
      BY <1>1, <2>3, <3>1, FollowsVersion DEF Follows
  <2>4. \/ AfterQuota(p)
        \/ /\ quota.version # 0 /\ CanCommit(quota, n, r.size)
           /\ Continue(p, local(Commit(quota, n, r.size)))
    BY <1>6 DEF ReadForCommit
  <2> HIDE DEF local
  <2> QED
    BY <1>2, <1>4, <1>5, <2>3, <2>4
<1>7. CASE ReadForRelease(p)
  <2>1. ASSUME CanRelease(quota, n)
        PROVE  /\ Follows(quota, Release(quota, n))
               /\ Release(quota, n).version = quota.version + 1
    <3>1. n \in ExpectedSize
      BY <1>1, <2>1, DeclaredSize DEF CanRelease
    <3> QED
      BY <1>1, <2>1, <3>1, FollowsVersion DEF Follows
  <2>2. \/ AfterQuota(p)
        \/ /\ quota.version # 0 /\ CanRelease(quota, n)
           /\ Continue(p, local(Release(quota, n)))
    BY <1>7 DEF ReadForRelease
  <2> HIDE DEF local
  <2> QED
    BY <1>2, <1>4, <1>5, <2>1, <2>2
<1> QED
  BY <1>6, <1>7

LEMMA QuotaStepAtomic ==
  ASSUME TypeOK, QuotaInv, AtomicInv, NEW p \in Proc, QuotaStep(p)
  PROVE  AtomicInv' /\ [Tenant!Next]_quota
<1> DEFINE r == req[p]
           local == [r EXCEPT !.pc = "createUpload", !.quota = NoQuota]
<1>1. r \in RequestSet /\ r.sess.expected \in Sizes
  BY RequestFields DEF AtomicInv, SizesInv
<1>2. CASE StoreReservation(p)
  <2>1. local.pc = "createUpload" /\ local.sess = r.sess
    BY <1>1 DEF RequestSet
  <2>2. UNCHANGED <<repos, uploads>> /\ At(p, "reserve")
    BY <1>2 DEF StoreReservation
  <2>3. \/ SameQuota(r.quota.version - 1) /\ quota' = r.quota /\ Continue(p, local)
        \/ Return(p) /\ quota' = quota
    BY <1>2 DEF StoreReservation
  <2> HIDE DEF local
  <2>4. WithoutCopy(p)
    BY <1>1, <2>1, <2>3, LocalWithoutCopy, ReturnWithoutCopy DEF Holding
  <2> QED
    BY <2>2, <2>3, <2>4, StoreAtomic, WithoutCopyAtomic DEF AtomicInv, SizesInv
<1>3. CASE StoreSettlement(p)
  <2>1. WithoutCopy(p)
    BY <1>3, AfterQuotaWithoutCopy DEF StoreSettlement
  <2>2. UNCHANGED <<repos, uploads>> /\ At(p, "settle")
    BY <1>3 DEF StoreSettlement
  <2>3. (SameQuota(r.quota.version - 1) /\ quota' = r.quota) \/ quota' = quota
    BY <1>3 DEF StoreSettlement
  <2> QED
    BY <2>1, <2>2, <2>3, StoreAtomic, WithoutCopyAtomic DEF AtomicInv, SizesInv
<1> QED
  BY <1>2, <1>3, PutQuotaAtomic, ReadAtomic DEF QuotaStep

-----------------------------------------------------------------------------
(* The theorem *)

LEMMA RestartAtomic ==
  ASSUME Restart
  PROVE  AtomicInv' /\ Tenant!Next
<1>1. \A p \in Proc : req'[p] = Idle
  BY DEF Restart
<1>2. Idle.pc = "idle" /\ Idle.sess = NoSession /\ NoSession.expected \in Sizes
  BY DEF Idle, NoSession, Sizes
<1>3. quota' = NoQuota /\ repos' = {} /\ \A i \in Id : uploads'[i] = NoSession
  BY DEF Restart
<1>4. AtomicInv'
  BY <1>1, <1>2, <1>3 DEF AtomicInv, SizesInv, OpeningInv, CopyFits, At
<1> QED
  BY <1>3, <1>4, SameOperations DEF Tenant!Next, Tenant!Lose

LEMMA AtomicInit == Init => AtomicInv /\ Tenant!Init
<1> SUFFICES ASSUME Init
             PROVE  AtomicInv /\ Tenant!Init
  OBVIOUS
<1>1. Idle.pc = "idle" /\ Idle.sess = NoSession /\ NoSession.expected \in Sizes
  BY DEF Idle, NoSession, Sizes
<1>2. AtomicInv
  BY <1>1 DEF Init, AtomicInv, SizesInv, OpeningInv, CopyFits, At
<1> QED
  BY <1>2, SameOperations DEF Init, Tenant!Init

LEMMA AtomicNext ==
  ASSUME OneRepository, TypeOK, QuotaInv, AtomicInv, [Next]_vars
  PROVE  AtomicInv' /\ [Tenant!Next]_quota
<1>1. CASE UNCHANGED vars
  <2>1. UNCHANGED <<repos, quota, uploads, req>>
    BY <1>1 DEF vars
  <2> QED
    BY <2>1 DEF AtomicInv, SizesInv, OpeningInv, CopyFits, At, Follows, OpenedAs
<1>2. ASSUME NEW i \in Id, Expire(i)
      PROVE  AtomicInv' /\ quota' = quota
  <2>1. UNCHANGED <<repos, quota, uploads, req>>
    BY <1>2 DEF Expire
  <2> QED
    BY <2>1 DEF AtomicInv, SizesInv, OpeningInv, CopyFits, At, Follows, OpenedAs
<1>3. ASSUME NEW p \in Proc, Begin(p) \/ Handler(p)
      PROVE  AtomicInv' /\ [Tenant!Next]_quota
  BY <1>3, BeginAtomic, QuotaStepAtomic, SessionStepAtomic, FileStepAtomic DEF Handler
<1> QED
  BY <1>1, <1>2, <1>3, RestartAtomic DEF Next, Environment

\* While the tenant has one repository, what the handlers do to the quota record in
\* separate critical sections (registry.go 386-423) is what they would do if each
\* reservation, commit and release were one atomic step, for any number of requests
\* and restarts.
THEOREM QuotaAtomic == ASSUME OneRepository PROVE Spec => QuotaIsAtomic
<1>1. TypeOK /\ QuotaInv /\ AtomicInv /\ [Next]_vars => AtomicInv' /\ [Tenant!Next]_quota
  BY AtomicNext
<1> QED
  BY <1>1, TypeInit, TypeNext, QuotaInit, QuotaNext, AtomicInit, PTL
  DEF Spec, QuotaIsAtomic, Tenant!Spec

-----------------------------------------------------------------------------
(***************************************************************************)
(* The sessions of UploadService.                                          *)
(*                                                                         *)
(* Exclusive finalization.  A version number names one state of a session: *)
(* a handler whose copy has the stored version holds the stored state.  So *)
(* of two completions that read the session open, the second to store      *)
(* finds that the version has moved on.                                    *)
(*                                                                         *)
(* Chunks.  The recorded chunks of an open session are disjoint, and the   *)
(* temp file is at least as long as each of them ends.  The handler that   *)
(* finalizes checks that they have no gap below the file's length, and     *)
(* only it ends a session; until it stored, the stored session is its copy.*)
(*                                                                         *)
(* The account.  The quota record covers the sum of what is owed for each  *)
(* upload and promised to each that is about to be created; every step     *)
(* that changes the record changes one of them by as much.                 *)
(***************************************************************************)

\* A handler between reading a session and storing its change of it.
HoldsCopy(r) ==
  \/ r.op = "chunk"
  \/ r.op = "complete" /\ r.pc \in {"stat", "finalize"}

ReadVersion(r) == IF r.pc = "finalize" THEN r.sess.version - 1 ELSE r.sess.version

ReadState(r) == IF r.pc = "finalize" THEN "open" ELSE r.sess.state

CopyCurrent(r) ==
  HoldsCopy(r) /\ uploads[r.id].state # "none" =>
    /\ ReadVersion(r) <= uploads[r.id].version
    /\ ReadVersion(r) = uploads[r.id].version => uploads[r.id].state = ReadState(r)

IsFinalizer(r) == r.op = "complete" /\ r.pc \notin {"stat", "finalize"}

\* While a completion is past the point of no return its session is not open.
Closed(r) == IsFinalizer(r) => uploads[r.id].state # "open"

LeftOpen(r) == r.op = "complete" /\ r.pc # "stat" => r.sess.state # "open"

Drawn(r) == r.op \in {"chunk", "complete"} => r.id \in minted

ExclusiveInv ==
  /\ \A i \in Id : uploads[i].state # "none" => i \in minted
  /\ \A p \in Proc : /\ CopyCurrent(req[p]) /\ Closed(req[p])
                     /\ LeftOpen(req[p]) /\ Drawn(req[p])
  /\ FinalizeExclusive

\* What a step may do to a session: nothing, delete it, create one with a new
\* identifier, or move it on by one version, never back to open.
MovesOn(i) ==
  \/ uploads'[i] = uploads[i]
  \/ uploads'[i].state = "none"
  \/ i \notin minted /\ i \in minted'
  \/ /\ uploads[i].state # "none"
     /\ uploads'[i].version = uploads[i].version + 1
     /\ uploads'[i].state = "open" => uploads[i].state = "open"

\* The other handlers' share of the invariant survives any such step.
LEMMA OthersFrame ==
  ASSUME TypeOK, ExclusiveInv, NEW q \in Proc, req'[q] = req[q],
         \A i \in Id : MovesOn(i), minted \subseteq minted'
  PROVE  CopyCurrent(req[q])' /\ Closed(req[q])' /\ LeftOpen(req[q])' /\ Drawn(req[q])'
<1> DEFINE r == req[q]
<1>1. /\ r.op \in {"chunk", "complete"} => r.id \in Id /\ r.id \in minted
      /\ r.sess.version \in Nat /\ \A i \in Id : uploads[i].version \in Nat
  <2>1. WellFormed(r) /\ r.sess \in SessionSet
    BY RequestFields
  <2>2. \A i \in Id : uploads[i] \in SessionSet
    BY DEF TypeOK
  <2> QED
    BY <2>1, <2>2 DEF WellFormed, SessionSet, ExclusiveInv, Drawn
<1>2. CopyCurrent(r)'
  BY <1>1 DEF ExclusiveInv, CopyCurrent, HoldsCopy, ReadVersion, ReadState, MovesOn
<1>3. Closed(r)'
  BY <1>1 DEF ExclusiveInv, Closed, IsFinalizer, MovesOn
<1>4. LeftOpen(r)' /\ Drawn(r)'
  BY DEF ExclusiveInv, LeftOpen, Drawn
<1> QED
  BY <1>2, <1>3, <1>4

\* A step of p that makes no new finalizer.
LEMMA ExclusiveFrame ==
  ASSUME TypeOK, ExclusiveInv, NEW p \in Proc, NEW local, Continue(p, local),
         \A i \in Id : MovesOn(i), minted \subseteq minted',
         \A i \in Id : uploads'[i].state # "none" => i \in minted',
         CopyCurrent(local)', Closed(local)', LeftOpen(local), Drawn(local)',
         IsFinalizer(local) => IsFinalizer(req[p]) /\ local.id = req[p].id
  PROVE  ExclusiveInv'
<1>1. req' = [req EXCEPT ![p] = local] /\ req'[p] = local /\ \A q \in Proc \ {p} : req'[q] = req[q]
  BY DEF Continue, TypeOK
<1>2. ASSUME NEW q \in Proc
      PROVE  /\ CopyCurrent(req[q])' /\ Closed(req[q])'
             /\ LeftOpen(req[q])' /\ Drawn(req[q])'
  <2>1. CASE q = p
    BY <1>1, <2>1 DEF CopyCurrent, Closed, LeftOpen, Drawn, HoldsCopy, ReadVersion, ReadState,
                      IsFinalizer
  <2>2. CASE q # p
    BY <1>1, <2>2, OthersFrame
  <2> QED
    BY <2>1, <2>2
<1>3. FinalizeExclusive'
  BY <1>1 DEF ExclusiveInv, FinalizeExclusive, Finalizers, IsFinalizer
<1> QED
  BY <1>2, <1>3 DEF ExclusiveInv

LEMMA ExclusiveReturn ==
  ASSUME TypeOK, ExclusiveInv, NEW p \in Proc, Return(p),
         \A i \in Id : MovesOn(i), minted \subseteq minted',
         \A i \in Id : uploads'[i].state # "none" => i \in minted'
  PROVE  ExclusiveInv'
<1>1. /\ CopyCurrent(Idle)' /\ Closed(Idle)' /\ LeftOpen(Idle) /\ Drawn(Idle)'
      /\ ~IsFinalizer(Idle)
  BY DEF CopyCurrent, Closed, LeftOpen, Drawn, HoldsCopy, IsFinalizer, Idle
<1> QED
  BY <1>1, ExclusiveFrame DEF Return

\* A handler that is neither a chunk nor a completion, or one that goes on
\* with the session it has read, past the update or still short of it.
Quiet(r, local) ==
  \/ local.op \notin {"chunk", "complete"}
  \/ /\ local.op = r.op /\ local.id = r.id
     /\ local.pc \notin {"stat", "finalize"} /\ r.pc \notin {"stat", "finalize"}
     /\ local.sess = r.sess \/ (local.op = "complete" /\ local.sess.state # "open")

\* A quiet step that leaves every session alone.
LEMMA QuietFrame ==
  ASSUME TypeOK, ExclusiveInv, NEW p \in Proc, NEW local, Continue(p, local),
         UNCHANGED uploads, UNCHANGED minted, Quiet(req[p], local)
  PROVE  ExclusiveInv'
<1>1. (\A i \in Id : MovesOn(i)) /\ minted \subseteq minted'
  BY DEF MovesOn
<1>2. \A i \in Id : uploads'[i].state # "none" => i \in minted'
  BY DEF ExclusiveInv
<1>3. CASE local.op \notin {"chunk", "complete"}
  BY <1>1, <1>2, <1>3, ExclusiveFrame
     DEF CopyCurrent, HoldsCopy, Closed, IsFinalizer, LeftOpen, Drawn
<1>4. CASE /\ local.op = req[p].op /\ local.id = req[p].id
           /\ local.pc \notin {"stat", "finalize"} /\ req[p].pc \notin {"stat", "finalize"}
           /\ local.sess = req[p].sess \/ (local.op = "complete" /\ local.sess.state # "open")
  <2>1. CopyCurrent(req[p]) /\ Closed(req[p]) /\ LeftOpen(req[p]) /\ Drawn(req[p])
    BY DEF ExclusiveInv
  <2>2. CopyCurrent(local)'
    BY <1>4, <2>1 DEF CopyCurrent, HoldsCopy, ReadVersion, ReadState
  <2>3. Closed(local)' /\ LeftOpen(local) /\ Drawn(local)'
    BY <1>4, <2>1 DEF Closed, IsFinalizer, LeftOpen, Drawn
  <2>4. IsFinalizer(local) => IsFinalizer(req[p]) /\ local.id = req[p].id
    BY <1>4 DEF IsFinalizer
  <2> QED
    BY <1>1, <1>2, <2>2, <2>3, <2>4, ExclusiveFrame
<1> QED
  BY <1>3, <1>4 DEF Quiet

LEMMA QuietReturn ==
  ASSUME TypeOK, ExclusiveInv, NEW p \in Proc, Return(p), UNCHANGED uploads, UNCHANGED minted
  PROVE  ExclusiveInv'
<1>1. Quiet(req[p], Idle)
  BY DEF Quiet, Idle
<1> QED
  BY <1>1, QuietFrame DEF Return

\* Reading a session gives a copy of what is stored.
JustRead(local, i) ==
  /\ local.id = i /\ local.sess = uploads[i] /\ uploads[i].state # "none"
  /\ \/ local.op = "chunk" /\ local.pc = "openTemp"
     \/ local.op = "complete" /\ local.pc = "stat"

LEMMA BeginExclusive ==
  ASSUME TypeOK, ExclusiveInv, NEW p \in Proc, Begin(p)
  PROVE  ExclusiveInv'
<1>1. UNCHANGED uploads /\ UNCHANGED minted
  BY DEF Begin, CreateRepository, StartUpload, UploadChunk, CompleteUpload, AbortUpload,
         JanitorRun, DeleteBlob
<1>2. ASSUME NEW local, Continue(p, local), local.op \notin {"chunk", "complete"}
      PROVE  ExclusiveInv'
  <2>1. Quiet(req[p], local)
    BY <1>2 DEF Quiet
  <2> QED
    BY <1>1, <1>2, <2>1, QuietFrame
<1>3. ASSUME NEW local, NEW i \in Id, Continue(p, local), JustRead(local, i)
      PROVE  ExclusiveInv'
  <2>1. (\A j \in Id : MovesOn(j)) /\ minted \subseteq minted'
    BY <1>1 DEF MovesOn
  <2>2. \A j \in Id : uploads'[j].state # "none" => j \in minted'
    BY <1>1 DEF ExclusiveInv
  <2>3. uploads[i].version \in Nat
    BY DEF TypeOK, SessionSet
  <2>4. CopyCurrent(local)'
    BY <1>1, <1>3, <2>3 DEF JustRead, CopyCurrent, HoldsCopy, ReadVersion, ReadState
  <2>5. Closed(local)' /\ LeftOpen(local) /\ Drawn(local)' /\ ~IsFinalizer(local)
    BY <1>1, <1>3, <2>2 DEF JustRead, Closed, IsFinalizer, LeftOpen, Drawn
  <2> QED
    BY <1>3, <2>1, <2>2, <2>4, <2>5, ExclusiveFrame
<1>4. ASSUME NEW r \in Repo, NEW limit \in Limit, CreateRepository(p, r, limit)
      PROVE  ExclusiveInv'
  BY <1>2, <1>4 DEF CreateRepository, Idle
<1>5. ASSUME NEW e \in ExpectedSize, StartUpload(p, e)
      PROVE  ExclusiveInv'
  BY <1>2, <1>5 DEF StartUpload, Idle
<1>6. ASSUME NEW i \in Id, NEW c \in Piece, UploadChunk(p, i, c)
      PROVE  ExclusiveInv'
  <2> DEFINE local == [Idle EXCEPT !.pc = "openTemp", !.op = "chunk", !.id = i,
                                    !.sess = uploads[i], !.piece = c]
  <2>1. Continue(p, local)
    BY <1>6 DEF UploadChunk
  <2>2. JustRead(local, i)
    BY <1>6 DEF UploadChunk, JustRead, Idle
  <2> QED
    BY <1>3, <2>1, <2>2
<1>7. ASSUME NEW i \in Id, NEW d \in Digest, CompleteUpload(p, i, d)
      PROVE  ExclusiveInv'
  <2> DEFINE local == [Idle EXCEPT !.pc = "stat", !.op = "complete", !.id = i,
                                    !.sess = uploads[i], !.claim = d]
  <2>1. Continue(p, local)
    BY <1>7 DEF CompleteUpload
  <2>2. JustRead(local, i)
    BY <1>7 DEF CompleteUpload, JustRead, Idle
  <2> QED
    BY <1>3, <2>1, <2>2
<1>8. ASSUME NEW i \in Id, AbortUpload(p, i)
      PROVE  ExclusiveInv'
  BY <1>2, <1>8 DEF AbortUpload, Idle
<1>9. CASE JanitorRun(p)
  BY <1>2, <1>9 DEF JanitorRun, Idle
<1>10. ASSUME NEW d \in Digest, DeleteBlob(p, d)
      PROVE  ExclusiveInv'
  BY <1>2, <1>10 DEF DeleteBlob, Idle
<1> QED
  BY <1>4, <1>5, <1>6, <1>7, <1>8, <1>9, <1>10 DEF Begin

\* Going on to another position with the session it has.
LEMMA GotoQuiet ==
  ASSUME NEW r \in RequestSet, NEW where, NEW m,
         r.pc # "stat", r.pc # "finalize", where # "stat", where # "finalize"
  PROVE  /\ Quiet(r, [r EXCEPT !.pc = where])
         /\ Quiet(r, [r EXCEPT !.pc = where, !.quota = m])
         /\ Quiet(r, [r EXCEPT !.pc = where, !.reads = m])
         /\ Quiet(r, [r EXCEPT !.pc = where, !.writes = m])
<1>1. ASSUME NEW local, local.pc = where, local.op = r.op, local.id = r.id, local.sess = r.sess
      PROVE  Quiet(r, local)
  BY <1>1 DEF Quiet
<1> DEFINE a == [r EXCEPT !.pc = where]
           b == [r EXCEPT !.pc = where, !.quota = m]
           c == [r EXCEPT !.pc = where, !.reads = m]
           d == [r EXCEPT !.pc = where, !.writes = m]
<1>2. /\ a.pc = where /\ a.op = r.op /\ a.id = r.id /\ a.sess = r.sess
      /\ b.pc = where /\ b.op = r.op /\ b.id = r.id /\ b.sess = r.sess
      /\ c.pc = where /\ c.op = r.op /\ c.id = r.id /\ c.sess = r.sess
      /\ d.pc = where /\ d.op = r.op /\ d.id = r.id /\ d.sess = r.sess
  BY DEF RequestSet
<1> HIDE DEF a, b, c, d
<1>3. Quiet(r, a) /\ Quiet(r, b) /\ Quiet(r, c) /\ Quiet(r, d)
  BY <1>1, <1>2
<1> QED
  BY <1>3 DEF a, b, c, d

LEMMA AfterQuotaExclusive ==
  ASSUME TypeOK, ExclusiveInv, NEW p \in Proc, AfterQuota(p), UNCHANGED uploads, UNCHANGED minted
  PROVE  ExclusiveInv'
<1> DEFINE local == [req[p] EXCEPT !.pc = "forget", !.quota = NoQuota]
<1>1. req[p] \in RequestSet
  BY RequestFields
<1>2. req[p].op = "abort" => Quiet(req[p], local)
  BY <1>1 DEF RequestSet, Quiet
<1> QED
  BY <1>2, QuietFrame, QuietReturn DEF AfterQuota

LEMMA NextUploadExclusive ==
  ASSUME TypeOK, ExclusiveInv, NEW p \in Proc, NextUpload(p), UNCHANGED uploads, UNCHANGED minted,
         req[p].pc \in {"forget", "removeTemp"}
  PROVE  ExclusiveInv'
<1> DEFINE local(i) == [req[p] EXCEPT !.pc = "forget", !.id = i, !.todo = @ \ {i}]
<1>1. req[p] \in RequestSet /\ WellFormed(req[p])
  BY RequestFields
<1>2. req[p].op \notin {"chunk", "complete"}
  BY <1>1 DEF WellFormed
<1>3. \A i : Quiet(req[p], local(i))
  BY <1>1, <1>2 DEF RequestSet, Quiet
<1> QED
  BY <1>3, QuietFrame, QuietReturn DEF NextUpload

LEMMA QuotaStepExclusive ==
  ASSUME TypeOK, ExclusiveInv, NEW p \in Proc, QuotaStep(p)
  PROVE  ExclusiveInv'
<1> DEFINE r == req[p]
<1>1. r \in RequestSet
  BY RequestFields
<1>2. UNCHANGED uploads /\ UNCHANGED minted
  BY DEF QuotaStep, PutQuota, StoreReservation, ReadForCommit, ReadForRelease, StoreSettlement
<1>3. CASE PutQuota(p)
  BY <1>2, <1>3, QuietReturn DEF PutQuota
<1>4. CASE StoreReservation(p)
  <2>1. Quiet(r, [r EXCEPT !.pc = "createUpload", !.quota = NoQuota])
    BY <1>1, <1>4, GotoQuiet DEF StoreReservation, At
  <2> QED
    BY <1>2, <1>4, <2>1, QuietFrame, QuietReturn DEF StoreReservation
<1>5. ASSUME NEW q, Continue(p, [r EXCEPT !.pc = "settle", !.quota = q]),
             r.pc # "stat", r.pc # "finalize"
      PROVE  ExclusiveInv'
  <2>1. Quiet(r, [r EXCEPT !.pc = "settle", !.quota = q])
    BY <1>1, <1>5, GotoQuiet
  <2> QED
    BY <1>2, <1>5, <2>1, QuietFrame
<1>6. CASE ReadForCommit(p)
  BY <1>2, <1>5, <1>6, AfterQuotaExclusive DEF ReadForCommit, At
<1>7. CASE ReadForRelease(p)
  BY <1>2, <1>5, <1>7, AfterQuotaExclusive DEF ReadForRelease, At
<1>8. CASE StoreSettlement(p)
  BY <1>2, <1>8, AfterQuotaExclusive DEF StoreSettlement
<1> QED
  BY <1>3, <1>4, <1>6, <1>7, <1>8 DEF QuotaStep

LEMMA FileStepExclusive ==
  ASSUME TypeOK, ExclusiveInv, NEW p \in Proc, FileStep(p) \/ BlobStep(p)
  PROVE  ExclusiveInv'
<1> DEFINE r == req[p]
           goto(where) == [r EXCEPT !.pc = where]
<1>1. r \in RequestSet /\ WellFormed(r) /\ r.sess \in SessionSet
  BY RequestFields
<1>2. UNCHANGED uploads /\ UNCHANGED minted
  BY DEF FileStep, BlobStep, OpenTemp, WriteChunk, CancelWrite, Stat, Hash, Exists, Move,
         OpenBlobFile, CreatePutFile, CopyToPutFile, CancelCopy, RenamePutFile,
         RemoveTempFile, UnlinkBlob, LookupBlob, InsertBlob, files
<1>3. Return(p) => ExclusiveInv'
  BY <1>2, QuietReturn
<1>4. ASSUME NEW where, where # "stat", where # "finalize", r.pc # "stat", r.pc # "finalize",
             NEW m,
             \/ Continue(p, goto(where))
             \/ Continue(p, [r EXCEPT !.pc = where, !.writes = m])
             \/ Continue(p, [r EXCEPT !.pc = where, !.reads = m])
      PROVE  ExclusiveInv'
  <2>1. /\ Quiet(r, goto(where))
        /\ Quiet(r, [r EXCEPT !.pc = where, !.writes = m])
        /\ Quiet(r, [r EXCEPT !.pc = where, !.reads = m])
    BY <1>1, <1>4, GotoQuiet
  <2> QED
    BY <1>2, <1>4, <2>1, QuietFrame
<1>5. CASE OpenTemp(p) \/ WriteChunk(p) \/ Exists(p) \/ Move(p)
  BY <1>3, <1>4, <1>5 DEF OpenTemp, WriteChunk, Exists, Move, At
<1>6. CASE OpenBlobFile(p) \/ CreatePutFile(p) \/ CopyToPutFile(p) \/ RenamePutFile(p)
  BY <1>3, <1>4, <1>6 DEF OpenBlobFile, CreatePutFile, CopyToPutFile, RenamePutFile, At
<1>7. CASE BlobStep(p)
  BY <1>3, <1>4, <1>7 DEF BlobStep, LookupBlob, InsertBlob, At
<1>8. CASE CancelCopy(p) \/ UnlinkBlob(p) \/ \E n \in 0..MaxBlobSize : CancelWrite(p, n)
  BY <1>3, <1>8 DEF CancelCopy, UnlinkBlob, CancelWrite
<1>9. CASE RemoveTempFile(p)
  BY <1>2, <1>9, NextUploadExclusive DEF RemoveTempFile, At
<1>10. CASE Hash(p)
  <2> DEFINE local == [r EXCEPT !.pc = "storeAborted", !.sess = Abort(r.sess)]
  <2>1. r.op = "complete" /\ r.pc = "hash"
    BY <1>1, <1>10 DEF Hash, At, WellFormed
  <2>2. Abort(r.sess).state # "open"
    BY <1>1 DEF Abort, SessionSet
  <2>3. Quiet(r, local)
    BY <1>1, <2>1, <2>2 DEF RequestSet, Quiet
  <2>4. Continue(p, local) => ExclusiveInv'
    BY <1>2, <2>3, QuietFrame
  <2> QED
    BY <1>3, <1>4, <1>10, <2>4 DEF Hash, At
<1>11. CASE Stat(p)
  <2> DEFINE n == Len(data[tempFile[r.id]])
             local == [r EXCEPT !.pc = "finalize", !.size = n, !.sess = Finalize(r.sess)]
  <2> SUFFICES ASSUME r.sess.state = "open", Continue(p, local)
               PROVE  ExclusiveInv'
    BY <1>3, <1>11 DEF Stat, CanFinalize
  <2>1. r.op = "complete" /\ r.pc = "stat"
    BY <1>1, <1>11 DEF Stat, At, WellFormed
  <2>2. CopyCurrent(r) /\ Drawn(r)
    BY DEF ExclusiveInv
  <2>3. /\ local.op = "complete" /\ local.pc = "finalize" /\ local.id = r.id
        /\ local.sess = Finalize(r.sess)
    BY <1>1, <2>1 DEF RequestSet
  <2>4. Finalize(r.sess).version - 1 = r.sess.version /\ Finalize(r.sess).state = "finalizing"
    BY <1>1 DEF Finalize, SessionSet
  <2> HIDE DEF local
  <2>5. (\A i \in Id : MovesOn(i)) /\ minted \subseteq minted'
    BY <1>2 DEF MovesOn
  <2>6. \A i \in Id : uploads'[i].state # "none" => i \in minted'
    BY <1>2 DEF ExclusiveInv
  <2>7. ASSUME NEW new, Continue(p, new), new.op = "complete", new.pc = "finalize",
               new.id = r.id, new.sess = Finalize(r.sess)
        PROVE  ExclusiveInv'
    <3>1. CopyCurrent(new)'
      BY <1>2, <2>1, <2>2, <2>4, <2>7 DEF CopyCurrent, HoldsCopy, ReadVersion, ReadState
    <3>2. Closed(new)' /\ LeftOpen(new) /\ Drawn(new)' /\ ~IsFinalizer(new)
      BY <1>2, <2>1, <2>2, <2>4, <2>7 DEF Closed, IsFinalizer, LeftOpen, Drawn
    <3> QED
      BY <2>5, <2>6, <2>7, <3>1, <3>2, ExclusiveFrame
  <2> QED
    BY <2>3, <2>7
<1> QED
  BY <1>5, <1>6, <1>7, <1>8, <1>9, <1>10, <1>11 DEF FileStep

\* A finalizer whose step moves its session on keeps the invariant.
LEMMA FinalizerFrame ==
  ASSUME TypeOK, ExclusiveInv, NEW p \in Proc, NEW local, Continue(p, local),
         IsFinalizer(req[p]), req[p].id \in Id, req[p].sess.state # "open",
         local.op = req[p].op, local.id = req[p].id, local.sess = req[p].sess,
         local.pc \notin {"stat", "finalize"},
         \A i \in Id : MovesOn(i), UNCHANGED minted
  PROVE  ExclusiveInv'
<1>1. Closed(req[p]) /\ Drawn(req[p])
  BY DEF ExclusiveInv
<1>2. uploads'[req[p].id].state # "open"
  BY <1>1 DEF Closed, MovesOn
<1>3. \A i \in Id : uploads'[i].state # "none" => i \in minted'
  BY DEF ExclusiveInv, MovesOn
<1>4. CopyCurrent(local)' /\ Closed(local)' /\ LeftOpen(local) /\ Drawn(local)'
  BY <1>1, <1>2 DEF CopyCurrent, HoldsCopy, Closed, LeftOpen, Drawn, IsFinalizer
<1> QED
  BY <1>3, <1>4, ExclusiveFrame DEF IsFinalizer

\* The step that makes a finalizer makes it of a session that is open.
LEMMA FinalizingFrame ==
  ASSUME TypeOK, ExclusiveInv, NEW p \in Proc, NEW local, Continue(p, local),
         local.op = "complete", local.pc = "hash", local.id \in Id, local.sess.state # "open",
         local.id \in minted, uploads[local.id].state = "open",
         uploads'[local.id].state # "open", \A i \in Id : MovesOn(i), UNCHANGED minted
  PROVE  ExclusiveInv'
<1>1. req'[p] = local /\ \A q \in Proc \ {p} : req'[q] = req[q]
  BY DEF Continue, TypeOK
<1>2. /\ CopyCurrent(local)' /\ Closed(local)' /\ LeftOpen(local) /\ Drawn(local)'
  BY DEF CopyCurrent, HoldsCopy, Closed, LeftOpen, Drawn, IsFinalizer
<1>3. ASSUME NEW q \in Proc
      PROVE  /\ CopyCurrent(req[q])' /\ Closed(req[q])'
             /\ LeftOpen(req[q])' /\ Drawn(req[q])'
  <2>1. CASE q = p
    BY <1>1, <1>2, <2>1 DEF CopyCurrent, Closed, LeftOpen, Drawn, HoldsCopy, ReadVersion,
                            ReadState, IsFinalizer
  <2>2. CASE q # p
    BY <1>1, <2>2, OthersFrame
  <2> QED
    BY <2>1, <2>2
<1>4. \A q \in Proc : q # p /\ IsFinalizer(req[q]) => req[q].id # local.id
  BY DEF ExclusiveInv, Closed
<1>5. FinalizeExclusive'
  BY <1>1, <1>4 DEF ExclusiveInv, FinalizeExclusive, Finalizers, IsFinalizer
<1>6. \A i \in Id : uploads'[i].state # "none" => i \in minted'
  BY DEF ExclusiveInv, MovesOn
<1> QED
  BY <1>3, <1>5, <1>6 DEF ExclusiveInv

\* The stores of sessions: the four conditional updates, the insert and the
\* delete.  Only StoreFinalizing makes a finalizer, and it makes one from a
\* session that is still open, which therefore has none.
LEMMA SessionStepExclusive ==
  ASSUME TypeOK, ExclusiveInv, NEW p \in Proc, SessionStep(p)
  PROVE  ExclusiveInv'
<1> DEFINE r == req[p]
           goto(where) == [r EXCEPT !.pc = where]
<1>1. r \in RequestSet /\ WellFormed(r) /\ r.sess \in SessionSet /\ uploads \in [Id -> SessionSet]
  BY RequestFields DEF TypeOK
<1>2. CopyCurrent(r) /\ Closed(r) /\ LeftOpen(r) /\ Drawn(r)
  BY DEF ExclusiveInv
<1>3. ASSUME NEW i \in Id, CreateUpload(p, i)
      PROVE  ExclusiveInv'
  <2>1. (\A j \in Id : MovesOn(j)) /\ minted \subseteq minted'
    BY <1>1, <1>3 DEF CreateUpload, MovesOn
  <2>2. \A j \in Id : uploads'[j].state # "none" => j \in minted'
    BY <1>1, <1>3 DEF CreateUpload, ExclusiveInv
  <2> QED
    BY <1>3, <2>1, <2>2, ExclusiveReturn DEF CreateUpload
<1>5. CASE RecordAndUpdate(p)
  <2>1. r.op = "chunk" /\ r.pc = "record" /\ r.id \in Id /\ minted' = minted /\ Return(p)
    BY <1>1, <1>5 DEF RecordAndUpdate, At, WellFormed
  <2> DEFINE new == RecordChunk(r.sess, ChunkOf(r.piece))
  <2>2. new.version = r.sess.version + 1 /\ new.state = r.sess.state
    BY <1>1 DEF RecordChunk, SessionSet
  <2>3. CASE UNCHANGED uploads
    BY <2>1, <2>3, QuietReturn
  <2>4. CASE SameUpload(r.id, r.sess.version) /\ uploads' = [uploads EXCEPT ![r.id] = new]
    <3>1. uploads[r.id].state # "none" /\ uploads[r.id].version = r.sess.version
      BY <2>4 DEF SameUpload
    <3>2. uploads[r.id].state = r.sess.state
      BY <1>2, <2>1, <3>1 DEF CopyCurrent, HoldsCopy, ReadVersion, ReadState
    <3> HIDE DEF new
    <3>3. \A i \in Id : MovesOn(i)
      BY <1>1, <2>1, <2>2, <2>4, <3>1, <3>2 DEF MovesOn
    <3>4. \A i \in Id : uploads'[i].state # "none" => i \in minted'
      BY <1>1, <1>2, <2>1, <2>4 DEF ExclusiveInv, Drawn
    <3> QED
      BY <2>1, <3>3, <3>4, ExclusiveReturn
  <2> QED
    BY <1>5, <2>3, <2>4 DEF RecordAndUpdate
<1>6. CASE StoreFinalizing(p)
  <2> DEFINE local == goto("hash")
  <2>1. r.op = "complete" /\ r.pc = "finalize" /\ r.id \in Id
    BY <1>1, <1>6 DEF StoreFinalizing, At, WellFormed
  <2>2. r.sess.state # "open" /\ r.id \in minted /\ minted' = minted
    BY <1>2, <1>6, <2>1 DEF LeftOpen, Drawn, StoreFinalizing
  <2>3. CASE Return(p) /\ UNCHANGED uploads
    BY <2>2, <2>3, QuietReturn
  <2>4. CASE /\ SameUpload(r.id, r.sess.version - 1) /\ Continue(p, local)
             /\ uploads' = [uploads EXCEPT ![r.id] = r.sess]
    <3>1. uploads[r.id].state # "none" /\ uploads[r.id].version = r.sess.version - 1
      BY <2>4 DEF SameUpload
    <3>2. uploads[r.id].state = "open"
      BY <1>2, <2>1, <3>1 DEF CopyCurrent, HoldsCopy, ReadVersion, ReadState
    <3>3. uploads'[r.id] = r.sess /\ r.sess.version = uploads[r.id].version + 1
      BY <1>1, <2>1, <2>4, <3>1 DEF SessionSet
    <3>4. \A i \in Id : MovesOn(i)
      BY <1>1, <2>2, <2>4, <3>1, <3>3 DEF MovesOn
    <3>5. /\ local.op = "complete" /\ local.pc = "hash" /\ local.id = r.id
          /\ local.sess = r.sess
      BY <1>1, <2>1 DEF RequestSet
    <3> QED
      BY <2>1, <2>2, <2>4, <3>2, <3>3, <3>4, <3>5, FinalizingFrame
  <2> QED
    BY <1>6, <2>3, <2>4 DEF StoreFinalizing
<1>7. ASSUME NEW where, where \notin {"stat", "finalize"}, r.op = "complete",
             r.pc \notin {"stat", "finalize"}, r.id \in Id,
             \A i \in Id : MovesOn(i), UNCHANGED minted,
             Return(p) \/ Continue(p, goto(where))
      PROVE  ExclusiveInv'
  <2>1. IsFinalizer(r) /\ r.sess.state # "open"
    BY <1>2, <1>7 DEF IsFinalizer, LeftOpen
  <2>2. \A i \in Id : uploads'[i].state # "none" => i \in minted'
    BY <1>7 DEF ExclusiveInv, MovesOn
  <2>3. CASE Return(p)
    BY <1>7, <2>2, <2>3, ExclusiveReturn
  <2>4. /\ goto(where).op = r.op /\ goto(where).id = r.id /\ goto(where).sess = r.sess
        /\ goto(where).pc = where
    BY <1>1 DEF RequestSet
  <2>5. CASE Continue(p, goto(where))
    BY <1>7, <2>1, <2>4, <2>5, FinalizerFrame
  <2> QED
    BY <1>7, <2>3, <2>5
<1>8. CASE StoreAborted(p)
  <2>1. r.op = "complete" /\ r.pc = "storeAborted" /\ r.id \in Id
    BY <1>1, <1>8 DEF StoreAborted, At, WellFormed
  <2>2. r.sess.state # "open" /\ minted' = minted
    BY <1>2, <1>8, <2>1 DEF LeftOpen, StoreAborted
  <2>3. SameUpload(r.id, r.sess.version - 1) =>
          uploads[r.id].state # "none" /\ r.sess.version = uploads[r.id].version + 1
    BY <1>1, <2>1 DEF SameUpload, SessionSet
  <2>4. \A i \in Id : MovesOn(i)
    BY <1>1, <1>8, <2>1, <2>2, <2>3 DEF StoreAborted, MovesOn
  <2> QED
    BY <1>7, <1>8, <2>1, <2>2, <2>4 DEF StoreAborted
<1>9. CASE StoreCompleted(p)
  <2> DEFINE new == Complete(r.sess)
  <2>1. r.op = "complete" /\ r.pc = "complete" /\ r.id \in Id /\ minted' = minted
    BY <1>1, <1>9 DEF StoreCompleted, At, WellFormed
  <2>2. new.version = r.sess.version + 1 /\ new.state = "completed"
    BY <1>1 DEF Complete, SessionSet
  <2>3. SameUpload(r.id, r.sess.version) =>
          uploads[r.id].state # "none" /\ new.version = uploads[r.id].version + 1
    BY <2>2 DEF SameUpload
  <2>4. UNCHANGED uploads \/ (SameUpload(r.id, r.sess.version) /\ uploads' = [uploads EXCEPT ![r.id] = new])
    BY <1>9 DEF StoreCompleted
  <2> HIDE DEF new
  <2>5. \A i \in Id : MovesOn(i)
    BY <1>1, <2>1, <2>2, <2>3, <2>4 DEF MovesOn
  <2> QED
    BY <1>7, <1>9, <2>1, <2>5 DEF StoreCompleted
<1>10. CASE ForgetUpload(p)
  <2>1. r.op \in {"abort", "janitor"} /\ r.pc = "forget" /\ r.id \in Id /\ minted' = minted
    BY <1>1, <1>10 DEF ForgetUpload, At, WellFormed
  <2>2. CASE NextUpload(p) /\ UNCHANGED uploads
    BY <2>1, <2>2, NextUploadExclusive
  <2>3. CASE uploads' = [uploads EXCEPT ![r.id] = NoSession] /\ Continue(p, goto("removeTemp"))
    <3>1. \A i \in Id : MovesOn(i)
      BY <1>1, <2>1, <2>3 DEF MovesOn, NoSession
    <3>2. \A i \in Id : uploads'[i].state # "none" => i \in minted'
      BY <2>1, <3>1 DEF ExclusiveInv, MovesOn
    <3>3. goto("removeTemp").op \notin {"chunk", "complete"}
      BY <1>1, <2>1 DEF RequestSet
    <3>4. ASSUME NEW local, local.op \notin {"chunk", "complete"}, Continue(p, local)
          PROVE  ExclusiveInv'
      <4>1. /\ CopyCurrent(local)' /\ Closed(local)' /\ LeftOpen(local) /\ Drawn(local)'
            /\ ~IsFinalizer(local)
        BY <3>4 DEF CopyCurrent, HoldsCopy, Closed, IsFinalizer, LeftOpen, Drawn
      <4> QED
        BY <2>1, <3>1, <3>2, <3>4, <4>1, ExclusiveFrame
    <3> QED
      BY <2>3, <3>3, <3>4
  <2> QED
    BY <1>10, <2>2, <2>3 DEF ForgetUpload
<1> QED
  BY <1>3, <1>5, <1>6, <1>8, <1>9, <1>10 DEF SessionStep

LEMMA ExclusiveInit == Init => ExclusiveInv
BY DEF Init, ExclusiveInv, CopyCurrent, HoldsCopy, Closed, IsFinalizer, LeftOpen, Drawn,
       FinalizeExclusive, Finalizers, Idle, NoSession

LEMMA ExclusiveNext == TypeOK /\ ExclusiveInv /\ [Next]_vars => ExclusiveInv'
<1> SUFFICES ASSUME TypeOK, ExclusiveInv, [Next]_vars
             PROVE  ExclusiveInv'
  OBVIOUS
<1>1. CASE UNCHANGED vars
  BY <1>1 DEF vars, ExclusiveInv, CopyCurrent, HoldsCopy, ReadVersion, ReadState, Closed,
              IsFinalizer, LeftOpen, Drawn, FinalizeExclusive, Finalizers
<1>2. CASE Restart
  BY <1>2 DEF Restart, ExclusiveInv, CopyCurrent, HoldsCopy, Closed, IsFinalizer, LeftOpen,
              Drawn, FinalizeExclusive, Finalizers, Idle, NoSession
<1>3. ASSUME NEW i \in Id, Expire(i)
      PROVE  ExclusiveInv'
  BY <1>3 DEF Expire, ExclusiveInv, CopyCurrent, HoldsCopy, ReadVersion, ReadState, Closed,
              IsFinalizer, LeftOpen, Drawn, FinalizeExclusive, Finalizers
<1> QED
  BY <1>1, <1>2, <1>3, BeginExclusive, QuotaStepExclusive, SessionStepExclusive,
     FileStepExclusive
  DEF Next, Handler, Environment

\* Of any number of completions of one session at most one gets past the
\* conditional update, so no upload's content is published twice.
THEOREM FinalizeOnce == Spec => []FinalizeExclusive
<1>1. ExclusiveInv => FinalizeExclusive
  BY DEF ExclusiveInv
<1> QED
  BY <1>1, TypeCorrect, ExclusiveInit, ExclusiveNext, PTL DEF Spec

-----------------------------------------------------------------------------
(* What chunks cover. *)

\* A set of numbers from -1 to n has a greatest one: of the sets of numbers
\* above each of them one contains no other.
LEMMA GreatestExists ==
  ASSUME NEW n \in Nat, NEW K \in SUBSET (-1..n), K # {}
  PROVE  \E m \in K : \A k \in K : k <= m
<1> DEFINE S == -1..n
           R == StrictSubsetOrdering(S)
           above(k) == (k + 1)..n
           T == {above(k) : k \in K}
<1>1. IsFiniteSet(S)
  BY FS_Interval
<1>2. IsWellFoundedOn(R, SUBSET S)
  <2>1. FiniteSubsetsOf(S) = SUBSET S
    BY <1>1, FS_FiniteSubsetsOfFinite
  <2>2. IsWellFoundedOn(R, FiniteSubsetsOf(S))
    BY FS_StrictSubsetOrderingWellFounded
  <2> QED
    BY <2>1, <2>2
<1>3. T \subseteq SUBSET S /\ T # {}
  <2>1. \A k \in K : above(k) \in SUBSET S
    OBVIOUS
  <2> HIDE DEF above, S
  <2> QED
    BY <2>1
<1>4. PICK t \in T : \A u \in T : <<u, t>> \notin R
  <2> HIDE DEF R, S, T
  <2> QED
    BY <1>2, <1>3, WFMin
<1>5. PICK m \in K : t = above(m)
  OBVIOUS
<1>6. ASSUME NEW k \in K, k > m
      PROVE  FALSE
  <2>1. above(k) \in T /\ above(k) \subseteq above(m) /\ above(k) # above(m)
    <3>1. k \in above(m) /\ k \notin above(k)
      BY <1>6
    <3> QED
      BY <1>6, <3>1
  <2>2. <<above(k), t>> \in R
    BY <1>3, <1>5, <2>1 DEF StrictSubsetOrdering
  <2> QED
    BY <1>4, <2>1, <2>2
<1> QED
  BY <1>6

LEMMA ChunkType ==
  ASSUME NEW c \in ChunkSet
  PROVE  c.range.start \in Nat /\ c.range.end \in Nat /\ c.range.start <= c.range.end
<1>1. PICK piece \in Piece : c = ChunkOf(piece)
  BY DEF ChunkSet
<1>2. piece.start \in Nat /\ Len(piece.bytes) \in Nat /\ Len(piece.bytes) > 0
  BY PieceAssumption
<1> QED
  BY <1>1, <1>2 DEF ChunkOf, RangeOf

\* The chunks of s are the bytes 0 .. n-1, and s is of the declared size.
Tiles(s, n) ==
  /\ \A b \in 0..(n - 1) : Covered(s.chunks, b)
  /\ \A c \in s.chunks : c.range.end < n
  /\ s.expected # NoSize => s.expected = n

\* A session may be finalized only with chunks that leave no gap.
LEMMA FinalizeTiles ==
  ASSUME NEW s \in SessionSet, NEW size \in Nat, NEW late, CanFinalize(s, size, late),
         \A c \in s.chunks : c.range.end < size
  PROVE  Tiles(s, size)
<1> DEFINE ends == {-1} \union {c.range.end : c \in s.chunks}
           K == {f \in ends : \A b \in 0..f : Covered(s.chunks, b)}
           e == ContiguousEnd(s.chunks)
<1>1. s.chunks \subseteq ChunkSet
  BY DEF SessionSet
<1>2. ASSUME e = size - 1
      PROVE  \A b \in 0..(size - 1) : Covered(s.chunks, b)
  <2>1. ends \subseteq -1..size
    BY <1>1, ChunkType
  <2>2. -1 \in K
    OBVIOUS
  <2>3. K \in SUBSET (-1..size) /\ K # {}
    BY <2>1, <2>2
  <2>4. \E m \in K : \A k \in K : k <= m
    <3> HIDE DEF K
    <3> QED
      BY <2>3, GreatestExists
  <2>5. \E m \in ends : /\ \A b \in 0..m : Covered(s.chunks, b)
                        /\ \A f \in ends : (\A b \in 0..f : Covered(s.chunks, b)) => f <= m
    BY <2>4
  <2>6. \A b \in 0..e : Covered(s.chunks, b)
    <3> HIDE DEF ends
    <3> QED
      BY <2>5 DEF ContiguousEnd, ends
  <2> QED
    BY <1>2, <2>6
<1>3. ASSUME size = 0 /\ s.chunks = {}
      PROVE  \A b \in 0..(size - 1) : Covered(s.chunks, b)
  BY <1>3
<1>4. \A b \in 0..(size - 1) : Covered(s.chunks, b)
  BY <1>2, <1>3 DEF CanFinalize
<1> QED
  BY <1>4 DEF CanFinalize, Tiles

\* Chunks that are the bytes 0 .. n-1 end at n.
LEMMA TilesEnd ==
  ASSUME NEW s \in SessionSet, NEW n \in Nat, Tiles(s, n)
  PROVE  ChunksEnd(s) = n
<1> DEFINE S == {0} \union {c.range.end + 1 : c \in s.chunks}
<1>1. s.chunks \subseteq ChunkSet
  BY DEF SessionSet
<1>2. \A x \in S : x \in Nat /\ x <= n
  BY <1>1, ChunkType DEF Tiles
<1>3. n \in S
  <2>1. CASE n = 0
    BY <2>1
  <2>2. CASE n # 0
    <3>1. n - 1 \in 0..(n - 1)
      BY <2>2
    <3>2. PICK c \in s.chunks : n - 1 <= c.range.end /\ c.range.end < n
      BY <3>1 DEF Tiles, Covered
    <3>3. c.range.end + 1 = n
      BY <1>1, <3>2, ChunkType
    <3> QED
      BY <3>2, <3>3
  <2> QED
    BY <2>1, <2>2
<1> HIDE DEF S
<1>4. Max(S) \in S /\ \A y \in S : Max(S) >= y
  BY <1>2, <1>3 DEF Max
<1>5. Max(S) = n
  <2>1. Max(S) \in Nat /\ Max(S) <= n
    BY <1>2, <1>4
  <2>2. Max(S) >= n
    BY <1>3, <1>4
  <2> QED
    BY <2>1, <2>2
<1> QED
  BY <1>5 DEF ChunksEnd, S

\* Writing makes no file shorter, and what was written is in it.
LEMMA OverwriteLength ==
  ASSUME NEW content \in Seq(Byte), NEW offset \in Nat, NEW bytes \in Seq(Byte)
  PROVE  /\ Overwrite(content, offset, bytes) \in Seq(Byte)
         /\ Len(Overwrite(content, offset, bytes)) >= Len(content)
         /\ Len(Overwrite(content, offset, bytes)) >= offset + Len(bytes)
<1> DEFINE n == Larger(Len(content), offset + Len(bytes))
<1>1. n \in Nat /\ n >= Len(content) /\ n >= offset + Len(bytes)
  BY DEF Larger
<1>2. Len(Overwrite(content, offset, bytes)) = n
  <2>1. DOMAIN Overwrite(content, offset, bytes) = 1..n
    BY DEF Overwrite
  <2>2. Overwrite(content, offset, bytes) \in Seq(Byte)
    BY OverwriteType
  <2> HIDE DEF n
  <2> QED
    BY <1>1, <2>1, <2>2
<1> QED
  BY <1>1, <1>2, OverwriteType

-----------------------------------------------------------------------------
(* What a session and the handlers that hold copies of it say of each other. *)

Apart(chunks) == \A c, d \in chunks : c # d => ~Overlaps(c.range, d.range)

Current(r) == uploads[r.id].state # "none" /\ uploads[r.id].version = ReadVersion(r)

\* A copy of the stored version is a copy of what is stored.
CopyExact(r) ==
  HoldsCopy(r) /\ Current(r) =>
    uploads[r.id].chunks = r.sess.chunks /\ uploads[r.id].expected = r.sess.expected

Settling == {"readForCommit", "readForRelease", "settle"}

\* Nobody but its finalizer changes a session that is being finalized.
Owns(r) ==
  IsFinalizer(r) /\ uploads[r.id].state # "none" =>
    LET s == uploads[r.id]
    IN  /\ s.chunks = r.sess.chunks /\ s.expected = r.sess.expected
        /\ r.pc \notin Settling => s.state = "finalizing"
        /\ r.pc = "storeAborted" => r.sess.state = "aborted"
        /\ r.pc \notin Settling \union {"storeAborted"} => r.sess.state = "finalizing"

\* What a handler is about to store.
Prepared(r) ==
  /\ r.op = "start" => r.sess = NewUploadSession(r.sess.expected)
  /\ r.op = "complete" /\ r.pc = "finalize" => r.sess.state = "finalizing"

\* The end of a chunk that was recorded lies within the temporary file.
OnDisk(i, last) == tempFile[i] # None /\ last < Len(data[tempFile[i]])

Writing(r) ==
  r.op = "chunk" /\ uploads[r.id].state = "open" =>
    /\ r.pc = "write" => r.writes # None /\ tempFile[r.id] = r.writes
    /\ r.pc = "record" => OnDisk(r.id, RangeOf(r.piece).end)

\* The temporary file is removed when nobody can store its session any more.
Removing(r) == r.pc = "removeTemp" => uploads[r.id].state = "none" /\ r.id \in minted

\* A completion that may still store its session has found that its chunks
\* are the whole file.
Settled(r) ==
  IsFinalizer(r) \/ (r.op = "complete" /\ r.pc = "finalize" /\ Current(r)) =>
    Tiles(r.sess, r.size)

HandlerOK(r) ==
  /\ Apart(r.sess.chunks) /\ Prepared(r) /\ CopyExact(r) /\ Owns(r)
  /\ Writing(r) /\ Removing(r) /\ Settled(r)

Written(i) ==
  uploads[i].state = "open" => \A c \in uploads[i].chunks : OnDisk(i, c.range.end)

Kept(i) ==
  uploads[i].state \in {"finalizing", "completed"} => \E n \in Nat : Tiles(uploads[i], n)

StoreOK(i) == Apart(uploads[i].chunks) /\ Written(i) /\ Kept(i)

\* No upload's temporary file is a blob's, which is truncated when it is
\* created again.
Separate == \A i \in Id, d \in Digest : tempFile[i] # None => tempFile[i] # putFile[d]

TileInv ==
  /\ Separate
  /\ \A i \in Id : StoreOK(i)
  /\ \A p \in Proc : HandlerOK(req[p])

-----------------------------------------------------------------------------
(* What a step of p may do to a session.  Only the finalizer of a session   *)
(* ends it.                                                                  *)

Advances(p, i) ==
  LET s == uploads[i]
      t == uploads'[i]
  IN  \/ t = s
      \/ t.state = "none"
      \/ /\ s.state = "none" /\ i \notin minted /\ i \in minted'
         /\ t.state = "open" /\ t.version = 1 /\ t.chunks = {}
      \/ /\ s.state # "none" /\ t.version = s.version + 1 /\ t.expected = s.expected
         /\ \/ s.state = "open" /\ t.state = "open" /\ s.chunks \subseteq t.chunks
            \/ s.state = "open" /\ t.state = "finalizing" /\ t.chunks = s.chunks
            \/ /\ s.state = "finalizing" /\ t.state \in {"completed", "aborted"}
               /\ t.chunks = s.chunks /\ IsFinalizer(req[p]) /\ req[p].id = i

LEMMA SessionStepAdvances ==
  ASSUME TypeOK, ExclusiveInv, TileInv, NEW p \in Proc, SessionStep(p)
  PROVE  minted \subseteq minted' /\ \A i \in Id : Advances(p, i)
<1> DEFINE r == req[p]
<1>1. r \in RequestSet /\ WellFormed(r) /\ r.sess \in SessionSet /\ uploads \in [Id -> SessionSet]
  BY RequestFields DEF TypeOK
<1>2. CopyCurrent(r)
  BY DEF ExclusiveInv
<1>3. CopyExact(r) /\ Owns(r) /\ Prepared(r)
  BY DEF TileInv, HandlerOK
<1>4. ASSUME NEW new \in SessionSet, r.id \in Id,
             \/ UNCHANGED uploads
             \/ Advances(p, r.id) /\ uploads' = [uploads EXCEPT ![r.id] = new]
      PROVE  \A i \in Id : Advances(p, i)
  BY <1>1, <1>4 DEF Advances
<1>5. ASSUME NEW i \in Id, CreateUpload(p, i)
      PROVE  minted \subseteq minted' /\ \A j \in Id : Advances(p, j)
  <2>1. r.op = "start"
    BY <1>1, <1>5 DEF CreateUpload, At, WellFormed
  <2>2. r.sess.state = "open" /\ r.sess.version = 1 /\ r.sess.chunks = {}
    BY <1>3, <2>1 DEF Prepared, NewUploadSession
  <2>3. uploads[i].state = "none"
    BY <1>5 DEF CreateUpload, ExclusiveInv
  <2> QED
    BY <1>1, <1>5, <2>2, <2>3 DEF CreateUpload, Advances
<1>6. CASE RecordAndUpdate(p)
  <2> DEFINE new == RecordChunk(r.sess, ChunkOf(r.piece))
  <2>1. r.op = "chunk" /\ r.pc = "record" /\ r.id \in Id /\ r.piece \in Piece /\ minted' = minted
    BY <1>1, <1>6 DEF RecordAndUpdate, At, WellFormed
  <2>2. /\ new.version = r.sess.version + 1 /\ new.state = r.sess.state
        /\ new.expected = r.sess.expected /\ r.sess.chunks \subseteq new.chunks
        /\ new \in SessionSet
    BY <1>1, <2>1, SessionOpsType DEF RecordChunk, SessionSet
  <2>3. CASE UNCHANGED uploads
    BY <2>1, <2>3 DEF Advances
  <2> HIDE DEF new
  <2>4. CASE /\ SameUpload(r.id, r.sess.version) /\ r.sess.state = "open"
             /\ uploads' = [uploads EXCEPT ![r.id] = new]
    <3>1. Current(r) /\ uploads[r.id].version = r.sess.version
      BY <2>1, <2>4 DEF SameUpload, Current, ReadVersion
    <3>2. /\ uploads[r.id].state = "open" /\ uploads[r.id].chunks = r.sess.chunks
          /\ uploads[r.id].expected = r.sess.expected
      BY <1>2, <1>3, <2>1, <2>4, <3>1
         DEF Current, CopyExact, CopyCurrent, HoldsCopy, ReadVersion, ReadState
    <3>3. Advances(p, r.id)
      BY <1>1, <2>1, <2>2, <2>4, <3>1, <3>2 DEF Advances
    <3> QED
      BY <1>4, <2>1, <2>2, <2>4, <3>3
  <2> QED
    BY <1>6, <2>3, <2>4 DEF RecordAndUpdate, CanRecord, new
<1>7. CASE StoreFinalizing(p)
  <2>1. r.op = "complete" /\ r.pc = "finalize" /\ r.id \in Id /\ minted' = minted
    BY <1>1, <1>7 DEF StoreFinalizing, At, WellFormed
  <2>2. CASE UNCHANGED uploads
    BY <2>1, <2>2 DEF Advances
  <2>3. CASE SameUpload(r.id, r.sess.version - 1) /\ uploads' = [uploads EXCEPT ![r.id] = r.sess]
    <3>1. Current(r) /\ r.sess.version = uploads[r.id].version + 1
      BY <1>1, <2>1, <2>3 DEF SameUpload, Current, ReadVersion, SessionSet
    <3>2. /\ uploads[r.id].state = "open" /\ uploads[r.id].chunks = r.sess.chunks
          /\ uploads[r.id].expected = r.sess.expected
      BY <1>2, <1>3, <2>1, <3>1
         DEF Current, CopyExact, CopyCurrent, HoldsCopy, ReadVersion, ReadState
    <3>3. r.sess.state = "finalizing"
      BY <1>3, <2>1 DEF Prepared
    <3>4. Advances(p, r.id)
      BY <1>1, <2>1, <2>3, <3>1, <3>2, <3>3 DEF Advances
    <3> QED
      BY <1>1, <1>4, <2>1, <2>3, <3>4
  <2> QED
    BY <1>7, <2>2, <2>3 DEF StoreFinalizing
<1>8. CASE StoreAborted(p)
  <2>1. r.op = "complete" /\ r.pc = "storeAborted" /\ r.id \in Id /\ minted' = minted
    BY <1>1, <1>8 DEF StoreAborted, At, WellFormed
  <2>2. CASE UNCHANGED uploads
    BY <2>1, <2>2 DEF Advances
  <2>3. CASE SameUpload(r.id, r.sess.version - 1) /\ uploads' = [uploads EXCEPT ![r.id] = r.sess]
    <3>1. uploads[r.id].state # "none" /\ r.sess.version = uploads[r.id].version + 1
      BY <1>1, <2>1, <2>3 DEF SameUpload, SessionSet
    <3>2. IsFinalizer(r)
      BY <2>1 DEF IsFinalizer
    <3>3. Advances(p, r.id)
      BY <1>1, <1>3, <2>1, <2>3, <3>1, <3>2 DEF Advances, Owns, Settling
    <3> QED
      BY <1>1, <1>4, <2>1, <2>3, <3>3
  <2> QED
    BY <1>8, <2>2, <2>3 DEF StoreAborted
<1>9. CASE StoreCompleted(p)
  <2> DEFINE new == Complete(r.sess)
  <2>1. r.op = "complete" /\ r.pc = "complete" /\ r.id \in Id /\ minted' = minted
    BY <1>1, <1>9 DEF StoreCompleted, At, WellFormed
  <2>2. /\ new.version = r.sess.version + 1 /\ new.state = "completed" /\ new \in SessionSet
        /\ new.chunks = r.sess.chunks /\ new.expected = r.sess.expected
    BY <1>1, SessionOpsType DEF Complete, SessionSet
  <2>3. CASE UNCHANGED uploads
    BY <2>1, <2>3 DEF Advances
  <2> HIDE DEF new
  <2>4. CASE SameUpload(r.id, r.sess.version) /\ uploads' = [uploads EXCEPT ![r.id] = new]
    <3>1. uploads[r.id].state # "none" /\ new.version = uploads[r.id].version + 1
      BY <2>2, <2>4 DEF SameUpload
    <3>2. IsFinalizer(r)
      BY <2>1 DEF IsFinalizer
    <3>3. Advances(p, r.id)
      BY <1>1, <1>3, <2>1, <2>2, <2>4, <3>1, <3>2 DEF Advances, Owns, Settling
    <3> QED
      BY <1>4, <2>1, <2>2, <2>4, <3>3
  <2> QED
    BY <1>9, <2>3, <2>4 DEF StoreCompleted, new
<1>10. CASE ForgetUpload(p)
  <2>1. r.id \in Id /\ minted' = minted
    BY <1>1, <1>10 DEF ForgetUpload, At, WellFormed
  <2> QED
    BY <1>1, <1>10, <2>1 DEF ForgetUpload, Advances, NoSession
<1> QED
  BY <1>5, <1>6, <1>7, <1>8, <1>9, <1>10 DEF SessionStep

-----------------------------------------------------------------------------
(* What a step leaves alone. *)

\* An open session keeps its temporary file, which gets no shorter.
FileStays(i) ==
  uploads'[i].state = "open" /\ tempFile[i] # None =>
    tempFile'[i] = tempFile[i] /\ Len(data[tempFile[i]]) <= Len(data'[tempFile[i]])

FilesTyped ==
  /\ \A i \in Id : tempFile[i] \in Inode \union {None}
  /\ \A n \in Inode : Len(data[n]) \in Nat

LEMMA FilesType == TypeOK => FilesTyped
BY DEF TypeOK, FilesTyped

LEMMA OnDiskStays ==
  ASSUME TypeOK, TypeOK', NEW i \in Id, NEW last \in Nat, FileStays(i),
         uploads'[i].state = "open", OnDisk(i, last)
  PROVE  OnDisk(i, last)'
<1>1. tempFile[i] \in Inode /\ Len(data[tempFile[i]]) \in Nat /\ Len(data'[tempFile[i]]) \in Nat
  BY DEF TypeOK, OnDisk
<1> QED
  BY <1>1 DEF FileStays, OnDisk

LEMMA OthersTile ==
  ASSUME TypeOK, TypeOK', ExclusiveInv, TileInv, NEW p \in Proc, NEW q \in Proc, p # q,
         req'[q] = req[q], \A i \in Id : Advances(p, i) /\ FileStays(i), minted \subseteq minted'
  PROVE  HandlerOK(req[q])'
<1> DEFINE r == req[q]
<1>1. /\ WellFormed(r) /\ r.sess \in SessionSet
      /\ \A i \in Id : uploads[i] \in SessionSet /\ uploads'[i] \in SessionSet
  BY RequestFields DEF TypeOK
<1>2. CopyCurrent(r) /\ Closed(r) /\ Drawn(r) /\ HandlerOK(r)
  BY DEF ExclusiveInv, TileInv
<1>3. /\ r.op \in {"chunk", "complete"} => r.id \in Id /\ r.id \in minted
      /\ r.pc = "removeTemp" => r.id \in Id /\ r.id \in minted
      /\ ReadVersion(r) \in Int
  BY <1>1, <1>2 DEF WellFormed, Drawn, HandlerOK, Removing, ReadVersion, SessionSet
<1>4. ASSUME r.id \in Id, r.id \in minted, HoldsCopy(r), Current(r)'
      PROVE  Current(r) /\ uploads'[r.id] = uploads[r.id]
  <2>1. uploads'[r.id].state # "none" /\ uploads'[r.id].version = ReadVersion(r)
    BY <1>4 DEF Current, ReadVersion
  <2>2. uploads[r.id].version \in Nat /\ uploads'[r.id].version \in Nat
    BY <1>1, <1>4 DEF SessionSet
  <2> QED
    BY <1>2, <1>3, <1>4, <2>1, <2>2 DEF Advances, CopyCurrent, Current
<1>5. Apart(r.sess.chunks) /\ Prepared(r)'
  BY <1>2 DEF HandlerOK, Prepared
<1>6. CopyExact(r)'
  BY <1>2, <1>3, <1>4 DEF HandlerOK, CopyExact, HoldsCopy
<1>7. Owns(r)'
  <2>1. SUFFICES ASSUME IsFinalizer(r), uploads'[r.id].state # "none"
                 PROVE  uploads'[r.id] = uploads[r.id]
    BY <1>2 DEF HandlerOK, Owns, IsFinalizer
  <2>2. r.id \in Id /\ r.id \in minted /\ uploads[r.id].state # "open"
    BY <1>2, <1>3, <2>1 DEF IsFinalizer, Closed
  <2>3. ~(IsFinalizer(req[p]) /\ req[p].id = r.id)
    BY <2>1, <2>2 DEF ExclusiveInv, FinalizeExclusive, Finalizers, IsFinalizer
  <2> QED
    BY <2>1, <2>2, <2>3 DEF Advances
<1>8. Writing(r)'
  <2>1. SUFFICES ASSUME r.op = "chunk", uploads'[r.id].state = "open"
                 PROVE  /\ r.pc = "write" => r.writes # None /\ tempFile'[r.id] = r.writes
                        /\ r.pc = "record" => OnDisk(r.id, RangeOf(r.piece).end)'
    BY DEF Writing, OnDisk
  <2>2. r.id \in Id /\ uploads[r.id].state = "open"
    BY <1>3, <2>1 DEF Advances
  <2>3. r.pc = "record" => RangeOf(r.piece).end \in Nat
    BY <1>1, <2>1, PieceAssumption DEF WellFormed, RangeOf
  <2>4. r.pc = "record" => OnDisk(r.id, RangeOf(r.piece).end)
    BY <1>2, <2>1, <2>2 DEF HandlerOK, Writing
  <2>5. r.pc = "record" => OnDisk(r.id, RangeOf(r.piece).end)'
    BY <2>1, <2>2, <2>3, <2>4, OnDiskStays
  <2> QED
    BY <1>2, <2>1, <2>2, <2>5 DEF HandlerOK, Writing, FileStays
<1>9. Removing(r)'
  BY <1>2, <1>3 DEF HandlerOK, Removing, Advances
<1>10. Settled(r)'
  BY <1>2, <1>3, <1>4 DEF HandlerOK, Settled, IsFinalizer, HoldsCopy
<1> QED
  BY <1>5, <1>6, <1>7, <1>8, <1>9, <1>10 DEF HandlerOK

LEMMA TileFrame ==
  ASSUME TypeOK, TypeOK', ExclusiveInv, TileInv, NEW p \in Proc, NEW local, Continue(p, local),
         \A i \in Id : Advances(p, i) /\ FileStays(i), minted \subseteq minted',
         Separate', \A i \in Id : StoreOK(i)', HandlerOK(local)'
  PROVE  TileInv'
<1>1. req'[p] = local /\ \A q \in Proc \ {p} : req'[q] = req[q]
  BY DEF Continue, TypeOK
<1>2. ASSUME NEW q \in Proc
      PROVE  HandlerOK(req[q])'
  <2>1. CASE q = p
    <3>1. HandlerOK(req[q])' <=> HandlerOK(local)'
      BY <1>1, <2>1 DEF HandlerOK, Prepared, CopyExact, Current, HoldsCopy, ReadVersion, Owns,
         IsFinalizer, Settling, Writing, Removing, Settled, OnDisk
    <3> QED
      BY <3>1
  <2>2. CASE q # p
    BY <1>1, <2>2, OthersTile
  <2> QED
    BY <2>1, <2>2
<1> QED
  BY <1>2 DEF TileInv

\* Steps that leave the sessions alone.
LEMMA StoresStay ==
  ASSUME TypeOK, TypeOK', TileInv, UNCHANGED uploads, NEW i \in Id, FileStays(i)
  PROVE  StoreOK(i)'
<1>1. Apart(uploads[i].chunks)' /\ Kept(i)'
  BY DEF TileInv, StoreOK, Kept
<1>2. Written(i)'
  <2>1. SUFFICES ASSUME uploads'[i].state = "open", NEW c \in uploads[i].chunks
                 PROVE  OnDisk(i, c.range.end)'
    BY DEF Written, OnDisk
  <2>2. c.range.end \in Nat
    BY ChunkType DEF TypeOK, SessionSet
  <2>3. OnDisk(i, c.range.end)
    BY <2>1 DEF TileInv, StoreOK, Written
  <2> QED
    BY <2>1, <2>2, <2>3, OnDiskStays
<1> QED
  BY <1>1, <1>2 DEF StoreOK

LEMMA FileFrame ==
  ASSUME TypeOK, TypeOK', ExclusiveInv, TileInv, NEW p \in Proc, NEW local, Continue(p, local),
         UNCHANGED uploads, UNCHANGED minted, \A i \in Id : FileStays(i),
         Separate', HandlerOK(local)'
  PROVE  TileInv'
<1>1. \A i \in Id : Advances(p, i) /\ StoreOK(i)'
  BY StoresStay DEF Advances
<1> QED
  BY <1>1, TileFrame

\* A handler that goes on with the same session, on its way to the end.
Onward(r, local) ==
  /\ local.op = r.op /\ local.id = r.id /\ local.sess = r.sess /\ local.size = r.size
  /\ local.pc # "removeTemp"
  /\ \/ r.op \notin {"chunk", "complete"}
     \/ /\ IsFinalizer(r) /\ IsFinalizer(local) /\ local.pc # "storeAborted"
        /\ r.pc \in Settling \union {"storeAborted"} => local.pc \in Settling

LEMMA OnwardOK ==
  ASSUME TileInv, NEW p \in Proc, NEW local, Onward(req[p], local),
         UNCHANGED uploads, UNCHANGED minted
  PROVE  HandlerOK(local)'
<1> DEFINE r == req[p]
<1>1. HandlerOK(r)
  BY DEF TileInv
<1>2. CASE r.op \notin {"chunk", "complete"}
  BY <1>1, <1>2 DEF Onward, HandlerOK, Prepared, CopyExact, Current, HoldsCopy, Owns, IsFinalizer,
                    Writing, Removing, Settled
<1>3. CASE /\ IsFinalizer(r) /\ IsFinalizer(local) /\ local.pc # "storeAborted"
           /\ r.pc \in Settling \union {"storeAborted"} => local.pc \in Settling
  BY <1>1, <1>3 DEF Onward, HandlerOK, Prepared, CopyExact, Current, HoldsCopy, Owns, IsFinalizer,
                    Writing, Removing, Settled, Settling
<1> QED
  BY <1>2, <1>3 DEF Onward

LEMMA IdleOK == HandlerOK(Idle)'
BY DEF HandlerOK, Idle, NoSession, Apart, Prepared, CopyExact, HoldsCopy, Owns, IsFinalizer,
       Writing, Removing, Settled

\* A handler that has just begun, with a copy of the stored session or none.
Begun(local) ==
  \/ /\ local.op \notin {"start", "chunk", "complete"} /\ local.pc # "removeTemp"
     /\ Apart(local.sess.chunks)
  \/ local.op = "start" /\ local.pc # "removeTemp" /\ local.sess = NewUploadSession(local.sess.expected)
  \/ /\ local.id \in Id /\ local.sess = uploads[local.id]
     /\ \/ local.op = "chunk" /\ local.pc = "openTemp"
        \/ local.op = "complete" /\ local.pc = "stat"

LEMMA BegunOK ==
  ASSUME TileInv, NEW local, Begun(local), UNCHANGED uploads, UNCHANGED minted
  PROVE  HandlerOK(local)'
<1>1. CASE /\ local.op \notin {"start", "chunk", "complete"} /\ local.pc # "removeTemp"
           /\ Apart(local.sess.chunks)
  BY <1>1 DEF HandlerOK, Prepared, CopyExact, HoldsCopy, Owns, IsFinalizer, Writing, Removing, Settled
<1>2. CASE /\ local.op = "start" /\ local.pc # "removeTemp"
           /\ local.sess = NewUploadSession(local.sess.expected)
  <2>1. local.sess.chunks = {}
    BY <1>2 DEF NewUploadSession
  <2> QED
    BY <1>2, <2>1 DEF HandlerOK, Apart, Prepared, CopyExact, HoldsCopy, Owns, IsFinalizer, Writing,
                      Removing, Settled
<1>3. CASE /\ local.id \in Id /\ local.sess = uploads[local.id]
           /\ \/ local.op = "chunk" /\ local.pc = "openTemp"
              \/ local.op = "complete" /\ local.pc = "stat"
  <2>1. Apart(uploads[local.id].chunks)
    BY <1>3 DEF TileInv, StoreOK
  <2> QED
    BY <1>3, <2>1 DEF HandlerOK, Prepared, CopyExact, Current, HoldsCopy, Owns, IsFinalizer, Writing,
                      Removing, Settled
<1> QED
  BY <1>1, <1>2, <1>3 DEF Begun

\* A step that changes neither sessions nor files.
LEMMA PlainFrame ==
  ASSUME TypeOK, TypeOK', ExclusiveInv, TileInv, NEW p \in Proc, NEW local, Continue(p, local),
         UNCHANGED uploads, UNCHANGED minted, UNCHANGED files,
         local = Idle \/ Onward(req[p], local) \/ Begun(local)
  PROVE  TileInv'
<1>1. HandlerOK(local)'
  BY IdleOK, OnwardOK, BegunOK
<1>2. \A i \in Id : FileStays(i)
  BY DEF TypeOK, FileStays, files
<1>3. Separate'
  BY DEF TileInv, Separate, files
<1> QED
  BY <1>1, <1>2, <1>3, FileFrame

LEMMA PlainReturn ==
  ASSUME TypeOK, TypeOK', ExclusiveInv, TileInv, NEW p \in Proc, Return(p),
         UNCHANGED uploads, UNCHANGED minted, UNCHANGED files
  PROVE  TileInv'
BY PlainFrame DEF Return

-----------------------------------------------------------------------------
(* Every action preserves the invariant. *)

LEMMA BeginTile ==
  ASSUME TypeOK, TypeOK', ExclusiveInv, TileInv, NEW p \in Proc, Begin(p)
  PROVE  TileInv'
<1>1. UNCHANGED uploads /\ UNCHANGED minted /\ UNCHANGED files
  BY DEF Begin, CreateRepository, StartUpload, UploadChunk, CompleteUpload, AbortUpload,
         JanitorRun, DeleteBlob
<1>2. ASSUME NEW local, Continue(p, local), Begun(local)
      PROVE  TileInv'
  BY <1>1, <1>2, PlainFrame
<1>3. Apart(NoSession.chunks)
  BY DEF Apart, NoSession
<1>4. ASSUME NEW r \in Repo, NEW limit \in Limit, CreateRepository(p, r, limit)
      PROVE  TileInv'
  <2> DEFINE local == [Idle EXCEPT !.pc = "putQuota", !.op = "create", !.quota = NewQuota(limit)]
  <2>1. Begun(local)
    BY <1>3 DEF Begun, Idle
  <2> QED
    BY <1>2, <1>4, <2>1 DEF CreateRepository
<1>5. ASSUME NEW e \in ExpectedSize, StartUpload(p, e)
      PROVE  TileInv'
  <2> DEFINE free == [Idle EXCEPT !.pc = "createUpload", !.op = "start", !.sess = NewUploadSession(e)]
             metered == [Idle EXCEPT !.pc = "reserve", !.op = "start",
                                     !.sess = NewUploadSession(e), !.quota = Reserve(quota, e)]
  <2>1. Begun(free) /\ Begun(metered)
    BY DEF Begun, Idle, NewUploadSession
  <2> QED
    BY <1>2, <1>5, <2>1 DEF StartUpload
<1>6. ASSUME NEW i \in Id, NEW c \in Piece, UploadChunk(p, i, c)
      PROVE  TileInv'
  <2> DEFINE local == [Idle EXCEPT !.pc = "openTemp", !.op = "chunk", !.id = i,
                                    !.sess = uploads[i], !.piece = c]
  <2>1. Begun(local)
    BY DEF Begun, Idle
  <2> QED
    BY <1>2, <1>6, <2>1 DEF UploadChunk
<1>7. ASSUME NEW i \in Id, NEW d \in Digest, CompleteUpload(p, i, d)
      PROVE  TileInv'
  <2> DEFINE local == [Idle EXCEPT !.pc = "stat", !.op = "complete", !.id = i,
                                    !.sess = uploads[i], !.claim = d]
  <2>1. Begun(local)
    BY DEF Begun, Idle
  <2> QED
    BY <1>2, <1>7, <2>1 DEF CompleteUpload
<1>8. ASSUME NEW i \in Id, AbortUpload(p, i)
      PROVE  TileInv'
  <2> DEFINE local(where) == [Idle EXCEPT !.pc = where, !.op = "abort", !.id = i,
                                           !.sess = Abort(uploads[i])]
  <2>1. Apart(Abort(uploads[i]).chunks)
    BY DEF TypeOK, SessionSet, TileInv, StoreOK, Abort
  <2>2. Begun(local("forget")) /\ Begun(local("readForRelease"))
    BY <2>1 DEF Begun, Idle
  <2> QED
    BY <1>2, <1>8, <2>2 DEF AbortUpload
<1>9. CASE JanitorRun(p)
  <2> DEFINE local(i, old) == [Idle EXCEPT !.pc = "forget", !.op = "janitor", !.id = i,
                                            !.todo = old \ {i}]
  <2>1. \A i, old : Begun(local(i, old))
    BY <1>3 DEF Begun, Idle
  <2> QED
    BY <1>2, <1>9, <2>1 DEF JanitorRun
<1>10. ASSUME NEW d \in Digest, DeleteBlob(p, d)
       PROVE  TileInv'
  <2> DEFINE local == [Idle EXCEPT !.pc = "unlink", !.op = "deleteBlob", !.claim = d]
  <2>1. Begun(local)
    BY <1>3 DEF Begun, Idle
  <2> QED
    BY <1>2, <1>10, <2>1 DEF DeleteBlob
<1> QED
  BY <1>4, <1>5, <1>6, <1>7, <1>8, <1>9, <1>10 DEF Begin

\* Going on to another position with the same session.
LEMMA GotoOnward ==
  ASSUME NEW r \in RequestSet, NEW where, where # "removeTemp", NEW m,
         \/ r.op \notin {"chunk", "complete"}
         \/ /\ IsFinalizer(r) /\ where \notin {"stat", "finalize", "storeAborted"}
            /\ r.pc \in Settling \union {"storeAborted"} => where \in Settling
  PROVE  /\ Onward(r, [r EXCEPT !.pc = where])
         /\ Onward(r, [r EXCEPT !.pc = where, !.quota = m])
         /\ Onward(r, [r EXCEPT !.pc = where, !.reads = m])
         /\ Onward(r, [r EXCEPT !.pc = where, !.writes = m])
<1>1. ASSUME NEW local, local.pc = where, local.op = r.op, local.id = r.id,
             local.sess = r.sess, local.size = r.size
      PROVE  Onward(r, local)
  BY <1>1 DEF Onward, IsFinalizer
<1> DEFINE a == [r EXCEPT !.pc = where]
           b == [r EXCEPT !.pc = where, !.quota = m]
           c == [r EXCEPT !.pc = where, !.reads = m]
           d == [r EXCEPT !.pc = where, !.writes = m]
<1>2. /\ a.pc = where /\ a.op = r.op /\ a.id = r.id /\ a.sess = r.sess /\ a.size = r.size
      /\ b.pc = where /\ b.op = r.op /\ b.id = r.id /\ b.sess = r.sess /\ b.size = r.size
      /\ c.pc = where /\ c.op = r.op /\ c.id = r.id /\ c.sess = r.sess /\ c.size = r.size
      /\ d.pc = where /\ d.op = r.op /\ d.id = r.id /\ d.sess = r.sess /\ d.size = r.size
  BY DEF RequestSet
<1> HIDE DEF a, b, c, d
<1>3. Onward(r, a) /\ Onward(r, b) /\ Onward(r, c) /\ Onward(r, d)
  BY <1>1, <1>2
<1> QED
  BY <1>3 DEF a, b, c, d

LEMMA AfterQuotaTile ==
  ASSUME TypeOK, TypeOK', ExclusiveInv, TileInv, NEW p \in Proc, AfterQuota(p),
         UNCHANGED uploads, UNCHANGED minted, UNCHANGED files
  PROVE  TileInv'
<1>1. req[p] \in RequestSet
  BY RequestFields
<1>2. req[p].op = "abort" => Onward(req[p], [req[p] EXCEPT !.pc = "forget", !.quota = NoQuota])
  BY <1>1, GotoOnward
<1> QED
  BY <1>2, PlainFrame, PlainReturn DEF AfterQuota

LEMMA QuotaStepTile ==
  ASSUME TypeOK, TypeOK', ExclusiveInv, TileInv, NEW p \in Proc, QuotaStep(p)
  PROVE  TileInv'
<1> DEFINE r == req[p]
<1>1. r \in RequestSet /\ WellFormed(r)
  BY RequestFields
<1>2. UNCHANGED uploads /\ UNCHANGED minted /\ UNCHANGED files
  BY DEF QuotaStep, PutQuota, StoreReservation, ReadForCommit, ReadForRelease, StoreSettlement
<1>3. CASE PutQuota(p)
  BY <1>2, <1>3, PlainReturn DEF PutQuota
<1>4. CASE StoreReservation(p)
  <2>1. Onward(r, [r EXCEPT !.pc = "createUpload", !.quota = NoQuota])
    BY <1>1, <1>4, GotoOnward DEF StoreReservation, At, WellFormed
  <2> QED
    BY <1>2, <1>4, <2>1, PlainFrame, PlainReturn DEF StoreReservation
<1>5. ASSUME NEW q, Continue(p, [r EXCEPT !.pc = "settle", !.quota = q]),
             r.pc \in {"readForCommit", "readForRelease"}
      PROVE  TileInv'
  <2>1. Onward(r, [r EXCEPT !.pc = "settle", !.quota = q])
    BY <1>1, <1>5, GotoOnward DEF WellFormed, IsFinalizer, Settling
  <2> QED
    BY <1>2, <1>5, <2>1, PlainFrame
<1>6. CASE ReadForCommit(p)
  BY <1>2, <1>5, <1>6, AfterQuotaTile DEF ReadForCommit, At
<1>7. CASE ReadForRelease(p)
  BY <1>2, <1>5, <1>7, AfterQuotaTile DEF ReadForRelease, At
<1>8. CASE StoreSettlement(p)
  BY <1>2, <1>8, AfterQuotaTile DEF StoreSettlement
<1> QED
  BY <1>3, <1>4, <1>6, <1>7, <1>8 DEF QuotaStep

\* A finalizer on its way to the update that ends its session.
Underway == {"hash", "exists", "move", "open", "lookup", "createPut", "copy", "rename",
             "insert", "complete"}

LEMMA UnderwayOnward ==
  ASSUME NEW r \in RequestSet, WellFormed(r), r.pc \in Underway, NEW where \in Underway, NEW m
  PROVE  /\ Onward(r, [r EXCEPT !.pc = where])
         /\ Onward(r, [r EXCEPT !.pc = where, !.reads = m])
         /\ Onward(r, [r EXCEPT !.pc = where, !.writes = m])
BY GotoOnward DEF WellFormed, IsFinalizer, Underway, Settling

\* Steps that look at files or the catalog and change neither files nor
\* sessions.
LEMMA LookTile ==
  ASSUME TypeOK, TypeOK', ExclusiveInv, TileInv, NEW p \in Proc,
         Hash(p) \/ Exists(p) \/ OpenBlobFile(p) \/ InsertBlob(p)
  PROVE  TileInv'
<1> DEFINE r == req[p]
<1>1. r \in RequestSet /\ WellFormed(r) /\ r.sess \in SessionSet
  BY RequestFields
<1>2. UNCHANGED uploads /\ UNCHANGED minted /\ UNCHANGED files
  BY DEF Hash, Exists, OpenBlobFile, InsertBlob
<1>3. ASSUME NEW where \in Underway, NEW m, r.pc \in Underway,
             \/ Continue(p, [r EXCEPT !.pc = where])
             \/ Continue(p, [r EXCEPT !.pc = where, !.reads = m])
      PROVE  TileInv'
  BY <1>1, <1>2, <1>3, UnderwayOnward, PlainFrame
<1>4. CASE Exists(p) \/ OpenBlobFile(p) \/ InsertBlob(p)
  <2>1. CASE Exists(p)
    <3> DEFINE where == IF blobFile[r.claim] = None THEN "move" ELSE "open"
    <3>1. where \in Underway /\ r.pc \in Underway /\ Continue(p, [r EXCEPT !.pc = where])
      BY <2>1 DEF Exists, At, Underway
    <3> QED
      BY <1>3, <3>1
  <2>2. CASE OpenBlobFile(p)
    <3>1. r.pc \in Underway /\ "lookup" \in Underway
      BY <2>2 DEF OpenBlobFile, At, Underway
    <3>2. \/ Return(p) \/ Continue(p, [r EXCEPT !.pc = "lookup"])
          \/ Continue(p, [r EXCEPT !.pc = "lookup", !.reads = blobFile[r.claim]])
      BY <2>2 DEF OpenBlobFile
    <3> QED
      BY <1>2, <1>3, <3>1, <3>2, PlainReturn
  <2>3. CASE InsertBlob(p)
    BY <1>3, <2>3 DEF InsertBlob, At, Underway
  <2> QED
    BY <1>4, <2>1, <2>2, <2>3
<1>5. CASE Hash(p)
  <2> DEFINE local == [r EXCEPT !.pc = "storeAborted", !.sess = Abort(r.sess)]
  <2>1. ASSUME NEW new, new = local, Continue(p, new)
        PROVE  TileInv'
    <3>1. r.op = "complete" /\ r.pc = "hash" /\ IsFinalizer(r)
      BY <1>1, <1>5 DEF Hash, At, WellFormed, IsFinalizer
    <3>2. /\ new.op = "complete" /\ new.pc = "storeAborted" /\ new.id = r.id
          /\ new.size = r.size /\ new.sess = Abort(r.sess)
      BY <1>1, <2>1, <3>1 DEF RequestSet
    <3>3. /\ Abort(r.sess).chunks = r.sess.chunks /\ Abort(r.sess).expected = r.sess.expected
          /\ r.sess.state = "finalizing" => Abort(r.sess).state = "aborted"
      BY <1>1 DEF Abort, SessionSet
    <3>4. HandlerOK(r)
      BY DEF TileInv
    <3>5. Owns(new)' /\ CopyExact(new)' /\ Settled(new)'
      BY <1>2, <3>1, <3>2, <3>3, <3>4 DEF HandlerOK, CopyExact, HoldsCopy, Owns, IsFinalizer,
                                          Settling, Settled, Tiles
    <3>6. Apart(new.sess.chunks) /\ Prepared(new) /\ Writing(new)' /\ Removing(new)'
      BY <3>2, <3>3, <3>4 DEF HandlerOK, Prepared, Writing, Removing
    <3>7. HandlerOK(new)'
      BY <3>5, <3>6 DEF HandlerOK, Prepared
    <3>8. (\A i \in Id : FileStays(i)) /\ Separate'
      BY <1>2 DEF TypeOK, FileStays, files, TileInv, Separate
    <3> QED
      BY <1>2, <2>1, <3>7, <3>8, FileFrame
  <2> QED
    BY <1>2, <1>3, <1>5, <2>1, PlainReturn DEF Hash, At, Underway
<1> QED
  BY <1>4, <1>5

\* A completion that has found the size of the file goes on only if the
\* chunks of its copy fill it.
LEMMA StatTile ==
  ASSUME TypeOK, TypeOK', ExclusiveInv, TileInv, NEW p \in Proc, Stat(p)
  PROVE  TileInv'
<1> DEFINE r == req[p]
           size == Len(data[tempFile[r.id]])
           local == [r EXCEPT !.pc = "finalize", !.size = size, !.sess = Finalize(r.sess)]
<1>1. r \in RequestSet /\ WellFormed(r) /\ r.sess \in SessionSet
  BY RequestFields
<1>2. UNCHANGED uploads /\ UNCHANGED minted /\ UNCHANGED files
  BY DEF Stat
<1>3. ASSUME NEW new, new = local, Continue(p, new), tempFile[r.id] # None,
             NEW n, n = size, CanFinalize(r.sess, n, r.id \in expired)
      PROVE  TileInv'
  <2>1. r.op = "complete" /\ r.pc = "stat" /\ r.id \in Id
    BY <1>1 DEF Stat, At, WellFormed
  <2>2. HandlerOK(r) /\ CopyCurrent(r)
    BY DEF TileInv, ExclusiveInv
  <2>3. tempFile[r.id] \in Inode /\ n \in Nat
    BY <1>3, <2>1 DEF TypeOK
  <2>4. /\ Finalize(r.sess).chunks = r.sess.chunks /\ Finalize(r.sess).expected = r.sess.expected
        /\ Finalize(r.sess).state = "finalizing" /\ Finalize(r.sess).version - 1 = r.sess.version
    BY <1>1 DEF Finalize, SessionSet
  <2>5. /\ new.op = "complete" /\ new.pc = "finalize" /\ new.id = r.id
        /\ new.size = n /\ new.sess = Finalize(r.sess)
    BY <1>1, <1>3, <2>1 DEF RequestSet
  <2>6. Current(new)' => Current(r) /\ ReadVersion(r) = r.sess.version
    BY <1>2, <2>1, <2>4, <2>5 DEF Current, ReadVersion
  <2>7. CopyExact(new)'
    BY <1>2, <2>1, <2>2, <2>4, <2>5, <2>6 DEF HandlerOK, CopyExact, HoldsCopy
  <2>8. Settled(new)'
    <3>1. SUFFICES ASSUME Current(r), r.sess.version = uploads[r.id].version
                   PROVE  Tiles(r.sess, n)
      BY <2>4, <2>5, <2>6 DEF Settled, IsFinalizer, Tiles, Current
    <3>2. uploads[r.id].state = "open" /\ uploads[r.id].chunks = r.sess.chunks
      BY <1>3, <2>1, <2>2, <3>1 DEF HandlerOK, CopyExact, CopyCurrent, HoldsCopy, ReadVersion,
                                    ReadState, Current, CanFinalize
    <3>3. \A c \in r.sess.chunks : c.range.end < n
      BY <1>3, <2>1, <3>2 DEF TileInv, StoreOK, Written, OnDisk
    <3> QED
      BY <1>1, <1>3, <2>3, <3>3, FinalizeTiles
  <2>9. Apart(new.sess.chunks) /\ Prepared(new) /\ Owns(new)' /\ Writing(new)' /\ Removing(new)'
    BY <2>2, <2>4, <2>5 DEF HandlerOK, Prepared, Owns, IsFinalizer, Writing, Removing
  <2>10. HandlerOK(new)'
    BY <2>7, <2>8, <2>9 DEF HandlerOK, Prepared
  <2>11. (\A i \in Id : FileStays(i)) /\ Separate'
    BY <1>2 DEF TypeOK, FileStays, files, TileInv, Separate
  <2> QED
    BY <1>2, <1>3, <2>10, <2>11, FileFrame
<1> QED
  BY <1>2, <1>3, PlainReturn DEF Stat

-----------------------------------------------------------------------------
(* Steps that change files. *)

\* The bytes of a file with a name or an open descriptor stay.
LEMMA LinkedStays ==
  ASSUME TypeOK, TypeOK', NEW bytes \in [Inode -> Seq(Byte)], Store(bytes),
         NEW i \in Id, tempFile[i] # None, tempFile'[i] = tempFile[i]
  PROVE  data'[tempFile[i]] = bytes[tempFile[i]]
<1>1. tempFile[i] \in Inode /\ tempFile[i] \in Linked'
  BY DEF TypeOK, Linked
<1> QED
  BY <1>1 DEF Store

\* Storing at least as many bytes wherever an upload's file is.
LEMMA StoreStays ==
  ASSUME TypeOK, TypeOK', NEW bytes \in [Inode -> Seq(Byte)], Store(bytes), NEW i \in Id,
         uploads'[i].state = "open" => tempFile[i] = None \/ tempFile'[i] = tempFile[i],
         tempFile[i] # None => Len(data[tempFile[i]]) <= Len(bytes[tempFile[i]])
  PROVE  FileStays(i)
BY LinkedStays DEF FileStays

\* A descriptor that is written through belongs to an existing file.
LEMMA DataStays ==
  ASSUME TypeOK, TypeOK', Store(data), NEW i \in Id,
         uploads'[i].state = "open" => tempFile[i] = None \/ tempFile'[i] = tempFile[i]
  PROVE  FileStays(i)
<1>1. data \in [Inode -> Seq(Byte)] /\ tempFile[i] \in Inode \union {None}
  BY DEF TypeOK
<1> QED
  BY <1>1, StoreStays

\* Writing into one file.
LEMMA WriteStays ==
  ASSUME TypeOK, TypeOK', NEW n, NEW offset \in Nat, NEW bytes \in Seq(Byte),
         UNCHANGED tempFile,
         Store([data EXCEPT ![n] = Overwrite(@, offset, bytes)]), NEW i \in Id
  PROVE  /\ FileStays(i)
         /\ tempFile[i] = n /\ n # None => Len(data'[tempFile[i]]) >= offset + Len(bytes)
<1> DEFINE new == [data EXCEPT ![n] = Overwrite(@, offset, bytes)]
<1>1. data \in [Inode -> Seq(Byte)] /\ tempFile[i] \in Inode \union {None}
  BY DEF TypeOK
<1>2. ASSUME n \in Inode
      PROVE  /\ Overwrite(data[n], offset, bytes) \in Seq(Byte)
             /\ Len(Overwrite(data[n], offset, bytes)) >= Len(data[n])
             /\ Len(Overwrite(data[n], offset, bytes)) >= offset + Len(bytes)
  BY <1>1, <1>2, OverwriteLength
<1>3. new \in [Inode -> Seq(Byte)]
  BY <1>1, <1>2
<1>4. tempFile[i] # None => /\ Len(data[tempFile[i]]) <= Len(new[tempFile[i]])
                            /\ tempFile[i] = n => Len(new[tempFile[i]]) >= offset + Len(bytes)
  BY <1>1, <1>2
<1> HIDE DEF new
<1>5. FileStays(i)
  BY <1>3, <1>4, StoreStays DEF new
<1>6. tempFile[i] # None => data'[tempFile[i]] = new[tempFile[i]]
  BY <1>3, LinkedStays DEF new
<1> QED
  BY <1>4, <1>5, <1>6

LEMMA FreshInode ==
  ASSUME FreeInode # {}
  PROVE  NewInode \in Inode /\ NewInode \notin Linked
<1>1. \E n \in Inode : n \notin Linked
  BY DEF FreeInode
<1> QED
  BY <1>1 DEF NewInode

\* A chunk request that goes on.
LEMMA ChunkGoes ==
  ASSUME TypeOK, TypeOK', ExclusiveInv, TileInv, NEW p \in Proc, NEW local, Continue(p, local),
         req[p].op = "chunk", req[p].pc \in {"openTemp", "write"},
         UNCHANGED uploads, UNCHANGED minted, \A i \in Id : FileStays(i), Separate',
         local.op = "chunk", local.id = req[p].id, local.sess = req[p].sess,
         local.pc \in {"write", "record"}, Writing(local)'
  PROVE  TileInv'
<1>1. HandlerOK(req[p])
  BY DEF TileInv
<1>2. CopyExact(local)'
  BY <1>1 DEF HandlerOK, CopyExact, Current, HoldsCopy, ReadVersion
<1>3. HandlerOK(local)'
  BY <1>1, <1>2 DEF HandlerOK, Prepared, Owns, IsFinalizer, Removing, Settled
<1> QED
  BY <1>3, FileFrame

LEMMA ChunkTile ==
  ASSUME TypeOK, TypeOK', ExclusiveInv, TileInv, NEW p \in Proc,
         OpenTemp(p) \/ WriteChunk(p) \/ \E n \in 0..MaxBlobSize : CancelWrite(p, n)
  PROVE  TileInv'
<1> DEFINE r == req[p]
<1>1. /\ r \in RequestSet /\ WellFormed(r) /\ r.writes \in Inode \union {None}
      /\ data \in [Inode -> Seq(Byte)] /\ tempFile \in [Id -> Inode \union {None}]
  BY RequestFields DEF TypeOK
<1>2. HandlerOK(r) /\ Separate
  BY DEF TileInv
<1>3. CASE OpenTemp(p)
  <2>1. r.op = "chunk" /\ r.pc = "openTemp" /\ r.id \in Id
    BY <1>1, <1>3 DEF OpenTemp, At, WellFormed
  <2>2. UNCHANGED <<uploads, minted, data, putFile>>
    BY <1>3 DEF OpenTemp
  <2>3. ASSUME NEW n, Continue(p, [r EXCEPT !.pc = "write", !.writes = n]),
               n # None, tempFile'[r.id] = n, \A i \in Id : FileStays(i), Separate'
        PROVE  TileInv'
    <3>1. PICK new : new = [r EXCEPT !.pc = "write", !.writes = n]
      OBVIOUS
    <3>2. /\ new.op = "chunk" /\ new.pc = "write" /\ new.id = r.id /\ new.sess = r.sess
          /\ new.writes = n
      BY <1>1, <2>1, <3>1 DEF RequestSet
    <3>3. Writing(new)'
      BY <2>3, <3>2 DEF Writing
    <3> QED
      BY <2>1, <2>2, <2>3, <3>1, <3>2, <3>3, ChunkGoes
  <2>4. CASE tempFile[r.id] # None /\ UNCHANGED tempFile
             /\ Continue(p, [r EXCEPT !.pc = "write", !.writes = tempFile[r.id]])
    <3>1. PICK n : n = tempFile[r.id]
      OBVIOUS
    <3>2. (\A i \in Id : FileStays(i)) /\ Separate'
      BY <1>1, <1>2, <2>2, <2>4 DEF FileStays, Separate
    <3> QED
      BY <2>3, <2>4, <3>1, <3>2
  <2>5. CASE /\ tempFile[r.id] = None /\ FreeInode # {}
             /\ Continue(p, [r EXCEPT !.pc = "write", !.writes = NewInode])
             /\ tempFile' = [tempFile EXCEPT ![r.id] = NewInode]
    <3>1. PICK n : n = NewInode
      OBVIOUS
    <3>2. n \in Inode /\ n \notin Linked /\ n # None
      BY <2>5, <3>1, FreshInode, NoneAssumption
    <3>3. \A d \in Digest : putFile[d] # n
      BY <3>2 DEF Linked
    <3>4. Separate'
      BY <1>1, <1>2, <2>1, <2>2, <2>5, <3>1, <3>3 DEF Separate
    <3>5. \A i \in Id : FileStays(i)
      BY <1>1, <2>1, <2>2, <2>5 DEF FileStays
    <3>6. tempFile'[r.id] = n
      BY <1>1, <2>1, <2>5, <3>1
    <3> QED
      BY <2>3, <2>5, <3>1, <3>2, <3>4, <3>5, <3>6
  <2> QED
    BY <1>3, <2>4, <2>5 DEF OpenTemp
<1>4. CASE WriteChunk(p)
  <2>1. r.op = "chunk" /\ r.pc = "write" /\ r.id \in Id /\ r.piece \in Piece
    BY <1>1, <1>4 DEF WriteChunk, At, WellFormed
  <2>2. UNCHANGED <<uploads, minted, tempFile, putFile>>
    BY <1>4 DEF WriteChunk
  <2>3. /\ r.piece.start \in Nat /\ r.piece.bytes \in Seq(Byte) /\ Len(r.piece.bytes) \in Nat
    BY <2>1, PieceAssumption
  <2>4. \A i \in Id : /\ FileStays(i)
                      /\ tempFile[i] = r.writes /\ r.writes # None =>
                           Len(data'[tempFile[i]]) >= r.piece.start + Len(r.piece.bytes)
    BY <1>4, <2>2, <2>3, WriteStays DEF WriteChunk
  <2>5. Separate'
    BY <1>2, <2>2 DEF Separate
  <2>6. PICK new : new = [r EXCEPT !.pc = "record", !.writes = None]
    OBVIOUS
  <2>7. /\ new.op = "chunk" /\ new.pc = "record" /\ new.id = r.id /\ new.sess = r.sess
        /\ new.piece = r.piece
    BY <1>1, <2>1, <2>6 DEF RequestSet
  <2>8. Writing(new)'
    <3>1. SUFFICES ASSUME uploads[r.id].state = "open"
                   PROVE  tempFile[r.id] # None /\ RangeOf(r.piece).end < Len(data'[tempFile[r.id]])
      BY <2>2, <2>7 DEF Writing, OnDisk
    <3>2. r.writes # None /\ tempFile[r.id] = r.writes
      BY <1>2, <2>1, <3>1 DEF HandlerOK, Writing
    <3>3. Len(data'[tempFile[r.id]]) \in Nat
      BY <1>1, <2>1, <3>2 DEF TypeOK
    <3>4. Len(data'[tempFile[r.id]]) >= r.piece.start + Len(r.piece.bytes)
      BY <2>1, <2>4, <3>2
    <3>5. RangeOf(r.piece).end = r.piece.start + Len(r.piece.bytes) - 1
      BY DEF RangeOf
    <3> QED
      BY <2>3, <3>2, <3>3, <3>4, <3>5
  <2> QED
    BY <1>4, <2>1, <2>2, <2>4, <2>5, <2>6, <2>7, <2>8, ChunkGoes DEF WriteChunk
<1>5. ASSUME NEW n \in 0..MaxBlobSize, CancelWrite(p, n)
      PROVE  TileInv'
  <2>1. r.op = "chunk" /\ r.piece \in Piece
    BY <1>1, <1>5 DEF CancelWrite, At, WellFormed
  <2>2. UNCHANGED <<uploads, minted, tempFile, putFile>> /\ Return(p)
    BY <1>5 DEF CancelWrite
  <2>3. /\ r.piece.start \in Nat /\ r.piece.bytes \in Seq(Byte) /\ Len(r.piece.bytes) \in Nat
        /\ n \in Nat /\ n < Len(r.piece.bytes)
    BY <1>5, <2>1, PieceAssumption, SizeAssumption DEF CancelWrite
  <2>4. SubSeq(r.piece.bytes, 1, n) \in Seq(Byte)
    BY <2>3
  <2>5. \A i \in Id : FileStays(i)
    <3>1. CASE n = 0
      <4>1. Store([data EXCEPT ![r.writes] = @])
        BY <1>5, <3>1 DEF CancelWrite
      <4>2. [data EXCEPT ![r.writes] = @] = data
        BY <1>1
      <4>3. Store(data)
        BY <4>1, <4>2
      <4> QED
        BY <2>2, <4>3, DataStays
    <3>2. CASE n # 0
      <4>1. Store([data EXCEPT ![r.writes] =
                     Overwrite(@, r.piece.start, SubSeq(r.piece.bytes, 1, n))])
        BY <1>5, <3>2 DEF CancelWrite
      <4> QED
        BY <2>2, <2>3, <2>4, <4>1, WriteStays
    <3> QED
      BY <3>1, <3>2
  <2>6. Separate'
    BY <1>2, <2>2 DEF Separate
  <2> QED
    BY <2>2, <2>5, <2>6, IdleOK, FileFrame DEF Return
<1> QED
  BY <1>3, <1>4, <1>5

LEMMA BlobFileTile ==
  ASSUME TypeOK, TypeOK', ExclusiveInv, TileInv, NEW p \in Proc,
         \/ Move(p) \/ LookupBlob(p) \/ CreatePutFile(p) \/ CopyToPutFile(p)
         \/ CancelCopy(p) \/ RenamePutFile(p) \/ UnlinkBlob(p)
  PROVE  TileInv'
<1> DEFINE r == req[p]
<1>1. /\ r \in RequestSet /\ WellFormed(r)
      /\ data \in [Inode -> Seq(Byte)] /\ tempFile \in [Id -> Inode \union {None}]
      /\ putFile \in [Digest -> Inode \union {None}]
  BY RequestFields DEF TypeOK
<1>2. UNCHANGED uploads /\ UNCHANGED minted /\ Separate
  BY DEF Move, LookupBlob, CreatePutFile, CopyToPutFile, CancelCopy, RenamePutFile, UnlinkBlob,
         TileInv
<1>3. ASSUME NEW where \in Underway, NEW m, r.pc \in Underway,
             \/ Return(p) \/ Continue(p, [r EXCEPT !.pc = where])
             \/ Continue(p, [r EXCEPT !.pc = where, !.reads = m])
             \/ Continue(p, [r EXCEPT !.pc = where, !.writes = m]),
             \A i \in Id : FileStays(i), Separate'
      PROVE  TileInv'
  <2>1. \A local : Onward(r, local) => HandlerOK(local)'
    BY <1>2, OnwardOK
  <2> QED
    BY <1>1, <1>2, <1>3, <2>1, IdleOK, UnderwayOnward, FileFrame DEF Return
<1>4. CASE Move(p)
  <2>1. r.op = "complete" /\ r.pc = "move" /\ r.id \in Id /\ IsFinalizer(r)
    BY <1>1, <1>4 DEF Move, At, WellFormed, IsFinalizer
  <2>2. uploads[r.id].state # "open"
    BY <2>1 DEF ExclusiveInv, Closed
  <2>3. \A i \in Id : FileStays(i)
    BY <1>1, <1>2, <1>4, <2>1, <2>2, DataStays DEF Move
  <2>4. Separate'
    BY <1>1, <1>2, <1>4, <2>1 DEF Move, Separate
  <2>5. Return(p) \/ Continue(p, [r EXCEPT !.pc = "open"])
    BY <1>4 DEF Move
  <2>6. r.pc \in Underway /\ "open" \in Underway
    BY <2>1 DEF Underway
  <2> QED
    BY <1>3, <2>3, <2>4, <2>5, <2>6
<1>5. ASSUME Store(data), UNCHANGED tempFile
      PROVE  \A i \in Id : FileStays(i)
  BY <1>5, DataStays
<1>6. CASE LookupBlob(p)
  <2>1. Separate'
    BY <1>2, <1>6 DEF LookupBlob, Separate
  <2>2. r.pc \in Underway /\ "complete" \in Underway /\ "createPut" \in Underway
    BY <1>6 DEF LookupBlob, At, Underway
  <2>3. \/ Continue(p, [r EXCEPT !.pc = "complete", !.reads = None])
        \/ Continue(p, [r EXCEPT !.pc = "createPut"])
    BY <1>6 DEF LookupBlob
  <2> QED
    BY <1>3, <1>5, <1>6, <2>1, <2>2, <2>3 DEF LookupBlob
<1>7. CASE CreatePutFile(p)
  <2> DEFINE d == r.claim
  <2>1. UNCHANGED tempFile /\ r.pc \in Underway /\ "copy" \in Underway /\ d \in Digest
    BY <1>1, <1>7 DEF CreatePutFile, At, Underway, WellFormed
  <2>2. CASE /\ putFile[d] # None /\ UNCHANGED putFile
             /\ Continue(p, [r EXCEPT !.pc = "copy", !.writes = putFile[d]])
             /\ Store([data EXCEPT ![putFile[d]] = <<>>])
    <3>1. PICK bytes : bytes = [data EXCEPT ![putFile[d]] = <<>>]
      OBVIOUS
    <3>2. bytes \in [Inode -> Seq(Byte)]
      <4>1. <<>> \in Seq(Byte)
        OBVIOUS
      <4> QED
        BY <1>1, <3>1, <4>1
    <3>3. ASSUME NEW i \in Id
          PROVE  FileStays(i)
      <4>1. tempFile[i] # None =>
              /\ Len(data[tempFile[i]]) \in Nat /\ bytes[tempFile[i]] = data[tempFile[i]]
        BY <1>1, <1>2, <2>1, <2>2, <3>1 DEF Separate
      <4>2. Store(bytes)
        BY <2>2, <3>1
      <4> QED
        BY <2>1, <3>2, <4>1, <4>2, StoreStays
    <3>4. Separate'
      BY <1>2, <2>1, <2>2 DEF Separate
    <3> QED
      BY <1>3, <2>1, <2>2, <3>3, <3>4
  <2>3. CASE /\ putFile[d] = None /\ FreeInode # {} /\ UNCHANGED data
             /\ Continue(p, [r EXCEPT !.pc = "copy", !.writes = NewInode])
             /\ putFile' = [putFile EXCEPT ![d] = NewInode]
    <3>1. NewInode \in Inode /\ NewInode \notin Linked
      BY <2>3, FreshInode
    <3>2. \A i \in Id : tempFile[i] # NewInode
      BY <3>1 DEF Linked
    <3>3. \A i \in Id : FileStays(i)
      BY <1>1, <2>1, <2>3 DEF FileStays
    <3>4. Separate'
      <4> HIDE DEF NewInode
      <4> QED
        BY <1>1, <1>2, <2>1, <2>3, <3>2 DEF Separate
    <3> QED
      BY <1>3, <2>1, <2>3, <3>3, <3>4
  <2> QED
    BY <1>7, <2>2, <2>3 DEF CreatePutFile
<1>8. CASE CopyToPutFile(p)
  <2> DEFINE content == IF r.size = 0 THEN <<>>
                        ELSE SubSeq(data[r.reads], 1, Smaller(r.size, Len(data[r.reads])))
  <2>1. /\ r.pc \in Underway /\ "rename" \in Underway
        /\ Continue(p, [r EXCEPT !.pc = "rename", !.writes = None])
        /\ UNCHANGED tempFile /\ UNCHANGED putFile
        /\ Store([data EXCEPT ![r.writes] = Overwrite(@, 0, content)])
    BY <1>8 DEF CopyToPutFile, At, Underway
  <2>2. content \in Seq(Byte)
    <3>1. r.size = 0 \/ r.reads \in Inode
      BY <1>1, <1>8 DEF CopyToPutFile, At, WellFormed
    <3>2. r.size \in Nat
      BY RequestFields
    <3>3. CASE r.size # 0
      <4>1. PICK bytes \in Seq(Byte) : bytes = data[r.reads]
        BY <1>1, <3>1, <3>3
      <4>2. Smaller(r.size, Len(bytes)) \in 0..Len(bytes)
        BY <3>2 DEF Smaller
      <4>3. SubSeq(bytes, 1, Smaller(r.size, Len(bytes))) \in Seq(Byte)
        BY <4>2
      <4> QED
        BY <3>3, <4>1, <4>3
    <3> QED
      BY <3>3
  <2> HIDE DEF content
  <2>3. \A i \in Id : FileStays(i)
    BY <2>1, <2>2, WriteStays
  <2>4. Separate'
    BY <1>2, <2>1 DEF Separate
  <2> QED
    BY <1>3, <2>1, <2>3, <2>4
<1>9. CASE CancelCopy(p)
  <2>1. Separate'
    BY <1>1, <1>2, <1>9 DEF CancelCopy, Separate
  <2>2. r.pc \in Underway /\ "copy" \in Underway
    BY <1>9 DEF CancelCopy, At, Underway
  <2> QED
    BY <1>3, <1>5, <1>9, <2>1, <2>2 DEF CancelCopy
<1>10. CASE RenamePutFile(p)
  <2>1. Separate'
    BY <1>1, <1>2, <1>10 DEF RenamePutFile, Separate
  <2>2. r.pc \in Underway /\ "insert" \in Underway
    BY <1>10 DEF RenamePutFile, At, Underway
  <2>3. Return(p) \/ Continue(p, [r EXCEPT !.pc = "insert", !.reads = None])
    BY <1>10 DEF RenamePutFile
  <2> QED
    BY <1>3, <1>5, <1>10, <2>1, <2>2, <2>3 DEF RenamePutFile
<1>11. CASE UnlinkBlob(p)
  <2>1. Separate' /\ UNCHANGED tempFile /\ Return(p) /\ Store(data)
    BY <1>2, <1>11 DEF UnlinkBlob, Separate
  <2> QED
    BY <1>2, <1>5, <2>1, IdleOK, FileFrame DEF Return
<1> QED
  BY <1>4, <1>6, <1>7, <1>8, <1>9, <1>10, <1>11

\* The janitor goes on with another upload, an abort returns.
LEMMA NextUploadOK ==
  ASSUME TypeOK, TileInv, NEW p \in Proc, NextUpload(p), UNCHANGED uploads, UNCHANGED minted,
         req[p].pc \in {"forget", "removeTemp"}
  PROVE  \E local : Continue(p, local) /\ HandlerOK(local)'
<1> DEFINE r == req[p]
<1>1. r \in RequestSet /\ WellFormed(r) /\ HandlerOK(r)
  BY RequestFields DEF TileInv
<1>2. CASE Return(p)
  BY <1>2, IdleOK DEF Return
<1>3. ASSUME NEW i \in r.todo, Continue(p, [r EXCEPT !.pc = "forget", !.id = i, !.todo = @ \ {i}])
      PROVE  \E local : Continue(p, local) /\ HandlerOK(local)'
  <2>1. r.op \notin {"start", "chunk", "complete"}
    BY <1>1 DEF WellFormed
  <2>2. PICK new : new = [r EXCEPT !.pc = "forget", !.id = i, !.todo = @ \ {i}]
    OBVIOUS
  <2>3. new.op = r.op /\ new.pc = "forget" /\ new.sess = r.sess
    BY <1>1, <2>2 DEF RequestSet
  <2>4. HandlerOK(new)'
    BY <1>1, <2>1, <2>3 DEF HandlerOK, Prepared, CopyExact, HoldsCopy, Owns, IsFinalizer, Writing,
                            Removing, Settled
  <2> QED
    BY <1>3, <2>2, <2>4
<1> QED
  BY <1>2, <1>3 DEF NextUpload

LEMMA RemoveTile ==
  ASSUME TypeOK, TypeOK', ExclusiveInv, TileInv, NEW p \in Proc, RemoveTempFile(p)
  PROVE  TileInv'
<1> DEFINE r == req[p]
<1>1. r.pc = "removeTemp" /\ r.id \in Id /\ tempFile \in [Id -> Inode \union {None}]
  BY RequestFields DEF RemoveTempFile, At, WellFormed, TypeOK
<1>2. UNCHANGED uploads /\ UNCHANGED minted /\ UNCHANGED putFile /\ Separate
  BY DEF RemoveTempFile, TileInv
<1>3. uploads[r.id].state = "none"
  BY <1>1 DEF TileInv, HandlerOK, Removing
<1>4. \A i \in Id : FileStays(i)
  BY <1>1, <1>2, <1>3, DataStays DEF RemoveTempFile
<1>5. Separate'
  BY <1>1, <1>2 DEF RemoveTempFile, Separate
<1>6. PICK local : Continue(p, local) /\ HandlerOK(local)'
  BY <1>1, <1>2, NextUploadOK DEF RemoveTempFile
<1> QED
  BY <1>2, <1>4, <1>5, <1>6, FileFrame

\* The stores of sessions.
LEMMA SessionFrame ==
  ASSUME TypeOK, TypeOK', ExclusiveInv, TileInv, NEW p \in Proc, SessionStep(p), NEW local,
         Continue(p, local), HandlerOK(local)',
         \A i \in Id : uploads'[i] # uploads[i] => StoreOK(i)'
  PROVE  TileInv'
<1>1. UNCHANGED files
  BY DEF SessionStep, CreateUpload, RecordAndUpdate, StoreFinalizing, StoreAborted,
         StoreCompleted, ForgetUpload
<1>2. Separate' /\ \A i \in Id : FileStays(i)
  BY <1>1 DEF TypeOK, FileStays, files, TileInv, Separate
<1>3. ASSUME NEW i \in Id
      PROVE  StoreOK(i)'
  <2>1. CASE uploads'[i] = uploads[i]
    BY <1>1, <2>1 DEF TileInv, StoreOK, Written, OnDisk, Kept, files
  <2> QED
    BY <2>1
<1> QED
  BY <1>2, <1>3, SessionStepAdvances, TileFrame

\* A session that is completed or aborted, or is gone.
LEMMA EndedOK ==
  ASSUME NEW i \in Id, Apart(uploads'[i].chunks), uploads'[i].state # "open",
         uploads'[i].state \in {"finalizing", "completed"} => \E n \in Nat : Tiles(uploads'[i], n)
  PROVE  StoreOK(i)'
BY DEF StoreOK, Written, Kept

LEMMA SessionStepTile ==
  ASSUME TypeOK, TypeOK', ExclusiveInv, TileInv, NEW p \in Proc, SessionStep(p)
  PROVE  TileInv'
<1> DEFINE r == req[p]
<1>1. r \in RequestSet /\ WellFormed(r) /\ r.sess \in SessionSet /\ r.size \in Nat
      /\ uploads \in [Id -> SessionSet]
  BY RequestFields DEF TypeOK
<1>2. HandlerOK(r) /\ CopyCurrent(r) /\ Drawn(r)
  BY DEF TileInv, ExclusiveInv
<1>0. PICK u : u = r.id
  OBVIOUS
<1>3. ASSUME Return(p), \A i \in Id : uploads'[i] # uploads[i] => StoreOK(i)'
      PROVE  TileInv'
  BY <1>3, IdleOK, SessionFrame DEF Return
<1>4. ASSUME NEW i \in Id, CreateUpload(p, i)
      PROVE  TileInv'
  <2>1. r.op = "start"
    BY <1>1, <1>4 DEF CreateUpload, At, WellFormed
  <2>2. r.sess.state = "open" /\ r.sess.chunks = {}
    BY <1>2, <2>1 DEF HandlerOK, Prepared, NewUploadSession
  <2>3. uploads' = [uploads EXCEPT ![i] = r.sess] /\ Return(p)
    BY <1>4 DEF CreateUpload
  <2>4. uploads'[i].state = "open" /\ uploads'[i].chunks = {}
    BY <1>1, <2>2, <2>3
  <2>5. StoreOK(i)'
    BY <2>4 DEF StoreOK, Apart, Written, Kept
  <2> QED
    BY <1>1, <1>3, <2>3, <2>5
<1>5. CASE RecordAndUpdate(p)
  <2> DEFINE chunk == ChunkOf(r.piece)
             new == RecordChunk(r.sess, chunk)
  <2>1. r.op = "chunk" /\ r.pc = "record" /\ r.id \in Id /\ r.piece \in Piece /\ Return(p)
        /\ UNCHANGED files
    BY <1>1, <1>5 DEF RecordAndUpdate, At, WellFormed
  <2>2. CASE UNCHANGED uploads
    BY <1>3, <2>1, <2>2
  <2>3. CASE /\ SameUpload(r.id, r.sess.version) /\ r.sess.state = "open"
             /\ ~Conflicts(r.sess, chunk)
             /\ uploads' = [uploads EXCEPT ![r.id] = new]
    <3>1. new.state = "open" /\ new.chunks = r.sess.chunks \union {chunk}
      BY <1>1, <2>3 DEF RecordChunk, SessionSet
    <3>2. uploads'[u] = new
      BY <1>0, <1>1, <2>1, <2>3
    <3> HIDE DEF new
    <3>3. uploads[r.id].state = "open" /\ uploads[r.id].chunks = r.sess.chunks
      BY <1>2, <2>1, <2>3 DEF SameUpload, HandlerOK, CopyExact, CopyCurrent, HoldsCopy,
                              ReadVersion, ReadState, Current
    <3>4. Apart(new.chunks)
      <4>1. Apart(r.sess.chunks)
        BY <1>2 DEF HandlerOK
      <4> QED
        BY <2>3, <3>1, <4>1 DEF Conflicts, Apart, Overlaps
    <3>5. \A c \in new.chunks : OnDisk(r.id, c.range.end)
      <4>1. chunk.range = RangeOf(r.piece)
        BY DEF ChunkOf
      <4>2. OnDisk(r.id, chunk.range.end)
        BY <1>2, <2>1, <3>3, <4>1 DEF HandlerOK, Writing
      <4>3. \A c \in r.sess.chunks : OnDisk(r.id, c.range.end)
        BY <2>1, <3>3 DEF TileInv, StoreOK, Written
      <4> QED
        BY <3>1, <4>2, <4>3
    <3>6. StoreOK(u)'
      BY <1>0, <2>1, <3>1, <3>2, <3>4, <3>5 DEF StoreOK, Written, Kept, OnDisk, files
    <3> QED
      BY <1>0, <1>1, <1>3, <2>1, <2>3, <3>6
  <2> QED
    BY <1>5, <2>2, <2>3 DEF RecordAndUpdate, CanRecord
<1>6. CASE StoreFinalizing(p)
  <2>1. r.op = "complete" /\ r.pc = "finalize" /\ r.id \in Id /\ minted' = minted
    BY <1>1, <1>6 DEF StoreFinalizing, At, WellFormed
  <2>2. CASE Return(p) /\ UNCHANGED uploads
    BY <1>3, <2>2
  <2>3. CASE /\ SameUpload(r.id, r.sess.version - 1) /\ Continue(p, [r EXCEPT !.pc = "hash"])
             /\ uploads' = [uploads EXCEPT ![r.id] = r.sess]
    <3>1. PICK new : new = [r EXCEPT !.pc = "hash"]
      OBVIOUS
    <3>2. /\ new.op = "complete" /\ new.pc = "hash" /\ new.id = r.id
          /\ new.sess = r.sess /\ new.size = r.size
      BY <1>1, <2>1, <3>1 DEF RequestSet
    <3>3. uploads'[u] = r.sess /\ r.sess.state = "finalizing" /\ Current(r)
      BY <1>0, <1>1, <1>2, <2>1, <2>3
         DEF HandlerOK, Prepared, SameUpload, Current, ReadVersion
    <3>4. Apart(r.sess.chunks) /\ Tiles(r.sess, r.size)
      BY <1>2, <2>1, <3>3 DEF HandlerOK, Settled
    <3>5. Owns(new)' /\ Settled(new)'
      BY <1>0, <3>2, <3>3, <3>4 DEF Owns, IsFinalizer, Settling, Settled
    <3>6. HandlerOK(new)'
      BY <3>2, <3>4, <3>5 DEF HandlerOK, Prepared, CopyExact, HoldsCopy, Writing, Removing
    <3>7. StoreOK(u)'
      BY <1>0, <1>1, <2>1, <3>3, <3>4, EndedOK
    <3> QED
      BY <1>0, <1>1, <2>3, <3>1, <3>6, <3>7, SessionFrame
  <2> QED
    BY <1>6, <2>2, <2>3 DEF StoreFinalizing
<1>7. ASSUME r.op = "complete", IsFinalizer(r), r.id \in Id, NEW s \in SessionSet,
             s.chunks = r.sess.chunks, s.expected = r.sess.expected,
             s.state \in {"aborted", "completed"},
             \/ UNCHANGED uploads
             \/ uploads' = [uploads EXCEPT ![r.id] = s],
             NEW where \in Settling,
             Return(p) \/ Continue(p, [r EXCEPT !.pc = where])
      PROVE  TileInv'
  <2>1. Apart(r.sess.chunks) /\ Tiles(r.sess, r.size)
    BY <1>2, <1>7 DEF HandlerOK, Settled
  <2>2. uploads'[u] = s => StoreOK(u)'
    <3>1. Tiles(s, r.size)
      BY <1>7, <2>1 DEF Tiles
    <3> QED
      BY <1>0, <1>1, <1>7, <2>1, <3>1, EndedOK
  <2>3. \A i \in Id : uploads'[i] # uploads[i] => StoreOK(i)'
    BY <1>0, <1>1, <1>7, <2>2
  <2>4. CASE Return(p)
    BY <1>3, <2>3, <2>4
  <2>5. CASE Continue(p, [r EXCEPT !.pc = where])
    <3>1. PICK new : new = [r EXCEPT !.pc = where]
      OBVIOUS
    <3>2. /\ new.op = "complete" /\ new.pc = where /\ new.id = r.id
          /\ new.sess = r.sess /\ new.size = r.size
      BY <1>1, <1>7, <3>1 DEF RequestSet
    <3>3. uploads'[u] \in {uploads[r.id], s}
      BY <1>0, <1>1, <1>7
    <3>4. Owns(new)' /\ Settled(new)'
      BY <1>0, <1>2, <1>7, <2>1, <3>2, <3>3 DEF HandlerOK, Owns, IsFinalizer, Settling, Settled
    <3>5. HandlerOK(new)'
      BY <1>7, <2>1, <3>2, <3>4 DEF HandlerOK, Prepared, CopyExact, HoldsCopy, Writing, Removing,
                                    Settling
    <3> QED
      BY <2>3, <2>5, <3>1, <3>5, SessionFrame
  <2> QED
    BY <1>7, <2>4, <2>5
<1>8. CASE StoreAborted(p)
  <2>1. r.op = "complete" /\ r.pc = "storeAborted" /\ r.id \in Id /\ IsFinalizer(r)
    BY <1>1, <1>8 DEF StoreAborted, At, WellFormed, IsFinalizer
  <2>2. Return(p) \/ Continue(p, [r EXCEPT !.pc = "readForRelease"])
    BY <1>8 DEF StoreAborted
  <2>3. CASE UNCHANGED uploads
    <3>1. PICK s \in SessionSet : s.chunks = r.sess.chunks /\ s.expected = r.sess.expected
                                  /\ s.state \in {"aborted", "completed"}
      <4>1. Complete(r.sess) \in SessionSet /\ Complete(r.sess).chunks = r.sess.chunks
            /\ Complete(r.sess).expected = r.sess.expected /\ Complete(r.sess).state = "completed"
        BY <1>1, SessionOpsType DEF Complete, SessionSet
      <4> QED
        BY <4>1
    <3> QED
      BY <1>7, <2>1, <2>2, <2>3, <3>1 DEF Settling
  <2>4. CASE SameUpload(r.id, r.sess.version - 1) /\ uploads' = [uploads EXCEPT ![r.id] = r.sess]
    <3>1. r.sess.state = "aborted"
      BY <1>2, <2>1, <2>4 DEF SameUpload, HandlerOK, Owns
    <3> QED
      BY <1>1, <1>7, <2>1, <2>2, <2>4, <3>1 DEF Settling
  <2> QED
    BY <1>8, <2>3, <2>4 DEF StoreAborted
<1>9. CASE StoreCompleted(p)
  <2>1. r.op = "complete" /\ r.pc = "complete" /\ r.id \in Id /\ IsFinalizer(r)
    BY <1>1, <1>9 DEF StoreCompleted, At, WellFormed, IsFinalizer
  <2>2. Return(p) \/ Continue(p, [r EXCEPT !.pc = "readForCommit"])
    BY <1>9 DEF StoreCompleted
  <2>3. Complete(r.sess) \in SessionSet /\ Complete(r.sess).chunks = r.sess.chunks
        /\ Complete(r.sess).expected = r.sess.expected /\ Complete(r.sess).state = "completed"
    BY <1>1, SessionOpsType DEF Complete, SessionSet
  <2>4. UNCHANGED uploads \/ uploads' = [uploads EXCEPT ![r.id] = Complete(r.sess)]
    BY <1>9 DEF StoreCompleted
  <2> QED
    BY <1>7, <2>1, <2>2, <2>3, <2>4 DEF Settling
<1>10. CASE ForgetUpload(p)
  <2>1. r.op \in {"abort", "janitor"} /\ r.pc = "forget" /\ r.id \in Id /\ minted' = minted
    BY <1>1, <1>10 DEF ForgetUpload, At, WellFormed
  <2>2. CASE NextUpload(p) /\ UNCHANGED uploads
    <3>1. PICK local : Continue(p, local) /\ HandlerOK(local)'
      BY <2>1, <2>2, NextUploadOK
    <3> QED
      BY <2>2, <3>1, SessionFrame
  <2>3. CASE /\ uploads[r.id].state # "none" /\ uploads' = [uploads EXCEPT ![r.id] = NoSession]
             /\ Continue(p, [r EXCEPT !.pc = "removeTemp"])
    <3>1. PICK new : new = [r EXCEPT !.pc = "removeTemp"]
      OBVIOUS
    <3>2. new.op = r.op /\ new.pc = "removeTemp" /\ new.id = r.id /\ new.sess = r.sess
      BY <1>1, <3>1 DEF RequestSet
    <3>3. uploads'[u] = NoSession /\ r.id \in minted
      BY <1>0, <1>1, <2>1, <2>3 DEF ExclusiveInv
    <3>4. HandlerOK(new)'
      BY <1>0, <1>2, <2>1, <3>2, <3>3 DEF HandlerOK, Prepared, CopyExact, HoldsCopy, Owns, IsFinalizer,
                                    Writing, Removing, Settled, NoSession
    <3>5. StoreOK(u)'
      BY <1>0, <2>1, <3>3, EndedOK DEF NoSession, Apart
    <3> QED
      BY <1>0, <1>1, <2>3, <3>1, <3>4, <3>5, SessionFrame
  <2> QED
    BY <1>10, <2>2, <2>3 DEF ForgetUpload
<1> QED
  BY <1>4, <1>5, <1>6, <1>8, <1>9, <1>10 DEF SessionStep

LEMMA TileInit == Init => TileInv
<1> SUFFICES ASSUME Init
             PROVE  TileInv
  OBVIOUS
<1>1. HandlerOK(Idle)
  BY DEF HandlerOK, Idle, NoSession, Apart, Prepared, CopyExact, HoldsCopy, Owns, IsFinalizer,
         Writing, Removing, Settled
<1>2. \A p \in Proc : HandlerOK(req[p])
  BY <1>1 DEF Init
<1>3. \A i \in Id : StoreOK(i)
  BY DEF Init, StoreOK, Apart, Written, Kept, NoSession
<1> QED
  BY <1>2, <1>3 DEF Init, TileInv, Separate

LEMMA TileNext ==
  ASSUME TypeOK, TypeOK', ExclusiveInv, TileInv, [Next]_vars
  PROVE  TileInv'
<1>1. CASE UNCHANGED vars
  BY <1>1 DEF vars, files, TileInv, Separate, StoreOK, Written, Kept, OnDisk, HandlerOK, Prepared,
              CopyExact, Current, HoldsCopy, ReadVersion, Owns, IsFinalizer, Settling, Writing,
              Removing, Settled
<1>2. CASE Restart
  <2>1. \A p \in Proc : HandlerOK(req[p])'
    <3>1. \A p \in Proc : req'[p] = Idle
      BY <1>2 DEF Restart
    <3> QED
      BY <3>1 DEF HandlerOK, Idle, NoSession, Apart, Prepared, CopyExact, HoldsCopy, Owns,
                  IsFinalizer, Writing, Removing, Settled
  <2>2. \A i \in Id : StoreOK(i)'
    BY <1>2 DEF Restart, StoreOK, Apart, Written, Kept, NoSession
  <2> QED
    BY <1>2, <2>1, <2>2 DEF Restart, TileInv, Separate
<1>3. ASSUME NEW i \in Id, Expire(i)
      PROVE  TileInv'
  BY <1>3 DEF Expire, files, TileInv, Separate, StoreOK, Written, Kept, OnDisk, HandlerOK, Prepared,
              CopyExact, Current, HoldsCopy, ReadVersion, Owns, IsFinalizer, Settling, Writing,
              Removing, Settled
<1>4. ASSUME NEW p \in Proc, Handler(p)
      PROVE  TileInv'
  BY <1>4, QuotaStepTile, SessionStepTile, ChunkTile, StatTile, LookTile, BlobFileTile, RemoveTile
     DEF Handler, FileStep, BlobStep
<1> QED
  BY <1>1, <1>2, <1>3, <1>4, BeginTile DEF Next, Environment

\* Recorded chunks never overlap, and those of a session that is being or has
\* been finalized are the bytes 0 .. n-1 of an upload of the declared size,
\* although they were checked against a copy (upload.go 123-167, registry.go
\* 129-137, 150-165).  A session that is open may have gaps.
THEOREM ChunksAreTheFile == Spec => []ChunksTile
<1>1. TypeOK /\ TileInv => ChunksTile
  <2> SUFFICES ASSUME TypeOK, TileInv, NEW i \in Id
               PROVE  LET s == uploads[i]
                      IN  /\ \A c, d \in s.chunks : c # d => ~Overlaps(c.range, d.range)
                          /\ s.state \in {"finalizing", "completed"} =>
                               /\ \A b \in 0..(ChunksEnd(s) - 1) : Covered(s.chunks, b)
                               /\ s.expected # NoSize => s.expected = ChunksEnd(s)
                               /\ \A p \in Finalizers(i) : req[p].size = ChunksEnd(s)
    BY DEF ChunksTile
  <2> DEFINE s == uploads[i]
  <2>1. s \in SessionSet
    BY DEF TypeOK
  <2>2. \A c, d \in s.chunks : c # d => ~Overlaps(c.range, d.range)
    BY DEF TileInv, StoreOK, Apart
  <2>3. ASSUME s.state \in {"finalizing", "completed"}
        PROVE  /\ \A b \in 0..(ChunksEnd(s) - 1) : Covered(s.chunks, b)
               /\ s.expected # NoSize => s.expected = ChunksEnd(s)
    <3>1. PICK n \in Nat : Tiles(s, n)
      BY <2>3 DEF TileInv, StoreOK, Kept
    <3>2. ChunksEnd(s) = n
      BY <2>1, <3>1, TilesEnd
    <3> QED
      BY <3>1, <3>2 DEF Tiles
  <2>4. ASSUME s.state \in {"finalizing", "completed"}, NEW p \in Finalizers(i)
        PROVE  req[p].size = ChunksEnd(s)
    <3>1. p \in Proc /\ IsFinalizer(req[p]) /\ req[p].id = i
      BY DEF Finalizers, IsFinalizer
    <3>2. req[p].sess \in SessionSet /\ req[p].size \in Nat
      BY <3>1, RequestFields
    <3>3. Tiles(req[p].sess, req[p].size) /\ s.chunks = req[p].sess.chunks
      BY <2>4, <3>1 DEF TileInv, HandlerOK, Settled, Owns
    <3>4. ChunksEnd(req[p].sess) = req[p].size
      BY <3>2, <3>3, TilesEnd
    <3> QED
      BY <3>3, <3>4 DEF ChunksEnd
  <2> QED
    BY <2>2, <2>3, <2>4
<1> QED
  BY <1>1, TypeCorrect, TypeNext, ExclusiveInit, ExclusiveNext, TileInit, TileNext, PTL DEF Spec

\* A session's record advances by one legal transition per version, and once
\* deleted is not stored again by a handler that holds a copy, for any number
\* of handlers with copies (catalog_more.go 78-101).
THEOREM SessionsMoveOn == Spec => SessionsAdvance
<1> DEFINE A == \A i \in Id : SessionStepOK(i)
<1>1. TypeOK /\ ExclusiveInv /\ TileInv /\ [Next]_vars => [A]_vars
  <2> SUFFICES ASSUME TypeOK, ExclusiveInv, TileInv, Next
               PROVE  A
    OBVIOUS
  <2>1. ASSUME UNCHANGED uploads
        PROVE  A
    BY <2>1 DEF SessionStepOK
  <2>2. ASSUME NEW p \in Proc, SessionStep(p)
        PROVE  A
    <3>1. \A i \in Id : Advances(p, i)
      BY <2>2, SessionStepAdvances
    <3> QED
      BY <3>1 DEF Advances, SessionStepOK
  <2>3. CASE Restart
    BY <2>3 DEF Restart, SessionStepOK, NoSession
  <2>4. ASSUME NEW p \in Proc, Begin(p)
        PROVE  UNCHANGED uploads
    BY <2>4 DEF Begin, CreateRepository, StartUpload, UploadChunk, CompleteUpload, AbortUpload,
                JanitorRun, DeleteBlob
  <2>5. ASSUME NEW p \in Proc, QuotaStep(p)
        PROVE  UNCHANGED uploads
    BY <2>5 DEF QuotaStep, PutQuota, StoreReservation, ReadForCommit, ReadForRelease,
                StoreSettlement
  <2>6. ASSUME NEW p \in Proc, FileStep(p) \/ BlobStep(p)
        PROVE  UNCHANGED uploads
    BY <2>6 DEF FileStep, BlobStep, OpenTemp, WriteChunk, CancelWrite, Stat, Hash, Exists, Move,
                OpenBlobFile, CreatePutFile, CopyToPutFile, CancelCopy, RenamePutFile,
                RemoveTempFile, UnlinkBlob, LookupBlob, InsertBlob
  <2>7. ASSUME NEW i \in Id, Expire(i)
        PROVE  UNCHANGED uploads
    BY <2>7 DEF Expire
  <2> QED
    BY <2>1, <2>2, <2>3, <2>4, <2>5, <2>6, <2>7 DEF Next, Handler, Environment
<1> QED
  BY <1>1, TypeCorrect, TypeNext, ExclusiveInit, ExclusiveNext, TileInit, TileNext,
     PTL DEF Spec, SessionsAdvance

-----------------------------------------------------------------------------
(* The account.  The quota covers what every upload declared, as long as     *)
(* nobody aborts one: what is owed for an upload is what it declared, also   *)
(* while the handler that completes it has yet to settle for a session that  *)
(* was deleted meanwhile, and what is promised to one that is yet to be      *)
(* created.                                                                  *)

SizeOf(s) == IF s.expected = NoSize THEN 0 ELSE s.expected

Owed(i) ==
  IF Finalizers(i) = {} THEN Declared(uploads[i])
  ELSE SizeOf(req[CHOOSE p \in Finalizers(i) : TRUE].sess)

Promised(p) == IF At(p, "createUpload") THEN SizeOf(req[p].sess) ELSE 0

Covers ==
  SumFunctionOnSet([i \in Id |-> Owed(i)], Id) + SumFunctionOnSet([p \in Proc |-> Promised(p)], Proc)
    <= quota.used + quota.reserved

StoredVersion(r) == IF r.pc = "storeAborted" THEN r.sess.version - 1 ELSE r.sess.version

\* What its finalizer leaves of a session.
Ending(r) ==
  IsFinalizer(r) =>
    /\ Declared(uploads[r.id]) <= SizeOf(r.sess)
    /\ r.pc \in {"storeAborted", "readForRelease"} => r.sess.state = "aborted"
    /\ r.pc \notin {"storeAborted", "readForRelease", "settle"} => r.sess.state = "finalizing"
    /\ r.pc \in {"readForRelease", "settle"} /\ r.sess.state = "aborted" =>
         Declared(uploads[r.id]) = 0
    /\ r.pc \notin Settling /\ uploads[r.id].state # "none" =>
         uploads[r.id].version = StoredVersion(r)

\* The copy of the record a handler is about to store settles for its upload.
CopyPays(r) ==
  r.pc \in {"reserve", "settle"} /\ r.quota.version - 1 = quota.version =>
    LET n == r.sess.expected
    IN  /\ n \in Nat
        /\ r.pc = "reserve" => r.quota = Reserve(quota, n)
        /\ r.pc = "settle" =>
             \/ r.sess.state = "aborted" /\ CanRelease(quota, n) /\ r.quota = Release(quota, n)
             \/ CanCommit(quota, n, n) /\ r.quota = Commit(quota, n, n)

AccountInv ==
  Covers /\ \A p \in Proc : Ending(req[p]) /\ CopyPays(req[p]) /\ req[p].op # "abort"

\* All that the steps rest on.
Known == TypeOK /\ QuotaInv /\ AtomicInv /\ ExclusiveInv /\ TileInv /\ AccountInv

\* What the proofs of the other invariants give of the state after a step.
After == TypeOK' /\ ExclusiveInv'

Finite == IsFiniteSet(Id) /\ IsFiniteSet(Proc)

-----------------------------------------------------------------------------
(* What is owed *)

LEMMA SizeType ==
  ASSUME NEW s \in SessionSet
  PROVE  SizeOf(s) \in Nat /\ Declared(s) \in Nat /\ Declared(s) <= SizeOf(s)
BY DEF SizeOf, Declared, SessionSet, NoSize

OwedKnown ==
  \A i \in Id :
    /\ Finalizers(i) = {} => Owed(i) = Declared(uploads[i])
    /\ \A p \in Finalizers(i) : Owed(i) = SizeOf(req[p].sess)

LEMMA OwedBy == ExclusiveInv => OwedKnown
<1> SUFFICES ASSUME ExclusiveInv, NEW i \in Id
             PROVE  /\ Finalizers(i) = {} => Owed(i) = Declared(uploads[i])
                    /\ \A p \in Finalizers(i) : Owed(i) = SizeOf(req[p].sess)
  BY DEF OwedKnown
<1>1. ASSUME NEW p \in Finalizers(i)
      PROVE  Owed(i) = SizeOf(req[p].sess)
  <2>1. (CHOOSE q \in Finalizers(i) : TRUE) \in Finalizers(i)
    OBVIOUS
  <2>2. (CHOOSE q \in Finalizers(i) : TRUE) = p
    BY <2>1 DEF ExclusiveInv, FinalizeExclusive
  <2> QED
    BY <2>2 DEF Owed
<1> QED
  BY <1>1 DEF Owed

OwedTyped ==
  /\ \A i \in Id : Owed(i) \in Nat
  /\ \A p \in Proc : Promised(p) \in Nat

LEMMA OwedType == TypeOK /\ ExclusiveInv => OwedTyped
<1> SUFFICES ASSUME TypeOK, ExclusiveInv
             PROVE  OwedTyped
  OBVIOUS
<1>1. \A p \in Proc : req[p].sess \in SessionSet
  BY RequestFields
<1>2. \A i \in Id : uploads[i] \in SessionSet
  BY DEF TypeOK
<1>3. ASSUME NEW i \in Id
      PROVE  Owed(i) \in Nat
  <2>1. CASE Finalizers(i) = {}
    BY <1>2, <2>1, OwedBy, SizeType DEF OwedKnown
  <2>2. CASE Finalizers(i) # {}
    <3>1. PICK p \in Finalizers(i) : TRUE
      BY <2>2
    <3>2. p \in Proc /\ Owed(i) = SizeOf(req[p].sess)
      BY OwedBy DEF OwedKnown, Finalizers
    <3> QED
      BY <1>1, <3>2, SizeType
  <2> QED
    BY <2>1, <2>2
<1>4. \A p \in Proc : Promised(p) \in Nat
  BY <1>1, SizeType DEF Promised
<1> QED
  BY <1>3, <1>4 DEF OwedTyped

\* What is owed for upload i and promised to p grows by no more than the quota
\* covers.
LEMMA CoversStep ==
  ASSUME Finite, Known, After, NEW d \in Int, NEW e \in Int,
         \/ d = 0 /\ \A j \in Id : Owed(j)' <= Owed(j)
         \/ \E i \in Id : Owed(i)' <= Owed(i) + d /\ \A j \in Id \ {i} : Owed(j)' <= Owed(j),
         \/ e = 0 /\ \A q \in Proc : Promised(q)' <= Promised(q)
         \/ \E p \in Proc : /\ Promised(p)' <= Promised(p) + e
                            /\ \A q \in Proc \ {p} : Promised(q)' <= Promised(q),
         quota.used + quota.reserved + d + e <= quota'.used + quota'.reserved
  PROVE  Covers'
<1>1. PICK f : f = [j \in Id |-> Owed(j)]
  OBVIOUS
<1>2. PICK g : g = [j \in Id |-> Owed(j)']
  OBVIOUS
<1>3. PICK h : h = [q \in Proc |-> Promised(q)]
  OBVIOUS
<1>4. PICK k : k = [q \in Proc |-> Promised(q)']
  OBVIOUS
<1>5. /\ \A j \in Id : f[j] \in Nat /\ g[j] \in Nat
      /\ \A q \in Proc : h[q] \in Nat /\ k[q] \in Nat
  <2>1. /\ \A j \in Id : Owed(j) \in Nat
        /\ \A q \in Proc : Promised(q) \in Nat
    BY OwedType DEF Known, OwedTyped
  <2>2. OwedTyped'
    BY OwedType, PTL DEF After
  <2>3. /\ \A j \in Id : Owed(j)' \in Nat
        /\ \A q \in Proc : Promised(q)' \in Nat
    BY <2>2 DEF OwedTyped
  <2> QED
    BY <1>1, <1>2, <1>3, <1>4, <2>1, <2>3
<1>6. /\ SumFunctionOnSet(g, Id) \in Nat /\ SumFunctionOnSet(f, Id) \in Nat
      /\ SumFunctionOnSet(k, Proc) \in Nat /\ SumFunctionOnSet(h, Proc) \in Nat
  BY <1>5, SumUnfolds DEF Finite
<1>7. SumFunctionOnSet(g, Id) <= SumFunctionOnSet(f, Id) + d
  <2>1. CASE d = 0 /\ \A j \in Id : Owed(j)' <= Owed(j)
    <3>1. \A j \in Id : g[j] <= f[j]
      BY <1>1, <1>2, <2>1
    <3>2. SumFunctionOnSet(g, Id) <= SumFunctionOnSet(f, Id)
      BY <1>5, <3>1, SumAtMost DEF Finite
    <3> QED
      BY <1>6, <2>1, <3>2
  <2>2. ASSUME NEW i \in Id, Owed(i)' <= Owed(i) + d, \A j \in Id \ {i} : Owed(j)' <= Owed(j)
        PROVE  SumFunctionOnSet(g, Id) <= SumFunctionOnSet(f, Id) + d
    <3>1. \A j \in Id : j # i => g[j] <= f[j]
      BY <1>1, <1>2, <2>2
    <3>2. SumFunctionOnSet(g, Id) <= SumFunctionOnSet(f, Id) - f[i] + g[i]
      BY <1>5, <3>1, SumBalance DEF Finite
    <3>3. g[i] <= f[i] + d /\ f[i] \in Nat /\ g[i] \in Nat
      BY <1>1, <1>2, <1>5, <2>2
    <3> QED
      BY <1>6, <3>2, <3>3
  <2> QED
    BY <2>1, <2>2
<1>8. SumFunctionOnSet(k, Proc) <= SumFunctionOnSet(h, Proc) + e
  <2>1. CASE e = 0 /\ \A q \in Proc : Promised(q)' <= Promised(q)
    <3>1. \A q \in Proc : k[q] <= h[q]
      BY <1>3, <1>4, <2>1
    <3>2. SumFunctionOnSet(k, Proc) <= SumFunctionOnSet(h, Proc)
      BY <1>5, <3>1, SumAtMost DEF Finite
    <3> QED
      BY <1>6, <2>1, <3>2
  <2>2. ASSUME NEW p \in Proc, Promised(p)' <= Promised(p) + e,
               \A q \in Proc \ {p} : Promised(q)' <= Promised(q)
        PROVE  SumFunctionOnSet(k, Proc) <= SumFunctionOnSet(h, Proc) + e
    <3>1. \A q \in Proc : q # p => k[q] <= h[q]
      BY <1>3, <1>4, <2>2
    <3>2. SumFunctionOnSet(k, Proc) <= SumFunctionOnSet(h, Proc) - h[p] + k[p]
      BY <1>5, <3>1, SumBalance DEF Finite
    <3>3. k[p] <= h[p] + e /\ h[p] \in Nat /\ k[p] \in Nat
      BY <1>3, <1>4, <1>5, <2>2
    <3> QED
      BY <1>6, <3>2, <3>3
  <2> QED
    BY <2>1, <2>2
<1>9. SumFunctionOnSet(f, Id) + SumFunctionOnSet(h, Proc) <= quota.used + quota.reserved
  BY <1>1, <1>3 DEF Known, AccountInv, Covers
<1>10. /\ quota.used \in Nat /\ quota.reserved \in Nat
       /\ quota'.used \in Nat /\ quota'.reserved \in Nat
  BY DEF Known, After, TypeOK, QuotaSet
<1>11. SumFunctionOnSet(g, Id) + SumFunctionOnSet(k, Proc) <= quota'.used + quota'.reserved
  BY <1>6, <1>7, <1>8, <1>9, <1>10
<1> QED
  BY <1>2, <1>4, <1>11 DEF Covers

-----------------------------------------------------------------------------
(* Frames *)

\* Nobody owes more after a step that makes no session declare more, and makes no
\* new finalizer.
LEMMA OwedFades ==
  ASSUME Known, After, NEW p \in Proc, NEW local, Continue(p, local), NEW i \in Id,
         Declared(uploads[i])' <= Declared(uploads[i]),
         IsFinalizer(local) /\ local.id = i =>
           IsFinalizer(req[p]) /\ req[p].id = i /\ local.sess.expected = req[p].sess.expected
  PROVE  Owed(i)' <= Owed(i)
<1>1. req'[p] = local /\ \A q \in Proc : q # p => req'[q] = req[q]
  BY OthersStay DEF Known
<1>2. OwedKnown /\ OwedKnown' /\ OwedTyped /\ OwedTyped'
  BY OwedBy, OwedType, PTL DEF Known, After
<1>3. Declared(uploads[i]) <= Owed(i)
  <2>1. CASE Finalizers(i) = {}
    BY <1>2, <2>1 DEF OwedKnown, OwedTyped
  <2>2. ASSUME NEW q \in Finalizers(i)
        PROVE  Declared(uploads[i]) <= Owed(i)
    <3>1. q \in Proc /\ IsFinalizer(req[q]) /\ req[q].id = i
      BY DEF Finalizers, IsFinalizer
    <3> QED
      BY <1>2, <3>1 DEF OwedKnown, Known, AccountInv, Ending
  <2> QED
    BY <2>1, <2>2
<1>4. uploads[i] \in SessionSet /\ uploads'[i] \in SessionSet
  BY DEF Known, After, TypeOK
<1>5. Declared(uploads[i]) \in Nat /\ Declared(uploads[i])' \in Nat
  BY <1>4, SizeType
<1>6. CASE Finalizers(i)' = {}
  BY <1>2, <1>3, <1>5, <1>6 DEF OwedKnown, OwedTyped
<1>7. ASSUME NEW q \in Finalizers(i)'
      PROVE  Owed(i)' <= Owed(i)
  <2>1. q \in Proc /\ IsFinalizer(req'[q]) /\ req'[q].id = i
    BY DEF Finalizers, IsFinalizer
  <2>2. /\ IsFinalizer(req[q]) /\ req[q].id = i
        /\ req'[q].sess.expected = req[q].sess.expected
    BY <1>1, <2>1
  <2>3. q \in Finalizers(i)
    BY <2>1, <2>2 DEF Finalizers, IsFinalizer
  <2>4. Owed(i) = SizeOf(req[q].sess) /\ Owed(i)' = SizeOf(req'[q].sess)
    BY <1>2, <2>3 DEF OwedKnown
  <2>5. Owed(i)' = Owed(i)
    BY <2>2, <2>4 DEF SizeOf
  <2> QED
    BY <1>2, <2>5 DEF OwedTyped
<1> QED
  BY <1>6, <1>7

\* The other handlers.
LEMMA OthersPay ==
  ASSUME Known, NEW q \in Proc, req'[q] = req[q],
         IsFinalizer(req[q]) =>
           \/ uploads'[req[q].id] = uploads[req[q].id]
           \/ uploads'[req[q].id].state = "none",
         \/ quota' = quota
         \/ quota.version # 0 /\ quota'.version = quota.version + 1
         \/ ~At(q, "reserve") /\ ~At(q, "settle"),
         After
  PROVE  Ending(req[q])' /\ CopyPays(req[q])' /\ req'[q].op # "abort"
<1> DEFINE r == req[q]
<1>1. Ending(r) /\ CopyPays(r) /\ r.op # "abort"
  BY DEF Known, AccountInv
<1>2. ASSUME IsFinalizer(r)
      PROVE  Ending(r)'
  <2>1. r.id \in Id /\ r.sess \in SessionSet
    BY <1>2, RequestFields DEF Known, IsFinalizer, WellFormed
  <2>2. uploads[r.id] \in SessionSet /\ uploads'[r.id] \in SessionSet
    BY <2>1 DEF Known, After, TypeOK
  <2>3. /\ Declared(uploads[r.id]) \in Nat /\ Declared(uploads'[r.id]) \in Nat
        /\ SizeOf(r.sess) \in Nat
    BY <2>1, <2>2, SizeType
  <2>4. /\ Declared(uploads'[r.id]) <= Declared(uploads[r.id])
        /\ uploads'[r.id].state # "none" => uploads'[r.id] = uploads[r.id]
    BY <1>2, <2>3 DEF Declared
  <2>5. PICK u : u = r
    OBVIOUS
  <2> QED
    BY <1>1, <1>2, <2>3, <2>4, <2>5 DEF Ending, StoredVersion
<1>3. CopyPays(r)'
  <2>1. CASE quota' = quota
    BY <1>1, <2>1 DEF CopyPays
  <2>2. CASE quota.version # 0 /\ quota'.version = quota.version + 1
    <3>1. At(q, "reserve") \/ At(q, "settle") => r.quota.version - 1 \in 1..quota.version
      BY DEF Known, AtomicInv, CopyFits
    <3>2. quota.version \in Nat
      BY DEF Known, TypeOK, QuotaSet
    <3> QED
      BY <2>2, <3>1, <3>2 DEF CopyPays, At
  <2>3. CASE ~At(q, "reserve") /\ ~At(q, "settle")
    BY <2>3 DEF CopyPays, At
  <2> QED
    BY <2>1, <2>2, <2>3
<1> QED
  BY <1>1, <1>2, <1>3 DEF Ending

\* Only p can move on the session it is finalizing.
LEMMA OthersSessions ==
  ASSUME Known, NEW p \in Proc, \A i \in Id : Advances(p, i), NEW q \in Proc, q # p,
         IsFinalizer(req[q])
  PROVE  \/ uploads'[req[q].id] = uploads[req[q].id]
         \/ uploads'[req[q].id].state = "none"
<1> DEFINE i == req[q].id
<1>1. i \in Id
  BY RequestFields DEF Known, IsFinalizer, WellFormed
<1>2. i \in minted /\ uploads[i].state # "open"
  BY DEF Known, ExclusiveInv, Drawn, Closed, IsFinalizer
<1>3. IsFinalizer(req[p]) /\ req[p].id = i => p = q
  BY <1>1 DEF Known, ExclusiveInv, FinalizeExclusive, Finalizers, IsFinalizer
<1>4. Advances(p, i)
  BY <1>1
<1> QED
  BY <1>2, <1>3, <1>4 DEF Advances

\* What a step of p has to show: what it owes and promises for more than before
\* is in the record, and its own copy is in order.
LEMMA AccountStep ==
  ASSUME Finite, Known, After, NEW p \in Proc, NEW local, Continue(p, local),
         NEW d \in Int, NEW e \in Int,
         \/ d = 0 /\ \A j \in Id : Owed(j)' <= Owed(j)
         \/ \E i \in Id : Owed(i)' <= Owed(i) + d /\ \A j \in Id \ {i} : Owed(j)' <= Owed(j),
         Promised(p)' <= Promised(p) + e,
         quota.used + quota.reserved + d + e <= quota'.used + quota'.reserved,
         \A i \in Id : Advances(p, i),
         \/ quota' = quota
         \/ quota.version # 0 /\ quota'.version = quota.version + 1
         \/ \A q \in Proc : ~At(q, "reserve") /\ ~At(q, "settle"),
         Ending(local)', CopyPays(local)', local.op # "abort"
  PROVE  AccountInv'
<1>1. req'[p] = local /\ \A q \in Proc : q # p => req'[q] = req[q]
  BY OthersStay DEF Known
<1>2. \A q \in Proc \ {p} : Promised(q)' <= Promised(q)
  <2>1. OwedTyped
    BY OwedType DEF Known
  <2> QED
    BY <1>1, <2>1 DEF Promised, At, OwedTyped
<1>3. Covers'
  BY <1>2, CoversStep
<1>4. ASSUME NEW q \in Proc
      PROVE  Ending(req[q])' /\ CopyPays(req[q])' /\ req'[q].op # "abort"
  <2>1. CASE q = p
    BY <1>1, <2>1 DEF Ending, CopyPays, StoredVersion
  <2>2. CASE q # p
    BY <1>1, <2>2, OthersSessions, OthersPay
  <2> QED
    BY <2>1, <2>2
<1> QED
  BY <1>3, <1>4 DEF AccountInv

\* A step of p that leaves the record alone.
LEMMA AccountFrame ==
  ASSUME Finite, Known, After, NEW p \in Proc, NEW local, Continue(p, local), quota' = quota,
         \A i \in Id : Advances(p, i) /\ Declared(uploads[i])' <= Declared(uploads[i]),
         IsFinalizer(local) => /\ IsFinalizer(req[p]) /\ local.id = req[p].id
                               /\ local.sess.expected = req[p].sess.expected,
         local.pc = "createUpload" => SizeOf(local.sess) = 0,
         Ending(local)', CopyPays(local)', local.op # "abort"
  PROVE  AccountInv'
<1>1. req'[p] = local
  BY OthersStay DEF Known
<1>2. \A i \in Id : Owed(i)' <= Owed(i)
  BY OwedFades
<1>3. Promised(p)' <= Promised(p) + 0
  <2>1. OwedTyped
    BY OwedType DEF Known
  <2> QED
    BY <1>1, <2>1 DEF Promised, At, OwedTyped
<1>4. quota.used + quota.reserved + 0 + 0 <= quota'.used + quota'.reserved
  BY DEF Known, TypeOK, QuotaSet
<1> QED
  BY <1>2, <1>3, <1>4, AccountStep

LEMMA AccountReturn ==
  ASSUME Finite, Known, After, NEW p \in Proc, Return(p), quota' = quota,
         \A i \in Id : Advances(p, i) /\ Declared(uploads[i])' <= Declared(uploads[i])
  PROVE  AccountInv'
<1>1. /\ ~IsFinalizer(Idle) /\ Idle.pc # "createUpload" /\ Ending(Idle)' /\ CopyPays(Idle)'
      /\ Idle.op # "abort"
  BY DEF Idle, IsFinalizer, Ending, CopyPays
<1> QED
  BY <1>1, AccountFrame DEF Return

LEMMA SessionsStay ==
  ASSUME Known, NEW p \in Proc, uploads' = uploads
  PROVE  \A i \in Id : Advances(p, i) /\ Declared(uploads[i])' <= Declared(uploads[i])
BY SizeType DEF Known, TypeOK, Advances

\* A handler that does not wait to store or settle, about the session it had.
LEMMA AccountOnward ==
  ASSUME Finite, Known, After, NEW p \in Proc, NEW local, Continue(p, local), quota' = quota,
         uploads' = uploads,
         local.pc \notin Settling \union {"createUpload", "reserve", "storeAborted"},
         local.op # "abort",
         IsFinalizer(local) => /\ IsFinalizer(req[p]) /\ local.id = req[p].id
                               /\ local.sess = req[p].sess
                               /\ req[p].pc \notin Settling \union {"storeAborted"}
  PROVE  AccountInv'
<1>1. Ending(local)'
  BY DEF Ending, Known, AccountInv, SizeOf, StoredVersion, Settling
<1>2. CopyPays(local)'
  BY DEF CopyPays, Settling
<1> QED
  BY <1>1, <1>2, SessionsStay, AccountFrame

\* A handler that returns, or goes on without a session.
LEMMA AccountBack ==
  ASSUME Finite, Known, After, NEW p \in Proc, Return(p), quota' = quota, uploads' = uploads
  PROVE  AccountInv'
BY SessionsStay, AccountReturn

-----------------------------------------------------------------------------
(* Every action preserves the account. *)

LEMMA BeginAccount ==
  ASSUME Finite, "abort" \notin Events, Known, After, NEW p \in Proc, Begin(p)
  PROVE  AccountInv'
<1>1. uploads' = uploads /\ quota' = quota
  BY DEF Begin, CreateRepository, StartUpload, UploadChunk, CompleteUpload, AbortUpload,
         JanitorRun, DeleteBlob
<1>2. ASSUME NEW local, Continue(p, local), local.op # "abort", ~IsFinalizer(local),
             local.pc \notin Settling \union {"createUpload", "reserve", "storeAborted"}
      PROVE  AccountInv'
  BY <1>1, <1>2, AccountOnward
<1>3. ASSUME NEW e \in ExpectedSize, StartUpload(p, e)
      PROVE  AccountInv'
  <2> DEFINE free == [Idle EXCEPT !.pc = "createUpload", !.op = "start",
                                  !.sess = NewUploadSession(e)]
             metered == [Idle EXCEPT !.pc = "reserve", !.op = "start",
                                     !.sess = NewUploadSession(e), !.quota = Reserve(quota, e)]
  <2>1. ASSUME NEW local, Continue(p, local), local.op = "start",
               local.pc = "createUpload" => SizeOf(local.sess) = 0, CopyPays(local)'
        PROVE  AccountInv'
    <3>1. ~IsFinalizer(local) /\ Ending(local)'
      BY <2>1 DEF IsFinalizer, Ending
    <3> QED
      BY <1>1, <2>1, <3>1, SessionsStay, AccountFrame
  <2>2. CASE e = NoSize /\ Continue(p, free)
    <3>1. free.op = "start" /\ free.pc = "createUpload" /\ SizeOf(free.sess) = 0
      BY <2>2 DEF Idle, NewUploadSession, SizeOf
    <3>2. CopyPays(free)'
      BY <3>1 DEF CopyPays
    <3> QED
      BY <2>1, <2>2, <3>1, <3>2
  <2>3. ASSUME e # NoSize, NEW new, new = metered, Continue(p, new)
        PROVE  AccountInv'
    <3>1. e \in Nat
      BY <2>3, SizeAssumption
    <3>2. /\ new.op = "start" /\ new.pc = "reserve"
          /\ new.quota = Reserve(quota, e) /\ new.sess.expected = e
      BY <2>3 DEF Idle, NewUploadSession
    <3>3. CopyPays(new)'
      BY <1>1, <3>1, <3>2 DEF CopyPays
    <3> QED
      BY <2>1, <2>3, <3>2, <3>3
  <2> QED
    BY <1>3, <2>2, <2>3 DEF StartUpload
<1>4. ASSUME NEW r \in Repo, NEW limit \in Limit, CreateRepository(p, r, limit)
      PROVE  AccountInv'
  BY <1>2, <1>4 DEF CreateRepository, Idle, IsFinalizer, Settling
<1>5. ASSUME NEW i \in Id, NEW piece \in Piece, UploadChunk(p, i, piece)
      PROVE  AccountInv'
  BY <1>2, <1>5 DEF UploadChunk, Idle, IsFinalizer, Settling
<1>6. ASSUME NEW i \in Id, NEW d \in Digest, CompleteUpload(p, i, d)
      PROVE  AccountInv'
  BY <1>2, <1>6 DEF CompleteUpload, Idle, IsFinalizer, Settling
<1>7. ASSUME NEW i \in Id, AbortUpload(p, i)
      PROVE  AccountInv'
  BY <1>7 DEF AbortUpload, MaySend
<1>8. CASE JanitorRun(p)
  BY <1>2, <1>8 DEF JanitorRun, Idle, IsFinalizer, Settling
<1>9. ASSUME NEW d \in Digest, DeleteBlob(p, d)
      PROVE  AccountInv'
  BY <1>2, <1>9 DEF DeleteBlob, Idle, IsFinalizer, Settling
<1> QED
  BY <1>3, <1>4, <1>5, <1>6, <1>7, <1>8, <1>9 DEF Begin

LEMMA NextUploadAccount ==
  ASSUME Finite, Known, After, NEW p \in Proc, NextUpload(p), quota' = quota, uploads' = uploads,
         req[p].op = "janitor"
  PROVE  AccountInv'
<1> DEFINE local(i) == [req[p] EXCEPT !.pc = "forget", !.id = i, !.todo = @ \ {i}]
<1>1. req[p] \in RequestSet
  BY RequestFields DEF Known
<1>2. \A i : local(i).op = "janitor" /\ local(i).pc = "forget"
  BY <1>1 DEF RequestSet
<1>3. ASSUME NEW i, Continue(p, local(i))
      PROVE  AccountInv'
  BY <1>2, <1>3, AccountOnward DEF IsFinalizer, Settling
<1> QED
  BY <1>3, AccountBack DEF NextUpload

LEMMA FileStepAccount ==
  ASSUME Finite, Known, After, NEW p \in Proc, FileStep(p) \/ BlobStep(p)
  PROVE  AccountInv'
<1> DEFINE r == req[p]
           goto(where) == [r EXCEPT !.pc = where]
           read(where, m) == [r EXCEPT !.pc = where, !.reads = m]
           write(where, m) == [r EXCEPT !.pc = where, !.writes = m]
<1>1. r \in RequestSet /\ WellFormed(r) /\ r.sess \in SessionSet /\ r.op # "abort"
  BY RequestFields DEF Known, AccountInv
<1>2. uploads' = uploads /\ quota' = quota
  BY DEF FileStep, BlobStep, OpenTemp, WriteChunk, CancelWrite, Stat, Hash, Exists, Move,
         OpenBlobFile, CreatePutFile, CopyToPutFile, CancelCopy, RenamePutFile,
         RemoveTempFile, UnlinkBlob, LookupBlob, InsertBlob, files
<1>3. Return(p) => AccountInv'
  BY <1>2, AccountBack
<1>4. \A where, m :
        /\ goto(where).pc = where /\ goto(where).op = r.op
        /\ goto(where).id = r.id /\ goto(where).sess = r.sess
        /\ read(where, m).pc = where /\ read(where, m).op = r.op
        /\ read(where, m).id = r.id /\ read(where, m).sess = r.sess
        /\ write(where, m).pc = where /\ write(where, m).op = r.op
        /\ write(where, m).id = r.id /\ write(where, m).sess = r.sess
  BY <1>1 DEF RequestSet
<1>5. ASSUME NEW where \in {"write", "record"} \union Underway, NEW m,
             r.pc \in {"openTemp", "write"} \union Underway,
             \/ Continue(p, goto(where)) \/ Continue(p, read(where, m))
             \/ Continue(p, write(where, m))
      PROVE  AccountInv'
  <2>1. r.pc \notin Settling \union {"storeAborted", "stat", "finalize"}
    BY <1>5 DEF Settling, Underway
  <2>2. where \notin Settling \union {"createUpload", "reserve", "storeAborted"}
    BY <1>5 DEF Settling, Underway
  <2> HIDE DEF goto, read, write
  <2> QED
    BY <1>1, <1>2, <1>4, <1>5, <2>1, <2>2, AccountOnward DEF IsFinalizer
<1>6. CASE OpenTemp(p) \/ WriteChunk(p)
  BY <1>5, <1>6 DEF OpenTemp, WriteChunk, At
<1>7. CASE Exists(p) \/ Move(p)
  BY <1>3, <1>5, <1>7 DEF Exists, Move, At, Underway
<1>8. CASE OpenBlobFile(p) \/ CreatePutFile(p)
  BY <1>3, <1>5, <1>8 DEF OpenBlobFile, CreatePutFile, At, Underway
<1>9. CASE CopyToPutFile(p) \/ RenamePutFile(p)
  BY <1>3, <1>5, <1>9 DEF CopyToPutFile, RenamePutFile, At, Underway
<1>10. CASE BlobStep(p)
  BY <1>3, <1>5, <1>10 DEF BlobStep, LookupBlob, InsertBlob, At, Underway
<1>11. CASE CancelCopy(p) \/ UnlinkBlob(p) \/ \E n \in 0..MaxBlobSize : CancelWrite(p, n)
  BY <1>3, <1>11 DEF CancelCopy, UnlinkBlob, CancelWrite
<1>12. CASE RemoveTempFile(p)
  <2>1. r.op = "janitor"
    BY <1>1, <1>12 DEF RemoveTempFile, At, WellFormed
  <2> QED
    BY <1>2, <1>12, <2>1, NextUploadAccount DEF RemoveTempFile
<1>13. CASE Hash(p)
  <2>1. r.op = "complete" /\ r.pc = "hash" /\ IsFinalizer(r) /\ r.id \in Id
    BY <1>1, <1>13 DEF Hash, At, WellFormed, IsFinalizer
  <2>2. ASSUME NEW new, new = [r EXCEPT !.pc = "storeAborted", !.sess = Abort(r.sess)],
               Continue(p, new)
        PROVE  AccountInv'
    <3>1. /\ new.pc = "storeAborted" /\ new.op = "complete" /\ new.id = r.id
          /\ new.sess = Abort(r.sess)
      BY <1>1, <2>1, <2>2 DEF RequestSet
    <3>2. Ending(r) /\ Owns(r)
      BY DEF Known, AccountInv, TileInv, HandlerOK
    <3>3. /\ Abort(r.sess).expected = r.sess.expected
          /\ r.sess.state = "finalizing" =>
               Abort(r.sess).version - 1 = r.sess.version /\ Abort(r.sess).state = "aborted"
      BY <1>1 DEF Abort, SessionSet
    <3>4. Ending(new)'
      BY <1>2, <2>1, <3>1, <3>2, <3>3 DEF Ending, Owns, StoredVersion, Settling, SizeOf, IsFinalizer
    <3>5. CopyPays(new)'
      BY <3>1 DEF CopyPays
    <3> QED
      BY <1>2, <2>1, <2>2, <3>1, <3>3, <3>4, <3>5, SessionsStay, AccountFrame
  <2> QED
    <3>1. r.pc = "hash" /\ "hash" \in Underway /\ "exists" \in Underway
      BY <1>13 DEF Hash, At, Underway
    <3>2. \/ Return(p) \/ Continue(p, goto("exists"))
          \/ Continue(p, [r EXCEPT !.pc = "storeAborted", !.sess = Abort(r.sess)])
      BY <1>13 DEF Hash
    <3> HIDE DEF goto
    <3> QED
      BY <1>3, <1>5, <2>2, <3>1, <3>2
<1>14. CASE Stat(p)
  <2> DEFINE size == Len(data[tempFile[r.id]])
  <2>1. r.op = "complete"
    BY <1>1, <1>14 DEF Stat, At, WellFormed
  <2>2. ASSUME NEW new, new = [r EXCEPT !.pc = "finalize", !.size = size, !.sess = Finalize(r.sess)],
               Continue(p, new)
        PROVE  AccountInv'
    <3>1. new.pc = "finalize" /\ new.op = "complete"
      BY <1>1, <2>1, <2>2 DEF RequestSet
    <3> QED
      BY <1>2, <2>2, <3>1, AccountOnward DEF IsFinalizer, Settling
  <2> QED
    BY <1>3, <1>14, <2>2 DEF Stat
<1> QED
  BY <1>6, <1>7, <1>8, <1>9, <1>10, <1>11, <1>12, <1>13, <1>14 DEF FileStep

\* The handler of a completion that has its reservation settled is done.
LEMMA AfterQuotaReturns ==
  ASSUME Known, NEW p \in Proc, AfterQuota(p)
  PROVE  Return(p)
BY DEF AfterQuota, Known, AccountInv

\* A handler takes the copy of the record that settles for its upload.
LEMMA SettleAccount ==
  ASSUME Finite, Known, After, NEW p \in Proc, NEW local, Continue(p, local),
         quota' = quota, uploads' = uploads, IsFinalizer(req[p]), req[p].id \in Id,
         local.op = "complete", local.pc = "settle",
         local.id = req[p].id, local.sess = req[p].sess,
         req[p].pc \in {"readForRelease", "readForCommit"},
         CopyPays(local)
  PROVE  AccountInv'
<1>1. IsFinalizer(local)
  BY DEF IsFinalizer
<1>2. Ending(local)'
  BY DEF Ending, Known, AccountInv, StoredVersion, Settling
<1>3. CopyPays(local)'
  BY DEF CopyPays
<1> QED
  BY <1>1, <1>2, <1>3, SessionsStay, AccountFrame

LEMMA QuotaStepAccount ==
  ASSUME Finite, Known, After, NEW p \in Proc, QuotaStep(p)
  PROVE  AccountInv'
<1> DEFINE r == req[p]
           n == r.sess.expected
<1>1. /\ r \in RequestSet /\ WellFormed(r) /\ r.sess \in SessionSet /\ r.op # "abort"
      /\ quota \in QuotaSet /\ quota' \in QuotaSet
  BY RequestFields DEF Known, AccountInv, After, TypeOK
<1>2. uploads' = uploads
  BY DEF QuotaStep, PutQuota, StoreReservation, ReadForCommit, ReadForRelease, StoreSettlement
<1>3. \A i \in Id : Advances(p, i) /\ Declared(uploads[i])' <= Declared(uploads[i])
  BY <1>2, SessionsStay
<1>4. Ending(r) /\ CopyPays(r) /\ SizedAsDeclared(r) /\ Owns(r)
  BY DEF Known, AccountInv, QuotaInv, TileInv, HandlerOK
<1>5. /\ ~IsFinalizer(Idle) /\ Ending(Idle)' /\ CopyPays(Idle)' /\ Idle.op # "abort"
      /\ Idle.pc = "idle"
  BY DEF Idle, IsFinalizer, Ending, CopyPays
<1>6. OwedTyped /\ OwedKnown /\ OwedKnown'
  BY OwedType, OwedBy, PTL DEF Known, After
<1>7. ASSUME Return(p)
      PROVE  req'[p] = Idle /\ Continue(p, Idle) /\ Promised(p)' <= Promised(p) + 0
  <2>1. req'[p] = Idle /\ Continue(p, Idle)
    BY <1>7, OthersStay DEF Known, Return
  <2>2. Promised(p)' = 0
    BY <2>1 DEF Promised, At, Idle
  <2> QED
    BY <1>6, <2>1, <2>2 DEF OwedTyped
<1>8. CASE PutQuota(p)
  <2>1. quota = NoQuota /\ OpenedAs(r.quota) /\ quota' = r.quota /\ Return(p)
    BY <1>8 DEF PutQuota, Known, AtomicInv, OpeningInv
  <2>2. quota.used + quota.reserved + 0 + 0 <= quota'.used + quota'.reserved
    BY <2>1 DEF OpenedAs, NewQuota, NoQuota
  <2>3. ASSUME NEW q \in Proc
        PROVE  ~At(q, "reserve") /\ ~At(q, "settle")
    <3>1. quota.version = 0
      BY <2>1 DEF NoQuota
    <3> QED
      BY <3>1 DEF Known, AtomicInv, CopyFits
  <2>4. \A i \in Id : Owed(i)' <= Owed(i)
    BY <1>3, <1>5, <1>7, <2>1, OwedFades
  <2> QED
    BY <1>3, <1>5, <1>7, <2>1, <2>2, <2>3, <2>4, AccountStep
<1>9. CASE StoreReservation(p)
  <2>1. CASE Return(p) /\ UNCHANGED quota
    BY <1>2, <2>1, AccountBack
  <2>2. ASSUME NEW new, new = [r EXCEPT !.pc = "createUpload", !.quota = NoQuota],
               Continue(p, new), SameQuota(r.quota.version - 1), quota' = r.quota
        PROVE  AccountInv'
    <3>1. r.op = "start" /\ r.pc = "reserve"
      BY <1>1, <1>9 DEF StoreReservation, At, WellFormed
    <3>2. n \in Nat /\ quota' = Reserve(quota, n) /\ quota.version # 0
      BY <1>4, <2>2, <3>1 DEF CopyPays, SameQuota
    <3>3. new.pc = "createUpload" /\ new.op = "start" /\ new.sess = r.sess
      BY <1>1, <2>2, <3>1 DEF RequestSet
    <3>4. req'[p] = new
      BY <2>2, OthersStay DEF Known
    <3>5. Promised(p)' <= Promised(p) + n
      BY <3>1, <3>2, <3>3, <3>4 DEF Promised, At, SizeOf, NoSize
    <3>6. ~IsFinalizer(new) /\ Ending(new)' /\ CopyPays(new)'
      BY <3>3 DEF IsFinalizer, Ending, CopyPays
    <3>7. \A i \in Id : Owed(i)' <= Owed(i)
      BY <1>3, <2>2, <3>6, OwedFades
    <3>8. /\ quota.used + quota.reserved + 0 + n <= quota'.used + quota'.reserved
          /\ quota'.version = quota.version + 1
      BY <1>1, <3>2 DEF Reserve, QuotaSet
    <3>9. PICK e : e = n
      OBVIOUS
    <3>10. /\ e \in Int /\ Promised(p)' <= Promised(p) + e /\ new.op # "abort"
           /\ quota.used + quota.reserved + 0 + e <= quota'.used + quota'.reserved
      BY <3>2, <3>3, <3>5, <3>8, <3>9
    <3>11. /\ Continue(p, new) /\ 0 \in Int /\ 0 = 0
           /\ quota.version # 0 /\ quota'.version = quota.version + 1
      BY <2>2, <3>2, <3>8
    <3> QED
      BY <1>3, <3>6, <3>7, <3>10, <3>11, AccountStep
  <2> QED
    BY <1>9, <2>1, <2>2 DEF StoreReservation
<1>10. ASSUME NEW new, Continue(p, new), quota' = quota, CopyPays(new),
              r.pc \in {"readForCommit", "readForRelease"},
              new.pc = "settle", new.op = r.op, new.id = r.id, new.sess = r.sess
       PROVE  AccountInv'
  <2>1. r.op = "complete" /\ r.id \in Id /\ IsFinalizer(r)
    BY <1>1, <1>10 DEF WellFormed, IsFinalizer
  <2> QED
    BY <1>2, <1>10, <2>1, SettleAccount
<1>11. CASE ReadForCommit(p)
  <2>1. r.op = "complete" /\ r.pc = "readForCommit" /\ quota' = quota
    BY <1>1, <1>11 DEF ReadForCommit, At, WellFormed
  <2>2. CanCommit(quota, n, r.size) => n \in Nat /\ r.size = n
    BY <1>1, <1>4, <2>1 DEF CanCommit, SessionSet, NoSize, SizedAsDeclared
  <2>3. CASE AfterQuota(p)
    BY <1>2, <2>1, <2>3, AfterQuotaReturns, AccountBack
  <2>4. ASSUME CanCommit(quota, n, r.size), NEW new,
               new = [r EXCEPT !.pc = "settle", !.quota = Commit(quota, n, r.size)],
               Continue(p, new)
        PROVE  AccountInv'
    <3>1. /\ new.pc = "settle" /\ new.op = r.op /\ new.id = r.id /\ new.sess = r.sess
          /\ new.quota = Commit(quota, n, n)
      BY <1>1, <2>2, <2>4 DEF RequestSet
    <3>2. CopyPays(new)
      BY <2>2, <2>4, <3>1 DEF CopyPays
    <3> QED
      BY <1>10, <2>1, <2>4, <3>1, <3>2
  <2> QED
    BY <1>11, <2>3, <2>4 DEF ReadForCommit
<1>12. CASE ReadForRelease(p)
  <2>1. r.pc = "readForRelease" /\ quota' = quota
    BY <1>12 DEF ReadForRelease, At
  <2>2. CanRelease(quota, n) => n \in Nat
    BY <1>1 DEF CanRelease, SessionSet, NoSize
  <2>3. CASE AfterQuota(p)
    BY <1>2, <2>1, <2>3, AfterQuotaReturns, AccountBack
  <2>4. ASSUME CanRelease(quota, n), NEW new,
               new = [r EXCEPT !.pc = "settle", !.quota = Release(quota, n)], Continue(p, new)
        PROVE  AccountInv'
    <3>1. /\ new.pc = "settle" /\ new.op = r.op /\ new.id = r.id /\ new.sess = r.sess
          /\ new.quota = Release(quota, n)
      BY <1>1, <2>4 DEF RequestSet
    <3>2. r.op = "complete" /\ IsFinalizer(r)
      BY <1>1, <2>1 DEF WellFormed, IsFinalizer
    <3>3. r.sess.state = "aborted"
      BY <1>4, <2>1, <3>2 DEF Ending
    <3>4. CopyPays(new)
      BY <2>2, <2>4, <3>1, <3>3 DEF CopyPays
    <3> QED
      BY <1>10, <2>1, <2>4, <3>1, <3>4
  <2> QED
    BY <1>12, <2>3, <2>4 DEF ReadForRelease
<1>13. CASE StoreSettlement(p)
  <2>1. r.op = "complete" /\ r.pc = "settle" /\ r.id \in Id /\ IsFinalizer(r) /\ Return(p)
    BY <1>1, <1>13, AfterQuotaReturns DEF StoreSettlement, At, WellFormed, IsFinalizer
  <2>2. CASE UNCHANGED quota
    BY <1>2, <2>1, <2>2, AccountBack
  <2>3. CASE SameQuota(r.quota.version - 1) /\ quota' = r.quota
    <3>1. n \in Nat /\ quota.version # 0
      BY <1>4, <2>1, <2>3 DEF CopyPays, SameQuota
    <3>2. CASE CanCommit(quota, n, n) /\ quota' = Commit(quota, n, n)
      <4>1. \A i \in Id : Owed(i)' <= Owed(i)
        BY <1>3, <1>5, <1>7, <2>1, OwedFades
      <4>2. /\ quota.used + quota.reserved + 0 + 0 <= quota'.used + quota'.reserved
            /\ quota'.version = quota.version + 1
        BY <1>1, <3>1, <3>2 DEF CanCommit, Commit, QuotaSet
      <4> QED
        BY <1>3, <1>5, <1>7, <2>1, <3>1, <4>1, <4>2, AccountStep
    <3>3. CASE r.sess.state = "aborted" /\ CanRelease(quota, n) /\ quota' = Release(quota, n)
      <4>1. PICK i : i = r.id
        OBVIOUS
      <4>2. p \in Finalizers(i) /\ i \in Id
        BY <2>1, <4>1 DEF Finalizers, IsFinalizer
      <4>3. Owed(i) = n
        BY <1>6, <3>1, <4>2 DEF OwedKnown, SizeOf, NoSize
      <4>4. Owed(i)' = 0
        <5>1. Finalizers(i)' = {}
          <6>1. ASSUME NEW q \in Finalizers(i)'
                PROVE  FALSE
            <7>1. q \in Proc /\ IsFinalizer(req'[q]) /\ req'[q].id = i
              BY DEF Finalizers, IsFinalizer
            <7>2. q # p
              BY <1>5, <1>7, <2>1, <7>1
            <7>3. req'[q] = req[q]
              BY <2>1, <7>1, <7>2, OthersStay DEF Known, Return
            <7>4. q \in Finalizers(i)
              BY <7>1, <7>3 DEF Finalizers, IsFinalizer
            <7> QED
              BY <4>2, <7>2, <7>4 DEF Known, ExclusiveInv, FinalizeExclusive
          <6> QED
            BY <6>1
        <5>2. Declared(uploads[i]) = 0
          BY <1>4, <2>1, <3>3, <4>1 DEF Ending
        <5> QED
          BY <1>2, <1>6, <4>2, <5>1, <5>2 DEF OwedKnown
      <4>5. \A j \in Id \ {i} : Owed(j)' <= Owed(j)
        BY <1>3, <1>5, <1>7, <2>1, OwedFades
      <4>6. PICK d : d = -n
        OBVIOUS
      <4>7. /\ quota.used + quota.reserved + d + 0 <= quota'.used + quota'.reserved
            /\ quota'.version = quota.version + 1
        BY <1>1, <3>1, <3>3, <4>6 DEF CanRelease, Release, QuotaSet
      <4>8. Owed(i)' <= Owed(i) + d /\ d \in Int
        BY <3>1, <4>3, <4>4, <4>6
      <4> QED
        BY <1>3, <1>5, <1>7, <2>1, <3>1, <4>2, <4>5, <4>7, <4>8, AccountStep
    <3> QED
      BY <1>4, <2>1, <2>3, <3>2, <3>3 DEF CopyPays, SameQuota
  <2> QED
    BY <1>13, <2>2, <2>3 DEF StoreSettlement
<1> QED
  BY <1>8, <1>9, <1>11, <1>12, <1>13 DEF QuotaStep

\* A step that stores a session nobody owes more for, by a handler that goes on
\* to settle or returns.
LEMMA StoreAccount ==
  ASSUME Finite, Known, After, NEW p \in Proc, NEW local, Continue(p, local), quota' = quota,
         \A i \in Id : Advances(p, i) /\ Declared(uploads[i])' <= Declared(uploads[i]),
         IsFinalizer(req[p]), local.id = req[p].id, local.sess = req[p].sess,
         local.op = "complete", local.pc \in {"readForCommit", "readForRelease"}, Ending(local)'
  PROVE  AccountInv'
<1>1. CopyPays(local)'
  BY DEF CopyPays
<1> QED
  BY <1>1, AccountFrame

LEMMA SessionStepAccount ==
  ASSUME Finite, Known, After, NEW p \in Proc, SessionStep(p)
  PROVE  AccountInv'
<1> DEFINE r == req[p]
<1>1. /\ r \in RequestSet /\ WellFormed(r) /\ r.sess \in SessionSet /\ r.op # "abort"
      /\ quota \in QuotaSet /\ uploads \in [Id -> SessionSet] /\ uploads' \in [Id -> SessionSet]
  BY RequestFields DEF Known, AccountInv, After, TypeOK
<1>2. quota' = quota
  BY DEF SessionStep, CreateUpload, RecordAndUpdate, StoreFinalizing, StoreAborted,
         StoreCompleted, ForgetUpload
<1>3. \A i \in Id : Advances(p, i)
  BY SessionStepAdvances DEF Known
<1>4. /\ Ending(r) /\ Owns(r) /\ Prepared(r) /\ CopyExact(r)
      /\ CopyCurrent(r) /\ Drawn(r)
  BY DEF Known, AccountInv, TileInv, HandlerOK, ExclusiveInv
<1>5. OwedTyped /\ OwedKnown /\ OwedKnown'
  BY OwedType, OwedBy, PTL DEF Known, After
<1>6. /\ \A i \in Id : Declared(uploads[i]) \in Nat /\ Declared(uploads'[i]) \in Nat
      /\ SizeOf(r.sess) \in Nat
  BY <1>1, SizeType
<1>7. ASSUME NEW j, NEW s, uploads' = [uploads EXCEPT ![j] = s],
             j \in Id => Declared(s) <= Declared(uploads[j])
      PROVE  \A i \in Id : Declared(uploads[i])' <= Declared(uploads[i])
  BY <1>1, <1>6, <1>7
<1>8. CASE UNCHANGED uploads /\ Return(p)
  BY <1>2, <1>8, AccountBack
<1>9. ASSUME NEW i \in Id, CreateUpload(p, i)
      PROVE  AccountInv'
  <2>1. /\ r.op = "start" /\ r.pc = "createUpload" /\ Return(p)
        /\ i \notin minted /\ uploads' = [uploads EXCEPT ![i] = r.sess]
    BY <1>1, <1>9 DEF CreateUpload, At, WellFormed
  <2>2. uploads[i].state = "none" /\ Owed(i) = 0 /\ Finalizers(i) = {}
    <3>1. uploads[i].state = "none"
      BY <2>1 DEF Known, ExclusiveInv
    <3>2. Finalizers(i) = {}
      BY <2>1 DEF Finalizers, Known, ExclusiveInv, Drawn
    <3> QED
      BY <1>5, <3>1, <3>2 DEF OwedKnown, Declared
  <2>3. req'[p] = Idle /\ \A q \in Proc : q # p => req'[q] = req[q]
    BY <2>1, OthersStay DEF Return, Known
  <2>4. Finalizers(i)' = {}
    BY <2>2, <2>3 DEF Finalizers, Idle
  <2>5. Owed(i)' = SizeOf(r.sess)
    <3>1. uploads'[i] = r.sess /\ r.sess.state = "open"
      BY <1>1, <1>4, <2>1 DEF Prepared, NewUploadSession
    <3>2. Declared(uploads[i])' = SizeOf(r.sess)
      BY <3>1 DEF Declared, SizeOf
    <3> QED
      BY <1>5, <2>4, <3>2 DEF OwedKnown
  <2>6. Promised(p) = SizeOf(r.sess) /\ Promised(p)' = 0
    BY <2>1, <2>3 DEF Promised, At, Idle
  <2>7. ~IsFinalizer(Idle) /\ Ending(Idle)' /\ CopyPays(Idle)' /\ Idle.op # "abort"
    BY DEF Idle, IsFinalizer, Ending, CopyPays
  <2>8. \A j \in Id \ {i} : Owed(j)' <= Owed(j)
    <3>1. \A j \in Id \ {i} : Declared(uploads[j])' <= Declared(uploads[j])
      BY <1>1, <1>6, <2>1
    <3> QED
      BY <2>1, <2>7, <3>1, OwedFades DEF Return
  <2>9. PICK d : d = SizeOf(r.sess)
    OBVIOUS
  <2>10. PICK e : e = -d
    OBVIOUS
  <2>11. d \in Int /\ e \in Int /\ Owed(i)' <= Owed(i) + d /\ Promised(p)' <= Promised(p) + e
    BY <1>6, <2>2, <2>5, <2>6, <2>9, <2>10
  <2>12. quota.used + quota.reserved + d + e <= quota'.used + quota'.reserved
    BY <1>1, <1>2, <1>6, <2>9, <2>10 DEF QuotaSet
  <2> QED
    BY <1>2, <1>3, <2>1, <2>7, <2>8, <2>11, <2>12, AccountStep DEF Return
<1>10. CASE RecordAndUpdate(p)
  <2> DEFINE new == RecordChunk(r.sess, ChunkOf(r.piece))
  <2>1. r.op = "chunk" /\ r.pc = "record" /\ r.id \in Id /\ Return(p)
    BY <1>1, <1>10 DEF RecordAndUpdate, At, WellFormed
  <2>2. CASE /\ SameUpload(r.id, r.sess.version) /\ r.sess.state = "open"
             /\ uploads' = [uploads EXCEPT ![r.id] = new]
    <3>1. Current(r)
      BY <2>1, <2>2 DEF SameUpload, Current, ReadVersion
    <3>2. uploads[r.id].state = "open" /\ uploads[r.id].expected = r.sess.expected
      BY <1>4, <2>1, <2>2, <3>1
         DEF Current, CopyExact, CopyCurrent, HoldsCopy, ReadVersion, ReadState
    <3>3. new.state = "open" /\ new.expected = r.sess.expected
      BY <1>1, <2>2 DEF RecordChunk, SessionSet
    <3>4. Declared(new) <= Declared(uploads[r.id])
      BY <1>6, <2>1, <3>2, <3>3 DEF Declared
    <3> QED
      BY <1>2, <1>3, <1>7, <2>1, <2>2, <3>4, AccountReturn
  <2> QED
    BY <1>8, <1>10, <2>1, <2>2 DEF RecordAndUpdate, CanRecord
<1>11. CASE StoreFinalizing(p)
  <2>1. r.op = "complete" /\ r.pc = "finalize" /\ r.id \in Id
    BY <1>1, <1>11 DEF StoreFinalizing, At, WellFormed
  <2>2. ASSUME SameUpload(r.id, r.sess.version - 1), uploads' = [uploads EXCEPT ![r.id] = r.sess],
               NEW new, new = [r EXCEPT !.pc = "hash"], Continue(p, new)
        PROVE  AccountInv'
    <3>1. PICK i : i = r.id
      OBVIOUS
    <3>2. PICK s : s = r.sess
      OBVIOUS
    <3>3. Current(r) /\ i \in Id
      BY <1>1, <2>1, <2>2, <3>1 DEF SameUpload, Current, ReadVersion, SessionSet
    <3>4. uploads[i].state = "open" /\ uploads[i].expected = s.expected
      BY <1>4, <2>1, <3>1, <3>2, <3>3
         DEF Current, CopyExact, CopyCurrent, HoldsCopy, ReadVersion, ReadState
    <3>5. s.state = "finalizing" /\ s \in SessionSet
      BY <1>1, <1>4, <2>1, <3>2 DEF Prepared
    <3>6. new.pc = "hash" /\ new.op = "complete" /\ new.id = i /\ new.sess = s /\ IsFinalizer(new)
      BY <1>1, <2>1, <2>2, <3>1, <3>2 DEF RequestSet, IsFinalizer
    <3>7. /\ Finalizers(i) = {}
          /\ Owed(i) = SizeOf(s)
      <4>1. Finalizers(i) = {}
        BY <3>4 DEF Finalizers, Known, ExclusiveInv, Closed, IsFinalizer
      <4> QED
        BY <1>5, <3>3, <3>4, <4>1 DEF OwedKnown, Declared, SizeOf
    <3>8. Owed(i)' = SizeOf(s)
      <4>1. req'[p] = new
        BY <2>2, OthersStay DEF Known
      <4>2. p \in Finalizers(i)'
        BY <3>6, <4>1 DEF Finalizers, IsFinalizer
      <4> QED
        BY <1>5, <3>3, <3>6, <4>1, <4>2 DEF OwedKnown
    <3>9. uploads'[i] = s /\ \A j \in Id \ {i} : uploads'[j] = uploads[j]
      BY <1>1, <2>2, <3>1, <3>2, <3>3
    <3>10. \A j \in Id : Owed(j)' <= Owed(j)
      <4>1. ASSUME NEW j \in Id \ {i}
            PROVE  Owed(j)' <= Owed(j)
        <5>1. Declared(uploads[j])' <= Declared(uploads[j])
          BY <1>6, <3>9
        <5> QED
          BY <2>2, <3>6, <5>1, OwedFades
      <4> QED
        BY <1>5, <3>3, <3>7, <3>8, <4>1 DEF OwedTyped
    <3>11. Promised(p)' <= Promised(p) + 0
      <4>1. req'[p] = new
        BY <2>2, OthersStay DEF Known
      <4>2. Promised(p) = 0 /\ Promised(p)' = 0
        BY <2>1, <3>6, <4>1 DEF Promised, At
      <4> QED
        BY <4>2
    <3>12. Ending(new)'
      <4>1. Declared(s) <= SizeOf(s)
        BY <3>5, SizeType
      <4> QED
        BY <3>6, <3>5, <3>9, <4>1 DEF Ending, StoredVersion, Settling
    <3>13. CopyPays(new)'
      BY <3>6 DEF CopyPays
    <3>14. quota.used + quota.reserved + 0 + 0 <= quota'.used + quota'.reserved
      BY <1>1, <1>2 DEF QuotaSet
    <3>15. Continue(p, new) /\ new.op # "abort" /\ 0 \in Int /\ 0 = 0
      BY <2>2, <3>6
    <3> QED
      BY <1>2, <1>3, <3>10, <3>11, <3>12, <3>13, <3>14, <3>15, AccountStep
  <2> QED
    BY <1>8, <1>11, <2>2 DEF StoreFinalizing
<1>12. CASE StoreAborted(p)
  <2>1. r.op = "complete" /\ r.pc = "storeAborted" /\ r.id \in Id /\ IsFinalizer(r)
    BY <1>1, <1>12 DEF StoreAborted, At, WellFormed, IsFinalizer
  <2>2. r.sess.state = "aborted"
    BY <1>4, <2>1 DEF Ending
  <2>3. PICK i : i = r.id
    OBVIOUS
  <2>4. Declared(uploads'[i]) = 0
    <3>1. CASE SameUpload(r.id, r.sess.version - 1) /\ uploads' = [uploads EXCEPT ![r.id] = r.sess]
      BY <1>1, <2>1, <2>2, <2>3, <3>1 DEF Declared
    <3>2. CASE ~SameUpload(r.id, r.sess.version - 1) /\ UNCHANGED uploads
      BY <1>4, <2>1, <2>3, <3>2 DEF Declared, SameUpload, Ending, StoredVersion, Settling
    <3> QED
      BY <1>12, <3>1, <3>2 DEF StoreAborted
  <2>5. \A j \in Id : Declared(uploads[j])' <= Declared(uploads[j])
    <3>1. \A j \in Id \ {i} : uploads'[j] = uploads[j]
      BY <1>1, <1>12, <2>3 DEF StoreAborted
    <3> QED
      BY <1>6, <2>4, <3>1
  <2>6. ASSUME NEW new, new = [r EXCEPT !.pc = "readForRelease"], Continue(p, new)
        PROVE  AccountInv'
    <3>1. /\ new.pc = "readForRelease" /\ new.op = "complete" /\ new.id = r.id /\ new.id = i
          /\ new.sess = r.sess
      BY <1>1, <2>1, <2>3, <2>6 DEF RequestSet
    <3>2. Ending(new)'
      BY <1>6, <2>2, <2>4, <3>1 DEF Ending, Settling
    <3> QED
      BY <1>2, <1>3, <2>1, <2>5, <2>6, <3>1, <3>2, StoreAccount
  <2>7. CASE Return(p)
    BY <1>2, <1>3, <2>5, <2>7, AccountReturn
  <2> QED
    BY <1>12, <2>6, <2>7 DEF StoreAborted
<1>13. CASE StoreCompleted(p)
  <2>1. r.op = "complete" /\ r.pc = "complete" /\ r.id \in Id /\ IsFinalizer(r)
    BY <1>1, <1>13 DEF StoreCompleted, At, WellFormed, IsFinalizer
  <2>2. r.sess.state = "finalizing"
    BY <1>4, <2>1 DEF Ending
  <2>3. PICK i : i = r.id
    OBVIOUS
  <2>4. Declared(uploads'[i]) <= Declared(uploads[i])
    <3>1. CASE SameUpload(r.id, r.sess.version) /\ uploads' = [uploads EXCEPT ![r.id] = Complete(r.sess)]
      <4>1. uploads[i].expected = r.sess.expected /\ uploads[i].state = "finalizing"
        BY <1>4, <2>1, <2>3, <3>1 DEF SameUpload, Owns, Settling
      <4>2. /\ uploads'[i].state = "completed" /\ uploads'[i].expected = r.sess.expected
            /\ i \in Id
        BY <1>1, <2>1, <2>3, <3>1 DEF Complete, SessionSet
      <4> QED
        BY <1>6, <4>1, <4>2 DEF Declared
    <3>2. CASE UNCHANGED uploads
      BY <1>6, <2>1, <2>3, <3>2
    <3> QED
      BY <1>13, <3>1, <3>2 DEF StoreCompleted
  <2>5. \A j \in Id : Declared(uploads[j])' <= Declared(uploads[j])
    <3>1. \A j \in Id \ {i} : uploads'[j] = uploads[j]
      BY <1>1, <1>13, <2>3 DEF StoreCompleted
    <3> QED
      BY <1>6, <2>4, <3>1
  <2>6. ASSUME NEW new, new = [r EXCEPT !.pc = "readForCommit"], Continue(p, new)
        PROVE  AccountInv'
    <3>1. /\ new.pc = "readForCommit" /\ new.op = "complete" /\ new.id = r.id /\ new.id = i
          /\ new.sess = r.sess
      BY <1>1, <2>1, <2>3, <2>6 DEF RequestSet
    <3>2. Declared(uploads'[i]) <= SizeOf(r.sess)
      <4>1. Declared(uploads[i]) <= SizeOf(r.sess)
        BY <1>4, <2>1, <2>3 DEF Ending
      <4> QED
        BY <1>6, <2>1, <2>3, <2>4, <4>1
    <3>3. Ending(new)'
      BY <2>2, <3>1, <3>2 DEF Ending, Settling
    <3> QED
      BY <1>2, <1>3, <2>1, <2>5, <2>6, <3>1, <3>3, StoreAccount
  <2>7. CASE Return(p)
    BY <1>2, <1>3, <2>5, <2>7, AccountReturn
  <2> QED
    BY <1>13, <2>6, <2>7 DEF StoreCompleted
<1>14. CASE ForgetUpload(p)
  <2>1. r.op = "janitor" /\ r.id \in Id
    BY <1>1, <1>14 DEF ForgetUpload, At, WellFormed
  <2>2. CASE NextUpload(p) /\ UNCHANGED uploads
    BY <1>2, <2>1, <2>2, NextUploadAccount
  <2>3. CASE /\ uploads' = [uploads EXCEPT ![r.id] = NoSession]
             /\ Continue(p, [r EXCEPT !.pc = "removeTemp"])
    <3>1. PICK new : new = [r EXCEPT !.pc = "removeTemp"]
      OBVIOUS
    <3>2. new.op = "janitor" /\ new.pc = "removeTemp"
      BY <1>1, <2>1, <3>1 DEF RequestSet
    <3>3. ~IsFinalizer(new) /\ Ending(new)' /\ CopyPays(new)'
      BY <3>2 DEF IsFinalizer, Ending, CopyPays
    <3>4. Declared(NoSession) = 0
      BY DEF Declared, NoSession
    <3>5. \A j \in Id : Declared(uploads[j])' <= Declared(uploads[j])
      BY <1>6, <1>7, <2>3, <3>4
    <3> QED
      BY <1>2, <1>3, <2>3, <3>1, <3>2, <3>3, <3>5, AccountFrame
  <2> QED
    BY <1>14, <2>2, <2>3 DEF ForgetUpload
<1> QED
  BY <1>9, <1>10, <1>11, <1>12, <1>13, <1>14 DEF SessionStep

LEMMA EnvironmentAccount ==
  ASSUME Finite, Known, After, Environment
  PROVE  AccountInv'
<1>1. CASE Restart
  <2>1. /\ req' = [p \in Proc |-> Idle] /\ uploads' = [i \in Id |-> NoSession]
        /\ quota' = NoQuota
    BY <1>1 DEF Restart
  <2>2. \A i \in Id : Owed(i)' = 0
    <3>1. \A i \in Id : Finalizers(i)' = {}
      BY <2>1 DEF Finalizers, Idle
    <3>2. OwedKnown'
      BY OwedBy, PTL DEF After
    <3> QED
      BY <2>1, <3>1, <3>2 DEF OwedKnown, Declared, NoSession
  <2>3. \A p \in Proc : Promised(p)' = 0
    BY <2>1 DEF Promised, At, Idle
  <2>4. Covers'
    <3>1. PICK f : f = [i \in Id |-> Owed(i)']
      OBVIOUS
    <3>2. PICK g : g = [p \in Proc |-> Promised(p)']
      OBVIOUS
    <3>3. (\A i \in Id : f[i] = 0) /\ \A p \in Proc : g[p] = 0
      BY <2>2, <2>3, <3>1, <3>2
    <3>4. SumFunctionOnSet(f, Id) = 0 /\ SumFunctionOnSet(g, Proc) = 0
      BY <3>3, SumZero DEF Finite
    <3> QED
      BY <2>1, <3>1, <3>2, <3>4 DEF Covers, NoQuota
  <2>5. \A p \in Proc : Ending(req[p])' /\ CopyPays(req[p])' /\ req'[p].op # "abort"
    BY <2>1 DEF Ending, IsFinalizer, CopyPays, Idle
  <2> QED
    BY <2>4, <2>5 DEF AccountInv
<1>2. ASSUME NEW i \in Id, Expire(i)
      PROVE  AccountInv'
  BY <1>2 DEF Expire, Known, AccountInv, Covers, Owed, Promised, Finalizers, At, Ending,
              StoredVersion, CopyPays, Declared
<1> QED
  BY <1>1, <1>2 DEF Environment

LEMMA AccountInit == Finite /\ Init => AccountInv
<1> SUFFICES ASSUME Finite, Init
             PROVE  AccountInv
  OBVIOUS
<1>1. /\ req = [p \in Proc |-> Idle] /\ uploads = [i \in Id |-> NoSession] /\ quota = NoQuota
  BY DEF Init
<1>2. \A i \in Id : Owed(i) = 0
  <2>1. \A i \in Id : Finalizers(i) = {}
    BY <1>1 DEF Finalizers, Idle
  <2> QED
    BY <1>1, <2>1 DEF Owed, Declared, NoSession
<1>3. \A p \in Proc : Promised(p) = 0
  BY <1>1 DEF Promised, At, Idle
<1>4. Covers
  <2>1. PICK f : f = [i \in Id |-> Owed(i)]
    OBVIOUS
  <2>2. PICK g : g = [p \in Proc |-> Promised(p)]
    OBVIOUS
  <2>3. (\A i \in Id : f[i] = 0) /\ \A p \in Proc : g[p] = 0
    BY <1>2, <1>3, <2>1, <2>2
  <2>4. SumFunctionOnSet(f, Id) = 0 /\ SumFunctionOnSet(g, Proc) = 0
    BY <2>3, SumZero DEF Finite
  <2> QED
    BY <1>1, <2>1, <2>2, <2>4 DEF Covers, NoQuota
<1>5. \A p \in Proc : Ending(req[p]) /\ CopyPays(req[p]) /\ req[p].op # "abort"
  BY <1>1 DEF Ending, IsFinalizer, CopyPays, Idle
<1> QED
  BY <1>4, <1>5 DEF AccountInv

LEMMA AccountNext ==
  Finite /\ "abort" \notin Events /\ Known /\ After /\ [Next]_vars => AccountInv'
<1> SUFFICES ASSUME Finite, "abort" \notin Events, Known, After, [Next]_vars
             PROVE  AccountInv'
  OBVIOUS
<1>1. CASE UNCHANGED vars
  BY <1>1 DEF vars, Known, AccountInv, Covers, Owed, Promised, Finalizers, At, Ending,
              StoredVersion, CopyPays, Declared
<1>2. ASSUME NEW p \in Proc, Handler(p)
      PROVE  AccountInv'
  BY <1>2, QuotaStepAccount, SessionStepAccount, FileStepAccount DEF Handler
<1> QED
  BY <1>1, <1>2, BeginAccount, EnvironmentAccount DEF Next

\* What every upload declared is among what is owed for it.
LEMMA CoversAccounts == Finite /\ Known => UploadsAccounted
<1> SUFFICES ASSUME Finite, Known
             PROVE  UploadsAccounted
  OBVIOUS
<1>1. OwedTyped /\ OwedKnown
  BY OwedType, OwedBy DEF Known
<1>2. \A i \in Id : Declared(uploads[i]) \in Nat
  BY SizeType DEF Known, TypeOK
<1>3. ASSUME NEW i \in Id
      PROVE  Declared(uploads[i]) <= Owed(i)
  <2>1. CASE Finalizers(i) = {}
    BY <1>1, <1>2, <2>1 DEF OwedKnown
  <2>2. ASSUME NEW p \in Finalizers(i)
        PROVE  Declared(uploads[i]) <= Owed(i)
    <3>1. p \in Proc /\ IsFinalizer(req[p]) /\ req[p].id = i
      BY DEF Finalizers, IsFinalizer
    <3>2. Owed(i) = SizeOf(req[p].sess)
      BY <1>1 DEF OwedKnown
    <3> QED
      BY <3>1, <3>2 DEF Known, AccountInv, Ending
  <2> QED
    BY <2>1, <2>2
<1>4. PICK f : f = [i \in Id |-> Declared(uploads[i])]
  OBVIOUS
<1>5. PICK g : g = [i \in Id |-> Owed(i)]
  OBVIOUS
<1>6. PICK h : h = [p \in Proc |-> Promised(p)]
  OBVIOUS
<1>7. SumFunctionOnSet(f, Id) <= SumFunctionOnSet(g, Id)
  <2>1. \A i \in Id : f[i] \in Nat /\ g[i] \in Nat /\ f[i] <= g[i]
    BY <1>1, <1>2, <1>3, <1>4, <1>5 DEF OwedTyped
  <2> QED
    BY <2>1, SumAtMost DEF Finite
<1>8. /\ SumFunctionOnSet(f, Id) \in Nat /\ SumFunctionOnSet(g, Id) \in Nat
      /\ SumFunctionOnSet(h, Proc) \in Nat
  <2>1. /\ \A i \in Id : f[i] \in Nat /\ g[i] \in Nat
        /\ \A p \in Proc : h[p] \in Nat
    BY <1>1, <1>2, <1>4, <1>5, <1>6 DEF OwedTyped
  <2> QED
    BY <2>1, SumUnfolds DEF Finite
<1>9. SumFunctionOnSet(g, Id) + SumFunctionOnSet(h, Proc) <= quota.used + quota.reserved
  BY <1>5, <1>6 DEF Known, AccountInv, Covers
<1>10. quota.used \in Nat /\ quota.reserved \in Nat
  BY DEF Known, TypeOK, QuotaSet
<1>11. SumFunctionOnSet(f, Id) <= quota.used + quota.reserved
  BY <1>7, <1>8, <1>9, <1>10
<1> QED
  BY <1>4, <1>11 DEF UploadsAccounted

\* What the tenant has used or reserved covers what all its uploads declared,
\* for any finite number of uploads and requests, as long as the tenant has
\* one repository (a second one opens its record again, catalog_more.go 106)
\* and nobody aborts an upload (an abort may release what was never reserved
\* any more, registry.go 370).
THEOREM UploadsPaid ==
  ASSUME OneRepository, "abort" \notin Events, IsFiniteSet(Id), IsFiniteSet(Proc)
  PROVE  Spec => []UploadsAccounted
<1>1. Finite
  BY DEF Finite
<1>2. Init => AccountInv
  BY <1>1, AccountInit
<1>3. Known /\ After /\ [Next]_vars => AccountInv'
  BY <1>1, AccountNext
<1>4. Known => UploadsAccounted
  BY <1>1, CoversAccounts
<1>5. AtomicInv /\ TypeOK /\ QuotaInv /\ [Next]_vars => AtomicInv'
  BY AtomicNext
<1> QED
  BY <1>2, <1>3, <1>4, <1>5, TypeInit, TypeNext, QuotaInit, QuotaNext, AtomicInit,
     ExclusiveInit, ExclusiveNext, TileInit, TileNext, PTL DEF Spec, Known, After

-----------------------------------------------------------------------------
(* The content of the files, while clients wait for answers, copies are not  *)
(* cancelled and no blob is deleted.  An inode serves one upload or one      *)
(* digest.  A completion knows what the file holds that it moves or reads,   *)
(* because nobody else is at its upload; a file that was created anew is     *)
(* empty until a completion of its digest, still to copy, has filled it.     *)

Prudent == ~Overlapping /\ ~Cancellation /\ "deleteBlob" \notin Events

\* Of two requests on one upload one is the janitor.
Alone ==
  \A p, q \in Proc :
    p # q /\ req[p].id = req[q].id /\ req[p].id # None => "janitor" \in {req[p].op, req[q].op}

\* The inodes an upload has, and those that hold a digest or are to hold it.
InTemp(n, i) == tempFile[i] = n \/ \E p \in Proc : req[p].op = "chunk" /\ req[p].id = i /\ req[p].writes = n

InBlob(n, d) ==
  \/ blobFile[d] = n \/ putFile[d] = n
  \/ \E p \in Proc : req[p].op = "complete" /\ req[p].claim = d /\ n \in {req[p].reads, req[p].writes}

\* The descriptors a handler has open.
Opens(r) ==
  /\ r.writes # None => (r.op = "chunk" /\ r.pc = "write") \/ (r.op = "complete" /\ r.pc = "copy")
  /\ r.reads # None => r.op = "complete" /\ r.pc \in {"lookup", "createPut", "copy", "rename"}
  /\ r.pc \in {"write", "copy"} => r.writes # None

Bytes(d) == d.sha256

Verifying == {"finalize", "hash", "exists", "move"}

Publishing == {"exists", "move", "open", "lookup", "createPut", "copy", "rename", "insert"}

\* What a completion has found out about its upload's file.
Found(r) ==
  r.op = "complete" /\ r.pc \in Verifying /\ tempFile[r.id] # None =>
    /\ Len(data[tempFile[r.id]]) = r.size
    /\ r.pc \in {"exists", "move"} => data[tempFile[r.id]] = Bytes(r.claim)

Sized(r) == r.op = "complete" /\ r.pc \in Publishing => Len(Bytes(r.claim)) = r.size

\* What it reads is a blob's file, which is not created anew.
Reading(r) ==
  r.reads # None => data[r.reads] = Bytes(r.claim) /\ \A d \in Digest : putFile[d] # r.reads

Plain(r) ==
  /\ r.op # "deleteBlob" /\ (r.todo # {} => r.op = "janitor")
  /\ r.pc = "idle" => r.id = None

Request(r) == Plain(r) /\ Opens(r) /\ Sized(r) /\ Found(r) /\ Reading(r)

\* An inode serves one upload or one digest; what is a blob is not created anew.
ServesOne ==
  \A n \in Inode :
    /\ \A i, j \in Id : InTemp(n, i) /\ InTemp(n, j) => i = j
    /\ \A i \in Id, d \in Digest : ~(InTemp(n, i) /\ InBlob(n, d))
    /\ \A d, e \in Digest : InBlob(n, d) /\ InBlob(n, e) => d = e
    /\ \A d \in Digest : ~(blobFile[d] = n /\ putFile[d] = n)

Contents ==
  \A n \in Inode :
    /\ n \notin Linked => data[n] = <<>>
    /\ \A d \in Digest : InBlob(n, d) => data[n] \in {<<>>, Bytes(d)}

\* The inode holds the digest's content, or a completion is about to copy it there.
Filled(n, d) ==
  \/ data[n] = Bytes(d)
  \/ \E p \in Proc : req[p].op = "complete" /\ req[p].claim = d /\ req[p].pc = "copy" /\ req[p].writes = n

Passing(d, where) == \E p \in Proc : req[p].op = "complete" /\ req[p].claim = d /\ req[p].pc \in where

Listed ==
  \A d \in Digest : d \in blobs \/ Passing(d, {"insert"}) => blobFile[d] # None /\ Filled(blobFile[d], d)

Filling ==
  \A d \in Digest : Passing(d, {"copy", "rename"}) /\ putFile[d] # None => Filled(putFile[d], d)

ContentInv ==
  Alone /\ (\A p \in Proc : Request(req[p])) /\ ServesOne /\ Contents /\ Listed /\ Filling

LEMMA Continues ==
  ASSUME TypeOK, NEW p \in Proc, NEW local, Continue(p, local)
  PROVE  req'[p] = local /\ \A q \in Proc : q # p => req'[q] = req[q]
BY DEF TypeOK, Continue

\* A handler stays with its upload, leaves it, or finds nobody there.
Joins(p, local) ==
  \/ local.id = None \/ local.op = "janitor"
  \/ local.id = req[p].id /\ local.op = req[p].op
  \/ \A q \in Proc : req[q].id = local.id => req[q].op = "janitor"

LEMMA AloneStep ==
  ASSUME TypeOK, Alone, NEW p \in Proc, NEW local, Continue(p, local), Joins(p, local)
  PROVE  Alone'
<1>1. req'[p] = local /\ \A q \in Proc : q # p => req'[q] = req[q]
  BY Continues
<1> SUFFICES ASSUME NEW q \in Proc, NEW r \in Proc, q # r, req'[q].id = req'[r].id,
                    req'[q].id # None
             PROVE  "janitor" \in {req'[q].op, req'[r].op}
  BY DEF Alone
<1>2. CASE q # p /\ r # p
  BY <1>1, <1>2 DEF Alone
<1>3. CASE q = p
  BY <1>1, <1>3 DEF Alone, Joins
<1>4. CASE r = p
  BY <1>1, <1>4 DEF Alone, Joins
<1> QED
  BY <1>2, <1>3, <1>4

\* What a handler that did nothing knows is still so if its files are as they were.
LEMMA OtherRequest ==
  ASSUME NEW r, Request(r),
         r.op = "complete" /\ tempFile'[r.id] # None =>
           tempFile'[r.id] = tempFile[r.id] /\ data'[tempFile[r.id]] = data[tempFile[r.id]],
         r.reads # None =>
           data'[r.reads] = data[r.reads] /\ \A d \in Digest : putFile'[d] # r.reads
  PROVE  Request(r)'
<1>1. Plain(r)' /\ Opens(r)' /\ Sized(r)'
  BY DEF Request, Plain, Opens, Sized, Bytes
<1>2. Found(r)'
  <2>1. ASSUME r.op = "complete", r.pc \in Verifying, tempFile'[r.id] # None
        PROVE  /\ Len(data'[tempFile'[r.id]]) = r.size
               /\ r.pc \in {"exists", "move"} => data'[tempFile'[r.id]] = Bytes(r.claim)
    <3>1. tempFile'[r.id] = tempFile[r.id] /\ data'[tempFile[r.id]] = data[tempFile[r.id]]
      BY <2>1
    <3> QED
      BY <2>1, <3>1 DEF Request, Found
  <2> QED
    BY <2>1 DEF Found, Bytes
<1>3. Reading(r)'
  BY DEF Request, Reading, Bytes
<1> QED
  BY <1>1, <1>2, <1>3 DEF Request

\* The same of all handlers but one.
LEMMA RequestsStep ==
  ASSUME TypeOK, ContentInv, NEW p \in Proc, NEW local, Continue(p, local), Request(local)',
         \A q \in Proc : q # p /\ req[q].op = "complete" /\ tempFile'[req[q].id] # None =>
           tempFile'[req[q].id] = tempFile[req[q].id] /\ data'[tempFile[req[q].id]] = data[tempFile[req[q].id]],
         \A q \in Proc : q # p /\ req[q].reads # None =>
           data'[req[q].reads] = data[req[q].reads] /\ \A d \in Digest : putFile'[d] # req[q].reads
  PROVE  (\A q \in Proc : Request(req[q]))'
<1>1. req'[p] = local /\ \A q \in Proc : q # p => req'[q] = req[q]
  BY Continues
<1>2. ASSUME NEW q \in Proc, q # p
      PROVE  Request(req[q])'
  <2>1. Request(req[q])
    BY DEF ContentInv
  <2>2. PICK r : r = req[q]
    OBVIOUS
  <2>3. Request(r)'
    BY <1>2, <2>1, <2>2, OtherRequest
  <2>4. req'[q] = r
    BY <1>1, <1>2, <2>2
  <2> QED
    BY <2>3, <2>4
<1>3. Request(req[p])'
  BY <1>1
<1> QED
  BY <1>2, <1>3

\* No inode gets a role.
LEMMA RolesShrink ==
  ASSUME ServesOne,
         \A n \in Inode : \A i \in Id : InTemp(n, i)' => InTemp(n, i),
         \A n \in Inode : \A d \in Digest : InBlob(n, d)' => InBlob(n, d),
         \A d \in Digest : putFile'[d] = None \/ (putFile'[d] = putFile[d] /\ blobFile'[d] = blobFile[d]),
         None \notin Inode
  PROVE  ServesOne'
<1>1. \A n \in Inode :
        /\ \A i, j \in Id : InTemp(n, i)' /\ InTemp(n, j)' => i = j
        /\ \A i \in Id, d \in Digest : ~(InTemp(n, i)' /\ InBlob(n, d)')
        /\ \A d, e \in Digest : InBlob(n, d)' /\ InBlob(n, e)' => d = e
  BY DEF ServesOne
<1>2. \A n \in Inode : \A d \in Digest : ~(blobFile'[d] = n /\ putFile'[d] = n)
  BY DEF ServesOne
<1> QED
  BY <1>1, <1>2 DEF ServesOne

LEMMA WholeSubSeq ==
  ASSUME NEW s \in Seq(Byte)
  PROVE  SubSeq(s, 1, Len(s)) = s
OBVIOUS

LEMMA HashedBytes ==
  ASSUME NEW file, NEW n, NEW claim, HashOf(file, n, claim) = claim
  PROVE  Bytes(claim) = IF n = 0 THEN <<>> ELSE SubSeq(data[file], 1, n)
<1>1. \A c : Bytes(DigestBytes(c)) = c
  BY DEF Bytes, DigestBytes
<1>2. PICK c : c = IF n = 0 THEN <<>> ELSE SubSeq(data[file], 1, n)
  BY Zenon
<1>3. DigestBytes(c) = claim
  BY <1>2, Zenon DEF HashOf
<1>4. Bytes(claim) = c
  BY <1>1, <1>3
<1> QED
  BY <1>2, <1>4, Zenon

\* Only what has no name and no descriptor is gone.
Tidied == \A n \in Inode : data'[n] = IF n \in Linked' THEN data[n] ELSE <<>>

LEMMA RolesLinked ==
  ASSUME NEW n
  PROVE  /\ \A i \in Id : InTemp(n, i) => n \in Linked
         /\ \A d \in Digest : InBlob(n, d) => n \in Linked
BY DEF InTemp, InBlob, Linked

LEMMA StoreTidies == TypeOK /\ Store(data) => Tidied
BY DEF Store, Tidied

\* The files that have a name or a descriptor keep one.
LEMMA LinkedGrows ==
  ASSUME TypeOK, NEW p \in Proc, NEW local, Continue(p, local),
         req[p].reads \in {None, local.reads}, req[p].writes \in {None, local.writes},
         \A i \in Id : tempFile[i] # None => tempFile'[i] = tempFile[i],
         \A d \in Digest : blobFile[d] # None => blobFile'[d] = blobFile[d],
         \A d \in Digest : putFile[d] # None => putFile'[d] = putFile[d],
         NEW n \in Inode, n \in Linked
  PROVE  n \in Linked'
<1>1. req'[p] = local /\ \A q \in Proc : q # p => req'[q] = req[q]
  BY Continues
<1>2. n # None
  BY NoneAssumption
<1>3. CASE \E q \in Proc : n \in {req[q].reads, req[q].writes}
  <2>1. PICK q \in Proc : n \in {req[q].reads, req[q].writes}
    BY <1>3
  <2>2. n \in {req'[q].reads, req'[q].writes}
    BY <1>1, <1>2, <2>1
  <2>3. n = req'[q].reads \/ n = req'[q].writes
    BY <2>2
  <2> QED
    BY <2>3 DEF Linked
<1>4. CASE (\E i \in Id : n = tempFile[i]) \/ \E d \in Digest : n = blobFile[d] \/ n = putFile[d]
  <2>1. (\E i \in Id : n = tempFile'[i]) \/ \E d \in Digest : n = blobFile'[d] \/ n = putFile'[d]
    BY <1>2, <1>4
  <2> QED
    BY <2>1 DEF Linked
<1> QED
  BY <1>3, <1>4 DEF Linked

\* A step of a handler that has no file open, in which no file is touched.
LEMMA LookTidies ==
  ASSUME TypeOK, Contents, NEW p \in Proc, NEW local, Continue(p, local), UNCHANGED files,
         req[p].reads = None, req[p].writes = None
  PROVE  Tidied
<1>1. \A n \in Inode : n \in Linked => n \in Linked'
  BY LinkedGrows DEF files
<1>2. \A n \in Inode : n \notin Linked => data[n] = <<>>
  BY DEF Contents
<1> QED
  BY <1>1, <1>2 DEF Tidied, files

\* What was copied stays, while those that are to copy are still to.
LEMMA FilledStep ==
  ASSUME TypeOK, NEW p \in Proc, NEW local, Continue(p, local), req[p].pc # "copy",
         NEW n, NEW d, Filled(n, d), data'[n] = data[n]
  PROVE  Filled(n, d)'
<1>1. req'[p] = local /\ \A q \in Proc : q # p => req'[q] = req[q]
  BY Continues
<1>2. CASE data[n] = Bytes(d)
  BY <1>2 DEF Filled, Bytes
<1>3. CASE \E q \in Proc : req[q].op = "complete" /\ req[q].claim = d /\ req[q].pc = "copy" /\ req[q].writes = n
  BY <1>1, <1>3 DEF Filled
<1> QED
  BY <1>2, <1>3 DEF Filled

LEMMA PassingStep ==
  ASSUME TypeOK, NEW p \in Proc, NEW local, Continue(p, local), NEW d, NEW where, Passing(d, where)',
         local.op = "complete" /\ local.claim = d /\ local.pc \in where => Passing(d, where)
  PROVE  Passing(d, where)
<1>1. req'[p] = local /\ \A q \in Proc : q # p => req'[q] = req[q]
  BY Continues
<1>2. PICK q \in Proc : req'[q].op = "complete" /\ req'[q].claim = d /\ req'[q].pc \in where
  BY DEF Passing
<1> QED
  BY <1>1, <1>2 DEF Passing

\* What will be listed, or is about to be, was so before.
Lists(local) ==
  \A d \in Digest :
    d \in blobs' \/ (local.op = "complete" /\ local.claim = d /\ local.pc = "insert") =>
      d \in blobs \/ Passing(d, {"insert"})

LEMMA ListedAt ==
  ASSUME TypeOK, Listed, NEW p \in Proc, NEW local, Continue(p, local), req[p].pc # "copy",
         NEW d \in Digest, d \in blobs' \/ (local.op = "complete" /\ local.claim = d /\ local.pc = "insert")
                             => d \in blobs \/ Passing(d, {"insert"}),
         d \in blobs' \/ Passing(d, {"insert"})',
         blobFile[d] # None => blobFile'[d] = blobFile[d] /\ data'[blobFile[d]] = data[blobFile[d]]
  PROVE  blobFile'[d] # None /\ Filled(blobFile[d], d)'
<1>1. d \in blobs \/ Passing(d, {"insert"})
  BY PassingStep
<1>2. blobFile[d] # None /\ Filled(blobFile[d], d)
  BY <1>1 DEF Listed
<1>3. PICK n : n = blobFile[d]
  OBVIOUS
<1>4. blobFile'[d] = n /\ data'[n] = data[n]
  BY <1>2, <1>3
<1>5. Filled(n, d)'
  BY <1>2, <1>3, <1>4, FilledStep
<1> QED
  BY <1>2, <1>3, <1>4, <1>5

LEMMA ListedStep ==
  ASSUME TypeOK, Listed, NEW p \in Proc, NEW local, Continue(p, local), req[p].pc # "copy", Lists(local),
         \A d \in Digest : blobFile[d] # None =>
           blobFile'[d] = blobFile[d] /\ data'[blobFile[d]] = data[blobFile[d]]
  PROVE  Listed'
<1> SUFFICES ASSUME NEW d \in Digest, d \in blobs' \/ Passing(d, {"insert"})'
             PROVE  blobFile'[d] # None /\ Filled(blobFile[d], d)'
  BY DEF Listed
<1> QED
  BY ListedAt DEF Lists

LEMMA FillingAt ==
  ASSUME TypeOK, Filling, NEW p \in Proc, NEW local, Continue(p, local), req[p].pc # "copy",
         NEW d \in Digest, Passing(d, {"copy", "rename"})',
         ~(local.op = "complete" /\ local.claim = d /\ local.pc \in {"copy", "rename"}),
         putFile'[d] # None, putFile'[d] = putFile[d], data'[putFile[d]] = data[putFile[d]]
  PROVE  Filled(putFile[d], d)'
<1>1. Passing(d, {"copy", "rename"})
  BY PassingStep
<1>2. PICK n : n = putFile[d]
  OBVIOUS
<1>3. putFile'[d] = n /\ data'[n] = data[n] /\ Filled(n, d)
  BY <1>1, <1>2 DEF Filling
<1>4. Filled(n, d)'
  BY <1>3, FilledStep
<1> QED
  BY <1>3, <1>4

LEMMA FillingStep ==
  ASSUME TypeOK, Filling, NEW p \in Proc, NEW local, Continue(p, local), req[p].pc # "copy",
         local.op = "complete" => local.pc \notin {"copy", "rename"},
         \A d \in Digest : putFile'[d] # None =>
           putFile'[d] = putFile[d] /\ data'[putFile[d]] = data[putFile[d]]
  PROVE  Filling'
<1> SUFFICES ASSUME NEW d \in Digest, Passing(d, {"copy", "rename"})', putFile'[d] # None
             PROVE  Filled(putFile[d], d)'
  BY DEF Filling
<1> QED
  BY FillingAt

\* The roles a handler's descriptors have.
Roles(local) ==
  /\ local.op = "chunk" => \A n \in Inode : n = local.writes => InTemp(n, local.id)
  /\ local.op = "complete" => \A n \in Inode : n \in {local.reads, local.writes} => InBlob(n, local.claim)

LEMMA InBlobStep ==
  ASSUME TypeOK, NEW p \in Proc, NEW local, Continue(p, local), Roles(local),
         NEW n \in Inode, NEW d \in Digest, blobFile'[d] = n => InBlob(n, d),
         putFile'[d] = n => InBlob(n, d), InBlob(n, d)'
  PROVE  InBlob(n, d)
<1>1. req'[p] = local /\ \A q \in Proc : q # p => req'[q] = req[q]
  BY Continues
<1>2. CASE \E q \in Proc : req'[q].op = "complete" /\ req'[q].claim = d /\ n \in {req'[q].reads, req'[q].writes}
  <2>1. PICK q \in Proc : req'[q].op = "complete" /\ req'[q].claim = d /\ n \in {req'[q].reads, req'[q].writes}
    BY <1>2
  <2>2. CASE q = p
    BY <1>1, <2>1, <2>2 DEF Roles
  <2>3. CASE q # p
    BY <1>1, <2>1, <2>3 DEF InBlob
  <2> QED
    BY <2>2, <2>3
<1> QED
  BY <1>2 DEF InBlob

LEMMA InTempStep ==
  ASSUME TypeOK, NEW p \in Proc, NEW local, Continue(p, local), Roles(local),
         NEW n \in Inode, NEW i \in Id, tempFile'[i] \in {tempFile[i], None}, InTemp(n, i)'
  PROVE  InTemp(n, i)
<1>1. req'[p] = local /\ \A q \in Proc : q # p => req'[q] = req[q]
  BY Continues
<1>2. CASE \E q \in Proc : req'[q].op = "chunk" /\ req'[q].id = i /\ req'[q].writes = n
  <2>1. PICK q \in Proc : req'[q].op = "chunk" /\ req'[q].id = i /\ req'[q].writes = n
    BY <1>2
  <2>2. CASE q = p
    BY <1>1, <2>1, <2>2 DEF Roles
  <2>3. CASE q # p
    BY <1>1, <2>1, <2>3 DEF InTemp
  <2> QED
    BY <2>2, <2>3
<1>3. CASE tempFile'[i] = n
  BY <1>3, NoneAssumption DEF InTemp
<1> QED
  BY <1>2, <1>3 DEF InTemp

\* The same, but for one that is written.
TidiedBut(n) ==
  \A m \in Inode : /\ m \notin Linked' => data'[m] = <<>>
                   /\ m # n /\ m \in Linked' => data'[m] = data[m]

LEMMA StoreTidiesBut ==
  ASSUME TypeOK, NEW n, NEW c, Store([data EXCEPT ![n] = c])
  PROVE  TidiedBut(n) /\ (n \in Inode /\ n \in Linked' => data'[n] = c)
BY DEF Store, TidiedBut, TypeOK

\* What a file that has a name, or that is read, holds.
LEMMA OtherFiles ==
  ASSUME TypeOK', NEW n, TidiedBut(n)
  PROVE  /\ \A i \in Id : tempFile'[i] \notin {None, n} => data'[tempFile'[i]] = data[tempFile'[i]]
         /\ \A d \in Digest : blobFile'[d] \notin {None, n} => data'[blobFile'[d]] = data[blobFile'[d]]
         /\ \A d \in Digest : putFile'[d] \notin {None, n} => data'[putFile'[d]] = data[putFile'[d]]
         /\ \A q \in Proc : req'[q].reads \notin {None, n} => data'[req'[q].reads] = data[req'[q].reads]
<1>1. \A m \in Inode : m # n /\ m \in Linked' => data'[m] = data[m]
  BY DEF TidiedBut
<1>2. \A i \in Id : tempFile'[i] # None => tempFile'[i] \in Inode /\ tempFile'[i] \in Linked'
  BY DEF TypeOK, Linked
<1>3. \A d \in Digest : blobFile'[d] # None => blobFile'[d] \in Inode /\ blobFile'[d] \in Linked'
  BY DEF TypeOK, Linked
<1>4. \A d \in Digest : putFile'[d] # None => putFile'[d] \in Inode /\ putFile'[d] \in Linked'
  BY DEF TypeOK, Linked
<1>5. \A q \in Proc : req'[q].reads # None => req'[q].reads \in Inode /\ req'[q].reads \in Linked'
  BY DEF TypeOK, RequestSet, Linked
<1> QED
  BY <1>1, <1>2, <1>3, <1>4, <1>5

LEMMA TidyFiles ==
  ASSUME TypeOK', Tidied
  PROVE  /\ \A i \in Id : tempFile'[i] # None => data'[tempFile'[i]] = data[tempFile'[i]]
         /\ \A d \in Digest : blobFile'[d] # None => data'[blobFile'[d]] = data[blobFile'[d]]
         /\ \A d \in Digest : putFile'[d] # None => data'[putFile'[d]] = data[putFile'[d]]
         /\ \A q \in Proc : req'[q].reads # None => data'[req'[q].reads] = data[req'[q].reads]
<1>1. TidiedBut(None)
  BY DEF Tidied, TidiedBut
<1> QED
  BY <1>1, OtherFiles

\* A step in which nothing is written and no file gets a name.
LEMMA ContentStep ==
  ASSUME TypeOK, TypeOK', ContentInv, NEW p \in Proc, NEW local, Continue(p, local),
         Joins(p, local), Request(local)', Roles(local), Tidied,
         Lists(local), req[p].pc # "copy", local.op = "complete" => local.pc \notin {"copy", "rename"},
         UNCHANGED <<blobFile, putFile>>, \A i \in Id : tempFile'[i] \in {tempFile[i], None}
  PROVE  ContentInv'
<1>1. req'[p] = local /\ \A q \in Proc : q # p => req'[q] = req[q]
  BY Continues
<1>2. Alone'
  BY AloneStep DEF ContentInv
<1>3. \A n \in Inode : \A i \in Id : InTemp(n, i)' => InTemp(n, i)
  BY InTempStep
<1>4. \A n \in Inode : \A d \in Digest : InBlob(n, d)' => InBlob(n, d)
  <2>1. \A n \in Inode : \A d \in Digest : (blobFile'[d] = n \/ putFile'[d] = n) => InBlob(n, d)
    BY DEF InBlob
  <2> QED
    BY <2>1, InBlobStep
<1>5. ServesOne'
  BY <1>3, <1>4, RolesShrink, NoneAssumption DEF ContentInv
<1>6. Contents'
  <2> SUFFICES ASSUME NEW n \in Inode
               PROVE  /\ n \notin Linked' => data'[n] = <<>>
                      /\ \A d \in Digest : InBlob(n, d)' => data'[n] \in {<<>>, Bytes(d)}
    BY DEF Contents, Bytes
  <2>1. n \notin Linked' => data'[n] = <<>>
    BY DEF Tidied
  <2>2. data'[n] \in {data[n], <<>>}
    BY DEF Tidied
  <2>3. \A d \in Digest : InBlob(n, d)' => data[n] \in {<<>>, Bytes(d)}
    BY <1>4 DEF ContentInv, Contents
  <2> QED
    BY <2>1, <2>2, <2>3
<1>7. /\ \A d \in Digest : blobFile[d] # None => blobFile'[d] = blobFile[d] /\ data'[blobFile[d]] = data[blobFile[d]]
      /\ \A d \in Digest : putFile'[d] # None => putFile'[d] = putFile[d] /\ data'[putFile[d]] = data[putFile[d]]
  BY TidyFiles
<1>8. Listed'
  BY <1>7, ListedStep DEF ContentInv
<1>9. Filling'
  BY <1>7, FillingStep DEF ContentInv
<1>10. (\A q \in Proc : Request(req[q]))'
  <2>1. \A q \in Proc : q # p /\ req[q].op = "complete" /\ tempFile'[req[q].id] # None =>
          tempFile'[req[q].id] = tempFile[req[q].id] /\ data'[tempFile[req[q].id]] = data[tempFile[req[q].id]]
    <3> SUFFICES ASSUME NEW q \in Proc, req[q].op = "complete", tempFile'[req[q].id] # None
                 PROVE  tempFile'[req[q].id] = tempFile[req[q].id] /\ data'[tempFile[req[q].id]] = data[tempFile[req[q].id]]
      OBVIOUS
    <3>1. req[q].id \in Id
      BY RequestFields DEF WellFormed
    <3> QED
      BY <3>1, TidyFiles
  <2>2. \A q \in Proc : q # p /\ req[q].reads # None =>
          data'[req[q].reads] = data[req[q].reads] /\ \A d \in Digest : putFile'[d] # req[q].reads
    <3> SUFFICES ASSUME NEW q \in Proc, q # p, req[q].reads # None
                 PROVE  data'[req[q].reads] = data[req[q].reads] /\ \A d \in Digest : putFile'[d] # req[q].reads
      OBVIOUS
    <3>1. req'[q].reads = req[q].reads
      BY <1>1
    <3>2. data'[req[q].reads] = data[req[q].reads]
      BY <3>1, TidyFiles
    <3>3. \A d \in Digest : putFile[d] # req[q].reads
      BY DEF ContentInv, Request, Reading
    <3> QED
      BY <3>2, <3>3
  <2> QED
    BY <2>1, <2>2, RequestsStep
<1> QED
  BY <1>2, <1>5, <1>6, <1>8, <1>9, <1>10 DEF ContentInv

LEMMA SameFilesRequest ==
  ASSUME NEW local, Request(local), UNCHANGED files
  PROVE  Request(local)'
<1>1. Plain(local)' /\ Opens(local)' /\ Sized(local)'
  BY DEF Request, Plain, Opens, Sized, Bytes
<1>2. Found(local)' /\ Reading(local)'
  BY DEF Request, Found, Reading, Bytes, files
<1> QED
  BY <1>1, <1>2 DEF Request

LEMMA NoRoles ==
  ASSUME NEW local, local.reads = None, local.writes = None
  PROVE  Roles(local)
BY NoneAssumption DEF Roles

\* A step that only moves a handler on, with no file open.
LEMMA MoveOn ==
  ASSUME TypeOK, TypeOK', ContentInv, NEW p \in Proc, NEW local, Continue(p, local),
         Joins(p, local), Request(local), UNCHANGED <<files, blobs>>,
         req[p].pc \notin {"write", "lookup", "createPut", "copy", "rename"},
         local.reads = None, local.writes = None, local.pc \notin {"copy", "rename", "insert"}
  PROVE  ContentInv'
<1>1. Opens(req[p])
  BY DEF ContentInv, Request
<1>2. req[p].reads = None /\ req[p].writes = None
  BY <1>1 DEF Opens
<1>3. Tidied
  BY <1>2, LookTidies DEF ContentInv
<1>4. Request(local)'
  BY SameFilesRequest
<1>5. Roles(local)
  BY NoRoles
<1>6. UNCHANGED <<blobFile, putFile, blobs>> /\ \A i \in Id : tempFile'[i] \in {tempFile[i], None}
  BY DEF files
<1>7. Lists(local)
  BY DEF Lists
<1> QED
  BY <1>3, <1>4, <1>5, <1>6, <1>7, ContentStep

\* It has yet to look at its file, or is done with it.
Unconcerned(local) ==
  /\ local.op # "deleteBlob" /\ (local.todo # {} => local.op = "janitor")
  /\ local.pc \notin {"idle", "write"} \union Verifying \union Publishing
  /\ local.reads = None /\ local.writes = None

LEMMA UnconcernedRequest ==
  ASSUME NEW local, Unconcerned(local)
  PROVE  Request(local) /\ Request(local)'
<1>1. Plain(local) /\ Opens(local)
  BY DEF Unconcerned, Plain, Opens, Publishing
<1>2. Sized(local) /\ Found(local) /\ Reading(local)
  BY DEF Unconcerned, Sized, Found, Reading
<1>3. Plain(local)' /\ Opens(local)'
  BY DEF Unconcerned, Plain, Opens, Publishing
<1>4. Sized(local)' /\ Found(local)' /\ Reading(local)'
  BY DEF Unconcerned, Sized, Found, Reading
<1> QED
  BY <1>1, <1>2, <1>3, <1>4 DEF Request

LEMMA MoveAside ==
  ASSUME TypeOK, TypeOK', ContentInv, NEW p \in Proc, NEW local, Continue(p, local),
         Joins(p, local), Unconcerned(local), UNCHANGED <<files, blobs>>,
         req[p].pc \notin {"write", "lookup", "createPut", "copy", "rename"}
  PROVE  ContentInv'
<1>1. Request(local)
  BY UnconcernedRequest
<1> QED
  BY <1>1, MoveOn DEF Unconcerned, Publishing

LEMMA IdleRequest ==
  /\ Request(Idle) /\ Request(Idle)' /\ Roles(Idle)
  /\ Idle.reads = None /\ Idle.writes = None /\ Idle.id = None
  /\ Idle.pc = "idle" /\ Idle.op = "none"
<1>1. /\ Idle.reads = None /\ Idle.writes = None /\ Idle.id = None /\ Idle.todo = {}
      /\ Idle.pc = "idle" /\ Idle.op = "none"
  BY DEF Idle
<1>2. Roles(Idle)
  BY <1>1, NoRoles
<1>3. Plain(Idle) /\ Opens(Idle) /\ Plain(Idle)' /\ Opens(Idle)'
  BY <1>1 DEF Plain, Opens
<1>4. Sized(Idle) /\ Found(Idle) /\ Reading(Idle)
  BY <1>1 DEF Sized, Found, Reading
<1>5. Sized(Idle)' /\ Found(Idle)' /\ Reading(Idle)'
  BY <1>1 DEF Sized, Found, Reading
<1> QED
  BY <1>1, <1>2, <1>3, <1>4, <1>5 DEF Request

LEMMA ReturnContent ==
  ASSUME TypeOK, TypeOK', ContentInv, NEW p \in Proc, Return(p), UNCHANGED <<files, blobs>>,
         req[p].pc \notin {"write", "lookup", "createPut", "copy", "rename"}
  PROVE  ContentInv'
<1>1. PICK local : local = Idle
  OBVIOUS
<1>2. Continue(p, local) /\ Joins(p, local) /\ Request(local) /\ local.reads = None /\ local.writes = None
  BY <1>1, IdleRequest DEF Return, Joins
<1>3. local.pc \notin {"copy", "rename", "insert"}
  BY <1>1, IdleRequest
<1> QED
  BY <1>2, <1>3, MoveOn

LEMMA SentAlone ==
  ASSUME Prudent, NEW p \in Proc, NEW kind, NEW i, MaySend(p, kind, i), NEW local, local.id = i
  PROVE  Joins(p, local)
BY DEF Prudent, MaySend, Joins

LEMMA BeginContent ==
  ASSUME Prudent, TypeOK, TypeOK', ContentInv, NEW p \in Proc, Begin(p)
  PROVE  ContentInv'
<1>1. ASSUME NEW local, Continue(p, local), Joins(p, local), Unconcerned(local),
             UNCHANGED <<files, blobs>>, req[p].pc = "idle"
      PROVE  ContentInv'
  BY <1>1, MoveAside
<1>2. ASSUME NEW r \in Repo, NEW limit \in Limit, CreateRepository(p, r, limit)
      PROVE  ContentInv'
  <2> DEFINE local == [Idle EXCEPT !.pc = "putQuota", !.op = "create", !.quota = NewQuota(limit)]
  <2>1. Joins(p, local) /\ Unconcerned(local)
    BY DEF Joins, Unconcerned, Idle, Verifying, Publishing
  <2> QED
    BY <1>1, <1>2, <2>1 DEF CreateRepository, At
<1>3. ASSUME NEW e \in ExpectedSize, StartUpload(p, e)
      PROVE  ContentInv'
  <2> DEFINE free == [Idle EXCEPT !.pc = "createUpload", !.op = "start", !.sess = NewUploadSession(e)]
             metered == [Idle EXCEPT !.pc = "reserve", !.op = "start",
                                     !.sess = NewUploadSession(e), !.quota = Reserve(quota, e)]
  <2>1. Joins(p, free) /\ Unconcerned(free) /\ Joins(p, metered) /\ Unconcerned(metered)
    BY DEF Joins, Unconcerned, Idle, Verifying, Publishing
  <2> QED
    BY <1>1, <1>3, <2>1 DEF StartUpload, At
<1>4. ASSUME NEW i \in Id, NEW c \in Piece, UploadChunk(p, i, c)
      PROVE  ContentInv'
  <2> DEFINE local == [Idle EXCEPT !.pc = "openTemp", !.op = "chunk", !.id = i,
                                    !.sess = uploads[i], !.piece = c]
  <2>1. local.id = i /\ Unconcerned(local)
    BY DEF Unconcerned, Idle, Verifying, Publishing
  <2>2. Joins(p, local)
    BY <1>4, <2>1, SentAlone DEF UploadChunk
  <2> QED
    BY <1>1, <1>4, <2>1, <2>2 DEF UploadChunk, MaySend, At
<1>5. ASSUME NEW i \in Id, NEW d \in Digest, CompleteUpload(p, i, d)
      PROVE  ContentInv'
  <2> DEFINE local == [Idle EXCEPT !.pc = "stat", !.op = "complete", !.id = i,
                                    !.sess = uploads[i], !.claim = d]
  <2>1. local.id = i /\ Unconcerned(local)
    BY DEF Unconcerned, Idle, Verifying, Publishing
  <2>2. Joins(p, local)
    BY <1>5, <2>1, SentAlone DEF CompleteUpload
  <2> QED
    BY <1>1, <1>5, <2>1, <2>2 DEF CompleteUpload, MaySend, At
<1>6. ASSUME NEW i \in Id, AbortUpload(p, i)
      PROVE  ContentInv'
  <2> DEFINE local == [Idle EXCEPT !.pc = IF uploads[i].expected = NoSize THEN "forget" ELSE "readForRelease",
                              !.op = "abort", !.id = i, !.sess = Abort(uploads[i])]
  <2>1. local.id = i /\ Unconcerned(local)
    BY DEF Unconcerned, Idle, Verifying, Publishing
  <2>2. Joins(p, local)
    BY <1>6, <2>1, SentAlone DEF AbortUpload
  <2> QED
    BY <1>1, <1>6, <2>1, <2>2 DEF AbortUpload, MaySend, At
<1>7. CASE JanitorRun(p)
  <2> DEFINE old == {i \in Id : uploads[i].state # "none" /\ i \in expired}
             local(i) == [Idle EXCEPT !.pc = "forget", !.op = "janitor", !.id = i,
                                      !.todo = old \ {i}]
  <2>1. PICK i \in old : Continue(p, local(i))
    BY <1>7 DEF JanitorRun
  <2> HIDE DEF old
  <2>2. Joins(p, local(i)) /\ Unconcerned(local(i))
    BY DEF Joins, Unconcerned, Idle, Verifying, Publishing
  <2> QED
    BY <1>1, <1>7, <2>1, <2>2 DEF JanitorRun, At
<1>8. ASSUME NEW d \in Digest, DeleteBlob(p, d)
      PROVE  ContentInv'
  BY <1>8 DEF Prudent, DeleteBlob
<1> QED
  BY <1>2, <1>3, <1>4, <1>5, <1>6, <1>7, <1>8 DEF Begin

\* What a handler has between its steps.
LEMMA HeldBack ==
  ASSUME TypeOK, ContentInv, NEW p \in Proc
  PROVE  /\ req[p] \in RequestSet /\ Request(req[p])
         /\ req[p].op # "deleteBlob" /\ (req[p].todo # {} => req[p].op = "janitor")
         /\ req[p].pc \notin {"write", "lookup", "createPut", "copy", "rename"} =>
              req[p].reads = None /\ req[p].writes = None
BY RequestFields DEF ContentInv, Request, Plain, Opens

LEMMA AfterQuotaContent ==
  ASSUME TypeOK, TypeOK', ContentInv, NEW p \in Proc, AfterQuota(p), UNCHANGED <<files, blobs>>,
         req[p].pc \notin {"write", "lookup", "createPut", "copy", "rename"}
  PROVE  ContentInv'
<1> DEFINE local == [req[p] EXCEPT !.pc = "forget", !.quota = NoQuota]
<1>1. Joins(p, local) /\ Unconcerned(local)
  BY HeldBack DEF Joins, Unconcerned, RequestSet, Verifying, Publishing
<1> QED
  BY <1>1, MoveAside, ReturnContent DEF AfterQuota

LEMMA QuotaStepContent ==
  ASSUME TypeOK, TypeOK', ContentInv, NEW p \in Proc, QuotaStep(p)
  PROVE  ContentInv'
<1> DEFINE r == req[p]
<1>1. UNCHANGED <<files, blobs>>
  BY DEF QuotaStep, PutQuota, StoreReservation, ReadForCommit, ReadForRelease, StoreSettlement
<1>2. r.pc \notin {"write", "lookup", "createPut", "copy", "rename"}
  BY DEF QuotaStep, PutQuota, StoreReservation, ReadForCommit, ReadForRelease, StoreSettlement, At
<1>3. ASSUME NEW q, NEW where \in {"createUpload", "settle"},
             Continue(p, [r EXCEPT !.pc = where, !.quota = q])
      PROVE  ContentInv'
  <2> DEFINE local == [r EXCEPT !.pc = where, !.quota = q]
  <2>1. Joins(p, local) /\ Unconcerned(local)
    BY <1>2, HeldBack DEF Joins, Unconcerned, RequestSet, Verifying, Publishing
  <2> QED
    BY <1>1, <1>2, <1>3, <2>1, MoveAside
<1>4. Return(p) \/ AfterQuota(p) => ContentInv'
  BY <1>1, <1>2, ReturnContent, AfterQuotaContent
<1> QED
  BY <1>3, <1>4 DEF QuotaStep, PutQuota, StoreReservation, ReadForCommit, ReadForRelease, StoreSettlement

\* The janitor's next upload, or the end.
LEMMA NextUploadLocal ==
  ASSUME TypeOK, ContentInv, NEW p \in Proc, NextUpload(p), req[p].pc \in {"forget", "removeTemp"}
  PROVE  \E local : /\ Continue(p, local) /\ Joins(p, local)
                    /\ local = Idle \/ Unconcerned(local)
<1>1. CASE Return(p)
  BY <1>1, IdleRequest DEF Return, Joins
<1>2. ASSUME NEW i \in req[p].todo,
             Continue(p, [req[p] EXCEPT !.pc = "forget", !.id = i, !.todo = @ \ {i}])
      PROVE  \E local : Continue(p, local) /\ Joins(p, local) /\ Unconcerned(local)
  <2> DEFINE local == [req[p] EXCEPT !.pc = "forget", !.id = i, !.todo = @ \ {i}]
  <2>1. Joins(p, local) /\ Unconcerned(local)
    BY HeldBack DEF Joins, Unconcerned, RequestSet, Verifying, Publishing
  <2> QED
    BY <1>2, <2>1
<1> QED
  BY <1>1, <1>2 DEF NextUpload

LEMMA SessionStepContent ==
  ASSUME TypeOK, TypeOK', ContentInv, NEW p \in Proc, SessionStep(p)
  PROVE  ContentInv'
<1> DEFINE r == req[p]
           goto(where) == [r EXCEPT !.pc = where]
<1>1. UNCHANGED <<files, blobs>>
  BY DEF SessionStep, CreateUpload, RecordAndUpdate, StoreFinalizing, StoreAborted,
         StoreCompleted, ForgetUpload
<1>2. r.pc \notin {"write", "lookup", "createPut", "copy", "rename"}
  BY DEF SessionStep, CreateUpload, RecordAndUpdate, StoreFinalizing, StoreAborted,
         StoreCompleted, ForgetUpload, At
<1>3. Return(p) => ContentInv'
  BY <1>1, <1>2, ReturnContent
<1>4. ASSUME NEW where \in {"readForRelease", "readForCommit", "removeTemp"}, Continue(p, goto(where))
      PROVE  ContentInv'
  <2>1. Joins(p, goto(where)) /\ Unconcerned(goto(where))
    BY <1>2, HeldBack DEF Joins, Unconcerned, RequestSet, Verifying, Publishing
  <2> QED
    BY <1>1, <1>2, <1>4, <2>1, MoveAside
<1>5. CASE (\E i \in Id : CreateUpload(p, i)) \/ RecordAndUpdate(p)
  BY <1>3, <1>5 DEF CreateUpload, RecordAndUpdate
<1>6. CASE StoreAborted(p) \/ StoreCompleted(p)
  BY <1>3, <1>4, <1>6 DEF StoreAborted, StoreCompleted
<1>7. CASE StoreFinalizing(p)
  <2> DEFINE local == goto("hash")
  <2>1. Joins(p, local) /\ local.reads = None /\ local.writes = None
    BY <1>2, HeldBack DEF Joins, RequestSet
  <2>2. Request(r) /\ r.pc = "finalize" /\ r \in RequestSet
    BY <1>7, HeldBack DEF StoreFinalizing, At
  <2>3. Request(local)
    <3>1. /\ local.op = r.op /\ local.id = r.id /\ local.claim = r.claim /\ local.size = r.size
          /\ local.todo = r.todo /\ local.pc = "hash"
      BY <2>2 DEF RequestSet
    <3> HIDE DEF local
    <3>2. Plain(local) /\ Opens(local)
      BY <2>1, <2>2, <3>1 DEF Request, Plain, Opens
    <3>3. Sized(local) /\ Reading(local)
      BY <2>1, <3>1 DEF Sized, Reading, Publishing
    <3>4. Found(local)
      BY <2>2, <3>1 DEF Request, Found, Verifying
    <3> QED
      BY <3>2, <3>3, <3>4 DEF Request
  <2>4. Continue(p, local) => ContentInv'
    <3>1. local.pc = "hash"
      BY <2>2 DEF RequestSet
    <3> QED
      BY <1>1, <1>2, <2>1, <2>3, <3>1, MoveOn
  <2> QED
    BY <1>3, <1>7, <2>4 DEF StoreFinalizing
<1>8. CASE ForgetUpload(p)
  <2>1. ASSUME NextUpload(p)
        PROVE  ContentInv'
    <3>1. PICK local : Continue(p, local) /\ Joins(p, local) /\ (local = Idle \/ Unconcerned(local))
      BY <1>8, <2>1, NextUploadLocal DEF ForgetUpload, At
    <3> QED
      BY <1>1, <1>2, <1>3, <3>1, MoveAside DEF Return
  <2> QED
    BY <1>4, <1>8, <2>1 DEF ForgetUpload
<1> QED
  BY <1>5, <1>6, <1>7, <1>8 DEF SessionStep

\* A completion looks at the files.
LEMMA LookContent ==
  ASSUME TypeOK, TypeOK', ContentInv, NEW p \in Proc, Stat(p) \/ Hash(p) \/ Exists(p)
  PROVE  ContentInv'
<1> DEFINE r == req[p]
           file == tempFile[r.id]
<1>1. UNCHANGED <<files, blobs>> /\ r.pc \in {"stat", "hash", "exists"}
  BY DEF Stat, Hash, Exists, At
<1>2. /\ r \in RequestSet /\ Request(r) /\ r.op = "complete" /\ r.id \in Id /\ r.claim \in Digest
      /\ r.reads = None /\ r.writes = None /\ r.todo = {} /\ r.size \in Nat
  BY <1>1, HeldBack, RequestFields DEF WellFormed
<1>3. Return(p) => ContentInv'
  BY <1>1, ReturnContent
<1>4. ASSUME NEW local, Continue(p, local), local.op = r.op, local.id = r.id, local.claim = r.claim,
             local.todo = r.todo, local.reads = None, local.writes = None,
             local.pc \in {"finalize", "exists", "move", "open"}, Found(local), Sized(local)
      PROVE  ContentInv'
  <2>1. Joins(p, local) /\ Plain(local) /\ Opens(local) /\ Reading(local)
    BY <1>2, <1>4 DEF Joins, Plain, Opens, Reading
  <2>2. Request(local)
    BY <1>4, <2>1 DEF Request
  <2> QED
    BY <1>1, <1>4, <2>1, <2>2, MoveOn
<1>5. CASE Stat(p)
  <2> DEFINE local == [r EXCEPT !.pc = "finalize", !.size = Len(data[file]), !.sess = Finalize(r.sess)]
  <2>1. /\ local.op = r.op /\ local.id = r.id /\ local.claim = r.claim /\ local.todo = r.todo
        /\ local.reads = None /\ local.writes = None /\ local.pc = "finalize"
        /\ local.size = Len(data[file])
    BY <1>2 DEF RequestSet
  <2>2. Found(local) /\ Sized(local)
    <3> HIDE DEF local
    <3> QED
      BY <2>1 DEF Found, Sized, Publishing
  <2>3. Continue(p, local) => ContentInv'
    <3> HIDE DEF local
    <3> QED
      BY <1>4, <2>1, <2>2
  <2> QED
    BY <1>3, <1>5, <2>3 DEF Stat
<1>6. CASE Hash(p)
  <2> DEFINE local == [r EXCEPT !.pc = "exists"]
             stop == [r EXCEPT !.pc = "storeAborted", !.sess = Abort(r.sess)]
  <2>1. /\ local.op = r.op /\ local.id = r.id /\ local.claim = r.claim /\ local.todo = r.todo
        /\ local.reads = None /\ local.writes = None /\ local.pc = "exists" /\ local.size = r.size
    BY <1>2 DEF RequestSet
  <2>2. Joins(p, stop) /\ Unconcerned(stop)
    BY <1>2 DEF Joins, Unconcerned, RequestSet, Verifying, Publishing
  <2>3. Continue(p, stop) => ContentInv'
    BY <1>1, <2>2, MoveAside
  <2>4. ASSUME r.size = 0 \/ Readable(file, r.size), HashOf(file, r.size, r.claim) = r.claim
        PROVE  Found(local) /\ Sized(local)
    <3>1. Bytes(r.claim) = IF r.size = 0 THEN <<>> ELSE SubSeq(data[file], 1, r.size)
      BY <2>4, HashedBytes, Zenon
    <3>2. file # None => data[file] \in Seq(Byte) /\ Len(data[file]) = r.size
      <4>1. Found(r) /\ r.pc = "hash"
        BY <1>2, <1>6 DEF Request, Hash, At
      <4>2. file # None => data[file] \in Seq(Byte)
        BY <1>2 DEF TypeOK
      <4> QED
        BY <1>2, <4>1, <4>2 DEF Found, Verifying
    <3>3. file # None => data[file] = Bytes(r.claim)
      <4>1. CASE r.size = 0
        BY <3>1, <3>2, <4>1
      <4>2. CASE r.size # 0
        <5>1. ASSUME file # None
              PROVE  SubSeq(data[file], 1, Len(data[file])) = data[file]
          BY <3>2, <5>1, WholeSubSeq
        <5> QED
          BY <3>1, <3>2, <4>2, <5>1
      <4> QED
        BY <4>1, <4>2
    <3>4. Len(Bytes(r.claim)) = r.size
      <4>1. CASE file # None
        BY <3>2, <3>3, <4>1
      <4>2. CASE file = None
        BY <2>4, <3>1, <4>2 DEF Readable
      <4> QED
        BY <4>1, <4>2
    <3> HIDE DEF local
    <3>5. Sized(local)
      BY <2>1, <3>4 DEF Sized
    <3>6. Found(local)
      BY <2>1, <3>2, <3>3 DEF Found
    <3> QED
      BY <3>5, <3>6
  <2>5. Continue(p, local) /\ Found(local) /\ Sized(local) => ContentInv'
    <3> HIDE DEF local
    <3> QED
      BY <1>4, <2>1
  <2> QED
    BY <1>3, <1>6, <2>3, <2>4, <2>5 DEF Hash
<1>7. CASE Exists(p)
  <2> DEFINE local == [r EXCEPT !.pc = IF blobFile[r.claim] = None THEN "move" ELSE "open"]
  <2>1. /\ local.op = r.op /\ local.id = r.id /\ local.claim = r.claim /\ local.todo = r.todo
        /\ local.reads = None /\ local.writes = None /\ local.pc \in {"move", "open"} /\ local.size = r.size
    BY <1>2 DEF RequestSet
  <2>2. Found(r) /\ Sized(r) /\ r.pc = "exists"
    BY <1>2, <1>7 DEF Request, Exists, At
  <2> HIDE DEF local
  <2>3. Found(local) /\ Sized(local)
    BY <1>2, <2>1, <2>2 DEF Found, Sized, Verifying, Publishing
  <2>4. Continue(p, local)
    BY <1>7 DEF Exists, local
  <2> QED
    BY <1>4, <2>1, <2>3, <2>4
<1> QED
  BY <1>5, <1>6, <1>7

\* Steps that take names and descriptors away.
LEMMA LeavesContent ==
  ASSUME TypeOK, TypeOK', ContentInv, NEW p \in Proc, NEW local, Continue(p, local),
         Joins(p, local), local = Idle \/ Unconcerned(local), Store(data), req[p].pc # "copy",
         UNCHANGED <<blobFile, putFile, blobs>>, \A i \in Id : tempFile'[i] \in {tempFile[i], None}
  PROVE  ContentInv'
<1>1. Request(local)'
  BY UnconcernedRequest, IdleRequest
<1>2. local.reads = None /\ local.writes = None /\ local.pc \notin {"copy", "rename", "insert"}
  BY IdleRequest DEF Unconcerned, Publishing
<1>3. Roles(local)
  BY <1>2, NoRoles
<1>4. Tidied /\ Lists(local)
  BY <1>2, StoreTidies DEF Lists
<1> QED
  BY <1>1, <1>2, <1>3, <1>4, ContentStep

LEMMA RemoveTempContent ==
  ASSUME TypeOK, TypeOK', ContentInv, NEW p \in Proc, RemoveTempFile(p)
  PROVE  ContentInv'
<1>1. PICK local : Continue(p, local) /\ Joins(p, local) /\ (local = Idle \/ Unconcerned(local))
  BY NextUploadLocal DEF RemoveTempFile, At
<1>2. \A i \in Id : tempFile'[i] \in {tempFile[i], None}
  BY DEF RemoveTempFile, TypeOK
<1> QED
  BY <1>1, <1>2, LeavesContent DEF RemoveTempFile, At

LEMMA OpenBlobContent ==
  ASSUME TypeOK, TypeOK', ContentInv, NEW p \in Proc, OpenBlobFile(p)
  PROVE  ContentInv'
<1> DEFINE r == req[p]
           d == r.claim
           file == blobFile[d]
<1>1. UNCHANGED <<files, blobs>> /\ r.pc = "open"
  BY DEF OpenBlobFile, At
<1>2. /\ r \in RequestSet /\ Request(r) /\ r.op = "complete" /\ r.id \in Id /\ d \in Digest
      /\ r.reads = None /\ r.writes = None /\ r.todo = {} /\ r.size \in Nat
  BY <1>1, HeldBack, RequestFields DEF WellFormed
<1>3. ASSUME NEW local, Continue(p, local), local.op = r.op, local.id = r.id, local.claim = d,
             local.todo = r.todo, local.writes = None, local.pc = "lookup", local.size = r.size,
             Reading(local), Roles(local)
      PROVE  ContentInv'
  <2>1. Joins(p, local) /\ Plain(local) /\ Opens(local)
    BY <1>2, <1>3 DEF Joins, Plain, Opens
  <2>2. Sized(local) /\ Found(local)
    BY <1>1, <1>2, <1>3 DEF Request, Sized, Found, Verifying, Publishing
  <2>3. Request(local)'
    BY <1>1, <1>3, <2>1, <2>2, SameFilesRequest DEF Request
  <2>4. Tidied /\ Lists(local)
    BY <1>1, <1>2, <1>3, LookTidies DEF ContentInv, Lists
  <2> QED
    BY <1>1, <1>3, <2>1, <2>3, <2>4, ContentStep DEF files
<1>4. CASE r.size = 0
  <2> DEFINE local == [r EXCEPT !.pc = "lookup"]
  <2>1. /\ local.op = r.op /\ local.id = r.id /\ local.claim = d /\ local.todo = r.todo
        /\ local.reads = None /\ local.writes = None /\ local.pc = "lookup" /\ local.size = r.size
    BY <1>2 DEF RequestSet
  <2>2. Continue(p, local)
    BY <1>4 DEF OpenBlobFile
  <2> HIDE DEF local
  <2>3. Reading(local) /\ Roles(local)
    BY <2>1, NoRoles DEF Reading
  <2> QED
    BY <1>3, <2>1, <2>2, <2>3
<1>5. CASE r.size # 0 /\ Readable(file, r.size)
  <2> DEFINE local == [r EXCEPT !.pc = "lookup", !.reads = file]
  <2>1. /\ local.op = r.op /\ local.id = r.id /\ local.claim = d /\ local.todo = r.todo
        /\ local.reads = file /\ local.writes = None /\ local.pc = "lookup" /\ local.size = r.size
    BY <1>2 DEF RequestSet
  <2>2. Continue(p, local)
    BY <1>5 DEF OpenBlobFile
  <2> HIDE DEF local
  <2>3. file \in Inode /\ InBlob(file, d)
    BY <1>2, <1>5 DEF TypeOK, Readable, InBlob
  <2>4. data[file] = Bytes(d)
    <3>1. data[file] \in {<<>>, Bytes(d)}
      BY <1>2, <2>3 DEF ContentInv, Contents
    <3>2. data[file] # <<>>
      BY <1>2, <1>5 DEF Readable
    <3> QED
      BY <3>1, <3>2
  <2>5. \A e \in Digest : putFile[e] # file
    <3> SUFFICES ASSUME NEW e \in Digest, putFile[e] = file
                 PROVE  FALSE
      OBVIOUS
    <3>1. InBlob(file, e)
      BY DEF InBlob
    <3>2. e = d
      BY <1>2, <2>3, <3>1 DEF ContentInv, ServesOne
    <3> QED
      BY <1>2, <2>3, <3>2 DEF ContentInv, ServesOne
  <2>6. Reading(local)
    BY <2>1, <2>4, <2>5 DEF Reading
  <2>7. Roles(local)
    BY <1>2, <2>1, <2>3, NoneAssumption DEF Roles
  <2> QED
    BY <1>3, <2>1, <2>2, <2>6, <2>7
<1>6. CASE Return(p)
  BY <1>1, <1>6, ReturnContent
<1> QED
  BY <1>4, <1>5, <1>6 DEF OpenBlobFile

LEMMA LookupContent ==
  ASSUME TypeOK, TypeOK', ContentInv, NEW p \in Proc, LookupBlob(p)
  PROVE  ContentInv'
<1> DEFINE r == req[p]
<1>1. /\ UNCHANGED <<blobFile, putFile, blobs>> /\ Store(data) /\ r.pc = "lookup"
      /\ \A i \in Id : tempFile'[i] \in {tempFile[i], None}
  BY DEF LookupBlob, At
<1>2. /\ r \in RequestSet /\ Request(r) /\ r.op = "complete" /\ r.id \in Id /\ r.claim \in Digest
      /\ r.writes = None /\ r.todo = {} /\ r.size \in Nat
  BY <1>1, HeldBack, RequestFields DEF WellFormed, Request, Opens
<1>3. CASE r.claim \in blobs
  <2> DEFINE local == [r EXCEPT !.pc = "complete", !.reads = None]
  <2>1. Joins(p, local) /\ Unconcerned(local)
    BY <1>2 DEF Joins, Unconcerned, RequestSet, Verifying, Publishing
  <2> QED
    BY <1>1, <1>3, <2>1, LeavesContent DEF LookupBlob
<1>4. CASE r.claim \notin blobs
  <2> DEFINE local == [r EXCEPT !.pc = "createPut"]
  <2>1. /\ local.op = r.op /\ local.id = r.id /\ local.claim = r.claim /\ local.todo = r.todo
        /\ local.reads = r.reads /\ local.writes = None /\ local.pc = "createPut" /\ local.size = r.size
    BY <1>2 DEF RequestSet
  <2>2. PICK s : s = local
    OBVIOUS
  <2>3. Continue(p, s)
    BY <1>4, <2>2 DEF LookupBlob
  <2>4. /\ s.op = r.op /\ s.id = r.id /\ s.claim = r.claim /\ s.todo = r.todo
        /\ s.reads = r.reads /\ s.writes = None /\ s.pc = "createPut" /\ s.size = r.size
    BY <2>1, <2>2
  <2> HIDE DEF local
  <2>5. Tidied /\ Lists(s)
    BY <1>1, <2>4, StoreTidies DEF Lists
  <2>6. Plain(s)' /\ Opens(s)' /\ Sized(s)' /\ Found(s)' /\ Joins(p, s)
    BY <1>1, <1>2, <2>4 DEF Request, Plain, Opens, Sized, Found, Verifying, Publishing, Bytes, Joins
  <2>7. Reading(s)'
    <3>1. Reading(r)
      BY <1>2 DEF Request
    <3>2. s.reads # None => data'[s.reads] = data[r.reads]
      <4>1. req'[p] = s
        BY <2>3, Continues
      <4> QED
        BY <2>4, <2>5, <4>1, TidyFiles
    <3> QED
      BY <1>1, <2>4, <3>1, <3>2 DEF Reading, Bytes
  <2>8. Roles(s)
    BY <1>2, <2>4, NoneAssumption DEF Roles, InBlob
  <2> QED
    BY <1>1, <2>3, <2>4, <2>5, <2>6, <2>7, <2>8, ContentStep DEF Request
<1> QED
  BY <1>3, <1>4

-----------------------------------------------------------------------------
(* Steps that write, or that give a file a name. *)

LEMMA OtherUpload ==
  ASSUME TypeOK, Alone, NEW p \in Proc, NEW q \in Proc, p # q, req[p].op \in {"chunk", "complete"},
         req[q].op \in {"chunk", "complete"}
  PROVE  req[p].id # req[q].id
<1>1. req[p].id \in Id
  BY RequestFields DEF WellFormed
<1> QED
  BY <1>1, NoneAssumption DEF Alone

\* What is read has the content of its digest.
LEMMA ReadsBlob ==
  ASSUME TypeOK, ContentInv, NEW q \in Proc, req[q].reads # None
  PROVE  /\ req[q].op = "complete" /\ req[q].claim \in Digest /\ req[q].reads \in Inode
         /\ InBlob(req[q].reads, req[q].claim)
         /\ data[req[q].reads] = Bytes(req[q].claim)
         /\ \A d \in Digest : putFile[d] # req[q].reads
<1>1. req[q].op = "complete" /\ Reading(req[q])
  BY DEF ContentInv, Request, Opens
<1>2. req[q].claim \in Digest /\ req[q].reads \in Inode
  BY <1>1, RequestFields DEF WellFormed
<1> QED
  BY <1>1, <1>2 DEF Reading, InBlob

\* The other handlers, when one file is written, and none of theirs.
LEMMA OthersKnow ==
  ASSUME TypeOK, TypeOK', ContentInv, NEW p \in Proc, NEW local, Continue(p, local),
         Request(local)', NEW n, TidiedBut(n),
         \A q \in Proc : q # p /\ req[q].op = "complete" /\ tempFile'[req[q].id] # None =>
           tempFile'[req[q].id] = tempFile[req[q].id] /\ tempFile[req[q].id] # n,
         \A q \in Proc : q # p /\ req[q].reads # None =>
           /\ req[q].reads = n => data'[n] = data[n]
           /\ \A d \in Digest : putFile'[d] # req[q].reads
  PROVE  (\A q \in Proc : Request(req[q]))'
<1>1. req'[p] = local /\ \A q \in Proc : q # p => req'[q] = req[q]
  BY Continues
<1>2. \A q \in Proc : q # p /\ req[q].op = "complete" /\ tempFile'[req[q].id] # None =>
        tempFile'[req[q].id] = tempFile[req[q].id] /\ data'[tempFile[req[q].id]] = data[tempFile[req[q].id]]
  <2> SUFFICES ASSUME NEW q \in Proc, q # p, req[q].op = "complete", tempFile'[req[q].id] # None
               PROVE  tempFile'[req[q].id] = tempFile[req[q].id] /\ data'[tempFile[req[q].id]] = data[tempFile[req[q].id]]
    OBVIOUS
  <2>1. req[q].id \in Id
    BY RequestFields DEF WellFormed
  <2> QED
    BY <2>1, OtherFiles
<1>3. \A q \in Proc : q # p /\ req[q].reads # None =>
        data'[req[q].reads] = data[req[q].reads] /\ \A d \in Digest : putFile'[d] # req[q].reads
  <2> SUFFICES ASSUME NEW q \in Proc, q # p, req[q].reads # None
               PROVE  data'[req[q].reads] = data[req[q].reads]
    OBVIOUS
  <2>1. req'[q].reads = req[q].reads
    BY <1>1
  <2> QED
    BY <2>1, OtherFiles
<1> QED
  BY <1>2, <1>3, RequestsStep

LEMMA WriteChunkContent ==
  ASSUME TypeOK, TypeOK', ContentInv, NEW p \in Proc, WriteChunk(p)
  PROVE  ContentInv'
<1> DEFINE r == req[p]
<1>0. PICK local : local = [r EXCEPT !.pc = "record", !.writes = None]
  OBVIOUS
<1>1. UNCHANGED <<tempFile, blobFile, putFile, blobs>> /\ r.pc = "write" /\ Continue(p, local)
  BY <1>0 DEF WriteChunk, At
<1>2. /\ r \in RequestSet /\ Request(r) /\ r.op = "chunk" /\ r.id \in Id
      /\ r.reads = None /\ r.todo = {} /\ r.writes # None
  BY <1>1, HeldBack, RequestFields DEF WellFormed, Request, Opens
<1>3. PICK n : n = r.writes
  OBVIOUS
<1>4. n \in Inode /\ InTemp(n, r.id)
  BY <1>2, <1>3 DEF RequestSet, InTemp
<1>5. TidiedBut(n)
  <2>1. PICK c : c = Overwrite(data[n], r.piece.start, r.piece.bytes)
    OBVIOUS
  <2>2. Store([data EXCEPT ![n] = c])
    BY <1>3, <2>1 DEF WriteChunk
  <2> QED
    BY <2>2, StoreTidiesBut
<1>6. Joins(p, local) /\ Unconcerned(local)
  BY <1>0, <1>2 DEF Joins, Unconcerned, RequestSet, Verifying, Publishing
<1>7. Roles(local) /\ Request(local)' /\ Lists(local)
  <2>1. local.reads = None /\ local.writes = None /\ local.pc # "insert"
    BY <1>6 DEF Unconcerned, Publishing
  <2>2. Request(local)'
    BY <1>6, UnconcernedRequest
  <2> QED
    BY <1>1, <2>1, <2>2, NoRoles DEF Lists
<1>8. Alone'
  BY <1>1, <1>6, AloneStep DEF ContentInv
<1>9. \A m \in Inode : \A i \in Id : InTemp(m, i)' => InTemp(m, i)
  BY <1>1, <1>7, InTempStep
<1>10. \A m \in Inode : \A d \in Digest : InBlob(m, d)' => InBlob(m, d)
  <2>1. \A m \in Inode : \A d \in Digest : (blobFile'[d] = m \/ putFile'[d] = m) => InBlob(m, d)
    BY <1>1 DEF InBlob
  <2> QED
    BY <1>1, <1>7, <2>1, InBlobStep
<1>11. ServesOne'
  BY <1>1, <1>9, <1>10, RolesShrink, NoneAssumption DEF ContentInv
<1>12. \A m \in Inode : \A d \in Digest : InBlob(m, d) => m # n
  BY <1>2, <1>4 DEF ContentInv, ServesOne
<1>13. Contents'
  <2> SUFFICES ASSUME NEW m \in Inode
               PROVE  /\ m \notin Linked' => data'[m] = <<>>
                      /\ \A d \in Digest : InBlob(m, d)' => data'[m] \in {<<>>, Bytes(d)}
    BY DEF Contents, Bytes
  <2>1. m \notin Linked' => data'[m] = <<>>
    BY <1>5 DEF TidiedBut
  <2>2. m # n => data'[m] \in {data[m], <<>>}
    BY <1>5 DEF TidiedBut
  <2>3. \A d \in Digest : InBlob(m, d)' => m # n /\ data[m] \in {<<>>, Bytes(d)}
    BY <1>10, <1>12 DEF ContentInv, Contents
  <2> QED
    BY <2>1, <2>2, <2>3
<1>14. \A d \in Digest : (blobFile[d] # None => data'[blobFile[d]] = data[blobFile[d]])
                         /\ (putFile[d] # None => data'[putFile[d]] = data[putFile[d]])
  <2> SUFFICES ASSUME NEW d \in Digest
               PROVE  (blobFile[d] # None => data'[blobFile[d]] = data[blobFile[d]])
                      /\ (putFile[d] # None => data'[putFile[d]] = data[putFile[d]])
    OBVIOUS
  <2>1. blobFile[d] # n /\ putFile[d] # n
    BY <1>4, <1>12 DEF InBlob
  <2> QED
    BY <1>1, <1>5, <2>1, OtherFiles
<1>15. Listed'
  BY <1>1, <1>7, <1>14, ListedStep DEF ContentInv
<1>16. Filling'
  <2>1. local.op = "complete" => local.pc \notin {"copy", "rename"}
    BY <1>6 DEF Unconcerned, Publishing
  <2> QED
    BY <1>1, <1>14, <2>1, FillingStep DEF ContentInv
<1>17. (\A q \in Proc : Request(req[q]))'
  <2>1. ASSUME NEW q \in Proc, q # p, req[q].op = "complete"
        PROVE  tempFile[req[q].id] # n
    <3>1. req[q].id # r.id /\ req[q].id \in Id
      BY <1>2, <2>1, OtherUpload, RequestFields DEF ContentInv, WellFormed
    <3>2. ~InTemp(n, req[q].id)
      BY <1>2, <1>4, <3>1 DEF ContentInv, ServesOne
    <3> QED
      BY <3>2 DEF InTemp
  <2>2. ASSUME NEW q \in Proc, req[q].reads # None
        PROVE  req[q].reads # n /\ \A d \in Digest : putFile[d] # req[q].reads
    BY <1>12, <2>2, ReadsBlob
  <2> QED
    BY <1>1, <1>5, <1>7, <2>1, <2>2, OthersKnow
<1> QED
  BY <1>8, <1>11, <1>13, <1>15, <1>16, <1>17 DEF ContentInv

LEMMA OpenTempContent ==
  ASSUME TypeOK, TypeOK', ContentInv, NEW p \in Proc, OpenTemp(p)
  PROVE  ContentInv'
<1> DEFINE r == req[p]
           i == r.id
<1>1. UNCHANGED <<blobFile, putFile, data, blobs>> /\ r.pc = "openTemp"
  BY DEF OpenTemp, At
<1>2. /\ r \in RequestSet /\ Request(r) /\ r.op = "chunk" /\ i \in Id
      /\ r.reads = None /\ r.writes = None /\ r.todo = {}
  BY <1>1, HeldBack, RequestFields DEF WellFormed
<1>3. PICK n, local : /\ n \in Inode /\ Continue(p, local) /\ local = [r EXCEPT !.pc = "write", !.writes = n]
                      /\ \/ tempFile[i] = n /\ UNCHANGED tempFile
                         \/ /\ tempFile[i] = None /\ n \notin Linked
                            /\ tempFile' = [tempFile EXCEPT ![i] = n]
  <2>1. CASE tempFile[i] # None
    <3>1. tempFile[i] \in Inode
      BY <1>2, <2>1 DEF TypeOK
    <3> QED
      BY <2>1, <3>1 DEF OpenTemp
  <2>2. CASE tempFile[i] = None
    <3>1. FreeInode # {} /\ NewInode \in Inode /\ NewInode \notin Linked
      BY <2>2, FreshInode DEF OpenTemp
    <3> QED
      BY <2>2, <3>1 DEF OpenTemp
  <2> QED
    BY <2>1, <2>2
<1>4. /\ local.op = "chunk" /\ local.id = i /\ local.todo = {} /\ local.reads = None
      /\ local.writes = n /\ local.pc = "write"
  BY <1>2, <1>3 DEF RequestSet
<1>5. n # None
  BY <1>3, NoneAssumption
<1>6. Joins(p, local) /\ Request(local)' /\ Lists(local)
  <2>1. Joins(p, local)
    BY <1>2, <1>4 DEF Joins
  <2>2. Plain(local)' /\ Opens(local)' /\ Sized(local)' /\ Found(local)' /\ Reading(local)'
    BY <1>4, <1>5 DEF Plain, Opens, Sized, Found, Reading
  <2> QED
    BY <1>1, <1>4, <2>1, <2>2 DEF Request, Lists
<1>7. Tidied
  <2>1. \A m \in Inode : m \in Linked => m \in Linked'
    BY <1>1, <1>2, <1>3, LinkedGrows DEF TypeOK
  <2>2. \A m \in Inode : m \notin Linked => data[m] = <<>>
    BY DEF ContentInv, Contents
  <2> QED
    BY <1>1, <2>1, <2>2 DEF Tidied
<1>8. CASE tempFile[i] = n /\ UNCHANGED tempFile
  <2>1. Roles(local)
    BY <1>2, <1>4, <1>8 DEF Roles, InTemp
  <2> QED
    BY <1>1, <1>3, <1>4, <1>6, <1>7, <1>8, <2>1, ContentStep
<1>9. CASE tempFile[i] = None /\ n \notin Linked /\ tempFile' = [tempFile EXCEPT ![i] = n]
  <2>1. req'[p] = local /\ \A q \in Proc : q # p => req'[q] = req[q]
    BY <1>3, Continues
  <2>2. \A j \in Id : tempFile'[j] = IF j = i THEN n ELSE tempFile[j]
    BY <1>2, <1>9 DEF TypeOK
  <2>3. Alone'
    BY <1>3, <1>6, AloneStep DEF ContentInv
  <2>4. \A m \in Inode : \A j \in Id : InTemp(m, j)' => InTemp(m, j) \/ (m = n /\ j = i)
    <3> SUFFICES ASSUME NEW m \in Inode, NEW j \in Id, InTemp(m, j)', ~InTemp(m, j)
                 PROVE  m = n /\ j = i
      OBVIOUS
    <3>1. CASE tempFile'[j] = m
      BY <2>2, <3>1 DEF InTemp
    <3>2. CASE \E q \in Proc : req'[q].op = "chunk" /\ req'[q].id = j /\ req'[q].writes = m
      <4>1. PICK q \in Proc : req'[q].op = "chunk" /\ req'[q].id = j /\ req'[q].writes = m
        BY <3>2
      <4>2. q = p
        BY <2>1, <4>1 DEF InTemp
      <4> QED
        BY <1>4, <2>1, <4>1, <4>2
    <3> QED
      BY <3>1, <3>2 DEF InTemp
  <2>5. \A m \in Inode : \A d \in Digest : InBlob(m, d)' => InBlob(m, d)
    <3> SUFFICES ASSUME NEW m \in Inode, NEW d \in Digest, InBlob(m, d)'
                 PROVE  InBlob(m, d)
      OBVIOUS
    <3>1. CASE \E q \in Proc : req'[q].op = "complete" /\ req'[q].claim = d /\ m \in {req'[q].reads, req'[q].writes}
      <4>1. PICK q \in Proc : req'[q].op = "complete" /\ req'[q].claim = d /\ m \in {req'[q].reads, req'[q].writes}
        BY <3>1
      <4>2. q # p
        BY <1>4, <2>1, <4>1
      <4> QED
        BY <2>1, <4>1, <4>2 DEF InBlob
    <3> QED
      BY <1>1, <3>1 DEF InBlob
  <2>6. (\A j \in Id : ~InTemp(n, j)) /\ (\A d \in Digest : ~InBlob(n, d))
    BY <1>9, RolesLinked
  <2>7. ServesOne'
    <3>1. \A m \in Inode :
            /\ \A j, k \in Id : InTemp(m, j)' /\ InTemp(m, k)' => j = k
            /\ \A j \in Id, d \in Digest : ~(InTemp(m, j)' /\ InBlob(m, d)')
            /\ \A d, e \in Digest : InBlob(m, d)' /\ InBlob(m, e)' => d = e
      BY <2>4, <2>5, <2>6 DEF ContentInv, ServesOne
    <3>2. \A m \in Inode : \A d \in Digest : ~(blobFile'[d] = m /\ putFile'[d] = m)
      BY <1>1 DEF ContentInv, ServesOne
    <3> QED
      BY <3>1, <3>2 DEF ServesOne
  <2>8. Contents'
    <3>1. \A m \in Inode : m \notin Linked' => data'[m] = <<>>
      BY <1>7 DEF Tidied
    <3>2. \A m \in Inode : \A d \in Digest : InBlob(m, d)' => data'[m] \in {<<>>, Bytes(d)}
      BY <1>1, <2>5 DEF ContentInv, Contents
    <3> QED
      BY <3>1, <3>2 DEF Contents, Bytes
  <2>9. Listed'
    BY <1>1, <1>3, <1>6, ListedStep DEF ContentInv
  <2>10. Filling'
    BY <1>1, <1>3, <1>4, FillingStep DEF ContentInv
  <2>11. (\A q \in Proc : Request(req[q]))'
    <3>1. ASSUME NEW q \in Proc, q # p, req[q].op = "complete"
          PROVE  tempFile'[req[q].id] = tempFile[req[q].id]
      <4>1. req[q].id # i /\ req[q].id \in Id
        BY <1>2, <3>1, OtherUpload, RequestFields DEF ContentInv, WellFormed
      <4> QED
        BY <2>2, <4>1
    <3>2. ASSUME NEW q \in Proc, req[q].reads # None
          PROVE  \A d \in Digest : putFile[d] # req[q].reads
      BY <3>2, ReadsBlob
    <3>3. TidiedBut(None)
      BY <1>7 DEF Tidied, TidiedBut
    <3>4. \A q \in Proc : q # p /\ req[q].op = "complete" /\ tempFile'[req[q].id] # None =>
            tempFile'[req[q].id] = tempFile[req[q].id] /\ tempFile[req[q].id] # None
      BY <3>1
    <3> QED
      BY <1>1, <1>3, <1>6, <3>2, <3>3, <3>4, OthersKnow
  <2> QED
    BY <2>3, <2>7, <2>8, <2>9, <2>10, <2>11 DEF ContentInv
<1> QED
  BY <1>3, <1>8, <1>9

LEMMA MoveContent ==
  ASSUME TypeOK, TypeOK', ContentInv, NEW p \in Proc, Move(p)
  PROVE  ContentInv'
<1> DEFINE r == req[p]
           i == r.id
           d == r.claim
<1>1. UNCHANGED <<putFile, blobs>> /\ r.pc = "move" /\ Store(data)
  BY DEF Move, At
<1>2. /\ r \in RequestSet /\ Request(r) /\ r.op = "complete" /\ i \in Id /\ d \in Digest
      /\ r.reads = None /\ r.writes = None /\ r.todo = {}
  BY <1>1, HeldBack, RequestFields DEF WellFormed
<1>3. CASE tempFile[i] = None
  <2>1. Continue(p, Idle) /\ Joins(p, Idle)
    BY <1>3, IdleRequest DEF Move, Return, Joins
  <2>2. UNCHANGED <<tempFile, blobFile>>
    BY <1>3 DEF Move
  <2> QED
    BY <1>1, <2>1, <2>2, LeavesContent
<1>4. CASE tempFile[i] # None
  <2>1. PICK local : local = [r EXCEPT !.pc = "open"]
    OBVIOUS
  <2>2. PICK f : f = tempFile[i]
    OBVIOUS
  <2>3. /\ Continue(p, local) /\ tempFile' = [tempFile EXCEPT ![i] = None]
        /\ blobFile' = [blobFile EXCEPT ![d] = f]
    BY <1>4, <2>1, <2>2 DEF Move
  <2>4. /\ local.op = "complete" /\ local.id = i /\ local.claim = d /\ local.todo = {} /\ local.reads = None
        /\ local.writes = None /\ local.pc = "open" /\ local.size = r.size
    BY <1>2, <2>1 DEF RequestSet
  <2>5. f \in Inode /\ InTemp(f, i) /\ data[f] = Bytes(d)
    BY <1>1, <1>2, <1>4, <2>2 DEF TypeOK, InTemp, Request, Found, Verifying
  <2>6. /\ \A j \in Id : tempFile'[j] = IF j = i THEN None ELSE tempFile[j]
        /\ \A e \in Digest : blobFile'[e] = IF e = d THEN f ELSE blobFile[e]
    BY <1>2, <2>3 DEF TypeOK
  <2>7. Tidied
    BY <1>1, StoreTidies
  <2>8. Joins(p, local) /\ Request(local)' /\ Lists(local) /\ Roles(local)
    <3>1. Joins(p, local) /\ Roles(local)
      BY <1>2, <2>4, NoRoles DEF Joins
    <3>2. Plain(local)' /\ Opens(local)' /\ Found(local)' /\ Reading(local)'
      BY <2>4 DEF Plain, Opens, Found, Reading, Verifying
    <3>3. Sized(local)'
      BY <1>1, <1>2, <2>4 DEF Request, Sized, Publishing, Bytes
    <3> QED
      BY <1>1, <2>4, <3>1, <3>2, <3>3 DEF Request, Lists
  <2>9. Alone'
    BY <2>3, <2>8, AloneStep DEF ContentInv
  <2>10. req'[p] = local /\ \A q \in Proc : q # p => req'[q] = req[q]
    BY <2>3, Continues
  <2>11. \A m \in Inode : \A j \in Id : InTemp(m, j)' => InTemp(m, j) /\ m # f
    <3> SUFFICES ASSUME NEW m \in Inode, NEW j \in Id, InTemp(m, j)'
                 PROVE  InTemp(m, j) /\ m # f
      OBVIOUS
    <3>1. InTemp(m, j)
      BY <2>3, <2>6, <2>8, InTempStep
    <3>2. ASSUME m = f
          PROVE  FALSE
      <4>1. j = i
        BY <1>2, <2>5, <3>1, <3>2 DEF ContentInv, ServesOne
      <4>2. tempFile'[j] # m
        BY <1>2, <2>5, <2>6, <4>1, NoneAssumption
      <4>3. PICK q \in Proc : req'[q].op = "chunk" /\ req'[q].id = i /\ req'[q].writes = m
        BY <4>1, <4>2 DEF InTemp
      <4>4. q # p /\ req[q].op = "chunk" /\ req[q].id = i
        BY <2>4, <2>10, <4>3
      <4> QED
        BY <1>2, <4>4, OtherUpload DEF ContentInv
    <3> QED
      BY <3>1, <3>2
  <2>12. \A m \in Inode : \A e \in Digest : InBlob(m, e)' => InBlob(m, e) \/ (m = f /\ e = d)
    <3> SUFFICES ASSUME NEW m \in Inode, NEW e \in Digest, InBlob(m, e)', ~(m = f /\ e = d)
                 PROVE  InBlob(m, e)
      OBVIOUS
    <3>1. (blobFile'[e] = m => InBlob(m, e)) /\ (putFile'[e] = m => InBlob(m, e))
      BY <1>1, <2>6 DEF InBlob
    <3> QED
      BY <2>3, <2>8, <3>1, InBlobStep
  <2>13. \A e \in Digest : ~InBlob(f, e)
    BY <1>2, <2>5 DEF ContentInv, ServesOne
  <2>14. ServesOne'
    <3>1. \A m \in Inode :
            /\ \A j, k \in Id : InTemp(m, j)' /\ InTemp(m, k)' => j = k
            /\ \A j \in Id, e \in Digest : ~(InTemp(m, j)' /\ InBlob(m, e)')
            /\ \A e, g \in Digest : InBlob(m, e)' /\ InBlob(m, g)' => e = g
      BY <2>11, <2>12, <2>13 DEF ContentInv, ServesOne
    <3>2. \A m \in Inode : \A e \in Digest : ~(blobFile'[e] = m /\ putFile'[e] = m)
      <4>1. putFile[d] # f
        BY <1>2, <2>13 DEF InBlob
      <4> QED
        BY <1>1, <2>6, <4>1 DEF ContentInv, ServesOne
    <3> QED
      BY <3>1, <3>2 DEF ServesOne
  <2>15. Contents'
    <3> SUFFICES ASSUME NEW m \in Inode
                 PROVE  /\ m \notin Linked' => data'[m] = <<>>
                        /\ \A e \in Digest : InBlob(m, e)' => data'[m] \in {<<>>, Bytes(e)}
      BY DEF Contents, Bytes
    <3>1. (m \notin Linked' => data'[m] = <<>>) /\ data'[m] \in {data[m], <<>>}
      BY <2>7 DEF Tidied
    <3>2. \A e \in Digest : InBlob(m, e)' => data[m] \in {<<>>, Bytes(e)}
      BY <2>5, <2>12 DEF ContentInv, Contents
    <3> QED
      BY <3>1, <3>2
  <2>16. Listed'
    <3> SUFFICES ASSUME NEW e \in Digest, e \in blobs' \/ Passing(e, {"insert"})'
                 PROVE  blobFile'[e] # None /\ Filled(blobFile[e], e)'
      BY DEF Listed
    <3>1. CASE e = d
      <4>1. blobFile'[e] = f /\ f # None
        BY <2>5, <2>6, <3>1, NoneAssumption
      <4>2. data'[f] = Bytes(e)
        BY <2>5, <2>7, <3>1, <4>1, TidyFiles
      <4> QED
        BY <4>1, <4>2 DEF Filled, Bytes
    <3>2. CASE e # d
      <4>1. blobFile'[e] = blobFile[e]
        BY <2>6, <3>2
      <4>2. blobFile[e] # None => data'[blobFile[e]] = data[blobFile[e]]
        BY <2>7, <4>1, TidyFiles
      <4> QED
        BY <1>1, <2>3, <2>8, <4>1, <4>2, ListedAt DEF ContentInv, Lists
    <3> QED
      BY <3>1, <3>2
  <2>17. Filling'
    <3>1. \A e \in Digest : putFile'[e] # None =>
            putFile'[e] = putFile[e] /\ data'[putFile[e]] = data[putFile[e]]
      BY <1>1, <2>7, TidyFiles
    <3> QED
      BY <1>1, <2>3, <2>4, <3>1, FillingStep DEF ContentInv
  <2>18. (\A q \in Proc : Request(req[q]))'
    <3>1. ASSUME NEW q \in Proc, q # p, req[q].op = "complete"
          PROVE  tempFile'[req[q].id] = tempFile[req[q].id]
      <4>1. req[q].id # i /\ req[q].id \in Id
        BY <1>2, <3>1, OtherUpload, RequestFields DEF ContentInv, WellFormed
      <4> QED
        BY <2>6, <4>1
    <3>2. ASSUME NEW q \in Proc, req[q].reads # None
          PROVE  \A e \in Digest : putFile[e] # req[q].reads
      BY <3>2, ReadsBlob
    <3>3. TidiedBut(None)
      BY <2>7 DEF Tidied, TidiedBut
    <3>4. \A q \in Proc : q # p /\ req[q].op = "complete" /\ tempFile'[req[q].id] # None =>
            tempFile'[req[q].id] = tempFile[req[q].id] /\ tempFile[req[q].id] # None
      BY <3>1
    <3> QED
      BY <1>1, <2>3, <2>8, <3>2, <3>3, <3>4, OthersKnow
  <2> QED
    BY <2>9, <2>14, <2>15, <2>16, <2>17, <2>18 DEF ContentInv
<1> QED
  BY <1>3, <1>4

LEMMA RenamePutContent ==
  ASSUME TypeOK, TypeOK', ContentInv, NEW p \in Proc, RenamePutFile(p)
  PROVE  ContentInv'
<1> DEFINE r == req[p]
           d == r.claim
<1>1. UNCHANGED <<tempFile, blobs>> /\ r.pc = "rename" /\ Store(data)
  BY DEF RenamePutFile, At
<1>2. /\ r \in RequestSet /\ Request(r) /\ r.op = "complete" /\ d \in Digest
      /\ r.writes = None /\ r.todo = {}
  BY <1>1, HeldBack, RequestFields DEF WellFormed, Request, Opens
<1>3. CASE putFile[d] = None
  <2>1. Continue(p, Idle) /\ Joins(p, Idle)
    BY <1>3, IdleRequest DEF RenamePutFile, Return, Joins
  <2>2. UNCHANGED <<blobFile, putFile>>
    BY <1>3 DEF RenamePutFile
  <2> QED
    BY <1>1, <2>1, <2>2, LeavesContent
<1>4. CASE putFile[d] # None
  <2>1. PICK local : local = [r EXCEPT !.pc = "insert", !.reads = None]
    OBVIOUS
  <2>2. PICK n : n = putFile[d]
    OBVIOUS
  <2>3. /\ Continue(p, local) /\ blobFile' = [blobFile EXCEPT ![d] = n]
        /\ putFile' = [putFile EXCEPT ![d] = None]
    BY <1>4, <2>1, <2>2 DEF RenamePutFile
  <2>4. /\ local.op = "complete" /\ local.id = r.id /\ local.claim = d /\ local.todo = {} /\ local.reads = None
        /\ local.writes = None /\ local.pc = "insert" /\ local.size = r.size
    BY <1>2, <2>1 DEF RequestSet
  <2>5. n \in Inode /\ InBlob(n, d) /\ Filled(n, d)
    <3>1. Passing(d, {"copy", "rename"})
      BY <1>1, <1>2 DEF Passing
    <3>2. Filled(n, d)
      BY <1>2, <1>4, <2>2, <3>1 DEF ContentInv, Filling
    <3> QED
      BY <1>2, <1>4, <2>2, <3>2 DEF TypeOK, InBlob
  <2>6. /\ \A e \in Digest : blobFile'[e] = IF e = d THEN n ELSE blobFile[e]
        /\ \A e \in Digest : putFile'[e] = IF e = d THEN None ELSE putFile[e]
    BY <1>2, <2>3 DEF TypeOK
  <2>7. Tidied
    BY <1>1, StoreTidies
  <2>8. Joins(p, local) /\ Request(local)' /\ Roles(local)
    <3>1. Joins(p, local) /\ Roles(local)
      BY <1>2, <2>4, NoRoles DEF Joins
    <3>2. Plain(local)' /\ Opens(local)' /\ Found(local)' /\ Reading(local)'
      BY <2>4 DEF Plain, Opens, Found, Reading, Verifying
    <3>3. Sized(local)'
      BY <1>1, <1>2, <2>4 DEF Request, Sized, Publishing, Bytes
    <3> QED
      BY <3>1, <3>2, <3>3 DEF Request
  <2>9. Alone'
    BY <2>3, <2>8, AloneStep DEF ContentInv
  <2>10. \A m \in Inode : \A j \in Id : InTemp(m, j)' => InTemp(m, j)
    BY <1>1, <2>3, <2>8, InTempStep
  <2>11. \A m \in Inode : \A e \in Digest : InBlob(m, e)' => InBlob(m, e)
    <3> SUFFICES ASSUME NEW m \in Inode, NEW e \in Digest, InBlob(m, e)'
                 PROVE  InBlob(m, e)
      OBVIOUS
    <3>1. (blobFile'[e] = m => InBlob(m, e)) /\ (putFile'[e] = m => InBlob(m, e))
      <4>1. blobFile'[e] = m => InBlob(m, e)
        BY <2>5, <2>6 DEF InBlob
      <4>2. putFile'[e] = m => InBlob(m, e)
        BY <2>6, NoneAssumption DEF InBlob
      <4> QED
        BY <4>1, <4>2
    <3> QED
      BY <2>3, <2>8, <3>1, InBlobStep
  <2>12. ServesOne'
    BY <2>6, <2>10, <2>11, RolesShrink, NoneAssumption DEF ContentInv
  <2>13. Contents'
    <3> SUFFICES ASSUME NEW m \in Inode
                 PROVE  /\ m \notin Linked' => data'[m] = <<>>
                        /\ \A e \in Digest : InBlob(m, e)' => data'[m] \in {<<>>, Bytes(e)}
      BY DEF Contents, Bytes
    <3>1. (m \notin Linked' => data'[m] = <<>>) /\ data'[m] \in {data[m], <<>>}
      BY <2>7 DEF Tidied
    <3>2. \A e \in Digest : InBlob(m, e)' => data[m] \in {<<>>, Bytes(e)}
      BY <2>11 DEF ContentInv, Contents
    <3> QED
      BY <3>1, <3>2
  <2>14. Listed'
    <3> SUFFICES ASSUME NEW e \in Digest, e \in blobs' \/ Passing(e, {"insert"})'
                 PROVE  blobFile'[e] # None /\ Filled(blobFile[e], e)'
      BY DEF Listed
    <3>1. CASE e = d
      <4>1. blobFile'[e] = n /\ n # None
        BY <2>5, <2>6, <3>1, NoneAssumption
      <4>2. data'[n] = data[n]
        BY <2>7, <4>1, TidyFiles
      <4>3. Filled(n, e)'
        BY <1>1, <2>3, <2>5, <3>1, <4>2, FilledStep
      <4> QED
        BY <4>1, <4>3
    <3>2. CASE e # d
      <4>1. blobFile'[e] = blobFile[e]
        BY <2>6, <3>2
      <4>2. blobFile[e] # None => data'[blobFile[e]] = data[blobFile[e]]
        BY <2>7, <4>1, TidyFiles
      <4> QED
        BY <1>1, <2>3, <2>4, <3>2, <4>1, <4>2, ListedAt DEF ContentInv
    <3> QED
      BY <3>1, <3>2
  <2>15. Filling'
    <3>1. \A e \in Digest : putFile'[e] # None =>
            putFile'[e] = putFile[e] /\ data'[putFile[e]] = data[putFile[e]]
      BY <2>6, <2>7, TidyFiles
    <3> QED
      BY <1>1, <2>3, <2>4, <3>1, FillingStep DEF ContentInv
  <2>16. (\A q \in Proc : Request(req[q]))'
    <3>1. ASSUME NEW q \in Proc, req[q].reads # None
          PROVE  \A e \in Digest : putFile'[e] # req[q].reads
      <4>1. req[q].reads \in Inode /\ \A e \in Digest : putFile[e] # req[q].reads
        BY <3>1, ReadsBlob
      <4> QED
        BY <2>6, <4>1, NoneAssumption
    <3>2. TidiedBut(None)
      BY <2>7 DEF Tidied, TidiedBut
    <3> QED
      BY <1>1, <2>3, <2>8, <3>1, <3>2, OthersKnow
  <2> QED
    BY <2>9, <2>12, <2>13, <2>14, <2>15, <2>16 DEF ContentInv
<1> QED
  BY <1>3, <1>4

\* A file that is created anew is there for the digest's next content, and empty.
LEMMA CreatePutContent ==
  ASSUME TypeOK, TypeOK', ContentInv, NEW p \in Proc, CreatePutFile(p)
  PROVE  ContentInv'
<1> DEFINE r == req[p]
           d == r.claim
<1>1. UNCHANGED <<tempFile, blobFile, blobs>> /\ r.pc = "createPut"
  BY DEF CreatePutFile, At
<1>2. /\ r \in RequestSet /\ Request(r) /\ r.op = "complete" /\ r.id \in Id /\ d \in Digest
      /\ r.writes = None /\ r.todo = {}
  BY <1>1, HeldBack, RequestFields DEF WellFormed, Request, Opens
<1>3. PICK n, local : /\ n \in Inode /\ Continue(p, local) /\ local = [r EXCEPT !.pc = "copy", !.writes = n]
                      /\ \/ putFile[d] = n /\ UNCHANGED putFile /\ Store([data EXCEPT ![n] = <<>>])
                         \/ /\ putFile[d] = None /\ n \notin Linked
                            /\ putFile' = [putFile EXCEPT ![d] = n] /\ UNCHANGED data
  <2>1. CASE putFile[d] # None
    <3>1. putFile[d] \in Inode
      BY <1>2, <2>1 DEF TypeOK
    <3> QED
      BY <2>1, <3>1 DEF CreatePutFile
  <2>2. CASE putFile[d] = None
    <3>1. FreeInode # {} /\ NewInode \in Inode /\ NewInode \notin Linked
      BY <2>2, FreshInode DEF CreatePutFile
    <3> QED
      BY <2>2, <3>1 DEF CreatePutFile
  <2> QED
    BY <2>1, <2>2
<1>4. /\ local.op = "complete" /\ local.id = r.id /\ local.claim = d /\ local.todo = {}
      /\ local.reads = r.reads /\ local.writes = n /\ local.pc = "copy" /\ local.size = r.size
  BY <1>2, <1>3 DEF RequestSet
<1>5. req'[p] = local /\ \A q \in Proc : q # p => req'[q] = req[q]
  BY <1>3, Continues
<1>6. \A e \in Digest : putFile'[e] = IF e = d THEN n ELSE putFile[e]
  BY <1>2, <1>3 DEF TypeOK
<1>7. /\ \A j \in Id : ~InTemp(n, j)
      /\ \A e \in Digest : InBlob(n, e) => e = d
      /\ \A e \in Digest : blobFile[e] # n
      /\ \A q \in Proc : req[q].reads # n
  <2>1. CASE putFile[d] = n
    <3>1. InBlob(n, d)
      BY <2>1 DEF InBlob
    <3>2. (\A j \in Id : ~InTemp(n, j)) /\ (\A e \in Digest : InBlob(n, e) => e = d)
      BY <1>2, <1>3, <3>1 DEF ContentInv, ServesOne
    <3>3. \A e \in Digest : blobFile[e] # n
      <4>1. \A e \in Digest : blobFile[e] = n => InBlob(n, e)
        BY DEF InBlob
      <4> QED
        BY <1>2, <1>3, <2>1, <3>2, <4>1 DEF ContentInv, ServesOne
    <3>4. \A q \in Proc : req[q].reads # n
      BY <1>2, <1>3, <2>1, ReadsBlob, NoneAssumption
    <3> QED
      BY <3>2, <3>3, <3>4
  <2>2. CASE n \notin Linked
    <3>1. (\A j \in Id : ~InTemp(n, j)) /\ (\A e \in Digest : ~InBlob(n, e))
      BY <2>2, RolesLinked
    <3> QED
      BY <2>2, <3>1 DEF Linked
  <2> QED
    BY <1>3, <2>1, <2>2
<1>8. TidiedBut(n) /\ data'[n] = <<>>
  <2>1. CASE Store([data EXCEPT ![n] = <<>>])
    <3>1. n \in Linked'
      BY <1>4, <1>5 DEF Linked
    <3> QED
      BY <1>3, <2>1, <3>1, StoreTidiesBut
  <2>2. CASE putFile[d] = None /\ n \notin Linked /\ UNCHANGED data
    <3>1. \A m \in Inode : m \in Linked => m \in Linked'
      BY <1>1, <1>2, <1>3, <1>4, <1>6, <2>2, LinkedGrows
    <3>2. \A m \in Inode : m \notin Linked => data[m] = <<>>
      BY DEF ContentInv, Contents
    <3> QED
      BY <1>3, <2>2, <3>1, <3>2 DEF TidiedBut
  <2> QED
    BY <1>3, <2>1, <2>2
<1>9. Joins(p, local) /\ Lists(local)
  BY <1>1, <1>2, <1>4 DEF Joins, Lists
<1>10. Alone'
  BY <1>3, <1>9, AloneStep DEF ContentInv
<1>11. \A m \in Inode : \A j \in Id : InTemp(m, j)' => InTemp(m, j)
  <2>1. local.op = "complete" /\ \A m \in Inode : \A j \in Id :
          (\E q \in Proc : req'[q].op = "chunk" /\ req'[q].id = j /\ req'[q].writes = m)
            => \E q \in Proc : req[q].op = "chunk" /\ req[q].id = j /\ req[q].writes = m
    BY <1>4, <1>5
  <2> QED
    BY <1>1, <2>1 DEF InTemp
<1>12. \A m \in Inode : \A e \in Digest : InBlob(m, e)' => InBlob(m, e) \/ (m = n /\ e = d)
  <2> SUFFICES ASSUME NEW m \in Inode, NEW e \in Digest, InBlob(m, e)', ~(m = n /\ e = d)
               PROVE  InBlob(m, e)
    OBVIOUS
  <2>1. CASE blobFile'[e] = m \/ putFile'[e] = m
    BY <1>1, <1>6, <2>1 DEF InBlob
  <2>2. CASE \E q \in Proc : req'[q].op = "complete" /\ req'[q].claim = e /\ m \in {req'[q].reads, req'[q].writes}
    <3>1. PICK q \in Proc : req'[q].op = "complete" /\ req'[q].claim = e /\ m \in {req'[q].reads, req'[q].writes}
      BY <2>2
    <3>2. CASE q = p
      BY <1>2, <1>4, <1>5, <3>1, <3>2 DEF InBlob
    <3>3. CASE q # p
      BY <1>5, <3>1, <3>3 DEF InBlob
    <3> QED
      BY <3>2, <3>3
  <2> QED
    BY <2>1, <2>2 DEF InBlob
<1>13. ServesOne'
  <2>1. \A m \in Inode :
          /\ \A j, k \in Id : InTemp(m, j)' /\ InTemp(m, k)' => j = k
          /\ \A j \in Id, e \in Digest : ~(InTemp(m, j)' /\ InBlob(m, e)')
          /\ \A e, g \in Digest : InBlob(m, e)' /\ InBlob(m, g)' => e = g
    BY <1>7, <1>11, <1>12 DEF ContentInv, ServesOne
  <2>2. \A m \in Inode : \A e \in Digest : ~(blobFile'[e] = m /\ putFile'[e] = m)
    BY <1>1, <1>6, <1>7 DEF ContentInv, ServesOne
  <2> QED
    BY <2>1, <2>2 DEF ServesOne
<1>14. Contents'
  <2> SUFFICES ASSUME NEW m \in Inode
               PROVE  /\ m \notin Linked' => data'[m] = <<>>
                      /\ \A e \in Digest : InBlob(m, e)' => data'[m] \in {<<>>, Bytes(e)}
    BY DEF Contents, Bytes
  <2>1. m \notin Linked' => data'[m] = <<>>
    BY <1>8 DEF TidiedBut
  <2>2. m # n => data'[m] \in {data[m], <<>>}
    BY <1>8 DEF TidiedBut
  <2>3. \A e \in Digest : InBlob(m, e)' => m = n \/ data[m] \in {<<>>, Bytes(e)}
    BY <1>12 DEF ContentInv, Contents
  <2> QED
    BY <1>8, <2>1, <2>2, <2>3
<1>15. Listed'
  <2>1. \A e \in Digest : blobFile[e] # None => data'[blobFile[e]] = data[blobFile[e]]
    BY <1>1, <1>7, <1>8, OtherFiles
  <2> QED
    BY <1>1, <1>3, <1>9, <2>1, ListedStep DEF ContentInv
<1>16. Filling'
  <2> SUFFICES ASSUME NEW e \in Digest, Passing(e, {"copy", "rename"})', putFile'[e] # None
               PROVE  Filled(putFile[e], e)'
    BY DEF Filling
  <2>1. CASE e = d
    BY <1>4, <1>5, <1>6, <2>1 DEF Filled
  <2>2. CASE e # d
    <3>1. putFile'[e] = putFile[e] /\ putFile[e] # n
      BY <1>6, <1>7, <2>2 DEF InBlob
    <3>2. data'[putFile[e]] = data[putFile[e]]
      BY <1>8, <3>1, OtherFiles
    <3> QED
      BY <1>1, <1>3, <1>4, <2>2, <3>1, <3>2, FillingAt DEF ContentInv
  <2> QED
    BY <2>1, <2>2
<1>17. Request(local)'
  <2>1. Plain(local)' /\ Opens(local)' /\ Found(local)'
    BY <1>3, <1>4, NoneAssumption DEF Plain, Opens, Found, Verifying
  <2>2. Sized(local)'
    BY <1>1, <1>2, <1>4 DEF Request, Sized, Publishing, Bytes
  <2>3. Reading(local)'
    <3>1. Reading(r)
      BY <1>2 DEF Request
    <3>2. r.reads # None => data'[r.reads] = data[r.reads]
      BY <1>4, <1>5, <1>7, <1>8, OtherFiles
    <3>3. \A e \in Digest : r.reads # None => putFile'[e] # r.reads
      BY <1>6, <1>7, <3>1 DEF Reading
    <3> QED
      BY <1>4, <3>1, <3>2, <3>3 DEF Reading, Bytes
  <2> QED
    BY <2>1, <2>2, <2>3 DEF Request
<1>18. (\A q \in Proc : Request(req[q]))'
  <2>1. ASSUME NEW q \in Proc, q # p, req[q].op = "complete"
        PROVE  tempFile[req[q].id] # n
    <3>1. req[q].id \in Id
      BY <2>1, RequestFields DEF WellFormed
    <3> QED
      BY <1>7, <3>1 DEF InTemp
  <2>2. ASSUME NEW q \in Proc, req[q].reads # None
        PROVE  req[q].reads # n /\ \A e \in Digest : putFile'[e] # req[q].reads
    BY <1>6, <1>7, <2>2, ReadsBlob
  <2> QED
    BY <1>1, <1>3, <1>8, <1>17, <2>1, <2>2, OthersKnow
<1> QED
  BY <1>10, <1>13, <1>14, <1>15, <1>16, <1>18 DEF ContentInv

\* A file that is empty or holds the same is the content when that was written.
LEMMA OverwriteWhole ==
  ASSUME NEW c \in Seq(Byte), NEW x \in {<<>>, c}
  PROVE  Overwrite(x, 0, c) = c
<1>1. Len(c) \in Nat /\ Len(x) \in Nat /\ Len(x) <= Len(c)
  OBVIOUS
<1>2. Larger(Len(x), 0 + Len(c)) = Len(c)
  BY <1>1 DEF Larger
<1>3. Overwrite(x, 0, c) = [k \in 1..Len(c) |-> c[k]]
  BY <1>1, <1>2 DEF Overwrite
<1> QED
  BY <1>3

\* What a completion copies is the content of its digest.
LEMMA CopiesBytes ==
  ASSUME TypeOK, ContentInv, NEW p \in Proc, req[p].op = "complete", req[p].pc = "copy", NEW content,
         content = IF req[p].size = 0 THEN <<>>
                   ELSE SubSeq(data[req[p].reads], 1, Smaller(req[p].size, Len(data[req[p].reads])))
  PROVE  content = Bytes(req[p].claim) /\ content \in Seq(Byte)
<1> DEFINE r == req[p]
           c == Bytes(r.claim)
<1>1. r.claim \in Digest /\ (r.size = 0 \/ r.reads \in Inode) /\ r.size \in Nat
  BY RequestFields DEF WellFormed
<1>2. c \in Seq(Byte)
  BY <1>1, PayloadAssumption DEF Digest, Bytes, DigestBytes
<1>3. Len(c) = r.size
  BY DEF ContentInv, Request, Sized, Publishing
<1>4. CASE r.size = 0
  BY <1>2, <1>3, <1>4
<1>5. CASE r.size # 0
  <2>1. r.reads # None
    BY <1>1, <1>5, NoneAssumption
  <2>2. data[r.reads] = c
    BY <2>1, ReadsBlob
  <2>3. Smaller(r.size, Len(c)) = Len(c)
    BY <1>1, <1>3 DEF Smaller
  <2>4. content = SubSeq(c, 1, Len(c))
    BY <1>5, <2>2, <2>3, Zenon
  <2> QED
    BY <1>2, <2>4, WholeSubSeq, Zenon
<1> QED
  BY <1>4, <1>5

LEMMA CopyPutContent ==
  ASSUME TypeOK, TypeOK', ContentInv, NEW p \in Proc, CopyToPutFile(p)
  PROVE  ContentInv'
<1> DEFINE r == req[p]
           d == r.claim
<1>1. UNCHANGED <<tempFile, blobFile, putFile, blobs>> /\ r.pc = "copy"
  BY DEF CopyToPutFile, At
<1>2. /\ r \in RequestSet /\ Request(r) /\ r.op = "complete" /\ r.id \in Id /\ d \in Digest
      /\ r.writes \in Inode /\ r.todo = {}
  BY <1>1, HeldBack, RequestFields DEF WellFormed, Request, Opens, RequestSet
<1>3. PICK n, local : /\ n = r.writes /\ Continue(p, local)
                      /\ local = [r EXCEPT !.pc = "rename", !.writes = None]
  BY DEF CopyToPutFile
<1>4. /\ local.op = "complete" /\ local.id = r.id /\ local.claim = d /\ local.todo = {}
      /\ local.reads = r.reads /\ local.writes = None /\ local.pc = "rename" /\ local.size = r.size
  BY <1>2, <1>3 DEF RequestSet
<1>5. req'[p] = local /\ \A q \in Proc : q # p => req'[q] = req[q]
  BY <1>3, Continues
<1>6. n \in Inode /\ n # None /\ InBlob(n, d)
  BY <1>2, <1>3, NoneAssumption DEF InBlob
<1>7. /\ \A j \in Id : ~InTemp(n, j)
      /\ \A e \in Digest : InBlob(n, e) => e = d
  BY <1>2, <1>6 DEF ContentInv, ServesOne
<1>8. TidiedBut(n) /\ (n \in Linked' => data'[n] = Bytes(d))
  <2>1. PICK content : content = IF r.size = 0 THEN <<>>
                                 ELSE SubSeq(data[r.reads], 1, Smaller(r.size, Len(data[r.reads])))
    BY Zenon
  <2>2. content = Bytes(d) /\ content \in Seq(Byte)
    BY <1>1, <1>2, <2>1, CopiesBytes
  <2>3. PICK c : c = Overwrite(data[n], 0, content)
    OBVIOUS
  <2>4. Store([data EXCEPT ![n] = c])
    BY <1>3, <2>1, <2>3, Zenon DEF CopyToPutFile
  <2>5. data[n] \in {<<>>, content}
    BY <1>2, <1>6, <2>2 DEF ContentInv, Contents
  <2>6. c = content
    BY <2>2, <2>3, <2>5, OverwriteWhole
  <2> QED
    BY <1>6, <2>2, <2>4, <2>6, StoreTidiesBut
<1>9. Joins(p, local) /\ Lists(local) /\ Roles(local)
  <2>1. Joins(p, local) /\ Lists(local)
    BY <1>1, <1>2, <1>4 DEF Joins, Lists
  <2>2. Roles(local)
    BY <1>2, <1>4, NoneAssumption DEF Roles, InBlob
  <2> QED
    BY <2>1, <2>2
<1>10. Alone'
  BY <1>3, <1>9, AloneStep DEF ContentInv
<1>11. \A m \in Inode : \A j \in Id : InTemp(m, j)' => InTemp(m, j)
  BY <1>1, <1>3, <1>9, InTempStep
<1>12. \A m \in Inode : \A e \in Digest : InBlob(m, e)' => InBlob(m, e)
  <2>1. \A m \in Inode : \A e \in Digest : (blobFile'[e] = m \/ putFile'[e] = m) => InBlob(m, e)
    BY <1>1 DEF InBlob
  <2> QED
    BY <1>3, <1>9, <2>1, InBlobStep
<1>13. ServesOne'
  BY <1>1, <1>11, <1>12, RolesShrink, NoneAssumption DEF ContentInv
<1>14. Contents'
  <2> SUFFICES ASSUME NEW m \in Inode
               PROVE  /\ m \notin Linked' => data'[m] = <<>>
                      /\ \A e \in Digest : InBlob(m, e)' => data'[m] \in {<<>>, Bytes(e)}
    BY DEF Contents, Bytes
  <2>1. m \notin Linked' => data'[m] = <<>>
    BY <1>8 DEF TidiedBut
  <2>2. m # n => data'[m] \in {data[m], <<>>}
    BY <1>8 DEF TidiedBut
  <2>3. \A e \in Digest : InBlob(m, e)' => data[m] \in {<<>>, Bytes(e)} /\ (m = n => e = d)
    BY <1>7, <1>12 DEF ContentInv, Contents
  <2> QED
    BY <1>8, <2>1, <2>2, <2>3
<1>15. ASSUME NEW m \in Inode, NEW e \in Digest, InBlob(m, e), Filled(m, e), m \in Linked'
       PROVE  Filled(m, e)'
  <2>1. CASE m = n
    <3>1. e = d
      BY <1>7, <1>15, <2>1
    <3>2. data'[m] = Bytes(e)
      BY <1>8, <1>15, <2>1, <3>1
    <3> QED
      BY <3>2 DEF Filled, Bytes
  <2>2. CASE m # n
    <3>1. data'[m] = data[m]
      BY <1>8, <1>15, <2>2 DEF TidiedBut
    <3>2. CASE data[m] = Bytes(e)
      BY <3>1, <3>2 DEF Filled, Bytes
    <3>3. CASE \E q \in Proc : req[q].op = "complete" /\ req[q].claim = e /\ req[q].pc = "copy" /\ req[q].writes = m
      <4>1. PICK q \in Proc : req[q].op = "complete" /\ req[q].claim = e /\ req[q].pc = "copy" /\ req[q].writes = m
        BY <3>3
      <4>2. req'[q] = req[q]
        BY <1>3, <1>5, <2>2, <4>1
      <4> QED
        BY <4>1, <4>2 DEF Filled
    <3> QED
      BY <1>15, <3>2, <3>3 DEF Filled
  <2> QED
    BY <2>1, <2>2
<1>16. Listed'
  <2> SUFFICES ASSUME NEW e \in Digest, e \in blobs' \/ Passing(e, {"insert"})'
               PROVE  blobFile'[e] # None /\ Filled(blobFile[e], e)'
    BY DEF Listed
  <2>1. PICK m : m = blobFile[e]
    OBVIOUS
  <2>2. e \in blobs \/ Passing(e, {"insert"})
    BY <1>1, <1>3, <1>4, PassingStep
  <2>3. m # None /\ Filled(m, e)
    BY <2>1, <2>2 DEF ContentInv, Listed
  <2>4. blobFile'[e] = m /\ m \in Inode /\ InBlob(m, e) /\ m \in Linked'
    BY <1>1, <2>1, <2>3 DEF TypeOK, InBlob, Linked
  <2>5. Filled(m, e)'
    BY <1>15, <2>3, <2>4
  <2> QED
    BY <2>3, <2>4, <2>5
<1>17. Filling'
  <2> SUFFICES ASSUME NEW e \in Digest, Passing(e, {"copy", "rename"})', putFile'[e] # None
               PROVE  Filled(putFile[e], e)'
    BY DEF Filling
  <2>1. PICK m : m = putFile[e]
    OBVIOUS
  <2>2. Passing(e, {"copy", "rename"})
    <3>1. Passing(d, {"copy", "rename"})
      BY <1>1, <1>2 DEF Passing
    <3>2. local.claim = e => Passing(e, {"copy", "rename"})
      BY <1>4, <3>1
    <3> QED
      BY <1>3, <3>2, PassingStep
  <2>3. Filled(m, e)
    BY <1>1, <2>1, <2>2 DEF ContentInv, Filling
  <2>4. putFile'[e] = m /\ m \in Inode /\ InBlob(m, e) /\ m \in Linked'
    BY <1>1, <2>1 DEF TypeOK, InBlob, Linked
  <2>5. Filled(m, e)'
    BY <1>15, <2>3, <2>4
  <2> QED
    BY <2>4, <2>5
<1>18. ASSUME NEW q \in Proc, req[q].reads # None, req'[q].reads = req[q].reads
       PROVE  data'[req[q].reads] = data[req[q].reads]
  <2>1. PICK m : m = req[q].reads
    OBVIOUS
  <2>2. m \in Inode /\ InBlob(m, req[q].claim) /\ data[m] = Bytes(req[q].claim) /\ req[q].claim \in Digest
    BY <1>18, <2>1, ReadsBlob
  <2>3. m \in Linked'
    BY <1>18, <2>1 DEF Linked
  <2>4. data'[m] = data[m]
    BY <1>7, <1>8, <2>2, <2>3 DEF TidiedBut
  <2> QED
    BY <2>1, <2>4
<1>19. Request(local)'
  <2>1. Plain(local)' /\ Opens(local)' /\ Found(local)'
    BY <1>2, <1>4 DEF Request, Plain, Opens, Found, Verifying
  <2>2. Sized(local)'
    BY <1>1, <1>2, <1>4 DEF Request, Sized, Publishing, Bytes
  <2>3. Reading(local)'
    <3>1. Reading(r)
      BY <1>2 DEF Request
    <3>2. r.reads # None => data'[r.reads] = data[r.reads]
      BY <1>4, <1>5, <1>18
    <3> QED
      BY <1>1, <1>4, <3>1, <3>2 DEF Reading, Bytes
  <2> QED
    BY <2>1, <2>2, <2>3 DEF Request
<1>20. (\A q \in Proc : Request(req[q]))'
  <2>1. ASSUME NEW q \in Proc, q # p, req[q].op = "complete"
        PROVE  tempFile[req[q].id] # n
    <3>1. req[q].id \in Id
      BY <2>1, RequestFields DEF WellFormed
    <3> QED
      BY <1>7, <3>1 DEF InTemp
  <2>2. ASSUME NEW q \in Proc, q # p, req[q].reads # None
        PROVE  /\ req[q].reads = n => data'[n] = data[n]
               /\ \A e \in Digest : putFile'[e] # req[q].reads
    <3>1. \A e \in Digest : putFile[e] # req[q].reads
      BY <2>2, ReadsBlob
    <3>2. data'[req[q].reads] = data[req[q].reads]
      BY <1>5, <1>18, <2>2
    <3> QED
      BY <1>1, <3>1, <3>2
  <2> QED
    BY <1>1, <1>3, <1>8, <1>19, <2>1, <2>2, OthersKnow
<1> QED
  BY <1>10, <1>13, <1>14, <1>16, <1>17, <1>20 DEF ContentInv

LEMMA InsertContent ==
  ASSUME TypeOK, TypeOK', ContentInv, NEW p \in Proc, InsertBlob(p)
  PROVE  ContentInv'
<1> DEFINE r == req[p]
           d == r.claim
<1>1. UNCHANGED files /\ r.pc = "insert" /\ blobs' = blobs \union {d}
  BY DEF InsertBlob, At
<1>2. /\ r \in RequestSet /\ r.op = "complete" /\ d \in Digest /\ r.reads = None /\ r.writes = None
      /\ r.todo = {}
  BY <1>1, HeldBack, RequestFields DEF WellFormed
<1>3. PICK local : Continue(p, local) /\ local = [r EXCEPT !.pc = "complete"]
  BY DEF InsertBlob
<1>4. Joins(p, local) /\ Unconcerned(local)
  BY <1>2, <1>3 DEF Joins, Unconcerned, RequestSet, Verifying, Publishing
<1>5. Request(local)'
  BY <1>4, UnconcernedRequest
<1>6. Tidied
  BY <1>1, <1>2, <1>3, LookTidies DEF ContentInv
<1>7. Lists(local)
  <2>1. Passing(d, {"insert"})
    BY <1>1, <1>2 DEF Passing
  <2> QED
    BY <1>1, <1>4, <2>1 DEF Lists, Unconcerned, Publishing
<1>8. Roles(local) /\ local.pc \notin {"copy", "rename"}
  BY <1>4, NoRoles DEF Unconcerned, Publishing
<1> QED
  BY <1>1, <1>3, <1>4, <1>5, <1>6, <1>7, <1>8, ContentStep DEF files

-----------------------------------------------------------------------------
(* The invariant. *)

LEMMA FileStepContent ==
  ASSUME Prudent, TypeOK, TypeOK', ContentInv, NEW p \in Proc, FileStep(p)
  PROVE  ContentInv'
<1>1. CASE OpenTemp(p) \/ WriteChunk(p)
  BY <1>1, OpenTempContent, WriteChunkContent
<1>2. CASE Stat(p) \/ Hash(p) \/ Exists(p)
  BY <1>2, LookContent
<1>3. CASE Move(p) \/ OpenBlobFile(p)
  BY <1>3, MoveContent, OpenBlobContent
<1>4. CASE CreatePutFile(p) \/ CopyToPutFile(p) \/ RenamePutFile(p)
  BY <1>4, CreatePutContent, CopyPutContent, RenamePutContent
<1>5. CASE RemoveTempFile(p)
  BY <1>5, RemoveTempContent
<1>6. CASE (\E n \in 0..MaxBlobSize : CancelWrite(p, n)) \/ CancelCopy(p)
  BY <1>6 DEF Prudent, CancelWrite, CancelCopy
<1>7. CASE UnlinkBlob(p)
  <2>1. req[p].op = "deleteBlob"
    BY <1>7, RequestFields DEF UnlinkBlob, At, WellFormed
  <2> QED
    BY <2>1, HeldBack
<1> QED
  BY <1>1, <1>2, <1>3, <1>4, <1>5, <1>6, <1>7 DEF FileStep

LEMMA RestartContent ==
  ASSUME TypeOK, ContentInv, Restart
  PROVE  ContentInv'
<1>1. /\ \A p \in Proc : req'[p] = Idle
      /\ UNCHANGED <<tempFile, blobFile, putFile>> /\ Store(data) /\ blobs' = {}
  BY DEF Restart
<1>2. Alone'
  BY <1>1, IdleRequest DEF Alone
<1>3. (\A p \in Proc : Request(req[p]))'
  BY <1>1, IdleRequest
<1>4. \A n \in Inode : \A i \in Id : InTemp(n, i)' => InTemp(n, i)
  BY <1>1, IdleRequest DEF InTemp
<1>5. \A n \in Inode : \A d \in Digest : InBlob(n, d)' => InBlob(n, d)
  BY <1>1, IdleRequest DEF InBlob
<1>6. ServesOne'
  BY <1>1, <1>4, <1>5, RolesShrink, NoneAssumption DEF ContentInv
<1>7. Contents'
  <2>1. Tidied
    BY <1>1, StoreTidies
  <2>2. \A n \in Inode : n \notin Linked' => data'[n] = <<>>
    BY <2>1 DEF Tidied
  <2>3. \A n \in Inode : data'[n] \in {data[n], <<>>}
    BY <2>1 DEF Tidied
  <2>4. \A n \in Inode : \A d \in Digest : InBlob(n, d)' => data'[n] \in {<<>>, Bytes(d)}
    BY <1>5, <2>3 DEF ContentInv, Contents
  <2> QED
    BY <2>2, <2>4 DEF Contents, Bytes
<1>8. Listed' /\ Filling'
  BY <1>1, IdleRequest DEF Listed, Filling, Passing
<1> QED
  BY <1>2, <1>3, <1>6, <1>7, <1>8 DEF ContentInv

LEMMA SameContent ==
  ASSUME ContentInv, UNCHANGED <<files, blobs, req>>
  PROVE  ContentInv'
<1>1. UNCHANGED <<tempFile, blobFile, putFile, data, blobs, req>>
  BY DEF files
<1>2. Alone' /\ ServesOne'
  BY <1>1 DEF ContentInv, Alone, ServesOne, InTemp, InBlob
<1>3. (\A p \in Proc : Request(req[p]))'
  BY <1>1 DEF ContentInv, Request, Plain, Opens, Sized, Found, Reading, Bytes
<1>4. Contents'
  BY <1>1 DEF ContentInv, Contents, Linked, InBlob, Bytes
<1>5. Listed' /\ Filling'
  BY <1>1 DEF ContentInv, Listed, Filling, Passing, Filled, Bytes
<1> QED
  BY <1>2, <1>3, <1>4, <1>5 DEF ContentInv

LEMMA ContentInit == Init => ContentInv
<1> SUFFICES ASSUME Init
             PROVE  ContentInv
  OBVIOUS
<1>1. /\ \A p \in Proc : req[p] = Idle
      /\ \A i \in Id : tempFile[i] = None
      /\ \A d \in Digest : blobFile[d] = None /\ putFile[d] = None
      /\ \A n \in Inode : data[n] = <<>>
      /\ blobs = {}
  BY DEF Init
<1>2. Alone /\ \A p \in Proc : Request(req[p])
  BY <1>1, IdleRequest DEF Alone
<1>3. (\A n \in Inode : \A i \in Id : ~InTemp(n, i)) /\ (\A n \in Inode : \A d \in Digest : ~InBlob(n, d))
  BY <1>1, IdleRequest, NoneAssumption DEF InTemp, InBlob
<1>4. ServesOne
  BY <1>1, <1>3, NoneAssumption DEF ServesOne
<1>5. Contents
  BY <1>1, <1>3 DEF Contents
<1>6. Listed /\ Filling
  BY <1>1, IdleRequest DEF Listed, Filling, Passing
<1> QED
  BY <1>2, <1>4, <1>5, <1>6 DEF ContentInv

LEMMA ContentNext == Prudent /\ TypeOK /\ ContentInv /\ [Next]_vars => ContentInv'
<1> SUFFICES ASSUME Prudent, TypeOK, ContentInv, [Next]_vars
             PROVE  ContentInv'
  OBVIOUS
<1>1. TypeOK'
  BY TypeNext
<1>2. ASSUME NEW p \in Proc, Begin(p)
      PROVE  ContentInv'
  BY <1>1, <1>2, BeginContent
<1>3. ASSUME NEW p \in Proc, QuotaStep(p) \/ SessionStep(p)
      PROVE  ContentInv'
  BY <1>1, <1>3, QuotaStepContent, SessionStepContent
<1>4. ASSUME NEW p \in Proc, FileStep(p)
      PROVE  ContentInv'
  BY <1>1, <1>4, FileStepContent
<1>5. ASSUME NEW p \in Proc, BlobStep(p)
      PROVE  ContentInv'
  BY <1>1, <1>5, LookupContent, InsertContent DEF BlobStep
<1>6. CASE Environment
  BY <1>6, RestartContent, SameContent DEF Environment, Expire
<1>7. CASE UNCHANGED vars
  BY <1>7, SameContent DEF vars
<1> QED
  BY <1>2, <1>3, <1>4, <1>5, <1>6, <1>7 DEF Next, Handler

\* Until the file is filled the completion that is to fill it is under way.
LEMMA ContentIsBytes == TypeOK /\ ContentInv => BlobIntegrity
<1> SUFFICES ASSUME TypeOK, ContentInv, NEW d \in blobs
             PROVE  blobFile[d] # None /\ (DigestBytes(data[blobFile[d]]) = d \/ Completing(d))
  BY DEF BlobIntegrity
<1>1. d \in Digest
  BY DEF TypeOK
<1>2. blobFile[d] # None /\ Filled(blobFile[d], d)
  BY <1>1 DEF ContentInv, Listed
<1>3. DigestBytes(Bytes(d)) = d
  BY <1>1 DEF Digest, Bytes, DigestBytes
<1> QED
  BY <1>2, <1>3 DEF Filled, Completing

\* What the catalog lists is on disk and, but for a copy of the same content
\* that is still running, holds the bytes its digest was computed from: while
\* clients wait for answers, no copy is cancelled and no blob is deleted, no
\* order of chunks, completions, aborts, janitor runs and restarts publishes a
\* file that was written after it was hashed (registry.go 129-216), and no two
\* copies of one content spoil each other's file (object.go 35-49).
THEOREM ContentKept ==
  ASSUME Prudent
  PROVE  Spec => []BlobIntegrity
<1>1. TypeOK /\ ContentInv => BlobIntegrity
  BY ContentIsBytes
<1>2. Init => ContentInv
  BY ContentInit
<1>3. TypeOK /\ ContentInv /\ [Next]_vars => ContentInv'
  BY ContentNext
<1> QED
  BY <1>1, <1>2, <1>3, TypeCorrect, PTL DEF Spec
=============================================================================
