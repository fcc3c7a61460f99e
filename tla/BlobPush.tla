------------------------------- MODULE BlobPush -------------------------------
(***************************************************************************)
(* Clients push blobs through the HTTP API: Router finds the handler       *)
(* (router.go 138-229), which works on UploadSession and Quota.  Requests  *)
(* and answers may be lost, a request may arrive long after its client has *)
(* given it up and sent it again.  A handler is one step here; how the     *)
(* steps of two handlers interleave is the subject of UploadService.       *)
(* Every client pushes one blob, byte by byte, to one repository.          *)
(***************************************************************************)
EXTENDS Router, UploadSession, Quota, Functions

CONSTANTS
  Client,
  Content,     \* per client, the bytes it sends
  Claim,       \* per client, the content whose digest it claims
  Id,          \* upload identifiers, in the order they are drawn (a bound)
  Limit,       \* the tenant's quota
  MaxFaults,   \* a bound on the requests given up by their clients
  Tidy,        \* is an upload never aborted once its completion was asked for?
  Mounting,    \* do clients try to mount the blob first?
  Expiring     \* do uploads expire, and does the janitor run?

VARIABLES
  uploads, expired, quota, blobs,  \* the server
  files,     \* the uploads whose temporary file is there
  minted,    \* how many identifiers have been drawn
  leaked,    \* history: bytes reserved for uploads the janitor deleted
  flight,    \* requests that have not arrived
  answer,    \* per client, the answer on its connection
  client,    \* per client, what it does
  faults

server == <<uploads, expired, quota, blobs, files, minted, leaked>>
vars == <<server, flight, answer, client, faults>>

Repository == <<"team", "app">>
NoAnswer == [status |-> 0, id |-> "none"]

\* next: the request to send; piece: the byte; attempt: how many requests were
\* sent; waiting: is there a connection?  asked: for the completion; told: the
\* status of the refusal.
Starting == [next |-> "start", piece |-> 1, id |-> "none", attempt |-> 0,
             waiting |-> FALSE, asked |-> FALSE, told |-> 0]

Ids == {Id[k] : k \in DOMAIN Id}

\* Identifiers are drawn once; every client has something to push.
ASSUME PushAssumption ==
  /\ Id \in Seq(Ids) /\ IsInjective(Id) /\ "none" \notin Ids
  /\ Limit \in Nat /\ MaxFaults \in Nat /\ {Tidy, Mounting, Expiring} \subseteq BOOLEAN
  /\ \A c \in Client : Content[c] \in Seq(Range(Content[c])) /\ Content[c] # <<>>

Init ==
  /\ uploads = [i \in Ids |-> NoSession] /\ expired = {}
  /\ quota = NewQuota(Limit) /\ blobs = {} /\ files = {}
  /\ minted = 0 /\ leaked = 0
  /\ flight = {} /\ faults = 0
  /\ answer = [c \in Client |-> NoAnswer]
  /\ client = [c \in Client |-> Starting]

Digest(c) == DigestBytes(Claim[c])
Piece(c, k) == [start |-> k - 1, bytes |-> <<Content[c][k]>>]

-----------------------------------------------------------------------------
(* Clients *)

UploadsPath == V2(Repository, <<"blobs", "uploads">>)
PathOf(id) == V2(Repository, <<"blobs", "uploads", id>>)

MethodOf == [start |-> "POST", patch |-> "PATCH", complete |-> "PUT", abort |-> "DELETE"]

Send(c) ==
  /\ client[c].next \in DOMAIN MethodOf /\ ~client[c].waiting
  /\ LET me == client[c]
     IN  flight' = flight \union
           {[from |-> c, attempt |-> me.attempt + 1, method |-> MethodOf[me.next],
             path |-> IF me.next = "start" THEN UploadsPath ELSE PathOf(me.id),
             piece |-> me.piece]}
  /\ client' = [client EXCEPT ![c].waiting = TRUE, ![c].attempt = @ + 1,
                              ![c].asked = @ \/ client[c].next = "complete"]
  /\ UNCHANGED <<server, answer, faults>>

\* The client gives its request up, wherever it is or its answer, and will send
\* it again.
Timeout(c) ==
  /\ client[c].waiting /\ faults < MaxFaults
  /\ client' = [client EXCEPT ![c].waiting = FALSE]
  /\ answer' = [answer EXCEPT ![c] = NoAnswer]
  /\ faults' = faults + 1
  /\ UNCHANGED <<server, flight>>

\* A request that nobody waits for gets lost.
Lose(m) ==
  /\ m \in flight
  /\ ~(client[m.from].waiting /\ client[m.from].attempt = m.attempt)
  /\ flight' = flight \ {m}
  /\ UNCHANGED <<server, answer, client, faults>>

\* The client thinks better of it.
GiveUp(c) ==
  /\ client[c].next \in {"patch", "complete"} /\ ~client[c].waiting
  /\ Tidy => ~client[c].asked
  /\ client' = [client EXCEPT ![c].next = "abort"]
  /\ UNCHANGED <<server, flight, answer, faults>>

After(c) ==
  LET me == client[c]
      a == answer[c]
  IN  CASE a.status = 201 -> [me EXCEPT !.next = "done"]
        [] a.status = 202 /\ me.next = "start" ->
             [me EXCEPT !.next = "patch", !.id = a.id]
        [] a.status = 202 /\ me.next = "patch" ->
             IF me.piece = Len(Content[c]) THEN [me EXCEPT !.next = "complete"]
             ELSE [me EXCEPT !.piece = @ + 1]
        [] a.status = 204 -> [me EXCEPT !.next = "aborted"]
        [] OTHER -> [me EXCEPT !.next = "refused", !.told = a.status]

Receive(c) ==
  /\ client[c].waiting /\ answer[c] # NoAnswer
  /\ client' = [client EXCEPT ![c] = [After(c) EXCEPT !.waiting = FALSE]]
  /\ answer' = [answer EXCEPT ![c] = NoAnswer]
  /\ UNCHANGED <<server, flight, faults>>

-----------------------------------------------------------------------------
(* The server *)

\* httpx.WriteError, for the errors of these handlers; one it does not know, as that
\* of os.Stat, is an internal error.
StatusOf ==
  [uploadNotFound |-> 404, blobNotFound |-> 404, digestMismatch |-> 400, validation |-> 400,
   quotaExceeded |-> 413, uploadConflict |-> 409, uploadOutOfOrder |-> 409, uploadExpired |-> 500,
   noFile |-> 500]

\* The answer reaches the client if it still waits for it.
Answer(m, status, id) ==
  /\ answer' = IF client[m.from].waiting /\ client[m.from].attempt = m.attempt
               THEN [answer EXCEPT ![m.from] = [status |-> status, id |-> id]] ELSE answer
  /\ flight' = flight \ {m}
  /\ UNCHANGED <<client, faults>>

\* Seeded fault: an error is not answered.
RefuseSilently(m, error) ==
  flight' = flight \ {m} /\ UNCHANGED <<answer, client, faults, server>>

Refuse(m, error) == Answer(m, StatusOf[error], "none") /\ UNCHANGED server

\* Where each request these clients can send ends.
Handlers ==
  [method \in Method |->
     [path \in {UploadsPath} \union {PathOf(i) : i \in Ids} |-> Serves(method, path)]]

To(m, handler) == m \in flight /\ Handlers[m.method][m.path].to = handler
TheUpload(m) == Handlers[m.method][m.path].rest[1]

\* Seeded fault: the blob to be mounted is not looked up.
MountableAnyway(d) == Mounting

\* MountBlob of a blob the registry has; without it an upload is started.
Mountable(d) == Mounting /\ d \in blobs

StartUpload(m) ==
  /\ To(m, "startUpload")
  /\ LET size == Len(Content[m.from])
     IN  \/ /\ Mountable(Digest(m.from))
            /\ Answer(m, 201, "none") /\ UNCHANGED server
         \/ /\ ~Mountable(Digest(m.from)) /\ ~CanReserve(quota, size)
            /\ Refuse(m, "quotaExceeded")
         \/ /\ ~Mountable(Digest(m.from)) /\ CanReserve(quota, size)
            /\ minted < Len(Id) /\ minted' = minted + 1
            /\ uploads' = [uploads EXCEPT ![Id[minted']] = NewUploadSession(size)]
            /\ quota' = Reserve(quota, size)
            /\ Answer(m, 202, Id[minted'])
            /\ UNCHANGED <<expired, blobs, files, leaked>>

\* Seeded fault: a chunk that was recorded before is recorded again.
KnownNever(s, chunk) == FALSE

Known(s, chunk) == HasExactChunk(s, chunk)

RecordError(s, chunk, isExpired) ==
  CASE s.state # "open" -> "uploadConflict"
    [] s.state = "open" /\ isExpired -> "uploadExpired"
    [] OTHER -> IF chunk.range.end >= s.expected THEN "validation" ELSE "uploadConflict"

\* The file is there before the chunk is recorded, also if it is not.
PatchUpload(m) ==
  /\ To(m, "patchUpload")
  /\ LET i == TheUpload(m)
         chunk == ChunkOf(Piece(m.from, m.piece))
     IN  \/ uploads[i] = NoSession /\ Refuse(m, "uploadNotFound")
         \/ /\ uploads[i] # NoSession /\ Known(uploads[i], chunk)
            /\ Answer(m, 202, i) /\ UNCHANGED server
         \/ /\ uploads[i] # NoSession /\ ~Known(uploads[i], chunk)
            /\ files' = files \union {i}
            /\ \/ /\ CanRecord(uploads[i], chunk, i \in expired)
                  /\ uploads' = [uploads EXCEPT ![i] = RecordChunk(@, chunk)]
                  /\ Answer(m, 202, i)
               \/ /\ ~CanRecord(uploads[i], chunk, i \in expired)
                  /\ Answer(m, StatusOf[RecordError(uploads[i], chunk, i \in expired)], "none")
                  /\ UNCHANGED uploads
            /\ UNCHANGED <<expired, quota, blobs, minted, leaked>>

\* What is in an open upload's file: the chunks of one client, each of one byte,
\* recorded where they were written.  Of any other upload the state decides.
FileSize(s) == Max({0} \union {c.range.end + 1 : c \in s.chunks})
FileDigest(s) ==
  DigestBytes([k \in 1..FileSize(s) |->
                 (CHOOSE c \in s.chunks : c.range.start = k - 1).digest.sha256[1]])

\* Seeded fault: whether the session is open is not looked at.
FinalizableAgain(s, isExpired) == CanFinalize([s EXCEPT !.state = "open"], FileSize(s), isExpired)

Finalizable(s, isExpired) == CanFinalize(s, FileSize(s), isExpired)

FinalizeError(s, isExpired) ==
  CASE s.state # "open" -> "uploadConflict"
    [] s.state = "open" /\ isExpired -> "uploadExpired"
    [] OTHER -> IF FileSize(s) # s.expected THEN "validation" ELSE "uploadOutOfOrder"

\* The size of the file is read first, so without the file nothing else is looked at.
\* A completion moves the file away, unless the registry has the blob.
CompleteUpload(m) ==
  /\ To(m, "completeUpload")
  /\ LET i == TheUpload(m)
         s == uploads[i]
         size == Len(Content[m.from])
     IN  \/ s = NoSession /\ Refuse(m, "uploadNotFound")
         \/ s # NoSession /\ i \notin files /\ Refuse(m, "noFile")
         \/ /\ s # NoSession /\ i \in files /\ ~Finalizable(s, i \in expired)
            /\ Refuse(m, FinalizeError(s, i \in expired))
         \/ /\ s # NoSession /\ i \in files /\ Finalizable(s, i \in expired)
            /\ FileDigest(s) # Digest(m.from)
            /\ uploads' = [uploads EXCEPT ![i] = Abort(Finalize(s))]
            /\ quota' = IF CanRelease(quota, size) THEN Release(quota, size) ELSE quota
            /\ Answer(m, StatusOf["digestMismatch"], "none")
            /\ UNCHANGED <<expired, blobs, files, minted, leaked>>
         \/ /\ s # NoSession /\ i \in files /\ Finalizable(s, i \in expired)
            /\ FileDigest(s) = Digest(m.from)
            /\ blobs' = blobs \union {Digest(m.from)}
            /\ files' = IF Digest(m.from) \in blobs THEN files ELSE files \ {i}
            /\ uploads' = [uploads EXCEPT ![i] = Complete(Finalize(s))]
            /\ quota' = IF CanCommit(quota, size, size) THEN Commit(quota, size, size) ELSE quota
            /\ Answer(m, 201, "none")
            /\ UNCHANGED <<expired, minted, leaked>>

\* The reservation goes, whatever the state of the upload, and the file.
AbortUpload(m) ==
  /\ To(m, "abortUpload")
  /\ LET i == TheUpload(m)
         size == Len(Content[m.from])
     IN  \/ uploads[i] = NoSession /\ Refuse(m, "uploadNotFound")
         \/ /\ uploads[i] # NoSession
            /\ quota' = IF CanRelease(quota, size) THEN Release(quota, size) ELSE quota
            /\ uploads' = [uploads EXCEPT ![i] = NoSession] /\ files' = files \ {i}
            /\ Answer(m, 204, i)
            /\ UNCHANGED <<expired, blobs, minted, leaked>>

Expire(i) ==
  /\ uploads[i] # NoSession /\ i \notin expired
  /\ expired' = expired \union {i}
  /\ UNCHANGED <<uploads, quota, blobs, files, minted, leaked, flight, answer, client, faults>>

\* Janitor.Run deletes what has expired, and what was reserved for it stays.
RunJanitor(i) ==
  /\ uploads[i] # NoSession /\ i \in expired
  /\ uploads' = [uploads EXCEPT ![i] = NoSession] /\ files' = files \ {i}
  /\ leaked' = IF uploads[i].state = "open" THEN leaked + uploads[i].expected ELSE leaked
  /\ UNCHANGED <<expired, quota, blobs, minted, flight, answer, client, faults>>

-----------------------------------------------------------------------------

Handle(m) == StartUpload(m) \/ PatchUpload(m) \/ CompleteUpload(m) \/ AbortUpload(m)

Next ==
  \/ \E c \in Client : Send(c) \/ Timeout(c) \/ GiveUp(c) \/ Receive(c)
  \/ \E m \in flight : Handle(m) \/ Lose(m)
  \/ Expiring /\ \E i \in Ids : Expire(i) \/ RunJanitor(i)

Spec == Init /\ [][Next]_vars

\* The request a client waits for.
Current(c) == {m \in flight : m.from = c /\ m.attempt = client[c].attempt}

\* Clients go on, and a request its client does not give up is answered.
Fairness ==
  \A c \in Client :
    WF_vars(Send(c)) /\ WF_vars(Receive(c)) /\ WF_vars(\E m \in Current(c) : Handle(m))

FairSpec == Spec /\ Fairness

-----------------------------------------------------------------------------
(* Properties *)

\* The quota is within its limit whatever is sent again, a client waits for the one
\* request it sent last, and the uploads are those whose identifiers were drawn.
TypeOK ==
  /\ minted \in 0..Len(Id) /\ expired \union files \subseteq Ids /\ faults \in 0..MaxFaults
  /\ quota.used \in 0..Limit /\ quota.reserved \in 0 .. Limit - quota.used
  /\ \A k \in DOMAIN Id : uploads[Id[k]] # NoSession \/ Id[k] \in expired => k <= minted
  /\ \A m \in flight : m.from \in Client /\ m.attempt <= client[m.from].attempt
  /\ \A c \in Client : answer[c] # NoAnswer => client[c].waiting /\ Current(c) = {}

In(state) == {i \in Ids : uploads[i].state = state}
Declared(ids) == SumFunctionOnSet([i \in Ids |-> uploads[i].expected], ids)

\* Whatever is sent again and arrives late, the tenant is charged once: what is
\* reserved is what was declared for the open uploads and for those the janitor
\* took away (router.go 162, 192, 215, janitor.go 34).
ReservedOnce == quota.reserved = Declared(In("open")) + leaked

\* So is what is used, while the sessions are kept: it is what was declared for the
\* completed uploads (registry.go 219).
ChargedOnce ==
  /\ ReservedOnce
  /\ expired = {} => quota.used = Declared(In("completed"))

\* A client that is told its blob was created finds it in the registry, also if
\* it was told so by a mount (router.go 141, 197).
CreatedMeansStored == \A c \in Client : client[c].next = "done" => Digest(c) \in blobs

Refused(c) == client[c].next = "refused"

\* How the upload of a client that asks for its completion ends.
Outcome(c) == IF Content[c] = Claim[c] THEN "completed" ELSE "aborted"

\* Why client c may be refused with this status, and nothing else: the quota was
\* exhausted; its upload is gone; it has expired; or its completion was carried out
\* the first time it was asked for, and then the answer tells whether its file was
\* moved away.
Cause(c, status) ==
  IF client[c].id = "none" THEN status = 413
  ELSE \/ uploads[client[c].id] = NoSession
       \/ status = 500 /\ client[c].id \in expired
       \/ /\ client[c].asked /\ uploads[client[c].id].state = Outcome(c)
          /\ status \in IF client[c].id \in files THEN {400, 409} ELSE {500}

\* A client that sends a request again because the answer did not come is refused
\* for such a cause only (router.go 170-221, registry.go 154, 158, 176).
RefusedForCause == \A c \in Client : Refused(c) => Cause(c, client[c].told)

\* Every client is told how its push ended.
PushSettles == \A c \in Client : <>(client[c].next \in {"done", "aborted", "refused"})

\* A client whose blob is in the registry is not told that it was refused
\* (router.go 185: a completion that is asked for again conflicts with itself, or
\* does not find the file it has moved).
RetriedCompletion == \A c \in Client : Refused(c) /\ client[c].asked => Digest(c) \notin blobs

\* A client that is alone gets the quota its blob fits in (router.go 162: an
\* upload whose answer got lost keeps its reservation).
AloneFits == \A c \in Client : Refused(c) => client[c].id # "none"

\* When no upload is open, nothing is reserved (janitor.go 34).
NothingLeaks == In("open") = {} => quota.reserved = 0
=============================================================================
