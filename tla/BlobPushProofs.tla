---------------------------- MODULE BlobPushProofs ----------------------------
(***************************************************************************)
(* Theorems about the clients that push blobs: what an answer promises     *)
(* whatever is lost and sent again, and what the tenant is charged for it. *)
(***************************************************************************)
EXTENDS BlobPush, RouterProofs, FiniteSums

-----------------------------------------------------------------------------
(* Where the clients' requests end.                                          *)

LEMMA RequestsEnd ==
  /\ Handlers["POST"][UploadsPath].to = "startUpload"
  /\ \A i \in Ids, method \in {"PATCH", "PUT", "DELETE"} :
       /\ Handlers[method][PathOf(i)].to = UploadHandler[method]
       /\ Handlers[method][PathOf(i)].rest[1] = i
<1>1. PICK S : S = Words \union Ids \union {"team", "app"}
  OBVIOUS
<1>2. Repository \in Seq(S) /\ Words \subseteq S /\ PlainName(Repository)
  <2>1. "team" \in S /\ "app" \in S
    BY <1>1
  <2>0. /\ <<"team", "app">> \in Seq(S) /\ Len(<<"team", "app">>) = 2
        /\ <<"team", "app">>[1] = "team" /\ <<"team", "app">>[2] = "app"
    BY <2>1, Written
  <2>2. PICK r : r = Repository /\ r \in Seq(S) /\ Len(r) = 2 /\ r[1] = "team" /\ r[2] = "app"
    BY <2>0 DEF Repository
  <2>3. r # <<>>
    BY <2>2
  <2>4. PlainName(r)
    BY <2>2, <2>3 DEF PlainName
  <2> QED
    BY <1>1, <2>2, <2>4
<1>3. Serves("POST", UploadsPath) = Reached("startUpload", Repository, <<>>)
  BY <1>2, UploadStartArrives DEF UploadsPath
<1>4. ASSUME NEW i \in Ids, NEW method \in {"PATCH", "PUT", "DELETE"}
      PROVE  Serves(method, PathOf(i)) = Reached(UploadHandler[method], Repository, <<i>>)
  <2>1. i \in S
    BY <1>1
  <2> QED
    BY <1>2, <2>1, UploadArrives DEF PathOf
<1>5. \A to, r, rest : Reached(to, r, rest).to = to /\ Reached(to, r, rest).rest = rest
  BY DEF Reached
<1>6. Handlers["POST"][UploadsPath] = Serves("POST", UploadsPath)
  <2>1. "POST" \in Method
    BY DEF Method
  <2> QED
    BY <2>1 DEF Handlers
<1>7. ASSUME NEW i \in Ids, NEW method \in {"PATCH", "PUT", "DELETE"}
      PROVE  Handlers[method][PathOf(i)] = Serves(method, PathOf(i))
  <2>1. PICK path : path = PathOf(i)
    OBVIOUS
  <2>2. path \in {UploadsPath} \union {PathOf(j) : j \in Ids} /\ method \in Method
    BY <2>1 DEF Method
  <2> QED
    BY <2>1, <2>2 DEF Handlers
<1>8. \A i : <<i>>[1] = i
  OBVIOUS
<1>9. Handlers["POST"][UploadsPath].to = "startUpload"
  BY <1>3, <1>5, <1>6
<1>10. ASSUME NEW i \in Ids, NEW method \in {"PATCH", "PUT", "DELETE"}
       PROVE  /\ Handlers[method][PathOf(i)].to = UploadHandler[method]
              /\ Handlers[method][PathOf(i)].rest[1] = i
  <2>1. Handlers[method][PathOf(i)] = Reached(UploadHandler[method], Repository, <<i>>)
    BY <1>4, <1>7
  <2>2. PICK h : h = Handlers[method][PathOf(i)]
    OBVIOUS
  <2>3. h.to = UploadHandler[method] /\ h.rest = <<i>>
    BY <1>5, <2>1, <2>2
  <2> QED
    BY <1>8, <2>2, <2>3
<1> QED
  BY <1>9, <1>10

-----------------------------------------------------------------------------
(* The invariant.                                                            *)

\* How many bytes a client sends, and the chunks of the first of them.
Size(c) == Len(Content[c])
Pieces(c, n) == {ChunkOf(Piece(c, k)) : k \in 1..n}

Minted == {Id[k] : k \in 1..minted}

\* The uploads a client knows of.
Held(c) == {client[c].id, answer[c].id} \ {"none"}

\* How many of its bytes a client knows to be recorded.
Acknowledged(c) ==
  IF client[c].asked \/ client[c].next = "complete" THEN Size(c)
  ELSE IF client[c].next = "patch"
       THEN IF answer[c].status = 202 THEN client[c].piece ELSE client[c].piece - 1
       ELSE 0

Steps == {"start", "patch", "complete", "abort", "done", "aborted", "refused"}
MaybeId == Ids \union {"none"}
ClientSet ==
  [next : Steps, piece : Nat, id : MaybeId, attempt : Nat, waiting : BOOLEAN, asked : BOOLEAN,
   told : Nat]
AnswerSet == [status : Nat, id : MaybeId]
SessionSet ==
  [state : {"open", "completed", "aborted"},
   chunks : SUBSET UNION {Pieces(c, Size(c)) : c \in Client}, expected : Nat, version : Nat]
QuotaSet == [limit : {Limit}, used : Nat, reserved : Nat, version : Nat]

ServerOK ==
  /\ minted \in 0..Len(Id) /\ expired \subseteq Minted /\ files \subseteq Ids
  /\ uploads \in [Ids -> SessionSet \union {NoSession}]
  /\ \A i \in Ids : uploads[i] # NoSession => i \in Minted
  /\ quota \in QuotaSet /\ quota.used + quota.reserved <= Limit
  /\ leaked \in Nat /\ faults \in 0..MaxFaults

ClientsOK == client \in [Client -> ClientSet] /\ answer \in [Client -> AnswerSet]

ClientOK(c) ==
  /\ client[c].piece \in 1..Size(c)
  /\ client[c].next = "start" => client[c].id = "none" /\ ~client[c].asked /\ client[c].piece = 1
  /\ client[c].next \in {"patch", "complete", "abort"} => client[c].id # "none"
  /\ client[c].asked => client[c].id # "none"
  /\ client[c].waiting => client[c].next \in {"start", "patch", "complete", "abort"}
  /\ Tidy /\ client[c].next = "abort" => ~client[c].asked

RequestOK(m) ==
  /\ m.from \in Client /\ m.attempt \in Nat /\ m.attempt <= client[m.from].attempt
  /\ m.method \in {"POST", "PATCH", "PUT", "DELETE"}
  /\ m.path = IF m.method = "POST" THEN UploadsPath ELSE PathOf(client[m.from].id)
  /\ m.piece \in 1..Size(m.from)
  /\ m.method # "POST" => client[m.from].id # "none"
  /\ m.method = "PUT" => client[m.from].asked
  /\ m.method = "DELETE" => /\ client[m.from].next \in {"abort", "aborted", "refused"}
                            /\ Tidy => ~client[m.from].asked
  /\ client[m.from].waiting /\ m.attempt = client[m.from].attempt =>
       m.method = MethodOf[client[m.from].next] /\ m.piece = client[m.from].piece

FlightOK ==
  /\ \A m \in flight : RequestOK(m)
  /\ \A m, n \in flight : m.from = n.from /\ m.attempt = n.attempt => m = n

Refusing == {400, 404, 409, 413, 500}

\* The answer a on the connection of a client.
Fits(c, a) ==
  /\ \/ a = NoAnswer
     \/ a.status \in Refusing \union {201} /\ a.id = "none"
     \/ a.status = 202 /\ client[c].next = "start" /\ a.id \in Minted
     \/ a.status = 202 /\ client[c].next = "patch" /\ a.id = client[c].id
     \/ a.status = 204 /\ client[c].next = "abort" /\ a.id = client[c].id
  /\ a.status = 201 => client[c].next \in {"start", "complete"} /\ Digest(c) \in blobs

AnswerOK(c) ==
  /\ answer[c] # NoAnswer => client[c].waiting /\ Current(c) = {}
  /\ Fits(c, answer[c])
  /\ client[c].next = "done" => Digest(c) \in blobs

HeldOK(c) ==
  /\ Held(c) \subseteq Minted
  /\ \A d \in Client \ {c} : Held(c) \cap Held(d) = {}

\* An upload a client knows of is its own, and its file is there from the first chunk
\* until it is completed.
UploadOK(c, i) ==
  uploads[i] # NoSession =>
    /\ uploads[i].expected = Size(c) /\ uploads[i].chunks \subseteq Pieces(c, Size(c))
    /\ uploads[i].state # "open" =>
         client[c].asked /\ i = client[c].id /\ uploads[i].state = Outcome(c)
    /\ i = client[c].id => Pieces(c, Acknowledged(c)) \subseteq uploads[i].chunks
    /\ uploads[i].state # "completed" /\ uploads[i].chunks # {} => i \in files

RefusalOK(c) ==
  /\ client[c].next = "refused" => Cause(c, client[c].told)
  /\ answer[c].status \in Refusing => Cause(c, answer[c].status)

Mine(c) ==
  /\ ClientOK(c) /\ AnswerOK(c) /\ RefusalOK(c)
  /\ \A i \in Held(c) : UploadOK(c, i)

PushInv == /\ ServerOK /\ ClientsOK /\ FlightOK
           /\ \A c \in Client : Mine(c) /\ HeldOK(c)

-----------------------------------------------------------------------------
(* What the requests in flight ask for, and what is in the files.            *)

LEMMA Drawn ==
  /\ DOMAIN Id = 1..Len(Id) /\ Len(Id) \in Nat
  /\ \A k \in 1..Len(Id) : Id[k] \in Ids
  /\ \A j, k \in 1..Len(Id) : Id[j] = Id[k] => j = k
  /\ Ids = {Id[k] : k \in 1..Len(Id)}
<1>1. DOMAIN Id = 1..Len(Id) /\ Len(Id) \in Nat
  BY PushAssumption, LenProperties
<1> QED
  BY <1>1, PushAssumption DEF Ids, IsInjective

LEMMA Sizes ==
  ASSUME NEW c \in Client
  PROVE  Size(c) \in Nat /\ Size(c) >= 1 /\ DOMAIN Content[c] = 1..Size(c)
<1>1. PICK s, S : s = Content[c] /\ s \in Seq(S) /\ s # <<>>
  BY PushAssumption
<1>2. Len(s) \in Nat /\ DOMAIN s = 1..Len(s) /\ Len(s) # 0
  BY <1>1, EmptySeq, LenProperties
<1> QED
  BY <1>1, <1>2 DEF Size

LEMMA MethodTells ==
  ASSUME ClientsOK, NEW m \in flight, RequestOK(m)
  PROVE  /\ To(m, "startUpload") => m.method = "POST"
         /\ To(m, "patchUpload") => m.method = "PATCH"
         /\ To(m, "completeUpload") => m.method = "PUT"
         /\ To(m, "abortUpload") => m.method = "DELETE"
         /\ m.method # "POST" => /\ TheUpload(m) = client[m.from].id
                                 /\ client[m.from].id \in Ids
<1>1. client[m.from].id \in MaybeId
  BY DEF ClientsOK, ClientSet, RequestOK
<1>2. CASE m.method = "POST"
  <2>1. Handlers[m.method][m.path].to = "startUpload"
    BY <1>2, RequestsEnd DEF RequestOK
  <2> QED
    BY <1>2, <2>1 DEF To
<1>3. CASE m.method # "POST"
  <2>1. client[m.from].id \in Ids
    BY <1>1, <1>3 DEF MaybeId, RequestOK
  <2>2. m.method \in {"PATCH", "PUT", "DELETE"} /\ m.path = PathOf(client[m.from].id)
    BY <1>3 DEF RequestOK
  <2>3. /\ Handlers[m.method][m.path].to = UploadHandler[m.method]
        /\ Handlers[m.method][m.path].rest[1] = client[m.from].id
    BY <2>1, <2>2, RequestsEnd
  <2>4. /\ UploadHandler["PATCH"] = "patchUpload" /\ UploadHandler["PUT"] = "completeUpload"
        /\ UploadHandler["DELETE"] = "abortUpload"
    BY DEF UploadHandler
  <2> QED
    BY <2>1, <2>2, <2>3, <2>4 DEF To, TheUpload
<1> QED
  BY <1>2, <1>3

\* Pieces are told apart by where they are.
LEMMA PieceIs ==
  ASSUME NEW c \in Client, NEW k \in 1..Size(c), NEW chunk, chunk = ChunkOf(Piece(c, k))
  PROVE  /\ chunk.range.start = k - 1 /\ chunk.range.end = k - 1
         /\ chunk.digest = DigestBytes(<<Content[c][k]>>)
         /\ chunk.digest.sha256[1] = Content[c][k]
<1>1. PICK b : b = <<Content[c][k]>> /\ b[1] = Content[c][k] /\ Len(b) = 1
  <2>1. PICK x : x = Content[c][k]
    OBVIOUS
  <2>2. Len(<<x>>) = 1 /\ <<x>>[1] = x
    <3>1. x \in {x}
      OBVIOUS
    <3> QED
      BY <3>1, Written
  <2> QED
    BY <2>1, <2>2
<1>2. k \in Nat
  BY Sizes
<1>3. k - 1 + 1 - 1 = k - 1
  BY <1>2
<1>4. Piece(c, k) = [start |-> k - 1, bytes |-> b]
  BY <1>1 DEF Piece
<1>5. chunk = [range |-> [start |-> k - 1, end |-> k - 1 + 1 - 1], digest |-> DigestBytes(b)]
  BY <1>1, <1>4 DEF ChunkOf, RangeOf
<1>6. DigestBytes(b).sha256 = b
  BY DEF DigestBytes
<1> QED
  BY <1>1, <1>3, <1>5, <1>6

\* A piece is in conflict with no other piece of its client.
LEMMA NoConflict ==
  ASSUME NEW c \in Client, NEW k \in 1..Size(c), NEW s, s.chunks \subseteq Pieces(c, Size(c)),
         NEW chunk, chunk = ChunkOf(Piece(c, k)), chunk \notin s.chunks
  PROVE  ~Conflicts(s, chunk)
<1> SUFFICES ASSUME NEW d \in s.chunks, Overlaps(d.range, chunk.range)
             PROVE  FALSE
  BY DEF Conflicts
<1>1. PICK j \in 1..Size(c) : d = ChunkOf(Piece(c, j))
  BY DEF Pieces
<1>2. j \in Nat /\ k \in Nat
  BY Sizes
<1>3. d.range.start = j - 1 /\ d.range.end = j - 1
  BY <1>1, PieceIs
<1>4. chunk.range.start = k - 1 /\ chunk.range.end = k - 1
  BY PieceIs
<1>5. j = k
  BY <1>2, <1>3, <1>4 DEF Overlaps
<1> QED
  BY <1>1, <1>5

LEMMA GreatestIs ==
  ASSUME NEW S, NEW n \in S, S \subseteq Int, \A k \in S : k <= n
  PROVE  Max(S) = n
<1>1. \A m \in S : (\A k \in S : k <= m) => m = n
  OBVIOUS
<1> QED
  BY <1>1 DEF Max

\* A file with all the pieces of a client has what it sent.
LEMMA FileIs ==
  ASSUME NEW c \in Client, NEW s, s.chunks = Pieces(c, Size(c))
  PROVE  /\ FileSize(s) = Size(c) /\ ContiguousEnd(s.chunks) = Size(c) - 1
         /\ FileDigest(s) = DigestBytes(Content[c])
<1>1. PICK n : n = Size(c) /\ n \in Nat /\ n >= 1
  BY Sizes
<1>2. ASSUME NEW k \in 1..n
      PROVE  \E d \in s.chunks : d = ChunkOf(Piece(c, k)) /\ d.range.start = k - 1 /\ d.range.end = k - 1
  <2>1. PICK d : d = ChunkOf(Piece(c, k))
    OBVIOUS
  <2>2. k \in 1..Size(c)
    BY <1>1
  <2>3. d.range.start = k - 1 /\ d.range.end = k - 1
    BY <2>1, <2>2, PieceIs
  <2>4. d \in s.chunks
    BY <2>1, <2>2 DEF Pieces
  <2> QED
    BY <2>1, <2>3, <2>4
<1>3. ASSUME NEW d \in s.chunks
      PROVE  \E k \in 1..n : /\ d = ChunkOf(Piece(c, k)) /\ d.range.start = k - 1 /\ d.range.end = k - 1
                             /\ d.digest.sha256[1] = Content[c][k]
  <2>1. PICK k \in 1..n : d = ChunkOf(Piece(c, k))
    BY <1>1, <1>3 DEF Pieces
  <2>2. k \in 1..Size(c)
    BY <1>1, <2>1
  <2>3. /\ d.range.start = k - 1 /\ d.range.end = k - 1
        /\ d.digest.sha256[1] = Content[c][k]
    BY <2>1, <2>2, PieceIs
  <2> QED
    BY <2>1, <2>3
<1>4. FileSize(s) = n
  <2>1. PICK ends : ends = {0} \union {d.range.end + 1 : d \in s.chunks}
    OBVIOUS
  <2>2. n \in ends
    <3>1. n \in 1..n
      BY <1>1
    <3>2. PICK d \in s.chunks : d.range.end = n - 1
      BY <1>2, <3>1
    <3>3. d.range.end + 1 = n
      BY <1>1, <3>2
    <3> QED
      BY <2>1, <3>3
  <2>3. ASSUME NEW e \in ends PROVE e \in Int /\ e <= n
    BY <1>1, <1>3, <2>1, <2>3
  <2> QED
    BY <2>1, <2>2, <2>3, GreatestIs DEF FileSize
<1>5. ContiguousEnd(s.chunks) = n - 1
  <2>1. PICK ends : ends = {-1} \union {d.range.end : d \in s.chunks}
    OBVIOUS
  <2>2. n - 1 \in ends
    <3>1. n \in 1..n
      BY <1>1
    <3> QED
      BY <1>2, <2>1, <3>1
  <2>3. \A e \in ends : e \in Int /\ e <= n - 1
    BY <1>1, <1>3, <2>1
  <2>4. ASSUME NEW b \in 0 .. n - 1 PROVE Covered(s.chunks, b)
    <3>1. b + 1 \in 1..n /\ b + 1 - 1 = b
      BY <1>1
    <3>2. PICK d \in s.chunks : d.range.start = b /\ d.range.end = b
      BY <1>2, <3>1
    <3> QED
      BY <3>2 DEF Covered
  <2>5. PICK m : m = n - 1 /\ m \in Int
    BY <1>1
  <2> DEFINE P(e) == /\ \A b \in 0..e : Covered(s.chunks, b)
                     /\ \A f \in ends : (\A b \in 0..f : Covered(s.chunks, b)) => f <= e
  <2>6. P(m)
    BY <2>3, <2>4, <2>5
  <2>7. ASSUME NEW e \in ends, P(e) PROVE e = m
    <3>1. m <= e
      BY <2>2, <2>4, <2>5, <2>7
    <3> QED
      BY <2>3, <2>5, <3>1
  <2>8. ContiguousEnd(s.chunks) = CHOOSE e \in ends : P(e)
    BY <2>1 DEF ContiguousEnd
  <2> HIDE DEF P
  <2>9. (CHOOSE e \in ends : P(e)) = m
    BY <2>2, <2>5, <2>6, <2>7
  <2> QED
    BY <2>5, <2>8, <2>9
<1>6. FileDigest(s) = DigestBytes(Content[c])
  <2>1. ASSUME NEW k \in 1..n
        PROVE  (CHOOSE d \in s.chunks : d.range.start = k - 1).digest.sha256[1] = Content[c][k]
    <3>1. PICK d : d = CHOOSE x \in s.chunks : x.range.start = k - 1
      OBVIOUS
    <3>2. d \in s.chunks /\ d.range.start = k - 1
      BY <1>2, <3>1
    <3>3. PICK j \in 1..n : d.range.start = j - 1 /\ d.digest.sha256[1] = Content[c][j]
      BY <1>3, <3>2
    <3>4. j = k
      BY <1>1, <3>2, <3>3
    <3> QED
      BY <3>1, <3>3, <3>4
  <2>2. [k \in 1..n |-> (CHOOSE d \in s.chunks : d.range.start = k - 1).digest.sha256[1]]
          = [k \in 1..n |-> Content[c][k]]
    BY <2>1
  <2>3. [k \in 1..n |-> Content[c][k]] = Content[c]
    <3>1. PICK q, S : q = Content[c] /\ q \in Seq(S)
      BY PushAssumption
    <3>2. q \in [1..n -> S]
      BY <3>1, <1>1 DEF Size
    <3>3. [k \in 1..n |-> q[k]] = q
      BY <3>2
    <3> QED
      BY <3>1, <3>3
  <2> QED
    BY <1>1, <1>4, <2>2, <2>3 DEF FileDigest
<1> QED
  BY <1>1, <1>4, <1>5, <1>6

LEMMA DigestTells ==
  ASSUME NEW c
  PROVE  DigestBytes(Content[c]) = Digest(c) <=> Content[c] = Claim[c]
<1>1. \A b : DigestBytes(b).sha256 = b
  BY DEF DigestBytes
<1> QED
  BY <1>1 DEF Digest

-----------------------------------------------------------------------------
(* What a handler leaves alone.                                              *)

\* The file of an upload is where it was.
SameFile(i) == i \in files' <=> i \in files

\* An upload that is gone stays away, one that is settled keeps its state and file.
Goes(i) ==
  \/ uploads'[i] = NoSession
  \/ /\ uploads[i] # NoSession
     /\ uploads[i].state # "open" => uploads'[i].state = uploads[i].state /\ SameFile(i)

\* An upload that nothing happens to, but that it may go.
Stays(i) == uploads'[i] = NoSession \/ (uploads'[i] = uploads[i] /\ SameFile(i))

LEMMA CauseStays ==
  ASSUME NEW c, NEW status, Cause(c, status), client'[c].id = client[c].id,
         client[c].asked => client'[c].asked, expired \subseteq expired',
         client[c].id # "none" => Goes(client[c].id)
  PROVE  Cause(c, status)'
<1>1. CASE client[c].id = "none"
  BY <1>1 DEF Cause
<1>2. CASE client[c].id # "none"
  <2>1. PICK i : i = client[c].id /\ client'[c].id = i /\ i # "none" /\ Goes(i)
    BY <1>2
  <2>2. CASE uploads[i] = NoSession \/ uploads'[i] = NoSession
    <3>1. uploads'[i] = NoSession
      BY <2>1, <2>2 DEF Goes
    <3> QED
      BY <2>1, <3>1 DEF Cause
  <2>3. CASE status = 500 /\ i \in expired
    BY <2>1, <2>3 DEF Cause
  <2>4. CASE /\ uploads'[i] # NoSession /\ client[c].asked /\ uploads[i].state = Outcome(c)
             /\ status \in IF i \in files THEN {400, 409} ELSE {500}
    <3>1. Outcome(c) # "open" /\ Outcome(c)' = Outcome(c)
      BY DEF Outcome
    <3>2. uploads'[i].state = Outcome(c)' /\ SameFile(i)
      BY <2>1, <2>4, <3>1 DEF Goes
    <3> QED
      BY <2>1, <2>4, <3>2 DEF Cause, SameFile
  <2> QED
    BY <2>1, <2>2, <2>3, <2>4 DEF Cause
<1> QED
  BY <1>1, <1>2

\* A client whose request nothing was answered to, and whose uploads stay or go.
LEMMA Unmoved ==
  ASSUME NEW c \in Client, Mine(c), HeldOK(c), client'[c] = client[c], answer'[c] = answer[c],
         Current(c)' \subseteq Current(c), minted <= minted', minted \in Int, minted' \in Int,
         expired \subseteq expired', blobs \subseteq blobs',
         \A i \in Held(c) : Stays(i)
  PROVE  Mine(c)'
<1>1. Minted \subseteq Minted'
  BY DEF Minted
<1>2. Held(c)' = Held(c) /\ Acknowledged(c)' = Acknowledged(c)
  BY DEF Held, Acknowledged, Size
<1>3. ClientOK(c)'
  BY DEF Mine, ClientOK, Size
<1>4. AnswerOK(c)'
  <2>1. AnswerOK(c) /\ Digest(c)' = Digest(c)
    BY DEF Mine, Digest
  <2>2. Fits(c, answer[c])'
    BY <1>1, <2>1 DEF AnswerOK, Fits, NoAnswer
  <2> QED
    BY <2>1, <2>2 DEF AnswerOK, NoAnswer
<1>5. RefusalOK(c)'
  <2>1. client[c].id # "none" => Goes(client[c].id)
    BY DEF Goes, Stays, Held
  <2>2. \A status : Cause(c, status) => Cause(c, status)'
    BY <2>1, CauseStays
  <2> QED
    BY <2>2 DEF Mine, RefusalOK
<1>6. ASSUME NEW i \in Held(c)' PROVE UploadOK(c, i)'
  <2>1. UploadOK(c, i)
    BY <1>2 DEF Mine
  <2>2. CASE uploads'[i] = NoSession
    BY <2>2 DEF UploadOK
  <2>3. CASE uploads'[i] = uploads[i] /\ SameFile(i)
    <3>1. /\ Size(c)' = Size(c) /\ Outcome(c)' = Outcome(c)
          /\ Pieces(c, Size(c))' = Pieces(c, Size(c))
          /\ Pieces(c, Acknowledged(c))' = Pieces(c, Acknowledged(c))
      BY <1>2 DEF Size, Outcome, Pieces
    <3> QED
      BY <2>1, <2>3, <3>1 DEF UploadOK, SameFile
  <2> QED
    BY <1>2, <2>2, <2>3 DEF Stays
<1> QED
  BY <1>3, <1>4, <1>5, <1>6 DEF Mine

Waited(m) == client[m.from].waiting /\ client[m.from].attempt = m.attempt

\* Before it is answered, a request that is waited for is the only one, and its
\* client has no answer.
LEMMA WaitedFor ==
  ASSUME FlightOK, NEW m \in flight, AnswerOK(m.from), Waited(m)
  PROVE  answer[m.from] = NoAnswer /\ Current(m.from) = {m}
         /\ m.method = MethodOf[client[m.from].next] /\ m.piece = client[m.from].piece
<1>1. Current(m.from) = {m}
  BY DEF Current, FlightOK, Waited
<1> QED
  BY <1>1 DEF AnswerOK, FlightOK, RequestOK, Waited

\* An answer that fits what its client asked for.
LEMMA Answered ==
  ASSUME PushInv, NEW m \in flight, NEW status \in Nat, NEW id \in MaybeId, Answer(m, status, id),
         minted <= minted', minted' \in Int, expired \subseteq expired', blobs \subseteq blobs',
         \A c \in Client : client[c].id # "none" => Goes(client[c].id),
         Waited(m) => Fits(m.from, [status |-> status, id |-> id])',
         Waited(m) /\ status \in Refusing => Cause(m.from, status)'
  PROVE  /\ FlightOK' /\ ClientsOK'
         /\ \A c \in Client : ClientOK(c)' /\ AnswerOK(c)' /\ RefusalOK(c)'
<1>1. PICK c0, a : c0 = m.from /\ a = [status |-> status, id |-> id]
  OBVIOUS
<1>2. c0 \in Client /\ RequestOK(m) /\ Mine(c0) /\ minted \in Int
  BY <1>1 DEF PushInv, FlightOK, RequestOK, ServerOK
<1>3. /\ client' = client /\ flight' = flight \ {m}
      /\ answer' = IF Waited(m) THEN [answer EXCEPT ![c0] = a] ELSE answer
  BY <1>1 DEF Answer, Waited
<1>4. client \in [Client -> ClientSet] /\ answer \in [Client -> AnswerSet]
  BY DEF PushInv, ClientsOK
<1>5. a \in AnswerSet
  BY <1>1 DEF AnswerSet
<1>6. ClientsOK'
  BY <1>3, <1>4, <1>5 DEF ClientsOK
<1>7. FlightOK'
  BY <1>3 DEF PushInv, FlightOK, RequestOK, Size, PathOf
<1>8. \A c \in Client : ClientOK(c)'
  BY <1>3 DEF PushInv, Mine, ClientOK, Size
<1>9. ASSUME NEW c \in Client PROVE Current(c)' = Current(c) \ {m}
  BY <1>3 DEF Current
<1>10. ASSUME NEW c \in Client, answer'[c] = answer[c]
       PROVE  AnswerOK(c)' /\ RefusalOK(c)'
  <2>1. Mine(c) /\ AnswerOK(c) /\ RefusalOK(c)
    BY DEF PushInv, Mine
  <2>2. Minted \subseteq Minted'
    BY <1>2 DEF Minted
  <2>3. Digest(c)' = Digest(c) /\ client'[c] = client[c]
    BY <1>3 DEF Digest
  <2>4. Fits(c, answer[c])'
    BY <1>10, <2>1, <2>2, <2>3 DEF AnswerOK, Fits, NoAnswer
  <2>5. AnswerOK(c)'
    BY <1>9, <1>10, <2>1, <2>3, <2>4 DEF AnswerOK, NoAnswer
  <2>6. RefusalOK(c)'
    <3>1. \A x : Cause(c, x) => Cause(c, x)'
      BY <2>3, CauseStays
    <3> QED
      BY <1>10, <2>1, <2>3, <3>1 DEF RefusalOK
  <2> QED
    BY <2>5, <2>6
<1>11. CASE ~Waited(m)
  BY <1>3, <1>6, <1>7, <1>8, <1>10, <1>11
<1>12. CASE Waited(m)
  <2>1. AnswerOK(c0) /\ RefusalOK(c0)
    BY <1>2 DEF Mine
  <2>2. answer[c0] = NoAnswer /\ Current(c0) = {m} /\ answer'[c0] = a
    BY <1>1, <1>2, <1>3, <1>4, <1>12, <2>1, WaitedFor DEF PushInv
  <2>3. client'[c0] = client[c0] /\ Digest(c0)' = Digest(c0)
    BY <1>3 DEF Digest
  <2>4. AnswerOK(c0)'
    <3>1. Current(c0)' = {}
      BY <1>2, <1>9, <2>2
    <3>2. client'[c0].waiting
      BY <1>1, <1>12, <2>3 DEF Waited
    <3>3. Fits(c0, answer[c0])'
      <4>1. Fits(c0, a)'
        BY <1>1, <1>12
      <4> QED
        BY <2>2, <4>1 DEF Fits, NoAnswer
    <3> QED
      BY <2>1, <2>3, <3>1, <3>2, <3>3 DEF AnswerOK
  <2>5. RefusalOK(c0)'
    <3>1. \A x : Cause(c0, x) => Cause(c0, x)'
      BY <1>2, <2>3, CauseStays
    <3>2. answer'[c0].status = status
      BY <1>1, <2>2
    <3>3. client[c0].next = "refused" => Cause(c0, client[c0].told)'
      BY <1>3, <2>1, <3>1 DEF RefusalOK
    <3>4. status \in Refusing => Cause(c0, status)'
      BY <1>1, <1>12
    <3> QED
      BY <2>3, <3>2, <3>3, <3>4 DEF RefusalOK, Refusing
  <2>6. ASSUME NEW c \in Client, c # c0 PROVE answer'[c] = answer[c]
    BY <1>3, <1>4, <1>12, <2>6
  <2> QED
    BY <1>6, <1>7, <1>8, <1>10, <2>4, <2>5, <2>6
<1> QED
  BY <1>11, <1>12

LEMMA HeldKept ==
  ASSUME \A c \in Client : HeldOK(c) /\ Held(c)' \subseteq Held(c),
         minted <= minted', minted \in Int, minted' \in Int
  PROVE  \A c \in Client : HeldOK(c)'
<1>1. Minted \subseteq Minted'
  BY DEF Minted
<1>2. ASSUME NEW c \in Client PROVE HeldOK(c)'
  <2>1. Held(c)' \subseteq Minted'
    BY <1>1 DEF HeldOK
  <2>2. ASSUME NEW d \in Client \ {c} PROVE Held(c)' \cap Held(d)' = {}
    <3>1. Held(c) \cap Held(d) = {}
      BY DEF HeldOK
    <3> QED
      BY <3>1
  <2> QED
    BY <2>1, <2>2 DEF HeldOK
<1> QED
  BY <1>2

\* Chunks that are acknowledged are recorded.
LEMMA AcknowledgedStays ==
  ASSUME PushInv, NEW m \in flight, NEW status \in Nat, NEW id \in MaybeId, Answer(m, status, id),
         NEW c \in Client
  PROVE  \/ Acknowledged(c)' = Acknowledged(c)
         \/ /\ c = m.from /\ Waited(m) /\ status = 202 /\ client[c].next = "patch"
            /\ ~client[c].asked /\ Acknowledged(c)' = client[c].piece
            /\ Acknowledged(c) = client[c].piece - 1 /\ m.piece = client[c].piece
<1>1. PICK c0, a : c0 = m.from /\ a = [status |-> status, id |-> id]
  OBVIOUS
<1>2. c0 \in Client /\ AnswerOK(c0)
  BY <1>1 DEF PushInv, FlightOK, RequestOK, Mine
<1>3. client' = client /\ answer' = IF Waited(m) THEN [answer EXCEPT ![c0] = a] ELSE answer
  BY <1>1 DEF Answer, Waited
<1>4. answer \in [Client -> AnswerSet]
  BY DEF PushInv, ClientsOK
<1>5. CASE ~Waited(m) \/ c # c0
  <2>1. answer'[c] = answer[c] /\ client'[c] = client[c]
    BY <1>3, <1>4, <1>5
  <2> QED
    BY <2>1 DEF Acknowledged, Size
<1>6. CASE Waited(m) /\ c = c0
  <2>1. answer[c] = NoAnswer /\ answer'[c] = a /\ client'[c] = client[c] /\ m.piece = client[c].piece
    BY <1>1, <1>2, <1>3, <1>4, <1>6, WaitedFor DEF PushInv
  <2>2. answer[c].status = 0 /\ a.status = status
    BY <1>1, <2>1 DEF NoAnswer
  <2>3. CASE client[c].asked \/ client[c].next # "patch" \/ status # 202
    BY <2>1, <2>2, <2>3 DEF Acknowledged, Size
  <2>4. CASE ~client[c].asked /\ client[c].next = "patch" /\ status = 202
    BY <1>1, <1>6, <2>1, <2>2, <2>4 DEF Acknowledged
  <2> QED
    BY <2>3, <2>4
<1> QED
  BY <1>5, <1>6

\* A handler that works on its client's upload only.
LEMMA Handled ==
  ASSUME PushInv, NEW m \in flight, NEW status \in Nat, NEW id, Answer(m, status, id),
         NEW i0, i0 = client[m.from].id, id \in {"none", i0},
         ServerOK', minted' = minted, expired' = expired, blobs \subseteq blobs',
         \A i \in Ids : i # i0 => uploads'[i] = uploads[i] /\ SameFile(i),
         i0 # "none" => Goes(i0) /\ UploadOK(m.from, i0)',
         Waited(m) => Fits(m.from, [status |-> status, id |-> id])',
         Waited(m) /\ status \in Refusing => Cause(m.from, status)'
  PROVE  PushInv'
<1>1. PICK c0 : c0 = m.from /\ i0 = client[c0].id
  OBVIOUS
<1>2. c0 \in Client /\ RequestOK(m) /\ minted \in Int
  BY <1>1 DEF PushInv, FlightOK, RequestOK, ServerOK
<1>3. client \in [Client -> ClientSet] /\ answer \in [Client -> AnswerSet]
  BY DEF PushInv, ClientsOK
<1>4. i0 \in MaybeId /\ id \in MaybeId
  <2>1. i0 \in MaybeId
    BY <1>1, <1>2, <1>3 DEF ClientSet
  <2> QED
    BY <1>1, <2>1 DEF MaybeId
<1>5. /\ client' = client
      /\ \/ answer' = answer
         \/ answer' = [answer EXCEPT ![c0] = [status |-> status, id |-> id]]
  BY <1>1 DEF Answer
<1>6. ASSUME NEW c \in Client PROVE Held(c)' \subseteq Held(c)
  <2>1. CASE answer'[c] = answer[c]
    BY <1>5, <2>1 DEF Held
  <2>2. CASE answer'[c] # answer[c]
    <3>1. c = c0 /\ answer'[c].id = id
      BY <1>2, <1>3, <1>5, <2>2
    <3> QED
      BY <1>1, <1>5, <3>1 DEF Held
  <2> QED
    BY <2>1, <2>2
<1>7. \A c \in Client : HeldOK(c) /\ Mine(c)
  BY DEF PushInv
<1>8. \A c \in Client : HeldOK(c)'
  BY <1>2, <1>6, <1>7, HeldKept
<1>9. ASSUME NEW c \in Client, c # c0, NEW i \in Held(c) PROVE i # i0
  <2>1. Held(c) \cap Held(c0) = {}
    BY <1>2, <1>7, <1>9 DEF HeldOK
  <2> QED
    BY <1>1, <2>1 DEF Held
<1>10. ASSUME NEW c \in Client, NEW i \in Held(c) PROVE i \in Ids
  <2>1. i \in Minted
    BY <1>7, <1>10 DEF HeldOK
  <2> QED
    BY <1>2, <2>1, Drawn DEF Minted, PushInv, ServerOK
<1>11. ASSUME NEW c \in Client, client[c].id # "none" PROVE Goes(client[c].id)
  <2>1. CASE client[c].id = i0
    BY <1>1, <1>11, <2>1
  <2>2. CASE client[c].id # i0
    <3>1. client[c].id \in Ids
      BY <1>10, <1>11 DEF Held
    <3> QED
      BY <1>1, <2>2, <3>1 DEF Goes
  <2> QED
    BY <2>1, <2>2
<1>12. ASSUME NEW c \in Client, NEW i \in Held(c)' PROVE UploadOK(c, i)'
  <2>1. i \in Held(c) /\ UploadOK(c, i) /\ i \in Ids
    BY <1>6, <1>7, <1>10, <1>12 DEF Mine
  <2>2. CASE c = c0 /\ i = i0
    <3>1. i0 # "none"
      BY <2>1, <2>2 DEF Held
    <3> QED
      BY <1>1, <2>2, <3>1
  <2>3. CASE ~(c = c0 /\ i = i0)
    <3>1. i # i0
      BY <1>9, <2>1, <2>3
    <3>2. uploads'[i] = uploads[i] /\ SameFile(i)
      BY <1>1, <2>1, <3>1
    <3>3. /\ Size(c)' = Size(c) /\ Outcome(c)' = Outcome(c) /\ client'[c] = client[c]
          /\ Pieces(c, Size(c))' = Pieces(c, Size(c))
      BY <1>5 DEF Size, Outcome, Pieces
    <3>4. i = client[c].id => Pieces(c, Acknowledged(c))' = Pieces(c, Acknowledged(c))
      <4>1. SUFFICES ASSUME i = client[c].id PROVE Acknowledged(c)' = Acknowledged(c)
        BY DEF Pieces
      <4>2. c # c0
        BY <1>1, <3>1, <4>1
      <4> QED
        BY <1>1, <1>4, <4>2, AcknowledgedStays
    <3> QED
      BY <2>1, <3>2, <3>3, <3>4 DEF UploadOK, SameFile
  <2> QED
    BY <2>2, <2>3
<1>13. /\ FlightOK' /\ ClientsOK'
       /\ \A c \in Client : ClientOK(c)' /\ AnswerOK(c)' /\ RefusalOK(c)'
  <2>1. minted <= minted' /\ minted' \in Int /\ expired \subseteq expired'
    BY <1>2
  <2> QED
    BY <1>4, <1>11, <2>1, Answered
<1>14. \A c \in Client : Mine(c)'
  BY <1>12, <1>13 DEF Mine
<1> QED
  BY <1>8, <1>13, <1>14 DEF PushInv

-----------------------------------------------------------------------------
(* The handlers, one by one.                                                 *)

\* The upload a request names is its client's.
LEMMA Named ==
  ASSUME PushInv, NEW m \in flight, NEW i, m.method # "POST", i = TheUpload(m)
  PROVE  /\ i = client[m.from].id /\ i \in Ids /\ i \in Minted /\ i # "none"
         /\ m.from \in Client /\ UploadOK(m.from, i)
         /\ uploads[i] \in SessionSet \union {NoSession}
         /\ m.piece \in 1..Size(m.from)
<1>1. RequestOK(m) /\ ClientsOK
  BY DEF PushInv, FlightOK
<1>2. i = client[m.from].id /\ i \in Ids /\ m.from \in Client /\ m.piece \in 1..Size(m.from)
  BY <1>1, MethodTells DEF RequestOK
<1>3. i # "none" /\ i \in Held(m.from)
  BY <1>1, <1>2 DEF RequestOK, Held
<1>4. HeldOK(m.from) /\ UploadOK(m.from, i)
  BY <1>2, <1>3 DEF PushInv, Mine
<1> QED
  BY <1>2, <1>3, <1>4 DEF HeldOK, PushInv, ServerOK

LEMMA UploadKept ==
  ASSUME PushInv, NEW m \in flight, NEW status \in Nat, NEW id \in MaybeId, Answer(m, status, id),
         status # 202, NEW i0, i0 = client[m.from].id, i0 # "none", uploads'[i0] = uploads[i0],
         i0 \in files => i0 \in files'
  PROVE  UploadOK(m.from, i0)'
<1>1. PICK c : c = m.from /\ c \in Client
  BY DEF PushInv, FlightOK, RequestOK
<1>2. UploadOK(c, i0)
  BY <1>1 DEF PushInv, Mine, Held
<1>3. Acknowledged(c)' = Acknowledged(c) /\ client'[c] = client[c]
  BY <1>1, AcknowledgedStays DEF Answer
<1>4. /\ Size(c)' = Size(c) /\ Outcome(c)' = Outcome(c)
      /\ Pieces(c, Size(c))' = Pieces(c, Size(c))
      /\ Pieces(c, Acknowledged(c))' = Pieces(c, Acknowledged(c))
  BY <1>3 DEF Size, Outcome, Pieces
<1> QED
  BY <1>1, <1>2, <1>3, <1>4 DEF UploadOK

LEMMA StatusTells ==
  /\ \A e \in DOMAIN StatusOf : StatusOf[e] \in Refusing
  /\ {"uploadNotFound", "digestMismatch", "quotaExceeded", "uploadConflict", "validation",
      "uploadExpired", "uploadOutOfOrder", "noFile"} \subseteq DOMAIN StatusOf
  /\ StatusOf["quotaExceeded"] = 413 /\ StatusOf["uploadConflict"] = 409
  /\ StatusOf["uploadExpired"] = 500 /\ StatusOf["noFile"] = 500
BY DEF StatusOf, Refusing

\* A request that is refused, and at most leaves a file.
LEMMA Rejected ==
  ASSUME PushInv, NEW m \in flight, NEW status \in Refusing, Answer(m, status, "none"),
         UNCHANGED <<uploads, expired, quota, blobs, minted, leaked>>,
         NEW i0, i0 = client[m.from].id,
         files' = files \/ (files' = files \union {i0} /\ i0 \in Ids /\ uploads[i0].state = "open"),
         Waited(m) => Cause(m.from, status)
  PROVE  PushInv'
<1>1. PICK a : a = [status |-> status, id |-> "none"]
  OBVIOUS
<1>2. status \in Nat /\ status # 202 /\ status # 201
  BY DEF Refusing
<1>3. /\ uploads' = uploads /\ expired' = expired /\ quota' = quota /\ blobs' = blobs
      /\ minted' = minted /\ leaked' = leaked /\ faults' = faults /\ client' = client
  BY DEF Answer
<1>4. ServerOK'
  BY <1>3 DEF PushInv, ServerOK, Minted
<1>5. /\ \A i \in Ids : i # i0 => uploads'[i] = uploads[i] /\ SameFile(i)
      /\ i0 \in files => i0 \in files'
  BY <1>3 DEF SameFile
<1>6. i0 # "none" => Goes(i0) /\ UploadOK(m.from, i0)'
  <2>1. "none" \in MaybeId
    BY DEF MaybeId
  <2>2. Goes(i0)
    BY <1>3 DEF Goes, SameFile
  <2> QED
    BY <1>2, <1>3, <1>5, <2>1, <2>2, UploadKept
<1>7. Fits(m.from, a)'
  BY <1>1, <1>2 DEF Fits
<1>8. Waited(m) => Cause(m.from, status)'
  BY <1>3, <1>6, CauseStays
<1>9. "none" \in {"none", i0} /\ blobs \subseteq blobs'
  BY <1>3
<1> QED
  BY <1>1, <1>2, <1>3, <1>4, <1>5, <1>6, <1>7, <1>8, <1>9, Handled

\* A request that is refused and changes nothing.
LEMMA JustRejected ==
  ASSUME PushInv, NEW m \in flight, NEW error \in DOMAIN StatusOf, Refuse(m, error),
         Waited(m) => Cause(m.from, StatusOf[error])
  PROVE  PushInv'
<1>1. PICK i0, status : i0 = client[m.from].id /\ status = StatusOf[error] /\ status \in Refusing
  BY StatusTells
<1>2. Answer(m, status, "none") /\ UNCHANGED server
  BY <1>1 DEF Refuse
<1>3. UNCHANGED <<uploads, expired, quota, blobs, minted, leaked>> /\ files' = files
  BY <1>2 DEF server
<1> QED
  BY <1>1, <1>2, <1>3, Rejected

LEMMA AbsentOrOpen ==
  ASSUME NEW i, uploads[i] \in SessionSet \union {NoSession}
  PROVE  /\ uploads[i] # NoSession => uploads[i] \in SessionSet
         /\ uploads[i] # NoSession => uploads[i].state \in {"open", "completed", "aborted"}
         /\ \A s \in SessionSet : s # NoSession
<1>1. \A s \in SessionSet : s.state # "none"
  BY DEF SessionSet
<1>2. NoSession.state = "none"
  BY DEF NoSession
<1> QED
  BY <1>1, <1>2 DEF SessionSet

\* The upload after a chunk of its client is recorded, or was before.
LEMMA ChunkKept ==
  ASSUME PushInv, NEW m \in flight, NEW i0, i0 = client[m.from].id, i0 # "none", i0 \in Ids,
         Answer(m, 202, i0), uploads[i0] # NoSession, NEW chunk, chunk = ChunkOf(Piece(m.from, m.piece)),
         uploads'[i0].expected = uploads[i0].expected, uploads'[i0].state = uploads[i0].state,
         uploads'[i0].chunks = uploads[i0].chunks \union {chunk},
         uploads[i0].state # "completed" => i0 \in files'
  PROVE  UploadOK(m.from, i0)'
<1>1. PICK c : c = m.from /\ c \in Client /\ RequestOK(m)
  BY DEF PushInv, FlightOK, RequestOK
<1>2. UploadOK(c, i0)
  BY <1>1 DEF PushInv, Mine, Held
<1>3. client' = client
  BY DEF Answer
<1>4. chunk \in Pieces(c, Size(c))
  BY <1>1 DEF Pieces, RequestOK
<1>5. /\ Size(c)' = Size(c) /\ Outcome(c)' = Outcome(c)
      /\ Pieces(c, Size(c))' = Pieces(c, Size(c))
  BY DEF Size, Outcome, Pieces
<1>6. Pieces(c, Acknowledged(c))' \subseteq uploads'[i0].chunks
  <2>1. Pieces(c, Acknowledged(c)) \subseteq uploads[i0].chunks
    BY <1>1, <1>2 DEF UploadOK
  <2>2. 202 \in Nat /\ i0 \in MaybeId
    BY DEF MaybeId
  <2>3. CASE Acknowledged(c)' = Acknowledged(c)
    <3>1. Pieces(c, Acknowledged(c))' = Pieces(c, Acknowledged(c))
      BY <2>3 DEF Pieces
    <3> QED
      BY <2>1, <3>1
  <2>4. CASE /\ Acknowledged(c)' = m.piece /\ Acknowledged(c) = m.piece - 1
    <3>1. PICK k : k = m.piece /\ k \in Nat /\ k >= 1
      BY <1>1, Sizes DEF RequestOK
    <3>2. Pieces(c, Acknowledged(c))' = {ChunkOf(Piece(c, j)) : j \in 1..k}
      BY <2>4, <3>1 DEF Pieces
    <3>3. \A j \in 1..k : j \in 1 .. k - 1 \/ j = k
      BY <3>1
    <3>4. \A j \in 1 .. k - 1 : ChunkOf(Piece(c, j)) \in Pieces(c, Acknowledged(c))
      BY <2>4, <3>1 DEF Pieces
    <3>5. ASSUME NEW j \in 1..k PROVE ChunkOf(Piece(c, j)) \in uploads'[i0].chunks
      <4>1. CASE j = k
        BY <1>1, <3>1, <4>1
      <4>2. CASE j \in 1 .. k - 1
        BY <2>1, <3>4, <4>2
      <4> QED
        BY <3>3, <4>1, <4>2
    <3> QED
      BY <3>2, <3>5
  <2> QED
    BY <1>1, <2>2, <2>3, <2>4, AcknowledgedStays
<1> QED
  BY <1>1, <1>2, <1>3, <1>4, <1>5, <1>6 DEF UploadOK

LEMMA RecordIs ==
  ASSUME NEW u \in SessionSet, NEW chunk \in UNION {Pieces(d, Size(d)) : d \in Client},
         NEW s, s = RecordChunk(u, chunk)
  PROVE  /\ s \in SessionSet /\ s.expected = u.expected /\ s.state = u.state
         /\ s.chunks = u.chunks \union {chunk}
<1>1. PICK A : A = UNION {Pieces(d, Size(d)) : d \in Client}
  OBVIOUS
<1>2. SessionSet = [state : {"open", "completed", "aborted"}, chunks : SUBSET A,
                    expected : Nat, version : Nat]
  BY <1>1 DEF SessionSet
<1>3. s = [u EXCEPT !.chunks = u.chunks \union {chunk}, !.version = u.version + 1]
  BY DEF RecordChunk
<1>4. u.chunks \union {chunk} \in SUBSET A /\ u.version + 1 \in Nat
  BY <1>1, <1>2
<1>5. PICK chunks, version : /\ chunks = u.chunks \union {chunk} /\ chunks \in SUBSET A
                             /\ version = u.version + 1 /\ version \in Nat
  BY <1>4
<1> QED
  BY <1>2, <1>3, <1>5

LEMMA PatchKeeps ==
  ASSUME PushInv, NEW m \in flight, PatchUpload(m)
  PROVE  PushInv'
<1>1. PICK i, c : i = TheUpload(m) /\ c = m.from
  OBVIOUS
<1>2. m.method = "PATCH" /\ RequestOK(m)
  BY MethodTells DEF PatchUpload, PushInv, FlightOK
<1>3. /\ i = client[c].id /\ i \in Ids /\ i \in Minted /\ i # "none" /\ c \in Client
      /\ uploads[i] \in SessionSet \union {NoSession} /\ m.piece \in 1..Size(c)
      /\ UploadOK(c, i)
  BY <1>1, <1>2, Named
<1>4. PICK chunk : chunk = ChunkOf(Piece(c, m.piece))
  OBVIOUS
<1>5. ASSUME uploads[i] = NoSession, Refuse(m, "uploadNotFound") PROVE PushInv'
  <2>1. \A status : Cause(c, status)
    BY <1>3, <1>5 DEF Cause
  <2> QED
    BY <1>1, <1>5, <2>1, JustRejected, StatusTells
<1>6. ASSUME NEW status, Answer(m, status, i), status = 202,
             uploads[i] # NoSession, minted' = minted, expired' = expired, quota' = quota,
             blobs' = blobs, leaked' = leaked,
             files' \subseteq Ids,
             \A j \in Ids : j # i => uploads'[j] = uploads[j] /\ SameFile(j),
             uploads[i].state # "open" => SameFile(i),
             uploads[i].state # "completed" => i \in files',
             uploads' \in [Ids -> SessionSet \union {NoSession}],
             uploads'[i].expected = uploads[i].expected, uploads'[i].state = uploads[i].state,
             uploads'[i].chunks = uploads[i].chunks \union {chunk}
      PROVE  PushInv'
  <2>1. UploadOK(c, i)'
    BY <1>1, <1>3, <1>4, <1>6, ChunkKept
  <2>2. ServerOK'
    <3>1. Minted' = Minted /\ faults' = faults
      BY <1>6 DEF Minted, Answer
    <3>2. \A j \in Ids : uploads'[j] # NoSession => j \in Minted
      BY <1>3, <1>6 DEF PushInv, ServerOK
    <3> QED
      BY <1>6, <3>1, <3>2 DEF PushInv, ServerOK
  <2>3. Goes(i)
    BY <1>6 DEF Goes
  <2>4. ASSUME Waited(m) PROVE Fits(c, [status |-> status, id |-> i])'
    <3>1. MethodOf[client[c].next] = "PATCH" /\ client[c].next \in {"start", "patch", "complete", "abort"}
      BY <1>1, <1>2, <1>3, <2>4 DEF RequestOK, Waited, PushInv, Mine, ClientOK
    <3>2. client[c].next = "patch"
      BY <3>1 DEF MethodOf
    <3>3. client' = client
      BY <1>6 DEF Answer
    <3> QED
      BY <1>3, <1>6, <3>2, <3>3 DEF Fits
  <2>5. status \in Nat /\ status \notin Refusing /\ blobs \subseteq blobs'
    BY <1>6 DEF Refusing
  <2> QED
    BY <1>1, <1>3, <1>6, <2>1, <2>2, <2>3, <2>4, <2>5, Handled
<1>7. ASSUME uploads[i] # NoSession, Known(uploads[i], chunk), Answer(m, 202, i), UNCHANGED server
      PROVE  PushInv'
  <2>1. uploads[i].chunks = uploads[i].chunks \union {chunk}
    BY <1>7 DEF Known, HasExactChunk
  <2>2. uploads \in [Ids -> SessionSet \union {NoSession}] /\ files \subseteq Ids
    BY DEF PushInv, ServerOK
  <2>3. uploads[i].state # "completed" => i \in files
    BY <1>3, <1>7, <2>1 DEF UploadOK
  <2> QED
    BY <1>6, <1>7, <2>1, <2>2, <2>3 DEF server, SameFile
<1>8. ASSUME uploads[i] # NoSession, CanRecord(uploads[i], chunk, i \in expired),
             files' = files \union {i},
             uploads' = [uploads EXCEPT ![i] = RecordChunk(@, chunk)], Answer(m, 202, i),
             UNCHANGED <<expired, quota, blobs, minted, leaked>>
      PROVE  PushInv'
  <2>1. uploads \in [Ids -> SessionSet \union {NoSession}]
    BY DEF PushInv, ServerOK
  <2>2. uploads[i] \in SessionSet
    BY <1>3, <1>8
  <2>3. PICK s : s = RecordChunk(uploads[i], chunk)
    OBVIOUS
  <2>4. chunk \in UNION {Pieces(d, Size(d)) : d \in Client}
    BY <1>3, <1>4 DEF Pieces
  <2>5. /\ s \in SessionSet /\ s.expected = uploads[i].expected /\ s.state = uploads[i].state
        /\ s.chunks = uploads[i].chunks \union {chunk}
    BY <2>2, <2>3, <2>4, RecordIs
  <2>6. uploads' = [uploads EXCEPT ![i] = s]
    BY <1>8, <2>3
  <2>7. uploads'[i] = s /\ uploads' \in [Ids -> SessionSet \union {NoSession}]
    BY <1>3, <2>1, <2>5, <2>6
  <2>8. \A j \in Ids : j # i => uploads'[j] = uploads[j] /\ SameFile(j)
    BY <1>8, <2>1, <2>6 DEF SameFile
  <2>9. files' \subseteq Ids /\ i \in files' /\ uploads[i].state = "open"
    BY <1>3, <1>8 DEF PushInv, ServerOK, CanRecord
  <2> QED
    BY <1>6, <1>8, <2>5, <2>7, <2>8, <2>9
<1>9. ASSUME uploads[i] # NoSession, ~Known(uploads[i], chunk),
             ~CanRecord(uploads[i], chunk, i \in expired), files' = files \union {i},
             Answer(m, StatusOf[RecordError(uploads[i], chunk, i \in expired)], "none"),
             UNCHANGED <<uploads, expired, quota, blobs, minted, leaked>>
      PROVE  PushInv'
  <2>1. uploads[i] \in SessionSet
    BY <1>3, <1>9
  <2>2. uploads[i].state = "open"
    <3>1. SUFFICES ASSUME client[c].asked PROVE FALSE
      BY <1>3, <1>9 DEF UploadOK
    <3>2. Pieces(c, Size(c)) \subseteq uploads[i].chunks
      BY <1>3, <1>9, <3>1 DEF UploadOK, Acknowledged
    <3>3. chunk \in Pieces(c, Size(c))
      BY <1>3, <1>4 DEF Pieces
    <3> QED
      BY <1>9, <3>2, <3>3 DEF Known, HasExactChunk
  <2>3. i \in expired
    <3>1. ~Conflicts(uploads[i], chunk)
      BY <1>3, <1>4, <1>9, NoConflict DEF UploadOK, Known, HasExactChunk
    <3>2. uploads[i].expected = Size(c) /\ chunk.range.end < Size(c)
      <4>1. chunk.range.end = m.piece - 1
        BY <1>3, <1>4, PieceIs
      <4>2. PICK k : k = m.piece /\ k \in 1..Size(c)
        BY <1>3
      <4>3. k - 1 < Size(c)
        BY <1>3, <4>2, Sizes
      <4> QED
        BY <1>3, <1>9, <4>1, <4>2, <4>3 DEF UploadOK
    <3> QED
      BY <1>9, <2>2, <3>1, <3>2 DEF CanRecord
  <2>4. RecordError(uploads[i], chunk, i \in expired) = "uploadExpired"
    BY <2>2, <2>3 DEF RecordError
  <2>5. PICK status : status = 500 /\ Answer(m, status, "none") /\ status \in Refusing
    BY <1>9, <2>4, StatusTells DEF Refusing
  <2>6. Cause(c, status)
    BY <1>3, <2>3, <2>5 DEF Cause
  <2>7. files' = files \union {i} /\ i \in Ids /\ uploads[i].state = "open"
    BY <1>3, <1>9, <2>2
  <2> QED
    BY <1>1, <1>3, <1>9, <2>5, <2>6, <2>7, Rejected
<1> QED
  BY <1>1, <1>4, <1>5, <1>7, <1>8, <1>9 DEF PatchUpload

QuotaOK(q) == q \in QuotaSet /\ q.used + q.reserved <= Limit

LEMMA QuotaMoves ==
  ASSUME NEW q, QuotaOK(q), NEW n \in Nat
  PROVE  /\ CanReserve(q, n) => QuotaOK(Reserve(q, n))
         /\ CanRelease(q, n) => QuotaOK(Release(q, n))
         /\ CanCommit(q, n, n) => QuotaOK(Commit(q, n, n))
<1>1. /\ q \in QuotaSet /\ q.limit = Limit /\ q.used \in Nat /\ q.reserved \in Nat /\ q.version \in Nat
      /\ q.used + q.reserved <= Limit /\ Limit \in Nat
  BY PushAssumption DEF QuotaOK, QuotaSet
<1>2. ASSUME CanReserve(q, n) PROVE QuotaOK(Reserve(q, n))
  <2>1. n <= Limit - q.used - q.reserved
    BY <1>1, <1>2 DEF CanReserve, Remaining
  <2>2. PICK r, v : r = q.reserved + n /\ v = q.version + 1 /\ r \in Nat /\ v \in Nat /\ q.used + r <= Limit
    BY <1>1, <2>1
  <2>3. Reserve(q, n) = [q EXCEPT !.reserved = r, !.version = v]
    BY <2>2 DEF Reserve
  <2> QED
    BY <1>1, <2>2, <2>3 DEF QuotaOK, QuotaSet
<1>3. ASSUME CanRelease(q, n) PROVE QuotaOK(Release(q, n))
  <2>1. n <= q.reserved
    BY <1>3 DEF CanRelease
  <2>2. PICK r, v : r = q.reserved - n /\ v = q.version + 1 /\ r \in Nat /\ v \in Nat /\ q.used + r <= Limit
    BY <1>1, <2>1
  <2>3. Release(q, n) = [q EXCEPT !.reserved = r, !.version = v]
    BY <2>2 DEF Release
  <2> QED
    BY <1>1, <2>2, <2>3 DEF QuotaOK, QuotaSet
<1>4. ASSUME CanCommit(q, n, n) PROVE QuotaOK(Commit(q, n, n))
  <2>1. n <= q.reserved
    BY <1>4 DEF CanCommit
  <2>2. PICK r, u, v : /\ r = q.reserved - n /\ u = q.used + n /\ v = q.version + 1
                       /\ r \in Nat /\ u \in Nat /\ v \in Nat /\ u + r <= Limit
    BY <1>1, <2>1
  <2>3. Commit(q, n, n) = [q EXCEPT !.reserved = r, !.used = u, !.version = v]
    BY <2>2 DEF Commit
  <2> QED
    BY <1>1, <2>2, <2>3 DEF QuotaOK, QuotaSet
<1> QED
  BY <1>2, <1>3, <1>4

\* An upload that is completed, or whose file has another digest.
LEMMA SettleIs ==
  ASSUME NEW u \in SessionSet, u.state = "open"
  PROVE  /\ Complete(Finalize(u)) \in SessionSet /\ Complete(Finalize(u)).state = "completed"
         /\ Complete(Finalize(u)).expected = u.expected /\ Complete(Finalize(u)).chunks = u.chunks
         /\ Abort(Finalize(u)) \in SessionSet /\ Abort(Finalize(u)).state = "aborted"
         /\ Abort(Finalize(u)).expected = u.expected /\ Abort(Finalize(u)).chunks = u.chunks
<1>1. PICK A : A = SUBSET UNION {Pieces(d, Size(d)) : d \in Client}
  OBVIOUS
<1>2. SessionSet = [state : {"open", "completed", "aborted"}, chunks : A, expected : Nat, version : Nat]
  BY <1>1 DEF SessionSet
<1>3. PICK v, w : v = u.version + 1 /\ v \in Nat /\ w = v + 1 /\ w \in Nat
  BY <1>2
<1>4. PICK f : f = [u EXCEPT !.state = "finalizing", !.version = v]
  OBVIOUS
<1>5. /\ f.version = v /\ f.state = "finalizing" /\ f.chunks = u.chunks /\ f.expected = u.expected
      /\ f = Finalize(u)
  BY <1>2, <1>3, <1>4 DEF Finalize
<1>6. /\ Complete(f) = [f EXCEPT !.state = "completed", !.version = w]
      /\ Abort(f) = [f EXCEPT !.state = "aborted", !.version = w]
  BY <1>3, <1>5 DEF Complete, Abort
<1>7. PICK a, b : /\ a = [f EXCEPT !.state = "completed", !.version = w]
                  /\ b = [f EXCEPT !.state = "aborted", !.version = w]
  OBVIOUS
<1>8. /\ a \in SessionSet /\ a.state = "completed" /\ a.expected = u.expected /\ a.chunks = u.chunks
      /\ b \in SessionSet /\ b.state = "aborted" /\ b.expected = u.expected /\ b.chunks = u.chunks
  BY <1>2, <1>3, <1>4, <1>7
<1> QED
  BY <1>5, <1>6, <1>7, <1>8

\* Whoever asked for the completion has sent every byte.
LEMMA AllSent ==
  ASSUME PushInv, NEW m \in flight, m.method = "PUT", NEW i, i = client[m.from].id,
         uploads[i] # NoSession, UploadOK(m.from, i)
  PROVE  /\ client[m.from].asked /\ uploads[i].chunks = Pieces(m.from, Size(m.from))
         /\ uploads[i].expected = Size(m.from)
<1>1. client[m.from].asked
  BY DEF PushInv, FlightOK, RequestOK
<1>2. Acknowledged(m.from) = Size(m.from)
  BY <1>1 DEF Acknowledged
<1> QED
  BY <1>1, <1>2 DEF UploadOK

Settles(m, i, t, status) ==
  /\ m.method = "PUT" /\ i = TheUpload(m) /\ status \in {400, 201} /\ Answer(m, status, "none")
  /\ t \in SessionSet /\ uploads' = [uploads EXCEPT ![i] = t]
  /\ uploads[i] # NoSession /\ uploads[i].state = "open"
  /\ t.state = Outcome(m.from) /\ t.expected = uploads[i].expected /\ t.chunks = uploads[i].chunks
  /\ QuotaOK(quota') /\ expired' = expired /\ minted' = minted /\ leaked' = leaked
  /\ blobs \subseteq blobs' /\ (status = 201 => Digest(m.from) \in blobs')
  /\ files' \subseteq files /\ \A j \in Ids : j # i => SameFile(j)
  /\ status = 400 \/ t.state # "completed" => i \in files'

LEMMA Settled ==
  ASSUME PushInv, NEW m \in flight, NEW i, NEW t, NEW status, Settles(m, i, t, status)
  PROVE  PushInv'
<1>0. /\ m.method = "PUT" /\ i = TheUpload(m) /\ status \in {400, 201} /\ Answer(m, status, "none")
      /\ t \in SessionSet /\ uploads' = [uploads EXCEPT ![i] = t]
      /\ uploads[i] # NoSession /\ uploads[i].state = "open"
      /\ t.state = Outcome(m.from) /\ t.expected = uploads[i].expected /\ t.chunks = uploads[i].chunks
      /\ QuotaOK(quota') /\ expired' = expired /\ minted' = minted /\ leaked' = leaked
      /\ blobs \subseteq blobs' /\ (status = 201 => Digest(m.from) \in blobs')
      /\ files' \subseteq files /\ \A j \in Ids : j # i => SameFile(j)
      /\ status = 400 \/ t.state # "completed" => i \in files'
  BY DEF Settles
<1>1. PICK c : c = m.from
  BY <1>0
<1>2. /\ i = client[c].id /\ i \in Ids /\ i \in Minted /\ i # "none" /\ c \in Client /\ UploadOK(c, i)
  BY <1>0, <1>1, Named
<1>3. client' = client /\ faults' = faults /\ RequestOK(m) /\ ClientOK(c)
  BY <1>0, <1>2 DEF Answer, PushInv, FlightOK, Mine
<1>4. client[c].asked /\ t.chunks = Pieces(c, Size(c)) /\ t.expected = Size(c)
  BY <1>0, <1>1, <1>2, AllSent
<1>5. uploads \in [Ids -> SessionSet \union {NoSession}]
  BY <1>0 DEF PushInv, ServerOK
<1>6. uploads'[i] = t /\ uploads' \in [Ids -> SessionSet \union {NoSession}]
  BY <1>0, <1>2, <1>5
<1>7. \A j \in Ids : j # i => uploads'[j] = uploads[j] /\ SameFile(j)
  BY <1>0, <1>5
<1>8. ServerOK'
  <2>1. Minted' = Minted
    BY <1>0 DEF Minted
  <2>2. \A j \in Ids : uploads'[j] # NoSession => j \in Minted
    BY <1>0, <1>2, <1>7 DEF PushInv, ServerOK
  <2>3. quota' \in QuotaSet /\ quota'.used + quota'.reserved <= Limit
    BY <1>0 DEF QuotaOK
  <2> QED
    BY <1>0, <1>3, <1>6, <2>1, <2>2, <2>3 DEF PushInv, ServerOK
<1>9. Goes(i)
  BY <1>0 DEF Goes
<1>10. UploadOK(c, i)'
  <2>1. /\ Size(c)' = Size(c) /\ Outcome(c)' = Outcome(c) /\ client'[c] = client[c]
        /\ Pieces(c, Size(c))' = Pieces(c, Size(c))
    BY <1>0, <1>3 DEF Size, Outcome, Pieces
  <2>2. Acknowledged(c)' = Size(c)
    BY <1>0, <1>3, <1>4 DEF Acknowledged, Size
  <2>3. Pieces(c, Acknowledged(c))' = Pieces(c, Size(c))
    BY <1>0, <2>2 DEF Pieces
  <2> QED
    BY <1>0, <1>1, <1>2, <1>4, <1>6, <2>1, <2>3 DEF UploadOK
<1>11. ASSUME Waited(m) PROVE Fits(c, [status |-> status, id |-> "none"])'
  <2>1. MethodOf[client[c].next] = "PUT" /\ client[c].next \in {"start", "patch", "complete", "abort"}
    BY <1>0, <1>1, <1>3, <1>11 DEF RequestOK, Waited, ClientOK
  <2>2. client'[c].next = "complete"
    BY <1>0, <1>3, <2>1 DEF MethodOf
  <2>3. Digest(c)' = Digest(c)
    BY <1>0 DEF Digest
  <2>4. status \in Refusing \union {201}
    BY <1>0 DEF Refusing
  <2> QED
    BY <1>0, <1>1, <2>2, <2>3, <2>4 DEF Fits
<1>12. status \in Refusing => Cause(c, status)'
  <2>1. Outcome(c)' = Outcome(c) /\ client'[c] = client[c]
    BY <1>0, <1>3 DEF Outcome
  <2>2. status \in Refusing => status = 400 /\ i \in files'
    BY <1>0 DEF Refusing
  <2> QED
    BY <1>0, <1>1, <1>2, <1>4, <1>6, <2>1, <2>2 DEF Cause
<1>13. status \in Nat /\ "none" \in {"none", i}
  BY <1>0
<1> QED
  BY <1>0, <1>1, <1>2, <1>3, <1>7, <1>8, <1>9, <1>10, <1>11, <1>12, <1>13, Handled

\* What becomes of a request for completion.
LEMMA CompletesIf ==
  ASSUME PushInv, NEW m \in flight, m.method = "PUT", NEW i, i = TheUpload(m), uploads[i] # NoSession
  PROVE  /\ Finalizable(uploads[i], i \in expired) <=> uploads[i].state = "open" /\ i \notin expired
         /\ FileDigest(uploads[i]) = Digest(m.from) <=> Content[m.from] = Claim[m.from]
         /\ i \notin files => Cause(m.from, 500)
         /\ i \in files /\ ~Finalizable(uploads[i], i \in expired) =>
              /\ FinalizeError(uploads[i], i \in expired) \in DOMAIN StatusOf
              /\ Cause(m.from, StatusOf[FinalizeError(uploads[i], i \in expired)])
<1>1. PICK c, s : c = m.from /\ s = uploads[i]
  OBVIOUS
<1>2. i = client[c].id /\ i # "none" /\ c \in Client /\ UploadOK(c, i)
  BY <1>1, Named
<1>3. client[c].asked /\ s.chunks = Pieces(c, Size(c)) /\ s.expected = Size(c)
  BY <1>1, <1>2, AllSent
<1>4. /\ FileSize(s) = Size(c) /\ ContiguousEnd(s.chunks) = Size(c) - 1
      /\ FileDigest(s) = DigestBytes(Content[c])
  BY <1>2, <1>3, FileIs
<1>5. Finalizable(s, i \in expired) <=> s.state = "open" /\ i \notin expired
  BY <1>3, <1>4 DEF Finalizable, CanFinalize
<1>6. FileDigest(s) = Digest(c) <=> Content[c] = Claim[c]
  BY <1>4, DigestTells
<1>7. ASSUME i \notin files PROVE Cause(c, 500)
  <2>1. s.chunks # {}
    <3>1. 1 \in 1..Size(c)
      BY <1>2, Sizes
    <3>2. ChunkOf(Piece(c, 1)) \in s.chunks
      BY <1>3, <3>1 DEF Pieces
    <3> QED
      BY <3>2
  <2>2. s.state = "completed" /\ s.state = Outcome(c)
    BY <1>1, <1>2, <1>7, <2>1 DEF UploadOK
  <2> QED
    BY <1>1, <1>2, <1>3, <1>7, <2>2 DEF Cause
<1>8. ASSUME i \in files, s.state # "open" \/ i \in expired
      PROVE  /\ FinalizeError(s, i \in expired) \in DOMAIN StatusOf
             /\ Cause(c, StatusOf[FinalizeError(s, i \in expired)])
  <2>1. CASE s.state # "open"
    <3>1. FinalizeError(s, i \in expired) = "uploadConflict"
      BY <2>1 DEF FinalizeError
    <3>2. s.state = Outcome(c)
      BY <1>1, <1>2, <2>1 DEF UploadOK
    <3>3. Cause(c, 409)
      BY <1>1, <1>2, <1>3, <1>8, <3>2 DEF Cause
    <3> QED
      BY <3>1, <3>3, StatusTells
  <2>2. CASE s.state = "open" /\ i \in expired
    <3>1. FinalizeError(s, i \in expired) = "uploadExpired"
      BY <2>2 DEF FinalizeError
    <3>2. Cause(c, 500)
      BY <1>2, <2>2 DEF Cause
    <3> QED
      BY <3>1, <3>2, StatusTells
  <2> QED
    BY <1>8, <2>1, <2>2
<1> QED
  BY <1>1, <1>5, <1>6, <1>7, <1>8

LEMMA CompleteKeeps ==
  ASSUME PushInv, NEW m \in flight, CompleteUpload(m)
  PROVE  PushInv'
<1>1. PICK i, c, size, s : i = TheUpload(m) /\ c = m.from /\ size = Len(Content[c]) /\ s = uploads[i]
  OBVIOUS
<1>2. m.method = "PUT"
  BY MethodTells DEF CompleteUpload, PushInv, FlightOK
<1>3. /\ i = client[c].id /\ i # "none" /\ i \in Ids /\ c \in Client
      /\ uploads[i] \in SessionSet \union {NoSession}
  BY <1>1, <1>2, Named
<1>4. size \in Nat /\ QuotaOK(quota)
  BY <1>1, <1>3, Sizes DEF Size, QuotaOK, PushInv, ServerOK
<1>5. ASSUME s = NoSession, Refuse(m, "uploadNotFound") PROVE PushInv'
  <2>1. \A status : Cause(c, status)
    BY <1>1, <1>3, <1>5 DEF Cause
  <2> QED
    BY <1>1, <1>5, <2>1, JustRejected, StatusTells
<1>6. ASSUME s # NoSession, i \in files, ~Finalizable(s, i \in expired),
             Refuse(m, FinalizeError(s, i \in expired))
      PROVE  PushInv'
  <2>1. PICK error : /\ error = FinalizeError(s, i \in expired) /\ error \in DOMAIN StatusOf
                     /\ Cause(c, StatusOf[error])
    BY <1>1, <1>2, <1>6, CompletesIf
  <2> QED
    BY <1>1, <1>6, <2>1, JustRejected
<1>9. ASSUME s # NoSession, i \notin files, Refuse(m, "noFile") PROVE PushInv'
  <2>1. Cause(c, StatusOf["noFile"])
    BY <1>1, <1>2, <1>9, CompletesIf, StatusTells
  <2> QED
    BY <1>1, <1>9, <2>1, JustRejected, StatusTells
<1>7. ASSUME s # NoSession, i \in files, Finalizable(s, i \in expired), FileDigest(s) # Digest(c),
             uploads' = [uploads EXCEPT ![i] = Abort(Finalize(s))],
             quota' = IF CanRelease(quota, size) THEN Release(quota, size) ELSE quota,
             Answer(m, StatusOf["digestMismatch"], "none"),
             UNCHANGED <<expired, blobs, files, minted, leaked>>
      PROVE  PushInv'
  <2>1. s.state = "open" /\ Content[c] # Claim[c]
    BY <1>1, <1>2, <1>7, CompletesIf
  <2>2. PICK t : t = Abort(Finalize(s))
    OBVIOUS
  <2>3. s \in SessionSet
    BY <1>1, <1>3, <1>7
  <2>4. t \in SessionSet /\ t.state = Outcome(c) /\ t.expected = s.expected /\ t.chunks = s.chunks
    BY <2>1, <2>2, <2>3, SettleIs DEF Outcome
  <2>5. QuotaOK(quota')
    BY <1>4, <1>7, QuotaMoves
  <2>6. StatusOf["digestMismatch"] = 400
    BY DEF StatusOf
  <2>7. PICK status : status = 400 /\ Answer(m, status, "none")
    BY <1>7, <2>6
  <2>8. /\ status \in {400, 201} /\ status # 201
    BY <2>7
  <2>9. /\ expired' = expired /\ minted' = minted /\ leaked' = leaked /\ m.method = "PUT"
        /\ i = TheUpload(m) /\ t \in SessionSet /\ QuotaOK(quota')
        /\ uploads' = [uploads EXCEPT ![i] = t] /\ blobs \subseteq blobs'
        /\ uploads[i] # NoSession /\ uploads[i].state = "open"
        /\ t.state = Outcome(m.from) /\ t.expected = uploads[i].expected /\ t.chunks = uploads[i].chunks
    BY <1>1, <1>2, <1>7, <2>1, <2>2, <2>4, <2>5
  <2>11. files' \subseteq files /\ i \in files' /\ \A j \in Ids : j # i => SameFile(j)
    BY <1>7 DEF SameFile
  <2>10. Settles(m, i, t, status)
    BY <2>7, <2>8, <2>9, <2>11 DEF Settles
  <2> QED
    BY <2>10, Settled
<1>8. ASSUME s # NoSession, i \in files, Finalizable(s, i \in expired), FileDigest(s) = Digest(c),
             blobs' = blobs \union {Digest(c)}, files' = files \/ files' = files \ {i},
             uploads' = [uploads EXCEPT ![i] = Complete(Finalize(s))],
             quota' = IF CanCommit(quota, size, size) THEN Commit(quota, size, size) ELSE quota,
             Answer(m, 201, "none"), UNCHANGED <<expired, minted, leaked>>
      PROVE  PushInv'
  <2>1. s.state = "open" /\ Content[c] = Claim[c]
    BY <1>1, <1>2, <1>8, CompletesIf
  <2>2. PICK t : t = Complete(Finalize(s))
    OBVIOUS
  <2>3. s \in SessionSet
    BY <1>1, <1>3, <1>8
  <2>4. t \in SessionSet /\ t.state = Outcome(c) /\ t.expected = s.expected /\ t.chunks = s.chunks
    BY <2>1, <2>2, <2>3, SettleIs DEF Outcome
  <2>5. QuotaOK(quota')
    BY <1>4, <1>8, QuotaMoves
  <2>7. PICK status : status = 201 /\ Answer(m, status, "none")
    BY <1>8
  <2>8. status \in {400, 201} /\ Digest(m.from) \in blobs'
    BY <1>1, <1>8, <2>7
  <2>9. /\ expired' = expired /\ minted' = minted /\ leaked' = leaked /\ m.method = "PUT"
        /\ i = TheUpload(m) /\ t \in SessionSet /\ QuotaOK(quota')
        /\ uploads' = [uploads EXCEPT ![i] = t] /\ blobs \subseteq blobs'
        /\ uploads[i] # NoSession /\ uploads[i].state = "open"
        /\ t.state = Outcome(m.from) /\ t.expected = uploads[i].expected /\ t.chunks = uploads[i].chunks
    BY <1>1, <1>2, <1>8, <2>1, <2>2, <2>4, <2>5
  <2>11. files' \subseteq files /\ \A j \in Ids : j # i => SameFile(j)
    BY <1>8 DEF SameFile
  <2>12. t.state = "completed" /\ status # 400
    BY <2>1, <2>4, <2>7 DEF Outcome
  <2>10. Settles(m, i, t, status)
    BY <2>7, <2>8, <2>9, <2>11, <2>12 DEF Settles
  <2> QED
    BY <2>10, Settled
<1> QED
  BY <1>1, <1>5, <1>6, <1>7, <1>8, <1>9 DEF CompleteUpload

LEMMA AbortKeeps ==
  ASSUME PushInv, NEW m \in flight, AbortUpload(m)
  PROVE  PushInv'
<1>1. PICK i, c, size : i = TheUpload(m) /\ c = m.from /\ size = Len(Content[c])
  OBVIOUS
<1>2. m.method = "DELETE" /\ RequestOK(m)
  BY MethodTells DEF AbortUpload, PushInv, FlightOK
<1>3. /\ i = client[c].id /\ i # "none" /\ i \in Ids /\ i \in Minted /\ c \in Client
  BY <1>1, <1>2, Named
<1>4. ASSUME uploads[i] = NoSession, Refuse(m, "uploadNotFound") PROVE PushInv'
  <2>1. \A status : Cause(c, status)
    BY <1>3, <1>4 DEF Cause
  <2> QED
    BY <1>1, <1>4, <2>1, JustRejected, StatusTells
<1>5. ASSUME uploads[i] # NoSession,
             quota' = IF CanRelease(quota, size) THEN Release(quota, size) ELSE quota,
             uploads' = [uploads EXCEPT ![i] = NoSession], files' = files \ {i},
             NEW status, status = 204, Answer(m, status, i),
             UNCHANGED <<expired, blobs, minted, leaked>>
      PROVE  PushInv'
  <2>1. uploads \in [Ids -> SessionSet \union {NoSession}]
    BY DEF PushInv, ServerOK
  <2>2. /\ uploads'[i] = NoSession /\ uploads' \in [Ids -> SessionSet \union {NoSession}]
        /\ \A j \in Ids : j # i => uploads'[j] = uploads[j] /\ SameFile(j)
    BY <1>3, <1>5, <2>1 DEF SameFile
  <2>3. ServerOK'
    <3>1. QuotaOK(quota')
      <4>1. size \in Nat /\ QuotaOK(quota)
        BY <1>1, <1>3, Sizes DEF Size, QuotaOK, PushInv, ServerOK
      <4> QED
        BY <1>5, <4>1, QuotaMoves
    <3>2. quota' \in QuotaSet /\ quota'.used + quota'.reserved <= Limit
      BY <3>1 DEF QuotaOK
    <3>3. Minted' = Minted /\ faults' = faults
      BY <1>5 DEF Minted, Answer
    <3>4. \A j \in Ids : uploads'[j] # NoSession => j \in Minted
      BY <2>2 DEF PushInv, ServerOK
    <3> QED
      BY <1>5, <2>2, <3>2, <3>3, <3>4 DEF PushInv, ServerOK
  <2>4. Goes(i) /\ UploadOK(c, i)'
    BY <2>2 DEF Goes, UploadOK
  <2>5. client' = client
    BY <1>5 DEF Answer
  <2>6. ASSUME Waited(m) PROVE Fits(c, [status |-> status, id |-> i])'
    <3>1. MethodOf[client[c].next] = "DELETE" /\ client[c].next \in {"start", "patch", "complete", "abort"}
      BY <1>1, <1>2, <1>3, <2>6 DEF RequestOK, Waited, PushInv, Mine, ClientOK
    <3>2. client[c].next = "abort"
      BY <3>1 DEF MethodOf
    <3> QED
      BY <1>3, <1>5, <2>5, <3>2 DEF Fits
  <2>7. /\ status \in Nat /\ status \notin Refusing /\ blobs \subseteq blobs' /\ i \in {"none", i}
        /\ minted' = minted /\ expired' = expired
    BY <1>5 DEF Refusing
  <2> QED
    BY <1>1, <1>3, <1>5, <2>2, <2>3, <2>4, <2>6, <2>7, Handled
<1> QED
  BY <1>1, <1>4, <1>5 DEF AbortUpload

LEMMA StartKeeps ==
  ASSUME PushInv, NEW m \in flight, StartUpload(m)
  PROVE  PushInv'
<1>1. PICK c, size : c = m.from /\ size = Len(Content[c])
  OBVIOUS
<1>2. m.method = "POST" /\ RequestOK(m) /\ c \in Client
  BY <1>1, MethodTells DEF StartUpload, PushInv, FlightOK, RequestOK
<1>3. ClientOK(c) /\ AnswerOK(c)
  BY <1>2 DEF PushInv, Mine
<1>4. size \in Nat /\ size = Size(c)
  BY <1>1, <1>2, Sizes DEF Size
<1>5. ASSUME Waited(m) PROVE client[c].next = "start" /\ client[c].id = "none"
  <2>1. MethodOf[client[c].next] = "POST" /\ client[c].next \in {"start", "patch", "complete", "abort"}
    BY <1>1, <1>2, <1>3, <1>5 DEF RequestOK, Waited, ClientOK
  <2>2. client[c].next = "start"
    BY <2>1 DEF MethodOf
  <2> QED
    BY <1>3, <2>2 DEF ClientOK
<1>6. ASSUME Mountable(Digest(c)), NEW status, status = 201, Answer(m, status, "none"), UNCHANGED server
      PROVE  PushInv'
  <2>1. PICK i0 : i0 = client[c].id
    OBVIOUS
  <2>2. /\ uploads' = uploads /\ expired' = expired /\ quota' = quota /\ blobs' = blobs
        /\ minted' = minted /\ leaked' = leaked /\ faults' = faults /\ client' = client
        /\ files' = files
    BY <1>6 DEF server, Answer
  <2>3. ServerOK'
    BY <2>2 DEF PushInv, ServerOK, Minted
  <2>4. i0 # "none" => Goes(i0) /\ UploadOK(c, i0)'
    <3>1. "none" \in MaybeId /\ status \in Nat /\ status # 202
      BY <1>6 DEF MaybeId
    <3> QED
      BY <1>1, <1>6, <2>1, <2>2, <3>1, UploadKept DEF Goes, SameFile
  <2>5. Waited(m) => Fits(c, [status |-> status, id |-> "none"])'
    <3>1. Digest(c)' = Digest(c) /\ Digest(c) \in blobs
      BY <1>6 DEF Digest, Mountable
    <3> QED
      BY <1>5, <1>6, <2>2, <3>1 DEF Fits
  <2>6. status \in Nat /\ status \notin Refusing /\ "none" \in {"none", i0} /\ blobs \subseteq blobs'
    BY <1>6, <2>2 DEF Refusing
  <2> QED
    BY <1>1, <1>6, <2>1, <2>2, <2>3, <2>4, <2>5, <2>6, Handled DEF SameFile
<1>7. ASSUME Refuse(m, "quotaExceeded") PROVE PushInv'
  <2>1. Waited(m) => Cause(c, StatusOf["quotaExceeded"])
    BY <1>5, StatusTells DEF Cause
  <2> QED
    BY <1>1, <1>7, <2>1, JustRejected, StatusTells
<1>8. ASSUME CanReserve(quota, size), minted < Len(Id), minted' = minted + 1,
             NEW i, i = Id[minted'], uploads' = [uploads EXCEPT ![i] = NewUploadSession(size)],
             quota' = Reserve(quota, size), NEW status, status = 202, Answer(m, status, i),
             UNCHANGED <<expired, blobs, files, leaked>>
      PROVE  PushInv'
  <2>1. PICK n : n = minted /\ n \in 0..Len(Id) /\ n + 1 \in 1..Len(Id) /\ minted' = n + 1
    BY <1>8, Drawn DEF PushInv, ServerOK
  <2>2. i \in Ids /\ i \notin Minted /\ i # "none"
    <3>1. i = Id[n + 1] /\ i \in Ids
      BY <1>8, <2>1, Drawn
    <3>2. ASSUME NEW k \in 1..n PROVE Id[k] # i
      <4>1. k \in 1..Len(Id) /\ k # n + 1
        BY <2>1, Drawn
      <4> QED
        BY <2>1, <3>1, <4>1, Drawn
    <3>3. i \notin Minted
      BY <2>1, <3>2 DEF Minted
    <3> QED
      BY <3>1, <3>3, PushAssumption
  <2>3. Minted' = Minted \union {i}
    <3>1. Minted' = {Id[k] : k \in 1 .. n + 1} /\ Minted = {Id[k] : k \in 1..n}
      BY <2>1 DEF Minted
    <3>2. \A k : k \in 1 .. n + 1 <=> k \in 1..n \/ k = n + 1
      BY <2>1, Drawn
    <3> QED
      BY <1>8, <2>1, <3>1, <3>2
  <2>4. uploads \in [Ids -> SessionSet \union {NoSession}]
    BY DEF PushInv, ServerOK
  <2>5. PICK t : t = NewUploadSession(size)
    OBVIOUS
  <2>6. /\ t \in SessionSet /\ t.state = "open" /\ t.chunks = {} /\ t.expected = Size(c)
    BY <1>4, <2>5 DEF NewUploadSession, SessionSet
  <2>7. /\ uploads' \in [Ids -> SessionSet \union {NoSession}] /\ uploads'[i] = t
        /\ \A j \in Ids : j # i => uploads'[j] = uploads[j]
    BY <1>8, <2>2, <2>4, <2>5, <2>6
  <2>8. ServerOK'
    <3>1. QuotaOK(quota')
      <4>1. QuotaOK(quota)
        BY DEF QuotaOK, PushInv, ServerOK
      <4> QED
        BY <1>4, <1>8, <4>1, QuotaMoves
    <3>2. quota' \in QuotaSet /\ quota'.used + quota'.reserved <= Limit
      BY <3>1 DEF QuotaOK
    <3>3. faults' = faults /\ minted' \in 0..Len(Id)
      BY <1>8, <2>1, Drawn DEF Answer
    <3>4. \A j \in Ids : uploads'[j] # NoSession => j \in Minted'
      BY <2>3, <2>7 DEF PushInv, ServerOK
    <3> QED
      BY <1>8, <2>3, <2>7, <3>2, <3>3, <3>4 DEF PushInv, ServerOK
  <2>9. PICK a : a = [status |-> status, id |-> i]
    OBVIOUS
  <2>10. /\ client' = client
         /\ answer' = IF Waited(m) THEN [answer EXCEPT ![c] = a] ELSE answer
    BY <1>1, <1>8, <2>9 DEF Answer, Waited
  <2>11. client \in [Client -> ClientSet] /\ answer \in [Client -> AnswerSet]
    BY DEF PushInv, ClientsOK
  <2>12. ASSUME NEW d \in Client PROVE Held(d)' \subseteq Held(d) \/ (d = c /\ Held(d)' \subseteq Held(d) \union {i})
    <3>1. CASE answer'[d] = answer[d]
      BY <2>10, <3>1 DEF Held
    <3>2. CASE answer'[d] # answer[d]
      <4>1. d = c /\ answer'[d].id = i
        BY <1>2, <2>9, <2>10, <2>11, <3>2
      <4> QED
        BY <2>10, <4>1 DEF Held
    <3> QED
      BY <3>1, <3>2
  <2>13. \A d \in Client : HeldOK(d) /\ Mine(d) /\ i \notin Held(d)
    BY <2>2 DEF PushInv, HeldOK
  <2>14. ASSUME NEW d \in Client PROVE HeldOK(d)'
    <3>1. Held(d)' \subseteq Minted'
      BY <2>3, <2>12, <2>13 DEF HeldOK
    <3>2. ASSUME NEW e \in Client \ {d} PROVE Held(d)' \cap Held(e)' = {}
      <4>1. Held(d) \cap Held(e) = {}
        BY <2>13 DEF HeldOK
      <4> QED
        BY <2>12, <2>13, <4>1
    <3> QED
      BY <3>1, <3>2 DEF HeldOK
  <2>15. ASSUME NEW d \in Client, NEW j \in Held(d), j \in Minted PROVE uploads'[j] = uploads[j]
    <3>1. j \in Ids /\ j # i
      BY <2>1, <2>2, <2>15, Drawn DEF Minted
    <3> QED
      BY <2>7, <3>1
  <2>16. ASSUME NEW d \in Client, client[d].id # "none" PROVE Goes(client[d].id)
    <3>1. client[d].id \in Held(d) /\ client[d].id \in Minted
      BY <2>13, <2>16 DEF Held, HeldOK
    <3> QED
      BY <1>8, <2>15, <3>1 DEF Goes, SameFile
  <2>17. ASSUME Waited(m) PROVE Fits(c, [status |-> status, id |-> i])'
    BY <1>5, <1>8, <2>3, <2>10, <2>17 DEF Fits
  <2>18. status \in Nat /\ status \notin Refusing /\ i \in MaybeId
    BY <1>8, <2>2 DEF Refusing, MaybeId
  <2>19. minted <= minted' /\ minted' \in Int /\ expired \subseteq expired' /\ blobs \subseteq blobs'
    BY <1>8, <2>1
  <2>20. /\ FlightOK' /\ ClientsOK'
         /\ \A d \in Client : ClientOK(d)' /\ AnswerOK(d)' /\ RefusalOK(d)'
    BY <1>1, <1>8, <2>16, <2>17, <2>18, <2>19, Answered
  <2>21. ASSUME NEW d \in Client, NEW j \in Held(d)' PROVE UploadOK(d, j)'
    <3>1. CASE j = i
      <4>1. d = c
        BY <2>12, <2>13, <2>21, <3>1
      <4>2. client'[c] = client[c] /\ client[c].id # i
        BY <1>2, <2>10, <2>13, <2>2 DEF Held
      <4>3. Size(c)' = Size(c)
        BY DEF Size
      <4>4. t.chunks \subseteq Pieces(c, Size(c))'
        BY <2>6
      <4> QED
        BY <2>6, <2>7, <3>1, <4>1, <4>2, <4>3, <4>4 DEF UploadOK
    <3>2. CASE j # i
      <4>1. j \in Held(d) /\ UploadOK(d, j) /\ uploads'[j] = uploads[j]
        BY <2>12, <2>13, <2>15, <2>21, <3>2 DEF Mine, HeldOK
      <4>2. client'[d] = client[d]
        BY <2>10
      <4>3. Acknowledged(d)' = Acknowledged(d)
        <5>1. c = d /\ Waited(m) => client[d].next # "patch"
          BY <1>5
        <5> QED
          BY <1>1, <1>8, <2>18, <5>1, AcknowledgedStays
      <4>4. /\ Size(d)' = Size(d) /\ Outcome(d)' = Outcome(d)
            /\ Pieces(d, Size(d))' = Pieces(d, Size(d))
            /\ Pieces(d, Acknowledged(d))' = Pieces(d, Acknowledged(d))
        BY <4>3 DEF Size, Outcome, Pieces
      <4> QED
        BY <1>8, <4>1, <4>2, <4>4 DEF UploadOK
    <3> QED
      BY <3>1, <3>2
  <2>22. \A d \in Client : Mine(d)'
    BY <2>20, <2>21 DEF Mine
  <2> QED
    BY <2>8, <2>14, <2>20, <2>22 DEF PushInv
<1> QED
  BY <1>1, <1>6, <1>7, <1>8 DEF StartUpload

-----------------------------------------------------------------------------
(* The clients, the network and the janitor.                                 *)

\* What only one client does, which nothing has been answered to.
LEMMA OnlyMoves ==
  ASSUME PushInv, NEW c \in Client, ServerOK', ClientsOK', FlightOK',
         \A d \in Client \ {c} : client'[d] = client[d] /\ answer'[d] = answer[d],
         \A d \in Client \ {c} : Current(d)' \subseteq Current(d),
         Held(c)' \subseteq Held(c), UNCHANGED server, Mine(c)'
  PROVE  PushInv'
<1>1. /\ uploads' = uploads /\ expired' = expired /\ blobs' = blobs /\ minted' = minted
      /\ files' = files
  BY DEF server
<1>2. minted \in Int /\ minted <= minted' /\ minted' \in Int
  BY <1>1 DEF PushInv, ServerOK
<1>3. ASSUME NEW d \in Client PROVE Mine(d)'
  <2>1. CASE d # c
    <3>1. Mine(d) /\ HeldOK(d) /\ client'[d] = client[d] /\ answer'[d] = answer[d]
          /\ Current(d)' \subseteq Current(d)
      BY <2>1 DEF PushInv
    <3>2. /\ expired \subseteq expired' /\ blobs \subseteq blobs'
          /\ \A i \in Held(d) : Stays(i)
      BY <1>1 DEF Stays, SameFile
    <3> QED
      BY <1>2, <3>1, <3>2, Unmoved
  <2> QED
    BY <2>1
<1>4. ASSUME NEW d \in Client PROVE Held(d)' \subseteq Held(d)
  BY <1>4 DEF Held
<1>5. \A d \in Client : HeldOK(d)'
  BY <1>2, <1>4, HeldKept DEF PushInv
<1> QED
  BY <1>3, <1>5 DEF PushInv

LEMMA MethodsAre ==
  /\ DOMAIN MethodOf = {"start", "patch", "complete", "abort"}
  /\ MethodOf["start"] = "POST" /\ MethodOf["patch"] = "PATCH"
  /\ MethodOf["complete"] = "PUT" /\ MethodOf["abort"] = "DELETE"
BY DEF MethodOf

LEMMA SentIs ==
  ASSUME NEW me \in ClientSet, NEW n \in Nat, NEW B, B = BOOLEAN, NEW yes \in B, NEW asked \in B
  PROVE  [me EXCEPT !.waiting = yes, !.attempt = n, !.asked = asked] \in ClientSet
<1>1. ClientSet = [next : Steps, piece : Nat, id : MaybeId, attempt : Nat, waiting : B, asked : B,
                   told : Nat]
  BY DEF ClientSet
<1> QED
  BY <1>1, Zenon

LEMMA SendKeeps ==
  ASSUME PushInv, NEW c \in Client, Send(c)
  PROVE  PushInv'
<1>1. PICK me, m : /\ me = client[c]
                   /\ m = [from |-> c, attempt |-> me.attempt + 1, method |-> MethodOf[me.next],
                           path |-> IF me.next = "start" THEN UploadsPath ELSE PathOf(me.id),
                           piece |-> me.piece]
  OBVIOUS
<1>2. /\ me.next \in {"start", "patch", "complete", "abort"} /\ ~me.waiting /\ flight' = flight \union {m}
      /\ UNCHANGED <<server, answer, faults>>
  BY <1>1, MethodsAre DEF Send
<1>3. client \in [Client -> ClientSet] /\ answer \in [Client -> AnswerSet] /\ me \in ClientSet
  BY <1>1 DEF PushInv, ClientsOK
<1>4. PICK n : n = me.attempt /\ n \in Nat
  BY <1>3 DEF ClientSet
<1>5. PICK asked : asked = (me.asked \/ me.next = "complete") /\ asked \in BOOLEAN
  BY <1>3
<1>6. PICK you : you = [me EXCEPT !.waiting = TRUE, !.attempt = n + 1, !.asked = asked]
  OBVIOUS
<1>7. client' = [client EXCEPT ![c] = you]
  BY <1>1, <1>3, <1>4, <1>5, <1>6 DEF Send
<1>8. /\ you \in ClientSet /\ you.next = me.next /\ you.piece = me.piece /\ you.id = me.id
      /\ you.attempt = n + 1 /\ you.waiting /\ (you.asked <=> me.asked \/ me.next = "complete")
  <2>1. you \in ClientSet
    <3>1. n + 1 \in Nat /\ TRUE \in BOOLEAN
      BY <1>4
    <3> QED
      BY <1>3, <1>5, <1>6, <3>1, SentIs
  <2>2. /\ you.next = me.next /\ you.piece = me.piece /\ you.id = me.id /\ you.attempt = n + 1
        /\ you.asked = asked
    BY <1>3, <1>6 DEF ClientSet
  <2>3. you.waiting = TRUE
    BY <1>3, <1>6 DEF ClientSet
  <2> QED
    BY <1>5, <2>1, <2>2, <2>3
<1>9. /\ client' \in [Client -> ClientSet] /\ client'[c] = you /\ answer' = answer
      /\ \A d \in Client \ {c} : client'[d] = client[d]
  BY <1>2, <1>3, <1>7, <1>8
<1>10. m.from = c /\ m.attempt = n + 1 /\ m.method = MethodOf[me.next] /\ m.piece = me.piece
       /\ m.path = IF me.next = "start" THEN UploadsPath ELSE PathOf(me.id)
  BY <1>1, <1>4
<1>11. ClientOK(c) /\ AnswerOK(c) /\ RefusalOK(c) /\ HeldOK(c) /\ \A i \in Held(c) : UploadOK(c, i)
  BY DEF PushInv, Mine
<1>12. ServerOK' /\ ClientsOK'
  <2>1. /\ uploads' = uploads /\ expired' = expired /\ quota' = quota /\ files' = files
        /\ minted' = minted /\ leaked' = leaked /\ faults' = faults
    BY <1>2 DEF server
  <2> QED
    BY <1>3, <1>9, <2>1 DEF PushInv, ServerOK, ClientsOK, Minted
<1>13. ASSUME NEW q \in flight, q.from = c PROVE q.attempt \in Nat /\ q.attempt <= n
  BY <1>1, <1>4, <1>13 DEF PushInv, FlightOK, RequestOK
<1>14. FlightOK'
  <2>1. ASSUME NEW q \in flight PROVE RequestOK(q)'
    <3>1. RequestOK(q)
      BY DEF PushInv, FlightOK
    <3>2. CASE q.from # c
      BY <1>9, <3>1, <3>2 DEF RequestOK, Size
    <3>3. CASE q.from = c
      <4>1. q.attempt \in Nat /\ q.attempt <= n + 1 /\ q.attempt # n + 1
        BY <1>4, <1>13, <3>3
      <4>2. /\ client[c].next = you.next /\ client[c].id = you.id
            /\ client[c].asked => you.asked
            /\ you.asked => client[c].asked \/ you.next = "complete"
        BY <1>1, <1>8
      <4> QED
        BY <1>8, <1>9, <3>1, <3>3, <4>1, <4>2 DEF RequestOK, Size
    <3> QED
      BY <3>2, <3>3
  <2>2. RequestOK(m)'
    <3>1. m.piece \in 1..Size(c)
      BY <1>1, <1>10, <1>11 DEF ClientOK
    <3>2. m.method = "POST" <=> me.next = "start"
      BY <1>2, <1>10, MethodsAre
    <3>3. m.method \in {"POST", "PATCH", "PUT", "DELETE"}
      BY <1>2, <1>10, MethodsAre
    <3>4. m.method # "POST" => me.id # "none"
      BY <1>1, <1>2, <1>11, <3>2 DEF ClientOK
    <3>5. m.method = "PUT" => you.asked
      BY <1>2, <1>8, <1>10, MethodsAre
    <3>6. m.method = "DELETE" => me.next = "abort" /\ (Tidy => ~you.asked)
      BY <1>1, <1>2, <1>8, <1>10, <1>11, MethodsAre DEF ClientOK
    <3>7. m.attempt \in Nat /\ m.attempt <= n + 1
      BY <1>4, <1>10
    <3>8. m.path = IF m.method = "POST" THEN UploadsPath ELSE PathOf(you.id)
      BY <1>8, <1>10, <3>2
    <3>9. Size(c)' = Size(c)
      BY DEF Size
    <3> QED
      BY <1>8, <1>9, <1>10, <3>1, <3>3, <3>4, <3>5, <3>6, <3>7, <3>8, <3>9 DEF RequestOK
  <2>3. ASSUME NEW p \in flight', NEW q \in flight', p.from = q.from, p.attempt = q.attempt PROVE p = q
    <3>1. \A x \in flight : x.from = c => x.attempt # m.attempt
      BY <1>4, <1>10, <1>13
    <3> QED
      BY <1>2, <1>10, <2>3, <3>1 DEF PushInv, FlightOK
  <2> QED
    BY <1>2, <2>1, <2>2, <2>3 DEF FlightOK
<1>15. Held(c)' = Held(c)
  BY <1>1, <1>8, <1>9 DEF Held
<1>16. answer[c] = NoAnswer
  BY <1>1, <1>2, <1>11 DEF AnswerOK
<1>17. Mine(c)'
  <2>1. ClientOK(c)'
    <3>1. you.asked => you.id # "none"
      BY <1>1, <1>8, <1>11 DEF ClientOK
    <3>2. you.next = "start" => you.id = "none" /\ ~you.asked /\ you.piece = 1
      BY <1>1, <1>8, <1>11 DEF ClientOK
    <3>3. Tidy /\ you.next = "abort" => ~you.asked
      BY <1>1, <1>8, <1>11 DEF ClientOK
    <3> QED
      BY <1>1, <1>2, <1>8, <1>9, <1>11, <3>1, <3>2, <3>3 DEF ClientOK, Size
  <2>2. AnswerOK(c)'
    <3>1. you.next # "done"
      BY <1>2, <1>8
    <3>2. Fits(c, answer[c])'
      BY <1>9, <1>16 DEF Fits, NoAnswer
    <3> QED
      BY <1>9, <1>16, <3>1, <3>2 DEF AnswerOK, NoAnswer
  <2>3. RefusalOK(c)'
    <3>1. answer'[c].status \notin Refusing /\ client'[c].next # "refused"
      BY <1>2, <1>8, <1>9, <1>16 DEF NoAnswer, Refusing
    <3> QED
      BY <3>1 DEF RefusalOK, Refusing
  <2>4. ASSUME NEW i \in Held(c)' PROVE UploadOK(c, i)'
    <3>1. UploadOK(c, i)
      BY <1>11, <1>15
    <3>2. Acknowledged(c)' = Acknowledged(c)
      BY <1>1, <1>8, <1>9 DEF Acknowledged, Size
    <3>3. /\ Size(c)' = Size(c) /\ Outcome(c)' = Outcome(c)
          /\ Pieces(c, Size(c))' = Pieces(c, Size(c))
          /\ Pieces(c, Acknowledged(c))' = Pieces(c, Acknowledged(c))
      BY <3>2 DEF Size, Outcome, Pieces
    <3>4. uploads' = uploads /\ files' = files
      BY <1>2 DEF server
    <3> QED
      BY <1>1, <1>8, <1>9, <3>1, <3>3, <3>4 DEF UploadOK
  <2> QED
    BY <2>1, <2>2, <2>3, <2>4 DEF Mine
<1>18. \A d \in Client \ {c} : Current(d)' \subseteq Current(d)
  BY <1>2, <1>9, <1>10 DEF Current
<1>19. UNCHANGED server
  BY <1>2
<1> QED
  BY <1>9, <1>12, <1>14, <1>15, <1>17, <1>18, <1>19, OnlyMoves

\* Of what a client does without sending: who hears an answer, or gives a request up.
Moves(c, you) ==
  /\ client' = [client EXCEPT ![c] = you] /\ answer' = [answer EXCEPT ![c] = NoAnswer]
  /\ flight' = flight /\ UNCHANGED server /\ faults' \in 0..MaxFaults
  /\ you \in ClientSet /\ ~you.waiting /\ you.attempt = client[c].attempt
  /\ you.asked <=> client[c].asked
  /\ you.id # client[c].id => client[c].id = "none" /\ you.id \in Held(c)
  /\ client[c].next \in {"abort", "aborted", "refused"} => you.next \in {"abort", "aborted", "refused"}
  /\ you.next = "done" => Digest(c) \in blobs
  /\ you.next = "refused" => Cause(c, you.told) /\ you.id = client[c].id

LEMMA MovesKeep ==
  ASSUME PushInv, NEW c \in Client, NEW you, Moves(c, you), ClientOK(c)',
         you.id \in Ids /\ uploads[you.id] # NoSession =>
           Pieces(c, Acknowledged(c))' \subseteq uploads[you.id].chunks
  PROVE  PushInv'
<1>1. PICK me : me = client[c]
  OBVIOUS
<1>2. client \in [Client -> ClientSet] /\ answer \in [Client -> AnswerSet] /\ me \in ClientSet
  BY <1>1 DEF PushInv, ClientsOK
<1>3. NoAnswer \in AnswerSet /\ NoAnswer.id = "none" /\ NoAnswer.status = 0
  BY DEF NoAnswer, AnswerSet, MaybeId
<1>4. /\ client' \in [Client -> ClientSet] /\ client'[c] = you
      /\ \A d \in Client \ {c} : client'[d] = client[d] /\ answer'[d] = answer[d]
  BY <1>2 DEF Moves
<1>5. answer' \in [Client -> AnswerSet] /\ answer'[c] = NoAnswer
  BY <1>2, <1>3 DEF Moves
<1>6. ClientOK(c) /\ AnswerOK(c) /\ RefusalOK(c) /\ HeldOK(c) /\ \A i \in Held(c) : UploadOK(c, i)
  BY DEF PushInv, Mine
<1>7. /\ uploads' = uploads /\ expired' = expired /\ quota' = quota /\ blobs' = blobs
      /\ minted' = minted /\ leaked' = leaked /\ files' = files
  BY DEF server, Moves
<1>8. ServerOK' /\ ClientsOK'
  BY <1>4, <1>5, <1>7 DEF PushInv, ServerOK, ClientsOK, Minted, Moves
<1>9. FlightOK'
  <2>1. ASSUME NEW q \in flight PROVE RequestOK(q)'
    <3>1. RequestOK(q)
      BY DEF PushInv, FlightOK
    <3>2. CASE q.from # c
      BY <1>4, <3>1, <3>2 DEF RequestOK, Size
    <3>3. CASE q.from = c
      <4>1. /\ ~you.waiting /\ you.attempt = me.attempt /\ (you.asked <=> me.asked)
            /\ you.id # me.id => me.id = "none"
            /\ me.next \in {"abort", "aborted", "refused"} => you.next \in {"abort", "aborted", "refused"}
        BY <1>1 DEF Moves
      <4>2. q.method # "POST" => you.id # "none" /\ you.id = me.id
        BY <1>1, <3>1, <3>3, <4>1 DEF RequestOK
      <4> QED
        BY <1>1, <1>4, <3>1, <3>3, <4>1, <4>2 DEF RequestOK, Size
    <3> QED
      BY <3>2, <3>3
  <2> QED
    BY <2>1 DEF FlightOK, PushInv, Moves
<1>10. Held(c)' \subseteq Held(c)
  <2>1. Held(c)' \subseteq {you.id} \ {"none"}
    BY <1>3, <1>4, <1>5 DEF Held
  <2> QED
    BY <2>1 DEF Moves, Held
<1>11. AnswerOK(c)'
  <2>1. Fits(c, answer[c])'
    BY <1>3, <1>5 DEF Fits, NoAnswer
  <2>2. (you.next = "done" => Digest(c) \in blobs) /\ Digest(c)' = Digest(c)
    BY DEF Moves, Digest
  <2> QED
    BY <1>4, <1>5, <1>7, <2>1, <2>2 DEF AnswerOK, NoAnswer
<1>12. RefusalOK(c)'
  <2>1. SUFFICES ASSUME you.next = "refused" PROVE Cause(c, you.told)'
    BY <1>3, <1>4, <1>5 DEF RefusalOK, Refusing
  <2>2. Cause(c, you.told) /\ client'[c].id = client[c].id /\ (client[c].asked => client'[c].asked)
    BY <1>4, <2>1 DEF Moves
  <2>3. Goes(client[c].id)
    BY <1>7 DEF Goes, SameFile
  <2>4. expired \subseteq expired'
    BY <1>7
  <2> QED
    BY <2>2, <2>3, <2>4, CauseStays
<1>13. ASSUME NEW i \in Held(c)' PROVE UploadOK(c, i)'
  <2>1. UploadOK(c, i) /\ i = you.id /\ i # "none"
    BY <1>3, <1>4, <1>5, <1>6, <1>10, <1>13 DEF Held
  <2>2. i \in Ids
    BY <2>1 DEF Moves, ClientSet, MaybeId
  <2>3. /\ Size(c)' = Size(c) /\ Outcome(c)' = Outcome(c)
        /\ Pieces(c, Size(c))' = Pieces(c, Size(c))
    BY DEF Size, Outcome, Pieces
  <2>4. client[c].asked => client'[c].asked /\ client[c].id = you.id
    BY <1>4, <1>6 DEF Moves, ClientOK
  <2> QED
    BY <1>4, <1>7, <2>1, <2>2, <2>3, <2>4 DEF UploadOK
<1>14. Mine(c)'
  BY <1>11, <1>12, <1>13 DEF Mine
<1>15. \A d \in Client \ {c} : Current(d)' \subseteq Current(d)
  BY <1>4 DEF Current, Moves
<1>16. UNCHANGED server
  BY DEF Moves
<1> QED
  BY <1>4, <1>8, <1>9, <1>10, <1>14, <1>15, <1>16, OnlyMoves

\* Fewer pieces.
LEMMA FewerPieces ==
  ASSUME NEW c, NEW j \in Int, NEW k \in Int, j <= k
  PROVE  Pieces(c, j) \subseteq Pieces(c, k)
<1>1. \A x \in 1..j : x \in 1..k
  OBVIOUS
<1> QED
  BY <1>1 DEF Pieces

LEMMA StillRecorded ==
  ASSUME PushInv, NEW c \in Client, NEW i, i = client[c].id, i \in Ids, uploads[i] # NoSession,
         Acknowledged(c)' \in Int, Acknowledged(c)' <= Acknowledged(c)
  PROVE  Pieces(c, Acknowledged(c))' \subseteq uploads[i].chunks
<1>1. UploadOK(c, i) /\ ClientOK(c)
  BY PushAssumption DEF PushInv, Mine, Held
<1>2. Acknowledged(c) \in Int
  BY <1>1, Sizes DEF ClientOK, Acknowledged
<1>3. PICK n : n = Acknowledged(c)'
  OBVIOUS
<1>4. Pieces(c, n) \subseteq Pieces(c, Acknowledged(c))
  BY <1>2, <1>3, FewerPieces
<1>5. Pieces(c, Acknowledged(c))' = Pieces(c, n)
  BY <1>3 DEF Pieces
<1> QED
  BY <1>1, <1>4, <1>5 DEF UploadOK

\* What a client knows of itself.
LEMMA ClientIs ==
  ASSUME PushInv, NEW c \in Client
  PROVE  /\ client[c] \in ClientSet /\ ClientOK(c) /\ AnswerOK(c) /\ RefusalOK(c)
         /\ Size(c) \in Nat /\ Size(c) >= 1 /\ Size(c)' = Size(c)
         /\ client[c].piece \in 1..Size(c) /\ client \in [Client -> ClientSet]
         /\ answer \in [Client -> AnswerSet]
BY Sizes DEF PushInv, Mine, ClientsOK, ClientOK, Size

LEMMA TimeoutKeeps ==
  ASSUME PushInv, NEW c \in Client, Timeout(c)
  PROVE  PushInv'
<1>1. PICK me : me = client[c] /\ me \in ClientSet
  BY ClientIs
<1>2. PICK you : you = [me EXCEPT !.waiting = FALSE]
  OBVIOUS
<1>3. /\ you \in ClientSet /\ ~you.waiting /\ (you.asked <=> me.asked)
      /\ you.next = me.next /\ you.piece = me.piece /\ you.id = me.id /\ you.attempt = me.attempt
  BY <1>1, <1>2 DEF ClientSet
<1>4. client' = [client EXCEPT ![c] = you]
  BY <1>1, <1>2 DEF Timeout
<1>5. client'[c] = you /\ answer'[c] = NoAnswer
  BY <1>4, ClientIs DEF Timeout
<1>6. faults' \in 0..MaxFaults
  <2>1. faults \in 0..MaxFaults /\ faults < MaxFaults /\ faults' = faults + 1 /\ MaxFaults \in Nat
    BY PushAssumption DEF Timeout, PushInv, ServerOK
  <2> QED
    BY <2>1
<1>7. ClientOK(c)'
  BY <1>1, <1>3, <1>5, ClientIs DEF ClientOK
<1>8. me.next # "done" /\ me.next # "refused"
  BY <1>1, ClientIs DEF Timeout, ClientOK
<1>9. Moves(c, you)
  BY <1>1, <1>3, <1>4, <1>6, <1>8 DEF Moves, Timeout
<1>10. Acknowledged(c)' \in Int /\ Acknowledged(c)' <= Acknowledged(c)
  BY <1>1, <1>3, <1>5, ClientIs DEF Acknowledged, NoAnswer
<1> QED
  BY <1>1, <1>3, <1>7, <1>9, <1>10, StillRecorded, MovesKeep

LEMMA GiveUpKeeps ==
  ASSUME PushInv, NEW c \in Client, GiveUp(c)
  PROVE  PushInv'
<1>1. PICK me : me = client[c] /\ me \in ClientSet
  BY ClientIs
<1>2. PICK you : you = [me EXCEPT !.next = "abort"]
  OBVIOUS
<1>3. /\ you \in ClientSet /\ ~you.waiting /\ (you.asked <=> me.asked)
      /\ you.next = "abort" /\ you.piece = me.piece /\ you.id = me.id /\ you.attempt = me.attempt
  BY <1>1, <1>2 DEF ClientSet, Steps, GiveUp
<1>4. client' = [client EXCEPT ![c] = you]
  BY <1>1, <1>2 DEF GiveUp
<1>5. answer[c] = NoAnswer
  BY ClientIs DEF AnswerOK, GiveUp
<1>6. answer' = [answer EXCEPT ![c] = NoAnswer]
  BY <1>5, ClientIs DEF GiveUp
<1>7. client'[c] = you /\ answer'[c] = NoAnswer
  BY <1>4, <1>6, ClientIs
<1>8. faults' \in 0..MaxFaults
  BY DEF GiveUp, PushInv, ServerOK
<1>9. ClientOK(c)'
  BY <1>1, <1>3, <1>7, ClientIs DEF ClientOK, GiveUp
<1>10. Moves(c, you)
  BY <1>1, <1>3, <1>4, <1>6, <1>8 DEF Moves, GiveUp
<1>11. Acknowledged(c)' \in Int /\ Acknowledged(c)' <= Acknowledged(c)
  BY <1>1, <1>3, <1>5, <1>7, ClientIs DEF Acknowledged, NoAnswer
<1> QED
  BY <1>1, <1>3, <1>9, <1>10, <1>11, StillRecorded, MovesKeep

\* What a client does on an answer.
Follows(c, a, me, you) ==
  /\ you \in ClientSet /\ ~you.waiting /\ (you.asked <=> me.asked) /\ you.attempt = me.attempt
  /\ \/ /\ a.status = 201 /\ me.next \in {"start", "complete"} /\ Digest(c) \in blobs
        /\ you.next = "done" /\ you.id = me.id /\ you.piece = me.piece
     \/ /\ a.status = 202 /\ me.next = "start" /\ a.id \in Minted
        /\ you.next = "patch" /\ you.id = a.id /\ you.piece = me.piece
     \/ /\ a.status = 202 /\ me.next = "patch" /\ me.piece = Size(c)
        /\ you.next = "complete" /\ you.id = me.id /\ you.piece = me.piece
     \/ /\ a.status = 202 /\ me.next = "patch" /\ me.piece # Size(c)
        /\ you.next = "patch" /\ you.id = me.id /\ you.piece = me.piece + 1
     \/ /\ a.status = 204 /\ me.next = "abort"
        /\ you.next = "aborted" /\ you.id = me.id /\ you.piece = me.piece
     \/ /\ a.status \in Refusing /\ you.told = a.status
        /\ you.next = "refused" /\ you.id = me.id /\ you.piece = me.piece

LEMMA AfterIs ==
  ASSUME PushInv, NEW c \in Client, Receive(c), NEW a, a = answer[c], NEW me, me = client[c],
         NEW you, you = [After(c) EXCEPT !.waiting = FALSE]
  PROVE  Follows(c, a, me, you)
<1> USE DEF Follows
<1>1. me \in ClientSet /\ a \in AnswerSet /\ a # NoAnswer /\ Fits(c, a) /\ me.piece \in 1..Size(c)
  BY ClientIs DEF Receive, AnswerOK
<1>2. a.id \in MaybeId /\ {"done", "patch", "complete", "aborted", "refused"} \subseteq Steps
  BY <1>1 DEF AnswerSet, Steps
<1>3. \A x \in {"done", "complete", "aborted"} :
        LET y == [[me EXCEPT !.next = x] EXCEPT !.waiting = FALSE]
        IN  /\ y \in ClientSet /\ ~y.waiting /\ (y.asked <=> me.asked) /\ y.attempt = me.attempt
            /\ y.next = x /\ y.id = me.id /\ y.piece = me.piece
  BY <1>1, <1>2 DEF ClientSet
<1>4. CASE a.status = 201
  <2>1. After(c) = [me EXCEPT !.next = "done"]
    BY <1>4 DEF After
  <2> QED
    BY <1>1, <1>3, <1>4, <2>1 DEF Fits
<1>5. CASE a.status = 202 /\ me.next = "start"
  <2>1. After(c) = [me EXCEPT !.next = "patch", !.id = a.id]
    BY <1>5 DEF After
  <2>2. /\ you \in ClientSet /\ ~you.waiting /\ (you.asked <=> me.asked) /\ you.attempt = me.attempt
        /\ you.next = "patch" /\ you.id = a.id /\ you.piece = me.piece
    BY <1>1, <1>2, <2>1 DEF ClientSet
  <2>3. a.id \in Minted
    BY <1>1, <1>5 DEF Fits, Refusing
  <2> QED
    BY <1>5, <2>2, <2>3
<1>6. CASE a.status = 202 /\ me.next = "patch"
  <2>1. CASE me.piece = Size(c)
    <3>1. After(c) = [me EXCEPT !.next = "complete"]
      BY <1>6, <2>1 DEF After, Size
    <3> QED
      BY <1>3, <1>6, <2>1, <3>1
  <2>2. CASE me.piece # Size(c)
    <3>1. After(c) = [me EXCEPT !.piece = me.piece + 1]
      BY <1>6, <2>2 DEF After, Size
    <3>2. me.piece + 1 \in Nat
      BY <1>1
    <3>3. /\ you \in ClientSet /\ ~you.waiting /\ (you.asked <=> me.asked) /\ you.attempt = me.attempt
          /\ you.next = me.next /\ you.id = me.id /\ you.piece = me.piece + 1
      BY <1>1, <3>1, <3>2 DEF ClientSet
    <3> QED
      BY <1>6, <2>2, <3>3
  <2> QED
    BY <2>1, <2>2
<1>7. CASE a.status = 204
  <2>1. After(c) = [me EXCEPT !.next = "aborted"]
    BY <1>7 DEF After
  <2>2. me.next = "abort"
    BY <1>1, <1>7 DEF Fits, Refusing
  <2> QED
    BY <1>3, <1>7, <2>1, <2>2
<1>8. CASE a.status \in Refusing
  <2>1. After(c) = [me EXCEPT !.next = "refused", !.told = a.status]
    BY <1>8 DEF After, Refusing
  <2>2. /\ you \in ClientSet /\ ~you.waiting /\ (you.asked <=> me.asked) /\ you.attempt = me.attempt
        /\ you.next = "refused" /\ you.id = me.id /\ you.piece = me.piece /\ you.told = a.status
    BY <1>1, <1>2, <2>1 DEF ClientSet, AnswerSet
  <2> QED
    BY <1>8, <2>2
<1> QED
  BY <1>1, <1>4, <1>5, <1>6, <1>7, <1>8 DEF Fits

LEMMA ReceiveKeeps ==
  ASSUME PushInv, NEW c \in Client, Receive(c)
  PROVE  PushInv'
<1>1. PICK a, me, you : a = answer[c] /\ me = client[c] /\ you = [After(c) EXCEPT !.waiting = FALSE]
  OBVIOUS
<1>0. Follows(c, a, me, you)
  BY <1>1, AfterIs
<1>2. /\ you \in ClientSet /\ ~you.waiting /\ (you.asked <=> me.asked) /\ you.attempt = me.attempt
  BY <1>0 DEF Follows
<1>3. /\ client' = [client EXCEPT ![c] = you] /\ answer' = [answer EXCEPT ![c] = NoAnswer]
      /\ UNCHANGED <<server, flight, faults>>
  BY <1>1 DEF Receive
<1>4. client'[c] = you /\ answer'[c] = NoAnswer /\ uploads' = uploads
  BY <1>3, ClientIs DEF server
<1>5. /\ ClientOK(c) /\ RefusalOK(c) /\ me.piece \in 1..Size(c) /\ Size(c) \in Nat
      /\ Size(c)' = Size(c) /\ a # NoAnswer /\ me.waiting
  BY <1>1, ClientIs DEF Receive
<1>6. faults' \in 0..MaxFaults
  BY <1>3 DEF PushInv, ServerOK
<1>7. ASSUME you.id = me.id, you.piece \in 1..Size(c), you.next \notin {"start", "abort"},
             me.next \in {"abort", "aborted", "refused"} => you.next \in {"abort", "aborted", "refused"},
             you.next = "done" => Digest(c) \in blobs,
             you.next = "refused" => a.status \in Refusing /\ you.told = a.status,
             you.next \in {"patch", "complete"} => me.next = "patch",
             Acknowledged(c)' \in Int, Acknowledged(c)' <= Acknowledged(c)
      PROVE  PushInv'
  <2>1. Cause(c, you.told) \/ you.next # "refused"
    BY <1>1, <1>5, <1>7 DEF RefusalOK
  <2>2. Moves(c, you)
    BY <1>1, <1>2, <1>3, <1>6, <1>7, <2>1 DEF Moves
  <2>3. ClientOK(c)'
    <3>1. you.next \in {"patch", "complete", "abort"} => you.id # "none"
      BY <1>1, <1>5, <1>7 DEF ClientOK
    <3>2. you.asked => you.id # "none"
      BY <1>1, <1>2, <1>5, <1>7 DEF ClientOK
    <3> QED
      BY <1>2, <1>4, <1>5, <1>7, <3>1, <3>2 DEF ClientOK
  <2> QED
    BY <1>1, <1>7, <2>2, <2>3, StillRecorded, MovesKeep
<1>8. ASSUME me.next \in {"start", "complete", "abort", "patch"},
             you.next \in {"done", "aborted", "refused"}, you.piece = me.piece
      PROVE  Acknowledged(c)' \in Int /\ Acknowledged(c)' <= Acknowledged(c)
  <2>1. Acknowledged(c)' = IF you.asked THEN Size(c) ELSE 0
    BY <1>4, <1>5, <1>8 DEF Acknowledged
  <2>2. Acknowledged(c) = IF me.asked \/ me.next = "complete" THEN Size(c)
                          ELSE IF me.next = "patch"
                               THEN IF a.status = 202 THEN me.piece ELSE me.piece - 1 ELSE 0
    BY <1>1 DEF Acknowledged
  <2> QED
    BY <1>2, <1>5, <2>1, <2>2
<1>9. me.next \in {"start", "complete", "abort", "patch"}
  BY <1>1, <1>5 DEF ClientOK
<1>10. CASE /\ a.status = 201 /\ me.next \in {"start", "complete"} /\ Digest(c) \in blobs
            /\ you.next = "done" /\ you.id = me.id /\ you.piece = me.piece
  BY <1>5, <1>7, <1>8, <1>10
<1>11. CASE /\ a.status = 202 /\ me.next = "start" /\ a.id \in Minted
            /\ you.next = "patch" /\ you.id = a.id /\ you.piece = me.piece
  <2>1. me.id = "none" /\ ~me.asked /\ me.piece = 1
    BY <1>1, <1>5, <1>11 DEF ClientOK
  <2>2. a.id \in Ids /\ a.id # "none"
    <3>1. PICK k \in 1..minted : a.id = Id[k]
      BY <1>11 DEF Minted
    <3>2. minted \in 0..Len(Id)
      BY DEF PushInv, ServerOK
    <3>3. a.id \in Ids
      BY <3>1, <3>2, Drawn
    <3> QED
      BY <3>3, PushAssumption
  <2>3. Moves(c, you)
    BY <1>1, <1>2, <1>3, <1>6, <1>11, <2>1, <2>2 DEF Moves, Held
  <2>4. ClientOK(c)'
    BY <1>2, <1>4, <1>5, <1>11, <2>1, <2>2 DEF ClientOK
  <2>5. Acknowledged(c)' = 0
    <3>1. NoAnswer.status = 0
      BY DEF NoAnswer
    <3> QED
      BY <1>2, <1>4, <1>11, <2>1, <3>1 DEF Acknowledged
  <2>6. Pieces(c, Acknowledged(c))' = {}
    BY <2>5 DEF Pieces
  <2> QED
    BY <2>3, <2>4, <2>6, MovesKeep
<1>12. CASE /\ a.status = 202 /\ me.next = "patch" /\ me.piece = Size(c)
            /\ you.next = "complete" /\ you.id = me.id /\ you.piece = me.piece
  <2>1. Acknowledged(c)' = Size(c) /\ Acknowledged(c) = Size(c)
    BY <1>1, <1>4, <1>5, <1>12 DEF Acknowledged
  <2> QED
    BY <1>5, <1>7, <1>12, <2>1
<1>13. CASE /\ a.status = 202 /\ me.next = "patch" /\ me.piece # Size(c)
            /\ you.next = "patch" /\ you.id = me.id /\ you.piece = me.piece + 1
  <2>1. Acknowledged(c)' = IF me.asked THEN Size(c) ELSE me.piece + 1 - 1
    <3>1. NoAnswer.status = 0
      BY DEF NoAnswer
    <3> QED
      BY <1>2, <1>4, <1>5, <1>13, <3>1 DEF Acknowledged
  <2>2. Acknowledged(c) = IF me.asked THEN Size(c) ELSE me.piece
    BY <1>1, <1>13 DEF Acknowledged
  <2>3. you.piece \in 1..Size(c)
    BY <1>5, <1>13
  <2>4. Acknowledged(c)' \in Int /\ Acknowledged(c)' <= Acknowledged(c)
    BY <1>5, <2>1, <2>2
  <2> QED
    BY <1>7, <1>13, <2>3, <2>4
<1>14. CASE /\ a.status = 204 /\ me.next = "abort"
            /\ you.next = "aborted" /\ you.id = me.id /\ you.piece = me.piece
  BY <1>5, <1>7, <1>8, <1>14
<1>15. CASE /\ a.status \in Refusing /\ you.told = a.status
            /\ you.next = "refused" /\ you.id = me.id /\ you.piece = me.piece
  BY <1>5, <1>7, <1>8, <1>9, <1>15
<1>16. \/ /\ a.status = 201 /\ me.next \in {"start", "complete"} /\ Digest(c) \in blobs
          /\ you.next = "done" /\ you.id = me.id /\ you.piece = me.piece
       \/ /\ a.status = 202 /\ me.next = "start" /\ a.id \in Minted
          /\ you.next = "patch" /\ you.id = a.id /\ you.piece = me.piece
       \/ /\ a.status = 202 /\ me.next = "patch" /\ me.piece = Size(c)
          /\ you.next = "complete" /\ you.id = me.id /\ you.piece = me.piece
       \/ /\ a.status = 202 /\ me.next = "patch" /\ me.piece # Size(c)
          /\ you.next = "patch" /\ you.id = me.id /\ you.piece = me.piece + 1
       \/ /\ a.status = 204 /\ me.next = "abort"
          /\ you.next = "aborted" /\ you.id = me.id /\ you.piece = me.piece
       \/ /\ a.status \in Refusing /\ you.told = a.status
          /\ you.next = "refused" /\ you.id = me.id /\ you.piece = me.piece
  BY <1>0 DEF Follows
<1> QED
  BY <1>10, <1>11, <1>12, <1>13, <1>14, <1>15, <1>16

\* What concerns no client: what is lost, and uploads that expire or go.
LEMMA NobodyMoves ==
  ASSUME PushInv, ServerOK', client' = client, answer' = answer, flight' \subseteq flight,
         minted' = minted, expired \subseteq expired', blobs' = blobs,
         \A i \in Ids : Stays(i)
  PROVE  PushInv'
<1>1. ClientsOK' /\ FlightOK'
  BY DEF PushInv, ClientsOK, FlightOK, RequestOK, Size, PathOf
<1>2. minted \in Int /\ minted <= minted' /\ minted' \in Int
  BY DEF PushInv, ServerOK
<1>3. ASSUME NEW c \in Client PROVE Mine(c)' /\ Held(c)' \subseteq Held(c)
  <2>1. Current(c)' \subseteq Current(c)
    BY DEF Current
  <2>2. \A i \in Held(c) : i \in Ids
    BY <1>3, Drawn DEF PushInv, HeldOK, Minted, ServerOK
  <2>3. Mine(c)'
    BY <1>2, <2>1, <2>2, Unmoved DEF PushInv
  <2> QED
    BY <2>3 DEF Held
<1>4. \A c \in Client : HeldOK(c)'
  BY <1>2, <1>3, HeldKept DEF PushInv
<1> QED
  BY <1>1, <1>3, <1>4 DEF PushInv

LEMMA LoseKeeps ==
  ASSUME PushInv, NEW m, Lose(m)
  PROVE  PushInv'
<1>1. /\ uploads' = uploads /\ expired' = expired /\ quota' = quota /\ blobs' = blobs
      /\ minted' = minted /\ leaked' = leaked /\ faults' = faults
      /\ client' = client /\ answer' = answer /\ flight' \subseteq flight /\ files' = files
  BY DEF Lose, server
<1>2. ServerOK'
  BY <1>1 DEF PushInv, ServerOK, Minted
<1> QED
  BY <1>1, <1>2, NobodyMoves DEF Stays, SameFile

LEMMA ExpireKeeps ==
  ASSUME PushInv, NEW i \in Ids, Expire(i)
  PROVE  PushInv'
<1>1. ServerOK'
  BY DEF PushInv, ServerOK, Minted, Expire
<1>2. /\ uploads' = uploads /\ blobs' = blobs /\ minted' = minted /\ files' = files
      /\ client' = client /\ answer' = answer /\ flight' \subseteq flight /\ expired \subseteq expired'
  BY DEF Expire
<1> QED
  BY <1>1, <1>2, NobodyMoves DEF Stays, SameFile

LEMMA JanitorKeeps ==
  ASSUME PushInv, NEW i \in Ids, RunJanitor(i)
  PROVE  PushInv'
<1>1. uploads \in [Ids -> SessionSet \union {NoSession}] /\ leaked \in Nat
  BY DEF PushInv, ServerOK
<1>2. uploads[i] \in SessionSet
  BY <1>1, AbsentOrOpen DEF RunJanitor
<1>3. leaked' \in Nat
  BY <1>1, <1>2 DEF RunJanitor, SessionSet
<1>4. /\ uploads' \in [Ids -> SessionSet \union {NoSession}]
      /\ \A j \in Ids : Stays(j)
  BY <1>1 DEF RunJanitor, Stays, SameFile
<1>5. ServerOK'
  <2>1. \A j \in Ids : uploads'[j] # NoSession => j \in Minted
    BY <1>4 DEF PushInv, ServerOK, Stays
  <2> QED
    BY <1>3, <1>4, <2>1 DEF PushInv, ServerOK, Minted, RunJanitor
<1>6. /\ blobs' = blobs /\ minted' = minted /\ expired \subseteq expired'
      /\ client' = client /\ answer' = answer /\ flight' \subseteq flight
  BY DEF RunJanitor
<1> QED
  BY <1>4, <1>5, <1>6, NobodyMoves

LEMMA PushInit == Init => PushInv
<1> SUFFICES ASSUME Init PROVE PushInv
  OBVIOUS
<1>1. ServerOK
  <2>1. QuotaOK(NewQuota(Limit))
    BY PushAssumption DEF QuotaOK, QuotaSet, NewQuota
  <2>2. quota \in QuotaSet /\ quota.used + quota.reserved <= Limit
    BY <2>1 DEF QuotaOK, Init
  <2>3. minted \in 0..Len(Id) /\ 0 \in 0..MaxFaults
    BY Drawn, PushAssumption DEF Init
  <2> QED
    BY <2>2, <2>3 DEF ServerOK, Init
<1>2. Starting \in ClientSet /\ NoAnswer \in AnswerSet
  BY DEF Starting, ClientSet, Steps, MaybeId, NoAnswer, AnswerSet
<1>3. ClientsOK /\ FlightOK
  BY <1>2 DEF ClientsOK, FlightOK, Init
<1>4. ASSUME NEW c \in Client PROVE Mine(c) /\ HeldOK(c)
  <2>1. client[c] = Starting /\ answer[c] = NoAnswer
    BY DEF Init
  <2>2. ClientOK(c)
    BY <2>1, Sizes DEF ClientOK, Starting
  <2>3. AnswerOK(c)
    BY <2>1 DEF AnswerOK, Fits, Starting, NoAnswer
  <2>4. RefusalOK(c)
    BY <2>1 DEF RefusalOK, Starting, NoAnswer, Refusing
  <2>5. Held(c) = {}
    BY <2>1 DEF Held, Starting, NoAnswer
  <2>6. HeldOK(c)
    BY <2>5 DEF HeldOK
  <2> QED
    BY <2>2, <2>3, <2>4, <2>5, <2>6 DEF Mine
<1> QED
  BY <1>1, <1>3, <1>4 DEF PushInv

LEMMA PushNext == PushInv /\ [Next]_vars => PushInv'
<1> SUFFICES ASSUME PushInv, [Next]_vars PROVE PushInv'
  OBVIOUS
<1>1. CASE \E c \in Client : Send(c) \/ Timeout(c) \/ GiveUp(c) \/ Receive(c)
  BY <1>1, SendKeeps, TimeoutKeeps, GiveUpKeeps, ReceiveKeeps
<1>2. CASE \E m \in flight : Handle(m)
  BY <1>2, StartKeeps, PatchKeeps, CompleteKeeps, AbortKeeps DEF Handle
<1>3. CASE \E m \in flight : Lose(m)
  BY <1>3, LoseKeeps
<1>4. CASE \E i \in Ids : Expire(i) \/ RunJanitor(i)
  BY <1>4, ExpireKeeps, JanitorKeeps
<1>5. CASE UNCHANGED vars
  <2>1. /\ uploads' = uploads /\ expired' = expired /\ quota' = quota /\ blobs' = blobs
        /\ minted' = minted /\ leaked' = leaked /\ faults' = faults
        /\ client' = client /\ answer' = answer /\ flight' \subseteq flight /\ files' = files
    BY <1>5 DEF vars, server
  <2>2. ServerOK'
    BY <2>1 DEF PushInv, ServerOK, Minted
  <2> QED
    BY <2>1, <2>2, NobodyMoves DEF Stays, SameFile
<1> QED
  BY <1>1, <1>2, <1>3, <1>4, <1>5 DEF Next

\* The quota is within its limit whatever is sent again, a client waits for the one
\* request it sent last, and the uploads are those whose identifiers were drawn.
THEOREM PushTyped == Spec => []TypeOK
<1>1. PushInv => TypeOK
  <2> SUFFICES ASSUME PushInv PROVE TypeOK
    OBVIOUS
  <2>1. minted \in 0..Len(Id) /\ expired \union files \subseteq Ids /\ faults \in 0..MaxFaults
    <3>1. ASSUME NEW i \in Minted PROVE i \in Ids
      BY Drawn DEF Minted, PushInv, ServerOK
    <3> QED
      BY <3>1 DEF PushInv, ServerOK
  <2>2. quota.used \in 0..Limit /\ quota.reserved \in 0 .. Limit - quota.used
    BY PushAssumption DEF PushInv, ServerOK, QuotaSet
  <2>3. ASSUME NEW k \in DOMAIN Id, uploads[Id[k]] # NoSession \/ Id[k] \in expired PROVE k <= minted
    <3>1. Id[k] \in Minted
      BY <2>3, Drawn DEF PushInv, ServerOK
    <3>2. PICK j \in 1..minted : Id[j] = Id[k]
      BY <3>1 DEF Minted
    <3>3. j \in 1..Len(Id) /\ k \in 1..Len(Id)
      BY <2>1, <3>2, Drawn
    <3>4. j = k
      BY <3>2, <3>3, Drawn
    <3> QED
      BY <2>1, <3>2, <3>4
  <2>4. \A m \in flight : m.from \in Client /\ m.attempt <= client[m.from].attempt
    BY DEF PushInv, FlightOK, RequestOK
  <2>5. \A c \in Client : answer[c] # NoAnswer => client[c].waiting /\ Current(c) = {}
    BY DEF PushInv, Mine, AnswerOK
  <2> QED
    BY <2>1, <2>2, <2>3, <2>4, <2>5 DEF TypeOK
<1> QED
  BY <1>1, PushInit, PushNext, PTL DEF Spec

\* A client that is told its blob was created finds it in the registry, also if
\* it was told so by a mount (router.go 141, 197).
THEOREM CreatedStored == Spec => []CreatedMeansStored
<1>1. PushInv => CreatedMeansStored
  BY DEF PushInv, Mine, AnswerOK, CreatedMeansStored
<1> QED
  BY <1>1, PushInit, PushNext, PTL DEF Spec

\* A client that sends a request again because the answer did not come is refused
\* only if the quota was exhausted (413), its upload is gone or has expired (500), or
\* its completion was carried out the first time it was asked for: then with 500 if
\* its file was moved away, and otherwise with 400 or 409 (router.go 170-221,
\* registry.go 154, 158, 176).
THEOREM CausesHold == Spec => []RefusedForCause
<1>1. PushInv => RefusedForCause
  BY DEF PushInv, Mine, RefusalOK, RefusedForCause, Refused
<1> QED
  BY <1>1, PushInit, PushNext, PTL DEF Spec

-----------------------------------------------------------------------------
(* What the tenant is charged.                                               *)

LEMMA IdsFinite == IsFiniteSet(Ids)
<1>1. DOMAIN Id = 1..Len(Id) /\ Len(Id) \in Nat
  BY Drawn
<1>2. IsFiniteSet(1..Len(Id))
  BY <1>1, FS_Interval
<1>3. Id \in Surjection(1..Len(Id), Ids)
  <2>1. Id \in [1..Len(Id) -> Ids]
    BY PushAssumption, LenProperties
  <2> QED
    BY <2>1, Drawn DEF Surjection
<1> QED
  BY <1>2, <1>3, FS_Surjection

Sessions == SessionSet \union {NoSession}

\* What one upload adds to what was declared for those in a state.
Weight(s, state) == IF s.state = state THEN s.expected ELSE 0
Weights(u, state) == [i \in Ids |-> Weight(u[i], state)]
Total(u, state) == SumFunctionOnSet(Weights(u, state), Ids)

Charged == {"open", "completed"}

LEMMA WeightIs ==
  ASSUME NEW s \in Sessions, NEW state \in Charged
  PROVE  Weight(s, state) \in Nat /\ (s.state = state => s.expected \in Nat)
<1>1. NoSession.state = "none"
  BY DEF NoSession
<1> QED
  BY <1>1 DEF Weight, Sessions, SessionSet, Charged

LEMMA DeclaredIs ==
  ASSUME uploads \in [Ids -> Sessions], NEW state \in Charged
  PROVE  Declared(In(state)) = Total(uploads, state)
<1>1. PICK f, g, T : /\ f = [i \in Ids |-> uploads[i].expected] /\ g = Weights(uploads, state)
                     /\ T = In(state)
  OBVIOUS
<1>2. T \in SUBSET Ids /\ \A i \in Ids : i \in T <=> uploads[i].state = state
  BY <1>1 DEF In
<1>3. \A i \in T : f[i] \in Nat
  BY <1>1, <1>2, WeightIs
<1>4. \A i \in Ids : g[i] = IF i \in T THEN f[i] ELSE 0
  BY <1>1, <1>2 DEF Weights, Weight
<1>5. SumFunctionOnSet(f, T) = SumFunctionOnSet(g, Ids)
  BY <1>2, <1>3, <1>4, IdsFinite, SumMasked
<1> QED
  BY <1>1, <1>5 DEF Declared, Total

\* One upload changes.
LEMMA TotalMoves ==
  ASSUME NEW u \in [Ids -> Sessions], NEW v \in [Ids -> Sessions], NEW i \in Ids,
         \A j \in Ids : j # i => v[j] = u[j], NEW state \in Charged
  PROVE  /\ Total(u, state) \in Nat /\ Total(v, state) \in Nat
         /\ Weight(u[i], state) <= Total(u, state)
         /\ Total(v, state) = Total(u, state) - Weight(u[i], state) + Weight(v[i], state)
<1>1. PICK f, g : f = Weights(u, state) /\ g = Weights(v, state)
  OBVIOUS
<1>2. \A j \in Ids : f[j] \in Nat /\ g[j] \in Nat
  BY <1>1, WeightIs DEF Weights
<1>3. \A j \in Ids : j # i => f[j] = g[j]
  BY <1>1 DEF Weights
<1>4. f[i] = Weight(u[i], state) /\ g[i] = Weight(v[i], state)
  BY <1>1 DEF Weights
<1>5. SumFunctionOnSet(g, Ids) = SumFunctionOnSet(f, Ids) - f[i] + g[i]
  BY <1>2, <1>3, IdsFinite, SumChange
<1>6. /\ SumFunctionOnSet(f, Ids) = f[i] + SumFunctionOnSet(f, Ids \ {i})
      /\ SumFunctionOnSet(f, Ids) \in Nat /\ SumFunctionOnSet(f, Ids \ {i}) \in Nat
  BY <1>2, IdsFinite, SumRemove
<1>7. SumFunctionOnSet(g, Ids) \in Nat
  BY <1>2, IdsFinite, SumRemove
<1>8. Total(u, state) = SumFunctionOnSet(f, Ids) /\ Total(v, state) = SumFunctionOnSet(g, Ids)
  BY <1>1 DEF Total
<1> QED
  BY <1>2, <1>4, <1>5, <1>6, <1>7, <1>8

Charges ==
  /\ quota.reserved = Total(uploads, "open") + leaked
  /\ expired = {} => quota.used = Total(uploads, "completed")

ChargesInv == PushInv /\ Charges

\* What one step may do to one upload, the quota and what the janitor took away.
Recharges(i) ==
  /\ \A j \in Ids : j # i => uploads'[j] = uploads[j]
  /\ quota'.reserved - leaked' - Weight(uploads'[i], "open")
       = quota.reserved - leaked - Weight(uploads[i], "open")
  /\ expired' = {} =>
       /\ expired = {}
       /\ quota'.used - Weight(uploads'[i], "completed")
            = quota.used - Weight(uploads[i], "completed")

LEMMA RechargesKeep ==
  ASSUME ChargesInv, PushInv', NEW i \in Ids, Recharges(i)
  PROVE  ChargesInv'
<1>1. PICK u, v : u = uploads /\ v = uploads'
  OBVIOUS
<1>2. u \in [Ids -> Sessions] /\ v \in [Ids -> Sessions]
  BY <1>1 DEF ChargesInv, PushInv, ServerOK, Sessions
<1>3. leaked \in Nat /\ leaked' \in Nat /\ quota \in QuotaSet /\ quota' \in QuotaSet
  BY DEF ChargesInv, PushInv, ServerOK
<1>4. \A j \in Ids : j # i => v[j] = u[j]
  BY <1>1 DEF Recharges
<1>5. "open" \in Charged /\ "completed" \in Charged
  BY DEF Charged
<1>6. ASSUME NEW state \in Charged
      PROVE  /\ Total(u, state) \in Nat /\ Total(v, state) \in Nat
             /\ Total(v, state) = Total(u, state) - Weight(u[i], state) + Weight(v[i], state)
             /\ Weight(u[i], state) \in Nat /\ Weight(v[i], state) \in Nat
  BY <1>2, <1>4, TotalMoves, WeightIs
<1>7. quota'.reserved = Total(v, "open") + leaked'
  <2>1. PICK q, p, l, k, t, s, a, b :
          /\ q = quota.reserved /\ p = quota'.reserved /\ l = leaked /\ k = leaked'
          /\ t = Total(u, "open") /\ s = Total(v, "open")
          /\ a = Weight(u[i], "open") /\ b = Weight(v[i], "open")
    OBVIOUS
  <2>2. q \in Nat /\ p \in Nat /\ l \in Nat /\ k \in Nat
    BY <1>3, <2>1 DEF QuotaSet
  <2>3. t \in Nat /\ s \in Nat /\ s = t - a + b /\ a \in Nat /\ b \in Nat
    BY <1>5, <1>6, <2>1
  <2>4. q = t + l
    BY <1>1, <2>1 DEF ChargesInv, Charges
  <2>5. p - k - b = q - l - a
    BY <1>1, <2>1 DEF Recharges
  <2>6. p = s + k
    BY <2>2, <2>3, <2>4, <2>5
  <2> QED
    BY <2>1, <2>6
<1>8. ASSUME expired' = {} PROVE quota'.used = Total(v, "completed")
  <2>1. PICK q, p, t, s, a, b :
          /\ q = quota.used /\ p = quota'.used
          /\ t = Total(u, "completed") /\ s = Total(v, "completed")
          /\ a = Weight(u[i], "completed") /\ b = Weight(v[i], "completed")
    OBVIOUS
  <2>2. q \in Nat /\ p \in Nat
    BY <1>3, <2>1 DEF QuotaSet
  <2>3. t \in Nat /\ s \in Nat /\ s = t - a + b /\ a \in Nat /\ b \in Nat
    BY <1>5, <1>6, <2>1
  <2>4. q = t
    BY <1>1, <1>8, <2>1 DEF ChargesInv, Charges, Recharges
  <2>5. p - b = q - a
    BY <1>1, <1>8, <2>1 DEF Recharges
  <2>6. p = s
    BY <2>2, <2>3, <2>4, <2>5
  <2> QED
    BY <2>1, <2>6
<1> QED
  BY <1>1, <1>7, <1>8 DEF ChargesInv, Charges

\* Where the uploads and the quota stay, so does what is charged.
LEMMA NothingCharged ==
  ASSUME ChargesInv, PushInv', uploads' = uploads, quota' = quota, leaked' = leaked,
         expired \subseteq expired'
  PROVE  ChargesInv'
<1>1. Total(uploads, "open")' = Total(uploads, "open")
  BY DEF Total, Weights, Weight
<1>2. Total(uploads, "completed")' = Total(uploads, "completed")
  BY DEF Total, Weights, Weight
<1> QED
  BY <1>1, <1>2 DEF ChargesInv, Charges

\* An upload that is open is paid for.
LEMMA OpenPaid ==
  ASSUME ChargesInv, NEW i \in Ids, uploads[i].state = "open"
  PROVE  uploads[i].expected \in Nat /\ uploads[i].expected <= quota.reserved
<1>1. PICK u : u = uploads /\ u \in [Ids -> Sessions]
  BY DEF ChargesInv, PushInv, ServerOK, Sessions
<1>2. "open" \in Charged
  BY DEF Charged
<1>3. PICK w : w = Weight(u[i], "open") /\ w = uploads[i].expected /\ w \in Nat
  BY <1>1, <1>2, WeightIs DEF Weight
<1>4. Total(u, "open") \in Nat /\ w <= Total(u, "open")
  BY <1>1, <1>2, <1>3, TotalMoves
<1>5. leaked \in Nat /\ quota.reserved = Total(u, "open") + leaked
  BY <1>1 DEF ChargesInv, Charges, PushInv, ServerOK
<1> QED
  BY <1>3, <1>4, <1>5

LEMMA QuotaTells ==
  ASSUME NEW q \in QuotaSet, NEW n \in Nat
  PROVE  /\ Reserve(q, n).reserved = q.reserved + n /\ Reserve(q, n).used = q.used
         /\ Release(q, n).reserved = q.reserved - n /\ Release(q, n).used = q.used
         /\ Commit(q, n, n).reserved = q.reserved - n /\ Commit(q, n, n).used = q.used + n
         /\ n <= q.reserved => CanRelease(q, n) /\ CanCommit(q, n, n)
BY DEF Reserve, Release, Commit, QuotaSet, CanRelease, CanCommit

LEMMA WeightsAre ==
  ASSUME NEW s, NEW n
  PROVE  /\ s.state \notin Charged => Weight(s, "open") = 0 /\ Weight(s, "completed") = 0
         /\ s.state = "open" => Weight(s, "open") = s.expected /\ Weight(s, "completed") = 0
         /\ s.state = "completed" => Weight(s, "open") = 0 /\ Weight(s, "completed") = s.expected
         /\ Weight(NoSession, "open") = 0 /\ Weight(NoSession, "completed") = 0
         /\ Weight(NewUploadSession(n), "open") = n /\ Weight(NewUploadSession(n), "completed") = 0
BY DEF Weight, Charged, NoSession, NewUploadSession

\* The requests that change no upload.
LEMMA RefusalCharges ==
  ASSUME ChargesInv, PushInv', UNCHANGED server
  PROVE  ChargesInv'
<1>1. uploads' = uploads /\ quota' = quota /\ leaked' = leaked /\ expired' = expired
  BY DEF server
<1> QED
  BY <1>1, NothingCharged

LEMMA StartCharges ==
  ASSUME ChargesInv, PushInv', NEW m \in flight, StartUpload(m)
  PROVE  ChargesInv'
<1>1. PICK c, size : c = m.from /\ size = Len(Content[c])
  OBVIOUS
<1>2. c \in Client /\ size \in Nat
  <2>1. c \in Client
    BY <1>1 DEF ChargesInv, PushInv, FlightOK, RequestOK
  <2> QED
    BY <1>1, <2>1, Sizes DEF Size
<1>3. ASSUME minted < Len(Id), minted' = minted + 1,
             uploads' = [uploads EXCEPT ![Id[minted']] = NewUploadSession(size)],
             quota' = Reserve(quota, size), UNCHANGED <<expired, blobs, files, leaked>>
      PROVE  ChargesInv'
  <2>0. PICK n : n = minted /\ n \in 0..Len(Id) /\ n + 1 \in 1..Len(Id) /\ minted' = n + 1
    <3>1. minted \in 0..Len(Id)
      BY DEF ChargesInv, PushInv, ServerOK
    <3> QED
      BY <1>3, <3>1, Drawn
  <2>1. PICK i : /\ n = minted /\ n \in 0..Len(Id) /\ n + 1 \in 1..Len(Id)
                 /\ minted' = n + 1 /\ i = Id[n + 1] /\ i \in Ids
    BY <2>0, Drawn
  <2>2. i \notin Minted
    <3>1. ASSUME NEW k \in 1..n PROVE Id[k] # i
      <4>1. k \in 1..Len(Id) /\ k # n + 1
        BY <2>1, Drawn
      <4> QED
        BY <2>1, <4>1, Drawn
    <3> QED
      BY <2>1, <3>1 DEF Minted
  <2>3. uploads[i] = NoSession /\ uploads \in [Ids -> SessionSet \union {NoSession}]
    BY <2>1, <2>2 DEF ChargesInv, PushInv, ServerOK
  <2>4. /\ uploads'[i] = NewUploadSession(size)
        /\ \A j \in Ids : j # i => uploads'[j] = uploads[j]
    BY <1>3, <2>1, <2>3
  <2>5. PICK q, r, l : q = quota.reserved /\ r = quota.used /\ l = leaked
                       /\ q \in Nat /\ r \in Nat /\ l \in Nat
    BY DEF ChargesInv, PushInv, ServerOK, QuotaSet
  <2>6. quota'.reserved = q + size /\ quota'.used = r
    BY <1>2, <1>3, <2>5, QuotaTells DEF ChargesInv, PushInv, ServerOK
  <2>8. /\ Weight(uploads[i], "open") = 0 /\ Weight(uploads'[i], "open") = size
        /\ Weight(uploads[i], "completed") = 0 /\ Weight(uploads'[i], "completed") = 0
    BY <2>3, <2>4, WeightsAre
  <2>9. leaked' = l /\ expired' = expired
    BY <1>3, <2>5
  <2>10. Recharges(i)
    <3>1. quota'.reserved - leaked' - Weight(uploads'[i], "open")
            = quota.reserved - leaked - Weight(uploads[i], "open")
      <4>1. PICK p, k, w, v : /\ p = quota'.reserved /\ k = leaked'
                              /\ w = Weight(uploads'[i], "open") /\ v = Weight(uploads[i], "open")
        OBVIOUS
      <4>2. p = q + size /\ k = l /\ w = size /\ v = 0
        BY <2>5, <2>6, <2>8, <2>9, <4>1
      <4>3. p - k - w = q - l - v
        BY <1>2, <2>5, <4>2
      <4> QED
        BY <2>5, <4>1, <4>3
    <3>2. quota'.used - Weight(uploads'[i], "completed")
            = quota.used - Weight(uploads[i], "completed")
      BY <2>5, <2>6, <2>8
    <3> QED
      BY <2>4, <2>9, <3>1, <3>2 DEF Recharges
  <2> QED
    BY <2>1, <2>10, RechargesKeep
<1>4. UNCHANGED server => ChargesInv'
  BY RefusalCharges
<1> QED
  BY <1>1, <1>3, <1>4 DEF StartUpload, Refuse

LEMMA PatchCharges ==
  ASSUME ChargesInv, PushInv', NEW m \in flight, PatchUpload(m)
  PROVE  ChargesInv'
<1>1. PICK i, chunk : i = TheUpload(m) /\ chunk = ChunkOf(Piece(m.from, m.piece))
  OBVIOUS
<1>2. m.method = "PATCH"
  BY MethodTells DEF PatchUpload, ChargesInv, PushInv, FlightOK
<1>3. i \in Ids /\ uploads[i] \in SessionSet \union {NoSession}
  BY <1>1, <1>2, Named DEF ChargesInv
<1>4. ASSUME uploads[i] # NoSession, uploads' = [uploads EXCEPT ![i] = RecordChunk(@, chunk)],
             UNCHANGED <<expired, quota, blobs, minted, leaked>>
      PROVE  ChargesInv'
  <2>1. uploads \in [Ids -> SessionSet \union {NoSession}] /\ uploads[i] \in SessionSet
    BY <1>3, <1>4, AbsentOrOpen DEF ChargesInv, PushInv, ServerOK
  <2>2. PICK s, t : s = uploads[i] /\ t = RecordChunk(s, chunk)
    OBVIOUS
  <2>3. /\ uploads'[i] = t /\ \A j \in Ids : j # i => uploads'[j] = uploads[j]
    BY <1>3, <1>4, <2>1, <2>2
  <2>4. t.state = s.state /\ t.expected = s.expected
    BY <2>1, <2>2 DEF RecordChunk, SessionSet
  <2>5. /\ Weight(uploads'[i], "open") = Weight(uploads[i], "open")
        /\ Weight(uploads'[i], "completed") = Weight(uploads[i], "completed")
    BY <2>2, <2>3, <2>4 DEF Weight
  <2>6. Recharges(i)
    BY <1>4, <2>3, <2>5 DEF Recharges
  <2> QED
    BY <1>3, <2>6, RechargesKeep
<1>5. UNCHANGED server => ChargesInv'
  BY RefusalCharges
<1>6. UNCHANGED uploads /\ UNCHANGED <<expired, quota, blobs, minted, leaked>> => ChargesInv'
  BY NothingCharged
<1> QED
  BY <1>1, <1>4, <1>5, <1>6 DEF PatchUpload, Refuse

\* An upload ends that was open, and what was reserved for it is released or used.
LEMMA EndCharges ==
  ASSUME ChargesInv, PushInv', NEW i \in Ids, NEW t, NEW size \in Nat,
         uploads[i].state = "open", uploads[i].expected = size,
         uploads' = [uploads EXCEPT ![i] = t], t.state # "completed" => t.state \notin Charged,
         t.state = "completed" => t.expected = size,
         quota' = IF t.state = "completed"
                  THEN IF CanCommit(quota, size, size) THEN Commit(quota, size, size) ELSE quota
                  ELSE IF CanRelease(quota, size) THEN Release(quota, size) ELSE quota,
         expired' = expired, leaked' = leaked
  PROVE  ChargesInv'
<1>1. uploads'[i] = t /\ \A j \in Ids : j # i => uploads'[j] = uploads[j]
  BY DEF ChargesInv, PushInv, ServerOK
<1>2. PICK q, r, l : q = quota.reserved /\ r = quota.used /\ l = leaked
                     /\ q \in Nat /\ r \in Nat /\ l \in Nat /\ size <= q
  BY OpenPaid DEF ChargesInv, PushInv, ServerOK, QuotaSet
<1>3. /\ CanRelease(quota, size) /\ CanCommit(quota, size, size)
      /\ Release(quota, size).reserved = q - size /\ Release(quota, size).used = r
      /\ Commit(quota, size, size).reserved = q - size /\ Commit(quota, size, size).used = r + size
  <2>1. quota \in QuotaSet
    BY DEF ChargesInv, PushInv, ServerOK
  <2> QED
    BY <1>2, <2>1, QuotaTells
<1>4. Weight(uploads[i], "open") = size /\ Weight(uploads[i], "completed") = 0
  BY WeightsAre
<1>5. CASE t.state = "completed"
  <2>1. quota' = Commit(quota, size, size)
    BY <1>3, <1>5
  <2>2. quota'.reserved = q - size /\ quota'.used = r + size
    BY <1>3, <2>1
  <2>3. Weight(uploads'[i], "open") = 0 /\ Weight(uploads'[i], "completed") = size
    BY <1>1, <1>5, WeightsAre
  <2>4. q - size - l - 0 = q - l - size /\ r + size - size = r - 0
    BY <1>2
  <2>5. Recharges(i)
    BY <1>1, <1>2, <1>4, <2>2, <2>3, <2>4 DEF Recharges
  <2> QED
    BY <2>5, RechargesKeep
<1>6. CASE t.state # "completed"
  <2>1. quota' = Release(quota, size)
    BY <1>3, <1>6
  <2>2. quota'.reserved = q - size /\ quota'.used = r
    BY <1>3, <2>1
  <2>3. Weight(uploads'[i], "open") = 0 /\ Weight(uploads'[i], "completed") = 0
    BY <1>1, <1>6, WeightsAre
  <2>4. q - size - l - 0 = q - l - size
    BY <1>2
  <2>5. Recharges(i)
    BY <1>1, <1>2, <1>4, <2>2, <2>3, <2>4 DEF Recharges
  <2> QED
    BY <2>5, RechargesKeep
<1> QED
  BY <1>5, <1>6

LEMMA CompleteCharges ==
  ASSUME ChargesInv, PushInv', NEW m \in flight, CompleteUpload(m)
  PROVE  ChargesInv'
<1>1. PICK i, c, size, s : i = TheUpload(m) /\ c = m.from /\ size = Len(Content[c]) /\ s = uploads[i]
  OBVIOUS
<1>2. m.method = "PUT" /\ PushInv
  BY MethodTells DEF CompleteUpload, ChargesInv, PushInv, FlightOK
<1>3. i \in Ids /\ c \in Client /\ uploads[i] \in SessionSet \union {NoSession} /\ UploadOK(c, i)
  BY <1>1, <1>2, Named
<1>4. size \in Nat /\ size = Size(c)
  BY <1>1, <1>3, Sizes DEF Size
<1>5. ASSUME s # NoSession, Finalizable(s, i \in expired)
      PROVE  s \in SessionSet /\ s.state = "open" /\ s.expected = size
  <2>1. s.state = "open"
    BY <1>1, <1>2, <1>5, CompletesIf
  <2> QED
    BY <1>1, <1>3, <1>4, <1>5, <2>1 DEF UploadOK
<1>6. ASSUME s # NoSession, Finalizable(s, i \in expired),
             uploads' = [uploads EXCEPT ![i] = Abort(Finalize(s))],
             quota' = IF CanRelease(quota, size) THEN Release(quota, size) ELSE quota,
             UNCHANGED <<expired, blobs, files, minted, leaked>>
      PROVE  ChargesInv'
  <2>1. PICK t : t = Abort(Finalize(s)) /\ t.state = "aborted"
    BY <1>5, <1>6, SettleIs
  <2>2. t.state \notin Charged /\ t.state # "completed"
    BY <2>1 DEF Charged
  <2> QED
    BY <1>1, <1>3, <1>4, <1>5, <1>6, <2>1, <2>2, EndCharges
<1>7. ASSUME s # NoSession, Finalizable(s, i \in expired),
             uploads' = [uploads EXCEPT ![i] = Complete(Finalize(s))],
             quota' = IF CanCommit(quota, size, size) THEN Commit(quota, size, size) ELSE quota,
             UNCHANGED <<expired, minted, leaked>>
      PROVE  ChargesInv'
  <2>1. PICK t : t = Complete(Finalize(s)) /\ t.state = "completed" /\ t.expected = size
    BY <1>5, <1>7, SettleIs
  <2> QED
    BY <1>1, <1>3, <1>4, <1>5, <1>7, <2>1, EndCharges
<1>8. UNCHANGED server => ChargesInv'
  BY RefusalCharges
<1> QED
  BY <1>1, <1>6, <1>7, <1>8 DEF CompleteUpload, Refuse

\* Where no upload is aborted whose completion was asked for, an aborted one was open.
LEMMA AbortCharges ==
  ASSUME ChargesInv, PushInv', NEW m \in flight, AbortUpload(m), Tidy
  PROVE  ChargesInv'
<1>1. PICK i, c, size : i = TheUpload(m) /\ c = m.from /\ size = Len(Content[c])
  OBVIOUS
<1>2. m.method = "DELETE" /\ RequestOK(m) /\ PushInv
  BY MethodTells DEF AbortUpload, ChargesInv, PushInv, FlightOK
<1>3. i \in Ids /\ c \in Client /\ uploads[i] \in SessionSet \union {NoSession} /\ UploadOK(c, i)
  BY <1>1, <1>2, Named
<1>4. size \in Nat /\ size = Size(c) /\ ~client[c].asked
  BY <1>1, <1>2, <1>3, Sizes DEF Size, RequestOK
<1>5. ASSUME uploads[i] # NoSession,
             quota' = IF CanRelease(quota, size) THEN Release(quota, size) ELSE quota,
             uploads' = [uploads EXCEPT ![i] = NoSession],
             UNCHANGED <<expired, blobs, minted, leaked>>
      PROVE  ChargesInv'
  <2>1. uploads[i].state = "open" /\ uploads[i].expected = size
    BY <1>3, <1>4, <1>5 DEF UploadOK
  <2>2. PICK t : t = NoSession /\ t.state \notin Charged
    <3>1. NoSession.state = "none"
      BY DEF NoSession
    <3> QED
      BY <3>1 DEF Charged
  <2>3. t.state # "completed"
    BY <2>2 DEF Charged
  <2> QED
    BY <1>3, <1>4, <1>5, <2>1, <2>2, <2>3, EndCharges
<1>6. UNCHANGED server => ChargesInv'
  BY RefusalCharges
<1> QED
  BY <1>1, <1>5, <1>6 DEF AbortUpload, Refuse

\* What the janitor takes away stays reserved.
LEMMA JanitorCharges ==
  ASSUME ChargesInv, PushInv', NEW i \in Ids, RunJanitor(i)
  PROVE  ChargesInv'
<1>1. /\ uploads'[i] = NoSession /\ \A j \in Ids : j # i => uploads'[j] = uploads[j]
  BY DEF RunJanitor, ChargesInv, PushInv, ServerOK
<1>2. PICK q, l : q = quota.reserved /\ l = leaked /\ q \in Nat /\ l \in Nat
  BY DEF ChargesInv, PushInv, ServerOK, QuotaSet
<1>3. expired' # {} /\ quota' = quota
  BY DEF RunJanitor
<1>4. /\ Weight(uploads'[i], "open") = 0
      /\ Weight(uploads[i], "open") = IF uploads[i].state = "open" THEN uploads[i].expected ELSE 0
  BY <1>1, WeightsAre DEF Weight
<1>5. CASE uploads[i].state = "open"
  <2>1. PICK w : w = uploads[i].expected /\ w \in Nat
    BY <1>5, OpenPaid
  <2>2. leaked' = l + w
    BY <1>2, <1>5, <2>1 DEF RunJanitor
  <2>3. q - (l + w) - 0 = q - l - w
    BY <1>2, <2>1
  <2>4. Recharges(i)
    BY <1>1, <1>2, <1>3, <1>4, <1>5, <2>1, <2>2, <2>3 DEF Recharges
  <2> QED
    BY <2>4, RechargesKeep
<1>6. CASE uploads[i].state # "open"
  <2>1. leaked' = leaked
    BY <1>6 DEF RunJanitor
  <2>2. Recharges(i)
    BY <1>1, <1>3, <1>4, <1>6, <2>1 DEF Recharges
  <2> QED
    BY <2>2, RechargesKeep
<1> QED
  BY <1>5, <1>6

LEMMA ChargesInit == Init => ChargesInv
<1> SUFFICES ASSUME Init PROVE ChargesInv
  OBVIOUS
<1>1. \A state \in Charged : \A i \in Ids : Weights(uploads, state)[i] = 0
  BY DEF Init, Weights, Weight, NoSession, Charged
<1>2. "open" \in Charged /\ "completed" \in Charged
  BY DEF Charged
<1>3. Total(uploads, "open") = 0 /\ Total(uploads, "completed") = 0
  BY <1>1, <1>2, IdsFinite, SumZero DEF Total
<1>4. quota.reserved = 0 /\ quota.used = 0 /\ leaked = 0
  BY DEF Init, NewQuota
<1> QED
  BY <1>3, <1>4, PushInit DEF ChargesInv, Charges

LEMMA ChargesNext == Tidy /\ ChargesInv /\ [Next]_vars => ChargesInv'
<1> SUFFICES ASSUME Tidy, ChargesInv, [Next]_vars PROVE ChargesInv'
  OBVIOUS
<1>1. PushInv'
  BY PushNext DEF ChargesInv
<1>2. CASE \E c \in Client : Send(c) \/ Timeout(c) \/ GiveUp(c) \/ Receive(c)
  <2>1. UNCHANGED server
    BY <1>2 DEF Send, Timeout, GiveUp, Receive
  <2> QED
    BY <1>1, <2>1, RefusalCharges
<1>3. CASE \E m \in flight : Handle(m)
  BY <1>1, <1>3, StartCharges, PatchCharges, CompleteCharges, AbortCharges DEF Handle
<1>4. CASE \E m \in flight : Lose(m)
  <2>1. UNCHANGED server
    BY <1>4 DEF Lose
  <2> QED
    BY <1>1, <2>1, RefusalCharges
<1>5. CASE \E i \in Ids : Expire(i)
  BY <1>1, <1>5, NothingCharged DEF Expire
<1>6. CASE \E i \in Ids : RunJanitor(i)
  BY <1>1, <1>6, JanitorCharges
<1>7. CASE UNCHANGED vars
  BY <1>1, <1>7, RefusalCharges DEF vars
<1> QED
  BY <1>2, <1>3, <1>4, <1>5, <1>6, <1>7 DEF Next

\* Whatever is sent again and arrives late, the tenant is charged once: what is
\* reserved is what was declared for the open uploads and for those the janitor
\* took away (router.go 162, 192, 215, janitor.go 34); so is what is used, while the
\* sessions are kept (registry.go 219).
THEOREM ChargesHold == ASSUME Tidy PROVE Spec => []ChargedOnce
<1>1. ChargesInv => ChargedOnce
  <2> SUFFICES ASSUME ChargesInv PROVE ChargedOnce
    OBVIOUS
  <2>1. uploads \in [Ids -> Sessions] /\ "open" \in Charged /\ "completed" \in Charged
    BY DEF ChargesInv, PushInv, ServerOK, Sessions, Charged
  <2> QED
    BY <2>1, DeclaredIs DEF ChargesInv, Charges, ChargedOnce, ReservedOnce
<1>2. Init => ChargesInv
  BY ChargesInit
<1>3. ChargesInv /\ [Next]_vars => ChargesInv'
  BY ChargesNext
<1> QED
  BY <1>1, <1>2, <1>3, PTL DEF Spec
===============================================================================
