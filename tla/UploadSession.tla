---------------------------- MODULE UploadSession ----------------------------
(***************************************************************************)
(* The resumable upload of domain/upload.go: a session record, the chunks  *)
(* recorded in it, and the rules under which a chunk is accepted and the   *)
(* session is finalized.  Every operator is a pure function of a record;   *)
(* the stores that hold the records are in module UploadService.           *)
(***************************************************************************)
EXTENDS Integers, FiniteSets, Sequences

\* An upload started without "expectedSize" (a nil *int64 in the code).
NoSize == -1

\* What the store returns for an identifier it does not hold.
NoSession == [state |-> "none", chunks |-> {}, expected |-> NoSize, version |-> 0]

NewUploadSession(expected) ==
  [state |-> "open", chunks |-> {}, expected |-> expected, version |-> 1]

\* SHA-256 taken as collision-free: two digests are equal iff their contents are.
DigestBytes(content) == [sha256 |-> content]

\* The inclusive byte range of a piece of content that starts at an offset.
RangeOf(piece) == [start |-> piece.start, end |-> piece.start + Len(piece.bytes) - 1]

Length(r) == r.end - r.start + 1

Overlaps(r, other) == r.start <= other.end /\ other.start <= r.end

\* A chunk keeps the range and the digest of what was sent, never the bytes.
ChunkOf(piece) == [range |-> RangeOf(piece), digest |-> DigestBytes(piece.bytes)]

HasExactChunk(s, chunk) == chunk \in s.chunks

\* Seeded fault: only a repeated start offset counts as an overlap.
ConflictsAtStart(s, chunk) == \E c \in s.chunks : c.range.start = chunk.range.start

Conflicts(s, chunk) == \E c \in s.chunks : Overlaps(c.range, chunk.range)

\* RecordChunk succeeds and appends.  (An exact duplicate is also a success,
\* but UploadChunk has already returned for it on the same session copy.)
CanRecord(s, chunk, expired) ==
  /\ s.state = "open"
  /\ ~expired
  /\ s.expected # NoSize => chunk.range.end < s.expected
  /\ ~Conflicts(s, chunk)

RecordChunk(s, chunk) ==
  [s EXCEPT !.chunks = @ \union {chunk}, !.version = @ + 1]

Covered(chunks, b) == \E c \in chunks : c.range.start <= b /\ b <= c.range.end

\* The end of the gap-free prefix of the recorded chunks, -1 when byte 0 is
\* missing.  The code has the loop that module Uploader folds: PrefixExact there
\* says that it computes this value.
ContiguousEnd(chunks) ==
  LET ends == {-1} \union {c.range.end : c \in chunks}
  IN  CHOOSE e \in ends :
        /\ \A b \in 0..e : Covered(chunks, b)
        /\ \A f \in ends : (\A b \in 0..f : Covered(chunks, b)) => f <= e

CanFinalize(s, size, expired) ==
  /\ s.state = "open"
  /\ ~expired
  /\ s.expected # NoSize => size = s.expected
  /\ \/ size = 0 /\ s.chunks = {}
     \/ ContiguousEnd(s.chunks) = size - 1

Finalize(s) == [s EXCEPT !.state = "finalizing", !.version = @ + 1]

Complete(s) == [s EXCEPT !.state = "completed", !.version = @ + 1]

\* Aborting a completed session changes nothing.
Abort(s) ==
  IF s.state = "completed" THEN s
  ELSE [s EXCEPT !.state = "aborted", !.version = @ + 1]
=============================================================================
