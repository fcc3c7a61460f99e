------------------------------- MODULE Uploader -------------------------------
(***************************************************************************)
(* Package uploader: a session's chunks and the writer that assembles      *)
(* them (uploader/session.go, writer.go).  Nothing in src/ uses the        *)
(* package; its caller here registers a chunk's reader with the writer     *)
(* and, if it is not refused, records the chunk in the session.  Contents  *)
(* and expiry are left out.                                                *)
(***************************************************************************)
EXTENDS Integers, SequencesExt

CONSTANTS MaxByte, MaxChunks

\* The session of the domain, with ContiguousEnd by its meaning.
Domain == INSTANCE UploadSession

VARIABLES
  chunks,  \* s.Chunks
  parts    \* the offsets of w.parts

vars == <<chunks, parts>>

Init == chunks = <<>> /\ parts = {}

\* Writer.Add refuses a part at an offset that has one.
Add(start, end) ==
  /\ start <= end /\ Len(chunks) < MaxChunks
  /\ start \notin parts
  /\ parts' = parts \union {start}
  /\ chunks' = Append(chunks, [start |-> start, end |-> end])

\* Writer.Remove; ChunkAt finds what goes.
Unregister(start) ==
  /\ start \in parts
  /\ parts' = parts \ {start}
  /\ chunks' = RemoveFirst(chunks, SelectSeq(chunks, LAMBDA c : c.start = start)[1])

Next == \E start, end \in 0..MaxByte : Add(start, end) \/ Unregister(start)

Spec == Init /\ [][Next]_vars

-----------------------------------------------------------------------------

\* An order of the positions in which the starts ascend.
Sorts(p) == \A j, k \in DOMAIN chunks : j < k => chunks[p[j]].start <= chunks[p[k]].start

Sorted ==
  LET p == CHOOSE q \in Bijection(DOMAIN chunks, DOMAIN chunks) : Sorts(q)
  IN  [k \in DOMAIN chunks |-> chunks[p[k]]]

\* Seeded fault: the next chunk must begin at the end, not behind it.
ExtendAtEnd(end, c) == IF c.start > end THEN end ELSE Max({end, c.end})

\* The loop breaks at a gap: no chunk after it begins earlier.
Extend(end, c) == IF c.start > end + 1 THEN end ELSE Max({end, c.end})

ContiguousEnd == IF chunks = <<>> THEN -1 ELSE FoldLeft(Extend, -1, Sorted)

HasOverlap ==
  \E i, j \in DOMAIN chunks : i < j /\ chunks[i].start = chunks[j].start

Overlapping ==
  \E i, j \in DOMAIN chunks :
    i < j /\ chunks[i].start <= chunks[j].end /\ chunks[j].start <= chunks[i].end

-----------------------------------------------------------------------------
(* Properties *)

\* In whatever order chunks come, overlap and go, the loop finds the end of what
\* is covered from byte 0 without a gap, as the session of the domain defines it
\* (session.go 58-74).
PrefixExact ==
  ContiguousEnd = Domain!ContiguousEnd({[range |-> chunks[k]] : k \in DOMAIN chunks})

\* A session that is found valid has no chunks that overlap (writer.go 15-16).
ValidNeverOverlaps == ~HasOverlap => ~Overlapping
=============================================================================
