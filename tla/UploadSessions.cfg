\* Two requests at a time on one session: overlapping, expired, aborted, its blob deleted.
CONSTANTS
  p1 = p1
  p2 = p2
  u1 = u1
  u2 = u2
  u3 = u3
  r1 = r1
  r2 = r2
  Proc <- Procs2
  Id <- Ids1
  Repo <- Repos1
  Inode <- Inodes
  Byte <- BytesAB
  Zero = "0"
  Piece <- PiecesAll
  Payload <- PayloadHello
  ExpectedSize <- Sizes2
  Limit <- Limit2
  MaxBlobSize = 2
  MaxRestarts = 0
  Events <- Everything
  Overlapping = TRUE
  Cancellation = FALSE
  None = None
SPECIFICATION Spec
CHECK_DEADLOCK FALSE
INVARIANTS
  TypeOK
  FinalizeExclusive
  ChunksTile
PROPERTY SessionsAdvance
