\* Three uploads of one tenant: completed, cancelled, refused for size or digest, two requests at a time.
CONSTANTS
  p1 = p1
  p2 = p2
  u1 = u1
  u2 = u2
  u3 = u3
  r1 = r1
  r2 = r2
  Proc <- Procs2
  Id <- Ids3
  Repo <- Repos1
  Inode <- Inodes
  Byte <- BytesAB
  Zero = "0"
  Piece <- PiecesOne
  Payload <- PayloadBoth
  ExpectedSize <- Sizes1
  Limit <- Limit2
  MaxBlobSize = 2
  MaxRestarts = 0
  Events <- Upload
  Overlapping = TRUE
  Cancellation = TRUE
  None = None
SPECIFICATION Spec
CHECK_DEADLOCK FALSE
SYMMETRY Symmetry
INVARIANTS
  QuotaWithinLimit
  UploadsAccounted
PROPERTY QuotaIsAtomic
