\* A second repository of the tenant is created while an upload is running.
CONSTANTS
  p1 = p1
  p2 = p2
  u1 = u1
  u2 = u2
  u3 = u3
  r1 = r1
  r2 = r2
  Proc <- Procs1
  Id <- Ids1
  Repo <- Repos2
  Inode <- Inodes
  Byte <- BytesAB
  Zero = "0"
  Piece <- PiecesOne
  Payload <- PayloadShort
  ExpectedSize <- Sizes1
  Limit <- Limit1
  MaxBlobSize = 2
  MaxRestarts = 0
  Events <- Upload
  Overlapping = FALSE
  Cancellation = FALSE
  None = None
SPECIFICATION Spec
CHECK_DEADLOCK FALSE
INVARIANT UploadsAccounted
