\* One request at a time; an upload that failed its digest check is then aborted.
CONSTANTS
  p1 = p1
  p2 = p2
  u1 = u1
  u2 = u2
  u3 = u3
  r1 = r1
  r2 = r2
  Proc <- Procs1
  Id <- Ids2
  Repo <- Repos1
  Inode <- Inodes
  Byte <- BytesAB
  Zero = "0"
  Piece <- PiecesOne
  Payload <- PayloadBoth
  ExpectedSize <- Sizes1
  Limit <- Limit1
  MaxBlobSize = 2
  MaxRestarts = 0
  Events <- UploadAbort
  Overlapping = FALSE
  Cancellation = FALSE
  None = None
SPECIFICATION Spec
CHECK_DEADLOCK FALSE
INVARIANT UploadsAccounted
