\* Requests that read.
CONSTANTS
  Parts = {"router"}
  Holder <- Callers2
  Session <- Sessions2
  Bytes = {1, 2}
  Limit = {3}
  MaxRecords = 6
  MaxRenewals = 1
  Careful = TRUE
  Caller <- Callers2
  Owner <- Owners2
  OwnerOf <- Each
  Id <- Ids1
  Ttl <- Sizes
  MaxTime = 4
  None = None
  Digest <- Three
  Contents <- Acyclic
  Concurrent = FALSE
  MaxAdded = 4
  Tag <- Three
  KeepLast = 1
  PageLimit = 3
  MaxChanges = 5
  MaxByte = 3
  MaxChunks = 4
  Handler <- Three
  Rate = 3
  Window = 3
  Delay = 2
  MaxNow = 6
  Observer <- Callers2
  Amount = {1, 2}
  Cap = 2
  MaxObserved = 4
  Publisher <- Callers2
  MaxCrashes = 2
  MaxFailures = 2
  Names <- PlainNames
  References = {"v1", "tags", "blobs", "manifests", "uploads", "list"}
  p1 = p1
  p2 = p2
  o1 = o1
  o2 = o2
  i1 = i1
  u1 = u1
  u2 = u2
SPECIFICATION LibrarySpec
CHECK_DEADLOCK FALSE
INVARIANT ReadsArrive
