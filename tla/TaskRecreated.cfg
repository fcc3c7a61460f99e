\* The id of a running task is used again.
CONSTANTS
  p1 = p1
  p2 = p2
  p3 = p3
  w1 = w1
  w2 = w2
  i1 = i1
  t1 = t1
  t2 = t2
  Runner <- Runners2
  Worker <- Nobody
  Id <- Ids1
  Target <- Targets1
  Lease = 2
  LongLease = 3
  MaxTime = 2
  MaxAttempts = 4
  MaxVersion = 1
  Prompt = TRUE
  Recreation = TRUE
  None = None
SPECIFICATION CopySpec
CHECK_DEADLOCK FALSE
INVARIANT LeaseExcludes
