\* Two requests and two workers of the coordinator copy one task; leases end while they copy.
CONSTANTS
  p1 = p1
  p2 = p2
  p3 = p3
  w1 = w1
  w2 = w2
  i1 = i1
  t1 = t1
  t2 = t2
  Runner <- Runners2
  Worker <- Workers2
  Id <- Ids1
  Target <- Targets1
  Lease = 2
  LongLease = 3
  MaxTime = 6
  MaxAttempts = 4
  MaxVersion = 6
  Recreation = FALSE
  Prompt = TRUE
  None = None
SPECIFICATION CopySpec
CHECK_DEADLOCK FALSE
SYMMETRY Symmetry
INVARIANTS
  LeaseExcludes
  CopyExcludes
PROPERTIES
  SuccessIsFinal
  EndedByClaimant
  ClaimReported
