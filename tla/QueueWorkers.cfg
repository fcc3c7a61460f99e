\* Every operation by two goroutines and two workers; safety only.
CONSTANTS
  p1 = p1
  p2 = p2
  w1 = w1
  w2 = w2
  t1 = t1
  t2 = t2
  Caller <- Callers2
  Worker <- Workers2
  Task <- Tasks2
  Capacity = 2
  MaxQueued = 2
  Cancelled = TRUE
  Orderly = FALSE
  None = None
SPECIFICATION Spec
CHECK_DEADLOCK FALSE
SYMMETRY Symmetry
INVARIANTS
  TypeOK
  NothingLost
  StopsClean
