\* Close is called while a caller enqueues.
CONSTANTS
  p1 = p1
  p2 = p2
  w1 = w1
  w2 = w2
  t1 = t1
  t2 = t2
  Caller <- Callers2
  Worker <- Workers1
  Task <- Tasks2
  Capacity = 1
  MaxQueued = 2
  Cancelled = FALSE
  Orderly = FALSE
  None = None
SPECIFICATION Spec
CHECK_DEADLOCK FALSE
INVARIANT NeverPanics
