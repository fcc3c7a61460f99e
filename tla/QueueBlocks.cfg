\* The context is cancelled while a caller drains.
CONSTANTS
  p1 = p1
  p2 = p2
  w1 = w1
  w2 = w2
  t1 = t1
  t2 = t2
  Caller <- Callers2
  Worker <- Workers1
  Task <- Tasks2
  Capacity = 1
  MaxQueued = 2
  Cancelled = TRUE
  Orderly = TRUE
  None = None
SPECIFICATION FairSpec
CHECK_DEADLOCK FALSE
PROPERTY HandsOff
