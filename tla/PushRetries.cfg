\* Two clients, one of which sends a wrong byte; a request may be given up and sent again.
CONSTANTS
  c1 = c1
  c2 = c2
  Client <- Clients2
  Content <- Contents
  Claim <- Claims
  Id <- Ids3
  Limit = 4
  MaxFaults = 1
  Tidy = TRUE
  Mounting = TRUE
  Expiring = TRUE
SPECIFICATION FairSpec
CHECK_DEADLOCK FALSE
INVARIANTS
  TypeOK
  ChargedOnce
  CreatedMeansStored
  RefusedForCause
PROPERTY PushSettles
