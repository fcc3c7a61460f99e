\* Pushes, tag moves and policy changes while a collection runs and pages through tags.
CONSTANTS
  p1 = p1
  p2 = p2
  c1 = c1
  r1 = r1
  r2 = r2
  layer = layer
  image = image
  second = second
  index = index
  Proc <- Procs1
  Collector <- Collectors
  Repo <- Repos1
  Tag <- Tags2
  Layer <- Layers0
  Manifest <- ManifestsTwo
  Refs <- RefsNone
  Policy <- KeepOne
  PageLimit = 1
  ScanResult <- NoStatus
  MaxTime = 1
  MaxVersion = 1
  Events <- CollectingByPolicy
  Overlapping = TRUE
  None = None
SPECIFICATION FairSpec
CHECK_DEADLOCK FALSE
PROPERTIES
  KeepLastHonoured
  CollectionEnds
