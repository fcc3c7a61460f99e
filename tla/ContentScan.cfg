\* A manifest is pushed and its scan passes, one request at a time.
CONSTANTS
  p1 = p1
  p2 = p2
  c1 = c1
  r1 = r1
  r2 = r2
  layer = layer
  image = image
  second = second
  index = index
  Proc <- Procs1
  Collector <- NoCollectors
  Repo <- Repos1
  Tag <- Tags1
  Layer <- Layers1
  Manifest <- ManifestsOne
  Refs <- RefsOne
  Policy <- NoPolicies
  PageLimit = 1
  ScanResult <- Passed
  MaxTime = 0
  MaxVersion = 1
  Events <- Scanning
  Overlapping = FALSE
  None = None
SPECIFICATION Spec
CHECK_DEADLOCK FALSE
INVARIANT PassedScanReleases
