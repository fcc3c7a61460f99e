\* Two pushes to one tag of a repository with immutable tags.
CONSTANTS
  p1 = p1
  p2 = p2
  c1 = c1
  r1 = r1
  r2 = r2
  layer = layer
  image = image
  second = second
  index = index
  Proc <- Procs2
  Collector <- NoCollectors
  Repo <- Repos1
  Tag <- Tags1
  Layer <- Layers1
  Manifest <- ManifestsTwo
  Refs <- RefsTwo
  Policy <- NoPolicies
  PageLimit = 1
  ScanResult <- NoStatus
  MaxTime = 0
  MaxVersion = 1
  Events <- Pushing
  Overlapping = TRUE
  None = None
SPECIFICATION Spec
CHECK_DEADLOCK FALSE
PROPERTY ImmutableTagsStay
