\* One request at a time, every operation.
CONSTANTS
  p1 = p1
  p2 = p2
  c1 = c1
  r1 = r1
  r2 = r2
  layer = layer
  image = image
  second = second
  index = index
  Proc <- Procs1
  Collector <- Collectors
  Repo <- Repos1
  Tag <- Tags2
  Layer <- Layers1
  Manifest <- ManifestsIndex
  Refs <- RefsSharing
  Policy <- KeepEither
  PageLimit = 2
  ScanResult <- Pending
  MaxTime = 1
  MaxVersion = 2
  Events <- Everything
  Overlapping = FALSE
  None = None
SPECIFICATION Spec
CHECK_DEADLOCK FALSE
INVARIANTS
  ReferencesStored
  TagsResolve
PROPERTIES
  ImmutableTagsStay
  CollectionKeepsTags
