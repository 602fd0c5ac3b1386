SPECIFICATION Spec
CONSTANTS
  bigFile = bigFile
  bigUrl = bigUrl
  badIndex = badIndex
  bundle = bundle
  Docs <- AllDocs
  Kind <- KindOf
  Large <- LargeOf
  Sidecar <- SidecarOf
  LastTick <- LastTickOf
  Lookahead = 0
  MaxLoads = 2
INVARIANTS ProgressOwned LastToEndIsTold BundleIsWhole
PROPERTIES ExportEnds
CHECK_DEADLOCK FALSE
