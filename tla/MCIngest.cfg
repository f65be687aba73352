\* Replays, corrections and lost metrics, under settings that change.
SPECIFICATION Spec
CONSTANTS
  Plant = {w}
  Point = {p}
  Device = {d}
  Key = {1, 2, 3}
  Metric = {"cod", "ph"}
  Lower <- MCLower
  Value = {v1, v2}
  NotNumeric = bad
  Shape <- MixedShapes
  Time <- MCTime
  NoTime = none
  Receipt = {0, 2}
  Interval = {1, 2}
  AlignMode = {"floor"}
  RawId = {1, 2}
INVARIANTS
  TypeOK
  OneRowPerObservation
  SamplesMirrorPayload
  CatalogCoversSamples
  LastSeenIsLatest
PROPERTIES
  OriginKept
  ReplayIsNoOp
  ImplementsStore
CHECK_DEADLOCK FALSE
