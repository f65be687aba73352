\* The same messages, against what the schema document says of the catalog.
SPECIFICATION Spec
CONSTANTS
  Plant = {w}
  Point = {p}
  Device = {d}
  Key = {1, 2, 3}
  Metric = {"cod", "ph"}
  Lower <- MCLower
  Value = {v1, v2}
  NotNumeric = bad
  Shape <- MixedShapes
  Time <- MCTime
  NoTime = none
  Receipt = {0, 2}
  Interval = {1, 2}
  AlignMode = {"floor"}
  RawId = {1, 2}
INVARIANT CatalogIsLatestRow
CHECK_DEADLOCK FALSE
