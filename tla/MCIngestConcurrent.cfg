\* Two connections that store messages of one device, in two spellings, at once.
SPECIFICATION ConcurrentSpec
CONSTANTS
  Plant = {w}
  Point = {p}
  Device = {d}
  Key = {1, 2, 3}
  Metric = {"cod", "toc"}
  Lower <- MCLower
  Value = {v1}
  NotNumeric = bad
  Shape <- TwoSpellings
  Time <- MCTime
  NoTime = none
  Receipt = {1}
  Interval = {2}
  AlignMode = {"round"}
  RawId = {1, 2, 3}
  Session = {s1, s2}
  MaxCalls = 3
SYMMETRY Interchangeable
INVARIANTS
  ConcurrentTypeOK
  CatalogIsRebuild
  DeadlockNeedsTwoSpellings
PROPERTIES
  ImplementsIngest
  ImplementsStore
CHECK_DEADLOCK FALSE
