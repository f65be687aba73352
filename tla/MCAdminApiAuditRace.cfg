\* Two calls that overlap, against what the documents say of the audit log.
SPECIFICATION Spec
CONSTANTS
  Plant = {plantA, plantB}
  Point = {inlet, outlet}
  Device = {probe}
  Metric = {cod}
  Session = {form, rest}
  None = None
  MaxCalls = 2
INVARIANTS
  RemovalsAudited
CHECK_DEADLOCK FALSE
