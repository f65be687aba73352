\* One session, against the rule for a point that nobody bound.
SPECIFICATION Spec
CONSTANTS
  Plant = {plantA, plantB}
  Point = {inlet, outlet}
  Device = {probe}
  Metric = {cod}
  Session = {form}
  None = None
  MaxCalls = 2
INVARIANTS
  OnlyDeviceIsShown
CHECK_DEADLOCK FALSE
