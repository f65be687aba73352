\* Two calls that overlap in every way, on every registry.
SPECIFICATION Spec
CONSTANTS
  Plant = {plantA, plantB}
  Point = {inlet, outlet}
  Device = {probe, spare}
  Metric = {cod}
  Session = {form, rest}
  None = None
  MaxCalls = 2
SYMMETRY Interchangeable
INVARIANTS
  TypeOK
  NothingDangles
PROPERTIES
  DevicesGoOnRequest
  ChangesAreAudited
CHECK_DEADLOCK FALSE
