\* The time the database files a mean under, against the design's window timestamp.
SPECIFICATION Spec
CONSTANTS
  Reading = {"r1", "r2", "r3"}
  Device = {"d1", "d2"}
  OutputOf <- Outputs
  MinuteLength = 2
  FlushDelay = 1
  MaxLag = 1
  MaxTime = 5
  MaxFaults = 2
  None = none
INVARIANT FiledUnderItsMinute
CHECK_DEADLOCK FALSE
