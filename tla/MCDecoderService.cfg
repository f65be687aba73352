\* The two threads, failed publishes and restarts.
SPECIFICATION FairSpec
CONSTANTS
  Reading = {"r1", "r2", "r3"}
  Device = {"d1", "d2"}
  OutputOf <- Outputs
  MinuteLength = 2
  FlushDelay = 1
  MaxLag = 1
  MaxTime = 5
  MaxFaults = 2
  None = none
INVARIANTS
  TypeOK
  MeansAreWhole
  Accounted
  RepeatedOnlyByFaults
PROPERTIES
  AllDelivered
  Recovers
CHECK_DEADLOCK FALSE
