\* Every pair of definitions, then every message.
SPECIFICATION Spec
CONSTANTS
  Profile = {"cod1", "turb1"}
  Device = {"cod1", "turb1", "hub"}
  TypeOf <- Sensors
  Query <- Reads
  Sensor <- Registers
  Recorded <- Kept
  Open = open
  None = none
  Definition <- Definitions
INVARIANTS
  TypeOK
  OneSensorPerMetric
  NoClash
  SpecificIsUnambiguous
  OnlyReadsParse
  MetricsAreTheSensors
CHECK_DEADLOCK FALSE
