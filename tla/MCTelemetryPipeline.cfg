\* One source, a fault anywhere, a call that raises, and two runs of configure.
SPECIFICATION PipelineSpec
CONSTANTS
  Record = {1, 2}
  NSource = 1
  OfSource <- OneSource
  Content <- Numbers
  Field = {cod}
  File <- FileRead
  SourceId = {1}
  IdOf <- Same
  Initial = 0
  MaximumWindow = 4
  PageSize = 1
  MaxLate = 1
  MaxTime = 4
  MaxFaults = 1
  MaxLag = 1
  MaxGap = 1
  MaxConfigures = 2
  None = none
INVARIANTS
  PipelineTypeOK
  NothingLost
  Routed
PROPERTIES
  AllStored
