\* Two sources, one with a record that can never be mapped: late records, pages that
\* shift while they are fetched, failures and crashes.
SPECIFICATION FairSpec
CONSTANTS
  Record = {1, 2, 3, 4}
  NSource = 2
  OfSource <- TwoSources
  Content <- Mixed
  Field = {cod, ss}
  File <- FileRead
  SourceId = {1, 2}
  IdOf <- Same
  Initial = 0
  MaximumWindow = 2
  PageSize = 1
  MaxLate = 1
  MaxTime = 3
  MaxFaults = 1
  None = none
INVARIANTS
  NothingSkipped
PROPERTIES
  CursorInStep
  AllPublished
