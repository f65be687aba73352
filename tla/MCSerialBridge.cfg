SPECIFICATION Spec
CONSTANTS
  Valid <- ShortFrame
  Limit = 5
  MaxChunk = 2
  MaxLine = 9
INVARIANTS
  TypeOK
  IntactFramesPublished
  BufferIsOneBeginning
PROPERTIES
  EveryTurnShortens
