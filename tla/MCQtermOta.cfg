CONSTANTS
  Size = 11
  Files <- MCFiles
  ChunkSize = 2
  Window = 3
  StatusCap = 3
  MaxTroubles = 3
SPECIFICATION Spec
INVARIANTS
  WindowIsEnough
  SuccessInstalls
  OrphanedOnlyAtStart
  WaitsForNothingOnlyAfterLosses
PROPERTY ImplementsUpdate
CHECK_DEADLOCK FALSE
