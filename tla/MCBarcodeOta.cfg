CONSTANTS
  s1 = s1
  s2 = s2
  Stations <- MCStations
  Chunks = 5
  Files <- MCFiles
  Group = 2
  StatusCap = 4
  MaxTroubles = 2
SPECIFICATION Spec
SYMMETRY Symmetry
INVARIANTS
  SuccessUpdatesAll
  UpdateTogether
  OnlyWholeFirmwareIsFinished
  SmallFleetNeverWaitsInVain
PROPERTY ImplementsUpdate
CHECK_DEADLOCK FALSE
