CONSTANTS
  r1 = r1
  r2 = r2
  r3 = r3
  Requests <- TwoRequests
  NoProduct = NoProduct
  NoStage = NoStage
  MaxRows = 1
  MaxCrashes = 0
SPECIFICATION Spec
INVARIANT FailedNeverInstalled
CHECK_DEADLOCK FALSE
