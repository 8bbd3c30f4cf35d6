CONSTANTS
  r1 = r1
  r2 = r2
  Requests <- TwoRequests
  NoProduct = NoProduct
  NoStage = NoStage
  MaxRows = 1
  MaxCrashes = 1
  MaxOperators = 1
SPECIFICATION ClientFairSpec
INVARIANTS
  ResponseIsFinal
  OnlyWholeFilesInstall
PROPERTIES
  NobodyWaitsForEver
  SlotIsReleased
  ImplementsCatalogUpdate
CHECK_DEADLOCK FALSE
