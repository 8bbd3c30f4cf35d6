CONSTANTS
  r1 = r1
  r2 = r2
  r3 = r3
  Requests <- ThreeRequests
  NoProduct = NoProduct
  NoStage = NoStage
  MaxRows = 2
  MaxCrashes = 1
SYMMETRY Symmetry
SPECIFICATION Spec
INVARIANTS
  OneImport
  CatalogIsOneWholeFile
  ResponsesAreTrue
  OnlyCancelledUploadsStay
  ParserLeftOnlyByFailure
PROPERTY BusyMeansAnotherWorker
CHECK_DEADLOCK FALSE
