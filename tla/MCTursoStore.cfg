CONSTANTS
  b1 = b1
  b2 = b2
  d1 = d1
  d2 = d2
  Barcodes <- MCBarcodes
  Details <- MCDetails
  NoBarcode = NoBarcode
  NoProduct = NoProduct
  NoTable = NoTable
  NoStage = NoStage
  MaxRows = 3
  MaxImports = 3
SYMMETRY Symmetry
SPECIFICATION Spec
INVARIANTS
  CommittedSchema
  SwapReady
  SuccessInstallsTheFile
PROPERTY ImplementsCatalog
