CONSTANTS
  b1 = b1
  b2 = b2
  d1 = d1
  d2 = d2
  Barcodes <- MCBarcodes
  Details <- MCDetails
  NoBarcode = NoBarcode
  NoProduct = NoProduct
  NoTable = NoTable
  NoStage = NoStage
  MaxRows = 1
  MaxImports = 2
SPECIFICATION Spec
INVARIANT InstalledCatalogIsIndexed
