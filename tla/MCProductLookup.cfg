CONSTANTS
  l1 = l1
  l2 = l2
  l3 = l3
  s1 = s1
  s2 = s2
  w1 = w1
  w2 = w2
  b1 = b1
  none = none
  Lookups <- MCLookups
  Stations <- MCStations
  Barcodes <- MCBarcodes
  StationOf <- MCStationOf
  BarcodeOf <- MCBarcodeOf
  Workers <- MCWorkers
  Capacity = 1
  NoLookup = NoLookup
  MaxImports = 1
  MaxDrops = 1
  MaxStops = 1
SPECIFICATION FairSpec
INVARIANTS
  AnswersAreFresh
  AcceptedInOnePlace
PROPERTY AcceptedIsAnswered
CHECK_DEADLOCK FALSE
