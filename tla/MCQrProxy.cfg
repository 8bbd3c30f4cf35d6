CONSTANTS
  ReceiptCap = 1
  PrinterCap = 2
  MaxJobs = 3
  MaxDrops = 1
  MaxStops = 1
SPECIFICATION FairSpec
INVARIANTS
  PrintsInOrder
  NoJobForgotten
  PaymentsInOrder
PROPERTIES
  JobsAreHandled
  ImplementsPrintQueue
CHECK_DEADLOCK FALSE
