SPECIFICATION Spec
CONSTANTS
  OrderQty = 2
  LotSize = 1
  InitialPositions <- Flat
  TestModes = {FALSE}
  DbAttached = FALSE
  Refreshes = TRUE
  EndStatuses <- CanceledOrRejected
  Forms <- Native
  MaxOrders = 2
  MaxRestErrors = 0
  MaxLost = 0
  MaxDrops = 0
PROPERTIES EntersFlat
CHECK_DEADLOCK FALSE
