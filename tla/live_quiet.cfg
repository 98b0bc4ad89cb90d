SPECIFICATION Spec
CONSTANTS
  OrderQty = 2
  LotSize = 1
  InitialPositions <- SomePositions
  TestModes = {TRUE, FALSE}
  DbAttached = FALSE
  Refreshes = FALSE
  EndStatuses <- CanceledOrRejected
  Forms <- NativeOrChange
  MaxOrders = 4
  MaxRestErrors = 0
  MaxLost = 0
  MaxDrops = 0
INVARIANTS TypeOK ExposureBounded
PROPERTIES NoFlip
CHECK_DEADLOCK FALSE
