SPECIFICATION FairSpec
CONSTANTS
  OrderQty = 2
  LotSize = 1
  InitialPositions <- Flat
  TestModes = {FALSE}
  DbAttached = TRUE
  Refreshes = TRUE
  EndStatuses <- Canceled
  Forms <- UpdateForms
  MaxOrders = 2
  MaxRestErrors = 1
  MaxLost = 1
  MaxDrops = 1
INVARIANTS OpenOrderIsTracked StaleByOneOrder
PROPERTIES ImplementsLifecycle ActiveReleased EventuallyInStep
CHECK_DEADLOCK FALSE
