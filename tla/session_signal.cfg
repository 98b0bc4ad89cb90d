SPECIFICATION Spec
CONSTANTS
  InitialDelay = 1
  MaxDelay = 5
  Adapters = {TRUE}
  TestModes = {TRUE, FALSE}
  MaxQueue = 2
  MaxSignals = 3
INVARIANTS NoOrderLeft
CHECK_DEADLOCK FALSE
