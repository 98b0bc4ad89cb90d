SPECIFICATION FairSpec
CONSTANTS
  InitialDelay = 1
  MaxDelay = 5
  Adapters = {TRUE}
  TestModes = {FALSE}
  MaxQueue = 2
  MaxSignals = 0
PROPERTIES Reconnects
CHECK_DEADLOCK FALSE
