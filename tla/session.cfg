SPECIFICATION FairSpec
CONSTANTS
  InitialDelay = 1
  MaxDelay = 5
  Adapters = {TRUE, FALSE}
  TestModes = {TRUE, FALSE}
  MaxQueue = 2
  MaxSignals = 3
INVARIANTS TypeOK OneLoop
PROPERTIES ReconnectsOrLoses SignalEnds
CHECK_DEADLOCK FALSE
