SPECIFICATION Spec
CONSTANTS
    OrderQty = 2
    LotSize = 3
    Prices = {0, 2, 4}
    Volumes = {0, 2, 4}
    Capital = 4
    MaxExposure <- MCMaxExposure
    MaxParticipation <- MCMaxParticipation
    Window = 2
    MaxTrades = 3
    MaxMoves = 3
INVARIANTS TypeOK EngineWithinEntry
PROPERTIES ExactChecksHold OverLimitIsStuck
CHECK_DEADLOCK FALSE
