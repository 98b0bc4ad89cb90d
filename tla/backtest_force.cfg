SPECIFICATION VSpec
CONSTANTS
    Bars = 5
    Warmup = 1
    Prices = {2, 3, 4}
    Offset = 1
    Trail <- MCTrail
    TimeTolerance = 1
    PriceTolerance <- MCPriceTolerance
    SignalTolerance <- MCSignalTolerance
    LiveTrades <- MCLiveTrades
    Chosen <- MCChosen
    Named <- MCNamed
    Failing <- MCFailing
CHECK_DEADLOCK FALSE
PROPERTY ForcedOnLastBarOnly
