SPECIFICATION FairSpec
CONSTANTS
  Clients = {a, b}
  NumDays = 2
  SlotsPerDay = 2
  Chunks = {3}
  MaxRetries = 2
  Page = 3
  Databases <- SomeDatabases
  MaxRuns = 2
  MaxCrashes = 1
INVARIANTS TypeOK AckedStored BackfillFills SavesFindColumns
PROPERTIES RuinedForGood KeepsPromise CommandsEnd
CHECK_DEADLOCK FALSE
