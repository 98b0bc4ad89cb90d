SPECIFICATION FairSpec
CONSTANTS
    Plans = {1, 2}
    Qty = 2
    MaxPosts = 2
    MaxOrders = 2
    MaxFaults = 2
INVARIANTS TypeOK OneOrderPerPlan ReleasedIsOver SweptAreAsked
PROPERTIES EndedIsReported Lives
CHECK_DEADLOCK FALSE
