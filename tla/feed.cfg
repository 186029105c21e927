SPECIFICATION Spec
CONSTANTS
    Markets = {m1}
    Throttle = 2
    Passive = 2
    FlushEvery = 2
    BatchCap = 2
    InsertTime = 1
    MaxTime = 6
    MaxRows = 2
INVARIANTS
    TypeOK
    SubscriptionFresh
    RowsAccountedFor
    StopFlushesAll
    StalenessBounded
    RowWaitBounded
CHECK_DEADLOCK FALSE
