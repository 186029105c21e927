SPECIFICATION Spec
CONSTANTS
    Strats = {s1}
    CrossStrats = {}
    Levels = {"high"}
    Markets = {m1}
    TierCap = 1
    Lookback = 2
    SettleBuffer = 1
    BatchLimit = 1
    FlushLag = 1
    MaxCycle = 1
    MaxTime = 4
    MaxSnaps = 2
    MaxWrites = 1
    MaxFaults = 1
INVARIANTS
    TypeOK
    NoSnapshotMissed
    NoPositionForgotten
PROPERTIES
    PauseTakesEffect
CHECK_DEADLOCK FALSE
