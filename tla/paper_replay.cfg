SPECIFICATION Spec
CONSTANTS
    Strats = {s1}
    CrossStrats = {s1}
    Markets = {m1}
    Levels = {"low", "high"}
    TierCap = 1
    Lookback = 2
    SettleBuffer = 1
    BatchLimit = 2
    FlushLag = 0
    MaxCycle = 1
    MaxTime = 4
    MaxSnaps = 2
    MaxWrites = 0
    MaxFaults = 0
INVARIANTS
    FiresOnlyOnCrossing
CHECK_DEADLOCK FALSE
