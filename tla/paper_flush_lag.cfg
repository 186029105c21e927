SPECIFICATION Spec
CONSTANTS
    Strats = {s1}
    CrossStrats = {}
    Markets = {m1}
    Levels = {"high"}
    TierCap = 1
    Lookback = 2
    SettleBuffer = 1
    BatchLimit = 5
    FlushLag = 3
    MaxCycle = 1
    MaxTime = 4
    MaxSnaps = 2
    MaxWrites = 0
    MaxFaults = 0
INVARIANTS
    NoRowMissed
CHECK_DEADLOCK FALSE
