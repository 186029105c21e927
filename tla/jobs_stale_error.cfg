SPECIFICATION Spec
CONSTANTS
    Reqs = {r1}
    MaxSubmissions = 2
    Cap = 1
    ListSlack = 5
    HistoryCap = 500
    MaxSlots = 6
    MaxTries = 5
    RunningTTL = 2
    ResultTTL = 3
    JobTimeout = 1
    SyncTimeout = 1
    MaxFaults = 1
INVARIANT
    ErrorOnlyWhenFailed
