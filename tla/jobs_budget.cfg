SPECIFICATION Spec
SYMMETRY ReqSymmetry
CONSTANTS
    Reqs = {r1, r2}
    MaxSubmissions = 3
    Cap = 1
    ListSlack = 1
    HistoryCap = 2
    MaxSlots = 1
    MaxTries = 1
    RunningTTL = 2
    ResultTTL = 2
    JobTimeout = 1
    SyncTimeout = 1
    MaxFaults = 0
INVARIANTS
    BudgetOverrunBounded
