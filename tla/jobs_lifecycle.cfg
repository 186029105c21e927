SPECIFICATION FairSpec
CONSTANTS
    Reqs = {r1}
    MaxSubmissions = 2
    Cap = 2
    ListSlack = 0
    HistoryCap = 2
    MaxSlots = 1
    MaxTries = 2
    RunningTTL = 2
    ResultTTL = 2
    JobTimeout = 1
    SyncTimeout = 1
    MaxFaults = 2
INVARIANTS
    TypeOK
    StatusCarriesItsPayload
    SyncNeverSeesGone
    RunNeverOutlivesRecord
    FinishedJobsAreAnswered
PROPERTIES
    ImplementsContract
