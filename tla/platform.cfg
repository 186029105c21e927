SPECIFICATION Spec
CONSTANTS
    Null = Null
    MaxKey = 2
    MaxVersion = 2
    MaxOut = 3
    MaxMoves = 3
    MaxLost = 1
    MaxPositions = 3
    Nets <- MCNets
    PageLimit = 2
    TableRows = 2
    CardRows = 1
    MaxWire = 4
    MaxPresses = 1
    MaxMissed = 1
    s1 = s1
    s2 = s2
    Subs <- MCSubs
    Plan <- MCPlan
    MaxExtras = 1
    MaxCreates = 2
    MaxRevokes = 2
    MaxDrops = 1
    Dollar = 12
    Books <- MCBooks
    Length = 3
    Rules <- MCRules
    Stake = 2520
    MaxEntries = 2
    Offset = 3
    Limit <- MCLimit
    Window <- MCWindow
    MaxWaiting = 2
    EventCount = 3
    Tiers = {stable}
    SyncBatch = 2
    SettleBatch = 2
    MaxSyncFaults = 1
CHECK_DEADLOCK FALSE
INVARIANTS
    AllTypesOK
    MatchesFilter
    PageAgreesWithItself
    TierFollowsPurchase
    KeysAccountedFor
    FillsWalkTheBook
    EachDollarOnce
    RateIsHonest
PROPERTIES
    SectionsConverge
