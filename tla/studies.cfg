SPECIFICATION Spec
CONSTANTS
    Null = Null
    MaxJobs = 2
    MaxClicks = 2
    MaxFaults = 1
    MaxVisits = 1
    CellCap = 4
    BudgetCap = 1
    GiveUpPolls = 1
    TypedSteps <- MCTypedSteps
    RowCap = 3
    PostSlots = {1}
    Grids <- MCGrids
    Results <- MCResults
CHECK_DEADLOCK FALSE
INVARIANTS
    TypeOK
    NothingTwice
    SweepJobsRunnable
    BestRunRepeatsBestCell
    PlateauIsReal
    CurveIsFaithful
PROPERTIES
    ShownNeverRegresses
    StudiesConverge
