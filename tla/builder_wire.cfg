SPECIFICATION BuilderSpec
CONSTANTS
    Null = Null
    None = None
    Default <- DefaultState
    Presets <- Templates
    HandedOver <- HandOff
    Edited <- Edits
    Sent <- BuildStrategySpec
    EditedSections = {"entry"}
    EditedFields = {"universe", "order"}
    Types <- MCTypes
    Ops <- MCOps
    Universes = {u1, u2}
    SavedCap = 1
    MaxMoves = 4
    MaxLoads = 3
    MaxClicks = 1
    MaxFaults = 1
CHECK_DEADLOCK FALSE
INVARIANTS
    WireMeansWhatIsShown
