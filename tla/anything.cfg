SPECIFICATION Spec
CONSTANTS
    Live = TRUE
    Faults = {"reject", "lost", "query", "operator", "crash", "startup", "db"}
    CanceledReplies = {"ALL_DONE", "NOT_FOUND"}
    LegacyRows = TRUE
    Lists = {l1, l2, l3}
    NoList = NoList
    Reserve = 1
    MaxHeld = 1
    CoarseBelow = 2
    MaxSlippage = 0
    EnableBreakeven = TRUE
    EnableDynamicTakeProfit = TRUE
    EnableTrailing = TRUE
    EnableAtrTrailing = FALSE
    BreakevenTrigger = 20
    DynamicProximity = 50
    TrailingStop = 1
    Atrs <- MCAtrs
    AtrTrailingMultiplier = 2
    DynamicMultiplier = 1
    Prices <- MCPrices
    EntryPrices <- MCEntryPrices
    StopDistance = 2
    TargetDistance = 2
SYMMETRY ListSymmetry
INVARIANT BreakevenHolds
PROPERTY StopOnlyRises
PROPERTY CloseIsConfirmed
