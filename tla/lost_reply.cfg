SPECIFICATION Spec
CONSTANTS
    Live = TRUE
    Faults = {"lost"}
    CanceledReplies = {"ALL_DONE"}
    LegacyRows = FALSE
    Lists = {l1, l2, l3}
    NoList = NoList
    Reserve = 1
    MaxHeld = 1
    CoarseBelow = 0
    MaxSlippage = 0
    EnableBreakeven = TRUE
    EnableDynamicTakeProfit = TRUE
    EnableTrailing = TRUE
    EnableAtrTrailing = FALSE
    BreakevenTrigger = 20
    DynamicProximity = 50
    TrailingStop = 1
    Atrs <- MCAtrs
    AtrTrailingMultiplier = 2
    DynamicMultiplier = 1
    Prices <- MCPrices
    EntryPrices <- MCEntryPrices
    StopDistance = 2
    TargetDistance = 2
SYMMETRY ListSymmetry
INVARIANT NeverOversold
