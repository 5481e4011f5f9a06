SPECIFICATION PaperSpec
CONSTANTS
    Live = FALSE
    Faults = {"crash"}
    CanceledReplies = {"ALL_DONE"}
    LegacyRows = FALSE
    Lists = {l1, l2}
    NoList = NoList
    Reserve = 0
    MaxHeld = 1
    CoarseBelow = 0
    MaxSlippage = 1
    EnableBreakeven = TRUE
    EnableDynamicTakeProfit = TRUE
    EnableTrailing = TRUE
    EnableAtrTrailing = TRUE
    BreakevenTrigger = 1
    DynamicProximity = 50
    TrailingStop = 3
    Atrs <- MCAtrs
    AtrTrailingMultiplier = 2
    DynamicMultiplier = 1
    Prices <- MCPrices
    EntryPrices <- MCEntryPrices
    StopDistance = 3
    TargetDistance = 4
    Structure <- MCStructure
    Regime <- MCRegime
    Ema <- MCEma
    Atr <- MCAtr
    Confidence <- MCConfidence
    Strategy <- MCStrategy
    Quality <- MCQuality
    Env <- MCEnv
    Wick = 1
INVARIANTS ExitsCaughtUp
PROPERTIES SwingsStayPut
