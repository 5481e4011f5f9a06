SPECIFICATION Spec
CONSTANTS
    Symbols = {s1, s2, s3}
    NoSymbol = NoSymbol
    NoSnapshot = NoSnapshot
    DayLength = 2
    MaxTime = 2
    MaxRows = 3
    AccountBalance = 20
    Deposit = 20
    Filters = {"cooldown", "drawdown", "daily_loss", "daily_trades"}
    Cooldown = 2
    MaxOpen = 2
    MaxDrawdown = 1500
    MaxDailyLoss = 10
    MaxDailyTrades = 2
    RiskPercent = 20
    ExposurePercent = 25
    AtrStopMultiplier = 1
    AtrTakeProfitMultiplier = 2
    MinRiskReward = 120
    SymbolStep = 1
    ConfigStep = 1
    MinQuantity = 1
    MinNotional = 1
    Signals <- MCSignals
    MaxSessions = 2
    Results <- MCResults
SYMMETRY SymbolSymmetry
INVARIANT TypeOK
INVARIANT OneRowPerSymbol
INVARIANT OpenWithinLimit
INVARIANT DailyTradesWithinLimit
INVARIANT DailyLossBounded
INVARIANT CooldownKept
PROPERTY DrawdownNotUnderstated
PROPERTY ExposureKept
CHECK_DEADLOCK FALSE
