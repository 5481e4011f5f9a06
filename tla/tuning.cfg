SPECIFICATION Spec
CONSTANTS
    a = a
    b = b
    c = c
    Params <- MCParams
    RiskReward <- MCRiskReward
    Position <- MCPosition
    Minimums = {12, 18}
    Workers = 2
    Score <- MCScore
    Measures <- MCMeasures
    MaxJobs = 2
    Nothing = Nothing
    Torn = Torn
    Shipped = a
    Default = a
    Unusable = Unusable
    Savable = {a}
    MaxHistory = 1
    MaxFaults = 1
    Overlapping = {"backtest"}
CHECK_DEADLOCK FALSE
INVARIANT TypeOK
INVARIANT MeasuredAlone
INVARIANT ResultIsOfThisJob
INVARIANT OnlyApprovedTrade
INVARIANT HistoryKept
INVARIANT StaleIsWarned
PROPERTY JobEnds
