--------------------------- MODULE PositionSizing ---------------------------
(***************************************************************************)
(* How the risk agent sizes an order (core/agents/risk_agent.py): levels,  *)
(* quantity from the risk per trade, the exposure limit, the minimum lot   *)
(* and notional, the minimum ratio of reward to risk.  Integers in the     *)
(* smallest units; round() to a precision is a nearest multiple of a step, *)
(* and exactly between two of them floating point may take either.         *)
(***************************************************************************)
EXTENDS Integers

CONSTANTS
    RiskPercent,           \* risk_per_trade_percent
    ExposurePercent,       \* max_position_exposure_percent
    AtrStopMultiplier,
    AtrTakeProfitMultiplier,
    MinRiskReward,         \* minimum_risk_reward_ratio, in hundredths
    SymbolStep,            \* quantity step of the symbol (exchange_filters)
    ConfigStep,            \* quantity step of EXCHANGE_CONFIG
    MinQuantity,
    MinNotional

ASSUME SizingAssumption ==
    /\ RiskPercent \in Nat /\ ExposurePercent \in Nat
    /\ AtrStopMultiplier \in Nat \ {0} /\ AtrTakeProfitMultiplier \in Nat
    /\ MinRiskReward \in Nat
    /\ SymbolStep \in Nat \ {0} /\ ConfigStep \in Nat \ {0}
    /\ MinQuantity \in Nat /\ MinNotional \in Nat

\* round(x / y) to a multiple of step.
Rounded(x, y, step) ==
    {q \in {k * step : k \in 0 .. (x \div (y * step)) + 1} :
        /\ 2 * (x - q * y) <= step * y
        /\ 2 * (q * y - x) <= step * y}

RiskDistance(signal) == AtrStopMultiplier * signal.atr
RewardDistance(signal) == AtrTakeProfitMultiplier * signal.atr

ValidLevels(signal) ==
    /\ signal.price - RiskDistance(signal) > 0
    /\ RiskDistance(signal) > 0
    /\ RewardDistance(signal) > 0

PositionSizes(signal, balance) ==
    Rounded(balance * RiskPercent, 100 * RiskDistance(signal), SymbolStep)

\* Mutant: the quantity is compared instead of its value.
ExposureLimitedByQuantity(signal, balance, q) ==
    IF q * 100 <= balance * ExposurePercent THEN {q}
    ELSE Rounded(balance * ExposurePercent, 100 * signal.price, ConfigStep)

ExposureLimited(signal, balance, q) ==
    IF q * signal.price * 100 <= balance * ExposurePercent THEN {q}
    ELSE Rounded(balance * ExposurePercent, 100 * signal.price, ConfigStep)

\* The quantities with which the risk agent may approve the signal.
ApprovedQuantities(signal, balance) ==
    {q \in UNION {ExposureLimited(signal, balance, size) :
                    size \in PositionSizes(signal, balance) \ {0}} :
        /\ ValidLevels(signal)
        /\ q > 0
        /\ q >= MinQuantity
        /\ q * signal.price >= MinNotional
        /\ \E ratio \in Rounded(RewardDistance(signal) * 100,
                                RiskDistance(signal), 1) :
              ratio >= MinRiskReward}
=============================================================================
