--------------------------- MODULE SignalQuality ---------------------------
(***************************************************************************)
(* The limits a signal must pass (core/services/signal_quality_service.py, *)
(* core/services/risk_protection_service.py).  The filters on the market   *)
(* (trend, regime, volatility, confidence) depend on prices only: to the   *)
(* limits they are reasons for which no signal comes.  Cooldowns live in   *)
(* memory; everything else is read from the tables each time.              *)
(***************************************************************************)
EXTENDS Portfolio

CONSTANTS
    Filters,          \* those of Limits that the configuration enables
    Cooldown,         \* signal_cooldown_seconds, in ticks
    MaxOpen,          \* maximum_open_positions
    MaxDrawdown,      \* maximum_daily_drawdown_percent, in hundredths
    MaxDailyLoss,     \* max_daily_loss_percent
    MaxDailyTrades    \* max_daily_trades

Limits == {"cooldown", "drawdown", "daily_loss", "daily_trades"}

ASSUME QualityAssumption ==
    /\ Filters \subseteq Limits
    /\ Cooldown \in Nat
    /\ MaxOpen \in Nat \ {0}
    /\ MaxDrawdown \in Nat
    /\ MaxDailyLoss \in Nat
    /\ MaxDailyTrades \in Nat \ {0}

VARIABLE cooldowns   \* symbol -> time of the last execution, in memory

QualityTypeOK ==
    /\ DOMAIN cooldowns \subseteq Symbols
    /\ cooldowns \in [DOMAIN cooldowns -> Time]

\* Mutant: the end of the cooldown is stored instead of its beginning.
RegisterTradeExpiry(s) ==
    cooldowns' = [t \in DOMAIN cooldowns \cup {s} |->
                    IF t = s THEN now + Cooldown ELSE cooldowns[t]]

\* Mutant: one cooldown for all symbols, that of the last execution.
RegisterTradeReplacing(s) == cooldowns' = [t \in {s} |-> now]

RegisterTrade(s) ==
    cooldowns' = [t \in DOMAIN cooldowns \cup {s} |->
                    IF t = s THEN now ELSE cooldowns[t]]

CooldownReady(s) ==
    "cooldown" \in Filters /\ s \in DOMAIN cooldowns =>
        now - cooldowns[s] >= Cooldown

\* Mutant: the position to come is not counted.
PositionLimitValidOneMore == Cardinality(OpenTrades) <= MaxOpen

PositionLimitValid == Cardinality(OpenTrades) < MaxOpen

\* The newest snapshot decides, however old it is.
DrawdownValid ==
    "drawdown" \in Filters /\ drawdown # NoSnapshot => drawdown < MaxDrawdown

\* A loss of this size, in percent of the account balance, is the limit.
LossReached(pnl) == pnl < 0 /\ -pnl * 100 >= MaxDailyLoss * AccountBalance

DailyLossValid ==
    "daily_loss" \in Filters => ~LossReached(Pnl(TradesClosedToday))

DailyTradesValid ==
    "daily_trades" \in Filters =>
        Cardinality(TradesOpenedToday) < MaxDailyTrades

Validate(s) ==
    /\ CooldownReady(s)
    /\ PositionLimitValid
    /\ DrawdownValid
    /\ DailyLossValid
    /\ DailyTradesValid
=============================================================================
