------------------------ MODULE ValidationInterpreter ------------------------
(***************************************************************************)
(* backtest/reports/validation_interpreter.py: what the walk-forward       *)
(* validation makes of the metrics of its trades.  Rates are in percent,   *)
(* the profit factor in tenths, money in units of one.                     *)
(***************************************************************************)
EXTENDS Integers, FiniteSets

Measure == [trades : Nat, winrate : 0..100, factor : Nat, pnl : Int, drawdown : Nat]

LowSample(m) == m.trades < 100

OverfitIsHigh(m) ==
    /\ m.factor > 50 /\ m.winrate > 80
    /\ 20 * m.drawdown < m.pnl
    /\ m.trades < 100

\* _calculate_robustness counts what speaks for a configuration.
Robustness(m) ==
    Cardinality({i \in 1..4 : CASE i = 1 -> m.winrate > 55
                                [] i = 2 -> m.factor > 15
                                [] i = 3 -> m.drawdown < 5000
                                [] i = 4 -> m.trades > 100})

\* _generate_verdict: a sample that is too small only counts against what is
\* not robust.
Verdict(m) ==
    IF OverfitIsHigh(m) THEN "PROMISING_BUT_SUSPICIOUS"
    ELSE IF Robustness(m) >= 3 THEN "ROBUST"
    ELSE IF LowSample(m) THEN "INSUFFICIENT_DATA"
    ELSE "MODERATE"

VerdictStatus == {"PROMISING_BUT_SUSPICIOUS", "ROBUST", "INSUFFICIENT_DATA", "MODERATE"}
=============================================================================
