---------------------------- MODULE MCTuningJobs ----------------------------
(***************************************************************************)
(* Values for the constants of TuningJobs: three values of the             *)
(* multipliers, one of them below any minimum risk/reward; of the others a *)
(* higher minimum leaves only the one that comes later in the list.        *)
(***************************************************************************)
EXTENDS TuningJobs, TLC

CONSTANTS a, b, c

MCParams == {a, b, c}
MCRiskReward == a :> 20 @@ b :> 15 @@ c :> 10
MCPosition == a :> 2 @@ b :> 1 @@ c :> 3
MCScore == a :> 1 @@ b :> 2 @@ c :> 3
MCMeasures ==
    {[trades |-> 40, winrate |-> 90, factor |-> 60, pnl |-> 4000, drawdown |-> 100],
     [trades |-> 40, winrate |-> 60, factor |-> 16, pnl |-> 900, drawdown |-> 400],
     [trades |-> 99, winrate |-> 56, factor |-> 15, pnl |-> -20, drawdown |-> 400]}
=============================================================================
