----------------------------- MODULE Portfolio -----------------------------
(***************************************************************************)
(* The snapshots of the account (core/services/portfolio_service.py,       *)
(* data/storage/repositories/portfolio_repository.py) and the balance they *)
(* start from (core/services/runtime_balance.py).  Of the append-only      *)
(* table the gates read the drawdown of the newest row, and the snapshots   *)
(* the highest equity per initial balance: these are its state here.       *)
(* Drawdown is in hundredths of a percent, as the code rounds it.          *)
(***************************************************************************)
EXTENDS TradeLedger

CONSTANTS
    AccountBalance,  \* TRADING_CONFIG["account_balance"]
    Deposit,         \* USDT on the account before the first row
    NoSnapshot       \* the table of snapshots is empty

ASSUME PortfolioAssumption ==
    /\ AccountBalance \in Nat \ {0}
    /\ Deposit \in Nat
    /\ NoSnapshot \notin Int

VARIABLES
    mode,       \* settings.MODE
    balance,    \* the runtime balance of this session
    drawdown,   \* of the newest row of portfolio_snapshots
    peaks       \* per initial balance the highest equity in the table

Peak == [initial: Nat, equity: Nat]

PortfolioTypeOK ==
    /\ mode \in {"paper", "live"}
    /\ balance \in Nat
    /\ drawdown \in Nat \cup {NoSnapshot}
    /\ peaks \subseteq Peak

AtLeastZero(x) == IF x < 0 THEN 0 ELSE x

\* The free USDT on the account: what an open position has cost is not free,
\* and a spot account is never overdrawn.
FreeUsdt == AtLeastZero(Deposit + Pnl(ClosedTrades) - Cost(OpenTrades))

\* get_max_equity: only snapshots with this initial balance, 0 if none.
MaxEquity(initial) ==
    Max({0} \cup {p.equity : p \in {q \in peaks : q.initial = initial}})

DrawdownPercent(peak, equity) ==
    IF peak <= 0 THEN 0
    ELSE (20000 * AtLeastZero(peak - equity) + peak) \div (2 * peak)

Equity == balance + Pnl(ClosedTrades) + Pnl(OpenTrades)

\* Mutant: the peak is taken from this snapshot alone.
BuildSnapshotForgetting ==
    LET peak == Max({balance, balance + Pnl(ClosedTrades), Equity})
    IN  /\ drawdown' = DrawdownPercent(peak, Equity)
        /\ peaks' = {p \in peaks : p.initial # balance}
                      \cup {[initial |-> balance,
                             equity |-> Max({AtLeastZero(Equity),
                                             MaxEquity(balance)})]}

BuildSnapshot ==
    LET realized == balance + Pnl(ClosedTrades)
        peak == Max({balance, realized, Equity, MaxEquity(balance)})
    IN  /\ drawdown' = DrawdownPercent(peak, Equity)
        /\ peaks' = {p \in peaks : p.initial # balance}
                      \cup {[initial |-> balance,
                             equity |-> Max({AtLeastZero(Equity),
                                             MaxEquity(balance)})]}
=============================================================================
