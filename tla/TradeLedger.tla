---------------------------- MODULE TradeLedger ----------------------------
(***************************************************************************)
(* The trades table over days and symbols, as the gates and the portfolio  *)
(* read it (data/storage/repositories/trades_repository.py).  The exits    *)
(* themselves are the subject of PositionManager; here a row has only what *)
(* a limit can depend on.  The clock counts ticks; a UTC day has DayLength *)
(* of them.                                                                *)
(***************************************************************************)
EXTENDS Integers, Sequences, FiniteSetsExt

CONSTANTS
    Symbols,     \* settings.SYMBOLS
    DayLength,   \* ticks per UTC day
    MaxTime,     \* bound of the clock
    MaxRows      \* bound of the table

ASSUME LedgerAssumption ==
    /\ DayLength \in Nat \ {0}
    /\ MaxTime \in Nat
    /\ MaxRows \in Nat

VARIABLES
    now,     \* datetime.utcnow()
    trades   \* the rows of user 0, in the order of their ids

Time == 0 .. MaxTime

\* pnl is unrealized_pnl while the row is open, realized_pnl afterwards;
\* closed means nothing before.
Row == [symbol: Symbols, open: BOOLEAN, created: Time, closed: Time,
        cost: Nat, pnl: Int]

LedgerTypeOK ==
    /\ now \in Time
    /\ trades \in Seq(Row)

Day(t) == t \div DayLength
TodayStart == Day(now) * DayLength

OpenTrades == {i \in DOMAIN trades : trades[i].open}
ClosedTrades == DOMAIN trades \ OpenTrades
OpenTradesOf(s) == {i \in OpenTrades : trades[i].symbol = s}

\* Mutant: only the newest row is looked at.
HasOpenTradeNewest(s) ==
    \E i \in OpenTradesOf(s) : i = Len(trades)

HasOpenTrade(s) == OpenTradesOf(s) # {}

\* Mutant: created_at instead of closed_at.
TradesClosedTodayByEntry ==
    {i \in ClosedTrades : trades[i].created >= TodayStart}

\* Mutant: rows that were closed meanwhile are not counted.
TradesOpenedTodayStillOpen ==
    {i \in OpenTrades : trades[i].created >= TodayStart}

TradesClosedToday == {i \in ClosedTrades : trades[i].closed >= TodayStart}
TradesOpenedToday == {i \in DOMAIN trades : trades[i].created >= TodayStart}

\* A sum over rows: the count of its units minus that of the units lost.
Units(f) == UNION {{i} \X (1 .. f[i]) : i \in DOMAIN f}
Total(f) ==
    Cardinality(Units(f)) - Cardinality(Units([i \in DOMAIN f |-> -f[i]]))

Pnl(rows) == Total([i \in rows |-> trades[i].pnl])
Cost(rows) == Total([i \in rows |-> trades[i].cost])

CreateTrade(s, cost) ==
    trades' = Append(trades, [symbol |-> s, open |-> TRUE, created |-> now,
                              closed |-> 0, cost |-> cost, pnl |-> 0])

\* update_trade_price of every row in rows; one close, hence one result.
UpdateTradePrice(rows, pnl) ==
    trades' = [i \in DOMAIN trades |->
                 IF i \in rows THEN [trades[i] EXCEPT !.pnl = pnl]
                 ELSE trades[i]]

\* close_trade of every row in rows, with the result last recorded for it.
CloseTrades(rows) ==
    trades' = [i \in DOMAIN trades |->
                 IF i \in rows
                 THEN [trades[i] EXCEPT !.open = FALSE, !.closed = now]
                 ELSE trades[i]]

Tick == now < MaxTime /\ now' = now + 1
=============================================================================
