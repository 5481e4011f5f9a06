-------------------------- MODULE TradesRepository --------------------------
(***************************************************************************)
(* data/storage/repositories/trades_repository.py for one (user, symbol):  *)
(* the newest row of the trades table.  Each write is one SQLite commit.   *)
(* Prices are ticks of a small ladder.                                     *)
(***************************************************************************)
EXTENDS Integers, Exchange

VARIABLE trade   \* the newest row of the trades table for the symbol

TradeStatus == {"NONE", "OPEN", "CLOSED"}

ExitReason == {"NONE", "STOP_LOSS", "TAKE_PROFIT", "TRAILING_STOP",
               "EMERGENCY_CLOSE", "RECONCILED_CLOSED",
               "RECONCILED_EMERGENCY_CLOSE"}

Trade == [st: TradeStatus, entry: Int, sl: Int, tp: Int, high: Int,
          be: BOOLEAN, ext: BOOLEAN, list: Lists \cup {NoList},
          reason: ExitReason]

NoTrade == [st |-> "NONE", entry |-> 0, sl |-> 0, tp |-> 0, high |-> 0,
            be |-> FALSE, ext |-> FALSE, list |-> NoList, reason |-> "NONE"]

RepositoryTypeOK == trade \in Trade

HasOpenTrade == trade.st = "OPEN"

\* create_trade: the watermark starts at the entry price.
CreateTrade(entry, sl, tp, list) ==
    trade' = [st |-> "OPEN", entry |-> entry, sl |-> sl, tp |-> tp,
              high |-> entry, be |-> FALSE, ext |-> FALSE, list |-> list,
              reason |-> "NONE"]

\* update_trade_price: only the high watermark matters to the exits.
UpdateTradePrice(price) ==
    trade' = [trade EXCEPT !.high = IF price > @ THEN price ELSE @]

\* Mutant: Python's None is stored as a string.
UpdateStopLossStoringNone(sl, list) ==
    trade' = [trade EXCEPT !.sl = sl, !.be = TRUE,
                           !.list = IF list = NoList THEN "None" ELSE list]

\* Mutant: the row keeps the identifier of the list that was replaced.
UpdateStopLossKeepingList(sl, list) ==
    trade' = [trade EXCEPT !.sl = sl, !.be = TRUE]

\* update_stop_loss with mark_breakeven_applied and, for a live trade, the
\* identifier of the list that replaced the old one: one transaction.
UpdateStopLoss(sl, list) ==
    trade' = [trade EXCEPT !.sl = sl, !.be = TRUE,
                           !.list = IF list = NoList THEN @ ELSE list]

\* update_take_profit with mark_take_profit_extended.
UpdateTakeProfit(tp, list) ==
    trade' = [trade EXCEPT !.tp = tp, !.ext = TRUE,
                           !.list = IF list = NoList THEN @ ELSE list]

\* close_trade looks the row up by id only: it does not test its status.
CloseTrade(reason) ==
    trade' = [trade EXCEPT !.st = "CLOSED", !.reason = reason]
=============================================================================
