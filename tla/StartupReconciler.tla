------------------------- MODULE StartupReconciler --------------------------
(***************************************************************************)
(* The death of the Runner and its next start: apps/trader/runner.py main  *)
(* and core/services/startup_reconciler.py, which compares the open row    *)
(* with its order list and then looks for lists that no row knows.         *)
(***************************************************************************)
EXTENDS TradingProcess

\* A kill, a power cut, or SIGTERM: _request_shutdown cancels the main task
\* wherever it is awaiting.  The database and the exchange stay as they are.
Crash ==
    /\ "crash" \in Faults
    /\ pc # "down"
    /\ Goto("down")
    /\ plan' = NoPlan
    /\ UNCHANGED <<exchangeVars, trade, alarm>>

\* main: the balance, the filters and the reconciliation share one try
\* block, so a failed balance request skips the reconciliation.
Restart ==
    /\ pc = "down"
    /\ \/ Live /\ Goto("reconcile")
       \/ (~Live \/ "startup" \in Faults) /\ Goto("idle")
    /\ UNCHANGED <<exchangeVars, trade, plan, alarm>>

-----------------------------------------------------------------------------
\* Mutant: with no open row the reconciliation returns early.
ReconcileNothingReturning ==
    /\ pc = "reconcile" /\ ~HasOpenTrade
    /\ Goto("idle")
    /\ UNCHANGED <<exchangeVars, trade, plan, alarm>>

\* reconcile_on_startup with no open row.
ReconcileNothing ==
    /\ pc = "reconcile" /\ ~HasOpenTrade
    /\ Goto("orphans")
    /\ UNCHANGED <<exchangeVars, trade, plan, alarm>>

\* _reconcile_trade without an order_list_id.
ReconcileUntracked ==
    /\ pc = "reconcile" /\ HasOpenTrade /\ trade.list = NoList
    /\ Goto("orphans")
    /\ alarm' = TRUE
    /\ UNCHANGED <<exchangeVars, trade, plan>>

\* _reconcile_trade: the answer of the exchange decides.
ReconcileTracked ==
    /\ pc = "reconcile" /\ HasOpenTrade /\ trade.list # NoList
    /\ \E reply \in StatusReplies(trade.list) :
          \/ reply = "ALL_DONE" /\ Goto("reconcile_close") /\ UNCHANGED alarm
          \/ reply = "EXECUTING" /\ Goto("orphans") /\ UNCHANGED alarm
          \/ reply = "NOT_FOUND" /\ Goto("reconcile_sell") /\ UNCHANGED alarm
          \/ reply = "error" /\ Goto("orphans") /\ alarm' = TRUE
    /\ UNCHANGED <<exchangeVars, trade, plan>>

\* RECONCILED_CLOSED.  An exception of the database ends the whole
\* reconciliation: main logs it and starts trading.
ReconcileClose ==
    /\ pc = "reconcile_close"
    /\ \/ CloseTrade("RECONCILED_CLOSED") /\ Goto("orphans") /\ UNCHANGED plan
       \/ Raises("idle") /\ UNCHANGED trade
    /\ UNCHANGED <<exchangeVars, alarm>>

\* _emergency_close: sell, then record.  One except clause catches the
\* failure of either.
ReconcileSell ==
    /\ pc = "reconcile_sell"
    /\ \/ MarketSell("ok") /\ Goto("reconcile_sold") /\ UNCHANGED alarm
       \/ MarketSell("error") /\ Goto("orphans") /\ alarm' = TRUE
    /\ UNCHANGED <<trade, plan>>

ReconcileSold ==
    /\ pc = "reconcile_sold"
    /\ Goto("orphans")
    /\ \/ CloseTrade("RECONCILED_EMERGENCY_CLOSE") /\ UNCHANGED alarm
       \/ "db" \in Faults /\ UNCHANGED trade /\ alarm' = TRUE
    /\ UNCHANGED <<exchangeVars, plan>>

\* The code takes the known identifiers from the rows that were open when
\* the reconciliation began; a row that it closed has no resting list, so
\* the rows that are still open give the same answer.
KnownLists == IF HasOpenTrade THEN {trade.list} ELSE {}

\* _reconcile_orphan_orders: alert only; a failed query is skipped.
ReconcileOrphans ==
    /\ pc = "orphans"
    /\ Goto("idle")
    /\ \/ alarm' = (alarm \/ Resting \ KnownLists # {})
       \/ "query" \in Faults /\ UNCHANGED alarm
    /\ UNCHANGED <<exchangeVars, trade, plan>>

ReconcilerNext ==
    \/ ReconcileNothing \/ ReconcileUntracked \/ ReconcileTracked
    \/ ReconcileClose \/ ReconcileSell \/ ReconcileSold \/ ReconcileOrphans
=============================================================================
