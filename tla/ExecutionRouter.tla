-------------------------- MODULE ExecutionRouter ---------------------------
(***************************************************************************)
(* core/services/execution_router.py: opening a position.  Live: market    *)
(* BUY, protective OCO around the real fill price, and only then the local *)
(* row.  Paper: the row alone, at a price worsened by slippage.            *)
(***************************************************************************)
EXTENDS TradingProcess

CONSTANT
    MaxSlippage   \* how far above the signal's price an entry may fill

ASSUME SlippageAssumption == MaxSlippage \in Nat

Fills == 0..MaxSlippage

\* _execute_paper: stop and target stay where the signal put them.
ExecutePaper ==
    /\ \/ /\ \E slip \in Fills :
                CreateTrade(plan.entry + slip, plan.sl, plan.tp, NoList)
          /\ plan' = NoPlan
          /\ Goto("manage")
       \/ Raises("manage") /\ UNCHANGED trade
    /\ UNCHANGED <<exchangeVars, alarm>>

\* _execute_live, step 1.  Any error, clean or not, is LIVE_ENTRY_FAILED.
EntryBuy ==
    /\ \/ /\ MarketBuy("ok")
          /\ \E slip \in Fills :
                plan' = [plan EXCEPT !.entry = @ + slip, !.sl = @ + slip,
                                     !.tp = @ + slip]
          /\ Goto("entry_oco")
       \/ MarketBuy("error") /\ plan' = NoPlan /\ Goto("manage")
    /\ UNCHANGED <<trade, alarm>>

\* execute: the mode of the process decides.
Execute ==
    /\ pc = "buy"
    /\ IF Live THEN EntryBuy ELSE ExecutePaper

\* _execute_live, step 2.
EntryOco ==
    /\ pc = "entry_oco"
    /\ \E l \in FreshLists :
          \/ /\ PlaceOco(l, plan.sl, plan.tp, "ok")
             /\ plan' = [plan EXCEPT !.list = l]
             /\ Goto("record")
          \/ /\ PlaceOco(l, plan.sl, plan.tp, "error")
             /\ plan' = NoPlan
             /\ Goto("entry_sell")
    /\ UNCHANGED <<trade, alarm>>

\* _handle_unprotected_position: sell at once, or alert.
EntrySell ==
    /\ pc = "entry_sell"
    /\ \/ MarketSell("ok") /\ UNCHANGED alarm
       \/ MarketSell("error") /\ alarm' = TRUE
    /\ Goto("manage")
    /\ UNCHANGED <<trade, plan>>

\* _execute_live, step 3: record only after both orders succeeded.
EntryRecord ==
    /\ pc = "record"
    /\ \/ /\ CreateTrade(plan.entry, plan.sl, plan.tp, plan.list)
          /\ plan' = NoPlan
          /\ Goto("manage")
       \/ Raises("manage") /\ UNCHANGED trade
    /\ UNCHANGED <<exchangeVars, alarm>>

RouterNext == Execute \/ EntryOco \/ EntrySell \/ EntryRecord
=============================================================================
