-------------------------- MODULE PositionManager ---------------------------
(***************************************************************************)
(* core/agents/position_manager_agent.py: one open position and one closed *)
(* candle.  _process_position updates the row, then applies breakeven, the *)
(* dynamic take profit and the exits, in that order, on the copy of the    *)
(* row that it read first.  The copy follows every write below except      *)
(* close_trade, and no step reads its status: after an emergency close the *)
(* handler goes on with the rest of the candle.                            *)
(***************************************************************************)
EXTENDS TradingProcess

CONSTANTS
    EnableBreakeven, EnableDynamicTakeProfit,
    EnableTrailing, EnableAtrTrailing,
    BreakevenTrigger,      \* percent of the entry price
    DynamicProximity,      \* percent of the way from the entry to the target
    TrailingStop,          \* trade.trailing_stop, the distance set at entry
    Atrs,                  \* values of the current ATR
    AtrTrailingMultiplier, DynamicMultiplier,
    CoarseBelow            \* below this stop price, 0.1% rounds to no tick

ASSUME ManagementAssumption ==
    /\ {EnableBreakeven, EnableDynamicTakeProfit, EnableTrailing,
        EnableAtrTrailing} \subseteq BOOLEAN
    /\ {BreakevenTrigger, DynamicProximity, TrailingStop} \subseteq Nat
    /\ {AtrTrailingMultiplier, DynamicMultiplier, CoarseBelow} \subseteq Nat
    /\ Atrs \subseteq Nat \ {0}

\* Mutant: an adjustment ends the handler, the exits wait for a candle.
ResumeNever == Goto("idle")

\* Where the handler continues once an adjustment is over.
Resume == Goto(IF plan.why = "BREAKEVEN" THEN "dynamic" ELSE "exit")

-----------------------------------------------------------------------------
\* on_message reads the open rows; update_trade_price writes the candle in.
Manage ==
    /\ pc = "manage"
    /\ \/ HasOpenTrade /\ UpdateTradePrice(price) /\ Goto("breakeven")
       \/ ~HasOpenTrade /\ UNCHANGED trade /\ Goto("idle")
       \/ HasOpenTrade /\ Raises("idle") /\ UNCHANGED trade
    /\ UNCHANGED <<exchangeVars, plan, alarm>>

-----------------------------------------------------------------------------
(* The two adjustments: decide, then replace the OCO, then save.           *)

BreakevenDue ==
    /\ EnableBreakeven /\ ~trade.be
    /\ trade.entry > 0
    /\ 100 * (price - trade.entry) >= BreakevenTrigger * trade.entry
    /\ trade.entry > trade.sl

\* Start an adjustment: a managed row touches the exchange first.
Adjust(why, sl, tp) ==
    /\ plan' = [NoPlan EXCEPT !.why = why, !.sl = sl, !.tp = tp]
    /\ Goto(IF Managed THEN "replace" ELSE "save")

\* Mutant: the row is marked before the exchange has moved the stop.
ApplyBreakevenMarkingFirst ==
    /\ pc = "breakeven"
    /\ \/ /\ BreakevenDue /\ Adjust("BREAKEVEN", trade.entry, trade.tp)
          /\ trade' = [trade EXCEPT !.be = TRUE]
       \/ ~BreakevenDue /\ Goto("dynamic") /\ UNCHANGED <<plan, trade>>
    /\ UNCHANGED <<exchangeVars, alarm>>

ApplyBreakeven ==
    /\ pc = "breakeven"
    /\ \/ BreakevenDue /\ Adjust("BREAKEVEN", trade.entry, trade.tp)
       \/ ~BreakevenDue /\ Goto("dynamic") /\ UNCHANGED plan
    /\ UNCHANGED <<exchangeVars, trade, alarm>>

DynamicDue ==
    /\ EnableDynamicTakeProfit /\ ~trade.ext
    /\ trade.tp > trade.entry
    /\ 100 * (price - trade.entry) >= DynamicProximity * (trade.tp - trade.entry)

\* Mutant: the extension starts at the entry instead of the target.
ApplyDynamicTakeProfitFromEntry ==
    /\ pc = "dynamic"
    /\ \/ /\ DynamicDue
          /\ \E atr \in Atrs : Adjust("DYNAMIC_TAKE_PROFIT", trade.sl,
                                      trade.entry + atr * DynamicMultiplier)
       \/ Goto("exit") /\ plan' = NoPlan
    /\ UNCHANGED <<exchangeVars, trade, alarm>>

\* The regime may not be BULLISH and the ATR may be None: then no extension.
ApplyDynamicTakeProfit ==
    /\ pc = "dynamic"
    /\ \/ /\ DynamicDue
          /\ \E atr \in Atrs : Adjust("DYNAMIC_TAKE_PROFIT", trade.sl,
                                      trade.tp + atr * DynamicMultiplier)
       \/ Goto("exit") /\ plan' = NoPlan
    /\ UNCHANGED <<exchangeVars, trade, alarm>>

\* Mutant: the replacement is placed although the old list still rests.
ReplaceCancelIgnoringError ==
    /\ pc = "replace"
    /\ \E reply \in {"ok", "error"} : CancelList(trade.list, reply)
    /\ Goto("place")
    /\ UNCHANGED <<trade, plan, alarm>>

\* _replace_oco: cancel the resting list.
ReplaceCancel ==
    /\ pc = "replace"
    /\ \/ CancelList(trade.list, "ok") /\ Goto("place")
       \/ CancelList(trade.list, "error") /\ Goto("replace_check")
    /\ UNCHANGED <<trade, plan, alarm>>

\* Mutant: a cancel that failed is tried again at once.
ReplaceCheckRetrying ==
    /\ pc = "replace_check"
    /\ Goto("replace")
    /\ UNCHANGED <<exchangeVars, trade, plan, alarm>>

\* _oco_already_resolved only chooses the log line: both answers give up.
ReplaceCheck ==
    /\ pc = "replace_check"
    /\ Resume
    /\ UNCHANGED <<exchangeVars, trade, plan, alarm>>

\* TP > SL > SL_LIMIT after rounding to the tick (SL_LIMIT is 0.999 * SL).
ValidRelation == plan.tp > plan.sl /\ plan.sl >= CoarseBelow

ReplaceAborted ==
    /\ pc = "place" /\ ~ValidRelation
    /\ Resume
    /\ UNCHANGED <<exchangeVars, trade, plan, alarm>>

\* Mutant: a rejected replacement is left for the next candle.
ReplacePlaceGivingUp ==
    /\ pc = "place" /\ ValidRelation
    /\ \E l \in FreshLists :
          \/ /\ PlaceOco(l, plan.sl, plan.tp, "ok")
             /\ plan' = [plan EXCEPT !.list = l]
             /\ Goto("save")
          \/ PlaceOco(l, plan.sl, plan.tp, "error") /\ Resume /\ UNCHANGED plan
    /\ UNCHANGED <<trade, alarm>>

ReplacePlace ==
    /\ pc = "place" /\ ValidRelation
    /\ \E l \in FreshLists :
          \/ /\ PlaceOco(l, plan.sl, plan.tp, "ok")
             /\ plan' = [plan EXCEPT !.list = l]
             /\ Goto("save")
          \/ /\ PlaceOco(l, plan.sl, plan.tp, "error")
             /\ Goto("replace_sell")
             /\ UNCHANGED plan
    /\ UNCHANGED <<trade, alarm>>

\* The replacement failed: close the position at market, or tell a human.
ReplaceSell ==
    /\ pc = "replace_sell"
    /\ \/ MarketSell("ok") /\ Goto("replace_close") /\ UNCHANGED alarm
       \/ MarketSell("error") /\ Resume /\ alarm' = TRUE
    /\ UNCHANGED <<trade, plan>>

ReplaceClose ==
    /\ pc = "replace_close"
    /\ \/ CloseTrade("EMERGENCY_CLOSE") /\ Resume /\ UNCHANGED plan
       \/ Raises("idle") /\ UNCHANGED trade
    /\ UNCHANGED <<exchangeVars, alarm>>

\* update_stop_loss / update_take_profit, after the exchange agreed.
SaveAdjustment ==
    /\ pc = "save"
    /\ \/ /\ \/ plan.why = "BREAKEVEN" /\ UpdateStopLoss(plan.sl, plan.list)
             \/ plan.why # "BREAKEVEN" /\ UpdateTakeProfit(plan.tp, plan.list)
          /\ Resume
          /\ UNCHANGED plan
       \/ Raises("idle") /\ UNCHANGED trade
    /\ UNCHANGED <<exchangeVars, alarm>>

-----------------------------------------------------------------------------
(* The exits.                                                              *)

\* _resolve_trailing_distance: the ATR may be None.
TrailingDistances ==
    {TrailingStop} \cup
        IF EnableAtrTrailing THEN {a * AtrTrailingMultiplier : a \in Atrs} ELSE {}

StopHit == price <= trade.sl
TargetHit == price >= trade.tp
TrailHit(distance) == EnableTrailing /\ price <= trade.high - distance

\* _close_position: a managed row asks or acts on the exchange first.
ExitFor(why, step) ==
    /\ plan' = [NoPlan EXCEPT !.why = why]
    /\ Goto(IF Managed THEN step ELSE "close")

CheckExits ==
    /\ pc = "exit"
    /\ \E distance \in TrailingDistances :
          \/ StopHit /\ ExitFor("STOP_LOSS", "confirm")
          \/ ~StopHit /\ TargetHit /\ ExitFor("TAKE_PROFIT", "confirm")
          \/ /\ ~StopHit /\ ~TargetHit /\ TrailHit(distance)
             /\ ExitFor("TRAILING_STOP", "trail_cancel")
          \/ /\ ~StopHit /\ ~TargetHit /\ ~TrailHit(distance)
             /\ Goto("idle") /\ plan' = NoPlan
    /\ UNCHANGED <<exchangeVars, trade, alarm>>

\* The exchange has not closed the position: keep the row, try another time.
NotClosed == Goto("idle") /\ plan' = NoPlan

\* Mutant: the status of a leg is compared with the status of the list.
ClosedIfFilled(reply) ==
    \/ reply = "FILLED" /\ Goto("close") /\ UNCHANGED plan
    \/ reply # "FILLED" /\ NotClosed

\* What a status reply says to an exit: only ALL_DONE closes the row.
ClosedIfDone(reply) ==
    \/ reply = "ALL_DONE" /\ Goto("close") /\ UNCHANGED plan
    \/ reply # "ALL_DONE" /\ NotClosed

\* _confirm_oco_filled: anything but ALL_DONE waits for another candle.
ConfirmOcoFilled ==
    /\ pc = "confirm"
    /\ \E reply \in StatusReplies(trade.list) : ClosedIfDone(reply)
    /\ UNCHANGED <<exchangeVars, trade, alarm>>

\* _close_via_trailing_stop: cancel the OCO, then sell at market.
TrailCancel ==
    /\ pc = "trail_cancel"
    /\ \/ CancelList(trade.list, "ok") /\ Goto("trail_sell")
       \/ CancelList(trade.list, "error") /\ Goto("trail_check")
    /\ UNCHANGED <<trade, plan, alarm>>

\* Mutant: a cancel that failed is taken as proof that the list filled.
TrailCheckAssuming ==
    /\ pc = "trail_check"
    /\ Goto("close")
    /\ UNCHANGED <<exchangeVars, trade, plan, alarm>>

\* A list that is over is taken to have sold the position.
TrailCheck ==
    /\ pc = "trail_check"
    /\ \E reply \in StatusReplies(trade.list) : ClosedIfDone(reply)
    /\ UNCHANGED <<exchangeVars, trade, alarm>>

TrailSell ==
    /\ pc = "trail_sell"
    /\ \/ MarketSell("ok") /\ Goto("close") /\ UNCHANGED <<plan, alarm>>
       \/ MarketSell("error") /\ NotClosed /\ alarm' = TRUE
    /\ UNCHANGED trade

\* _close_position: the local record comes last.
ClosePosition ==
    /\ pc = "close"
    /\ \/ CloseTrade(plan.why) /\ Goto("idle") /\ plan' = NoPlan
       \/ Raises("idle") /\ UNCHANGED trade
    /\ UNCHANGED <<exchangeVars, alarm>>

ReplaceNext ==
    \/ ReplaceCancel \/ ReplaceCheck \/ ReplaceAborted \/ ReplacePlace
    \/ ReplaceSell \/ ReplaceClose

ExitNext ==
    \/ CheckExits \/ ConfirmOcoFilled \/ TrailCancel \/ TrailCheck
    \/ TrailSell \/ ClosePosition

ManagerNext ==
    \/ Manage \/ ApplyBreakeven \/ ApplyDynamicTakeProfit
    \/ ReplaceNext \/ SaveAdjustment \/ ExitNext
=============================================================================
