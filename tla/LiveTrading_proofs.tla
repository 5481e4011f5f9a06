------------------------- MODULE LiveTrading_proofs -------------------------
(***************************************************************************)
(* What LiveTrading keeps for every ladder of prices, every configuration  *)
(* of the position manager and every set of faults: the stop never goes    *)
(* back, breakeven stays, and no row is closed over a resting list.        *)
(***************************************************************************)
EXTENDS LiveTrading, TLAPS

\* The steps of an entry: ExecutionAgent saw no open row, and only the
\* entry itself creates one.
NoRowWhileEntering == pc \in EntrySteps => ~HasOpenTrade

AdjustSteps ==
    {"replace", "replace_check", "place", "replace_sell", "replace_close", "save"}

\* While the list is being replaced the row does not move, so what the
\* handler decided from it is still an improvement when it is saved.
AdjustmentImproves ==
    pc \in AdjustSteps =>
        \/ /\ plan.why = "BREAKEVEN"
           /\ plan.sl = trade.entry
           /\ plan.sl >= trade.sl
        \/ plan.why = "DYNAMIC_TAKE_PROFIT" /\ plan.tp >= trade.tp

ExitSteps == {"confirm", "trail_cancel", "trail_check", "trail_sell", "close"}

\* An exit under way knows its reason: close_trade writes it into the row.
ExitHasReason ==
    pc \in ExitSteps => plan.why \in {"STOP_LOSS", "TAKE_PROFIT", "TRAILING_STOP"}

ReleasedSteps ==
    {"place", "replace_sell", "replace_close", "trail_sell", "close",
     "reconcile_close", "reconcile_sell", "reconcile_sold"}

\* A step that sells or closes a managed row comes after its list was
\* canceled or is over: nothing puts that list back on the exchange.
Released ==
    Managed /\ pc \in ReleasedSteps => oco[trade.list].st # "EXECUTING"

IInv ==
    /\ TypeOK
    /\ NoRowWhileEntering
    /\ ExitHasReason
    /\ AdjustmentImproves
    /\ Released
    /\ BreakevenHolds

-----------------------------------------------------------------------------
(* Type correctness.                                                       *)

\* The exchange's answers keep the types of its own state.
LEMMA ExchangeTyped ==
    ASSUME TypeOK, NEW l \in Lists \cup {NoList}, NEW reply,
           \/ MarketBuy(reply) \/ MarketSell(reply) \/ CancelList(l, reply)
           \/ ListFills(l) \/ OperatorCancels(l)
           \/ \E sl, tp \in Int : PlaceOco(l, sl, tp, reply)
    PROVE  ExchangeTypeOK'
  BY DEF TypeOK, ExchangeTypeOK, MarketBuy, MarketSell, CancelList, ListFills,
         OperatorCancels, PlaceOco, OrderList, ListState, Done

\* The writes of the repository keep the type of the row.
LEMMA RepositoryTyped ==
    ASSUME TypeOK, NEW entry \in Int, NEW sl \in Int, NEW tp \in Int,
           NEW list \in Lists \cup {NoList}, NEW reason \in ExitReason,
           \/ CreateTrade(entry, sl, tp, list)
           \/ UpdateTradePrice(entry)
           \/ UpdateStopLoss(sl, list)
           \/ UpdateTakeProfit(tp, list)
           \/ CloseTrade(reason)
    PROVE  RepositoryTypeOK'
  <1> trade \in Trade
    BY DEF TypeOK, RepositoryTypeOK
  <1> SUFFICES trade' \in Trade
    BY DEF RepositoryTypeOK
  <1> USE DEF Trade
  <1>1. CASE CreateTrade(entry, sl, tp, list)
    BY <1>1 DEF CreateTrade, TradeStatus, ExitReason
  <1>2. CASE UpdateTradePrice(entry)
    BY <1>2 DEF UpdateTradePrice
  <1>3. CASE UpdateStopLoss(sl, list)
    BY <1>3 DEF UpdateStopLoss
  <1>4. CASE UpdateTakeProfit(tp, list)
    BY <1>4 DEF UpdateTakeProfit
  <1>5. CASE CloseTrade(reason)
    BY <1>5 DEF CloseTrade, TradeStatus
  <1> QED
    BY <1>1, <1>2, <1>3, <1>4, <1>5

LEMMA NoPlanTyped == NoPlan \in Plan
  BY DEF NoPlan, Plan, Purpose

LEMMA LevelsTyped ==
    ASSUME NEW p \in SignalPrices
    PROVE  Levels(p) \in Plan
  <1>1. p \in Int /\ p - StopDistance \in Int /\ p + TargetDistance \in Int
    BY LadderAssumption DEF SignalPrices
  <1> QED
    BY <1>1, NoPlanTyped DEF Levels, Plan

LEMMA TypeInit == Init => TypeOK
  <1> SUFFICES ASSUME Init PROVE TypeOK
    OBVIOUS
  <1>1. ExchangeTypeOK
    BY DEF Init, ExchangeTypeOK, OrderList, ListState, Done
  <1>2. RepositoryTypeOK
    <2>1. NoTrade \in Trade
      BY DEF NoTrade, Trade, TradeStatus, ExitReason
    <2>2. ASSUME NEW p \in SignalPrices PROVE LegacyRow(p) \in Trade
      <3>1. Levels(p).sl \in Int /\ Levels(p).tp \in Int
        BY LevelsTyped DEF Plan
      <3>2. p \in Int
        BY LadderAssumption DEF SignalPrices
      <3> QED
        BY <3>1, <3>2, <2>1 DEF LegacyRow, Trade, TradeStatus
    <2> QED
      BY <2>1, <2>2 DEF Init, RepositoryTypeOK
  <1>3. ProcessTypeOK
    <2>1. pc \in Steps
      BY DEF Init, Steps
    <2>2. plan \in Plan
      BY NoPlanTyped DEF Init
    <2>3. alarm \in BOOLEAN
      BY DEF Init
    <2>4. price \in Int
      BY DEF Init
    <2> QED
      BY <2>1, <2>2, <2>3, <2>4 DEF ProcessTypeOK
  <1> QED
    BY <1>1, <1>2, <1>3 DEF TypeOK

\* Only the calls of Exchange change the exchange.
LEMMA ExchangeStep == TypeOK /\ [Next]_vars => ExchangeTypeOK'
  <1> SUFFICES ASSUME TypeOK, [Next]_vars PROVE ExchangeTypeOK'
    OBVIOUS
  <1> trade.list \in Lists \cup {NoList} /\ plan.sl \in Int /\ plan.tp \in Int
    BY DEF TypeOK, RepositoryTypeOK, Trade, ProcessTypeOK, Plan
  <1>1. CASE UNCHANGED exchangeVars
    BY <1>1 DEF TypeOK, ExchangeTypeOK, exchangeVars
  <1>2. CASE EntryBuy
    BY <1>2, ExchangeTyped DEF EntryBuy
  <1>3. CASE EntryOco \/ ReplacePlace
    BY <1>3, ExchangeTyped DEF EntryOco, ReplacePlace, FreshLists
  <1>4. CASE EntrySell \/ ReplaceSell \/ TrailSell \/ ReconcileSell
    BY <1>4, ExchangeTyped DEF EntrySell, ReplaceSell, TrailSell, ReconcileSell
  <1>5. CASE ReplaceCancel \/ TrailCancel
    BY <1>5, ExchangeTyped DEF ReplaceCancel, TrailCancel
  <1>6. CASE ExchangeMoves
    BY <1>6, ExchangeTyped DEF ExchangeMoves
  <1>7. CASE Candle \/ Crash \/ Restart \/ ExecutePaper \/ EntryRecord
    BY <1>7, <1>1 DEF Candle, QuietCandle, SignalCandle, Crash, Restart,
                      ExecutePaper, EntryRecord
  <1>8. CASE Manage \/ ApplyBreakeven \/ ApplyDynamicTakeProfit
             \/ SaveAdjustment \/ CheckExits \/ ConfirmOcoFilled
             \/ TrailCheck \/ ClosePosition
    BY <1>8, <1>1 DEF Manage, ApplyBreakeven, ApplyDynamicTakeProfit,
                      SaveAdjustment, CheckExits, ConfirmOcoFilled, TrailCheck,
                      ClosePosition
  <1>9. CASE ReplaceCheck \/ ReplaceAborted \/ ReplaceClose
    BY <1>9, <1>1 DEF ReplaceCheck, ReplaceAborted, ReplaceClose
  <1>10. CASE ReconcileNothing \/ ReconcileUntracked \/ ReconcileTracked
              \/ ReconcileClose \/ ReconcileSold \/ ReconcileOrphans
    BY <1>10, <1>1 DEF ReconcileNothing, ReconcileUntracked, ReconcileTracked,
                       ReconcileClose, ReconcileSold, ReconcileOrphans
  <1>11. CASE UNCHANGED vars
    BY <1>11, <1>1 DEF vars, exchangeVars
  <1> QED
    BY <1>2, <1>3, <1>4, <1>5, <1>6, <1>7, <1>8, <1>9, <1>10, <1>11
    DEF Next, ProcessNext, RouterNext, Execute, ManagerNext, ReplaceNext,
        ExitNext, ReconcilerNext

\* Only the writes of the repository change the row.
LEMMA RepositoryStep ==
    TypeOK /\ ExitHasReason /\ [Next]_vars => RepositoryTypeOK'
  <1> SUFFICES ASSUME TypeOK, ExitHasReason, [Next]_vars
               PROVE  RepositoryTypeOK'
    OBVIOUS
  <1>0. /\ plan.entry \in Int /\ plan.sl \in Int /\ plan.tp \in Int
        /\ plan.list \in Lists \cup {NoList}
        /\ plan.why \in Purpose /\ price \in Int
    BY DEF TypeOK, ProcessTypeOK, Plan
  <1>1. CASE UNCHANGED trade
    BY <1>1 DEF TypeOK, RepositoryTypeOK
  <1>2. CASE ExecutePaper
    <2>1. ASSUME NEW slip \in Fills PROVE plan.entry + slip \in Int
      BY <1>0, SlippageAssumption DEF Fills
    <2>2. NoList \in Lists \cup {NoList} /\ "NONE" \in ExitReason
      BY DEF ExitReason
    <2> QED
      BY <1>0, <1>1, <1>2, <2>1, <2>2, RepositoryTyped DEF ExecutePaper
  <1>3. CASE EntryRecord
    <2>1. "NONE" \in ExitReason
      BY DEF ExitReason
    <2> QED
      BY <1>0, <1>1, <1>3, <2>1, RepositoryTyped DEF EntryRecord
  <1>4. CASE Manage
    <2>1. "NONE" \in ExitReason
      BY DEF ExitReason
    <2> QED
      BY <1>0, <1>1, <1>4, <2>1, RepositoryTyped DEF Manage
  <1>5. CASE SaveAdjustment
    <2>1. "NONE" \in ExitReason
      BY DEF ExitReason
    <2> QED
      BY <1>0, <1>1, <1>5, <2>1, RepositoryTyped DEF SaveAdjustment
  <1>6. CASE ReplaceClose \/ ClosePosition \/ ReconcileClose \/ ReconcileSold
    <2>1. {"EMERGENCY_CLOSE", "RECONCILED_CLOSED",
           "RECONCILED_EMERGENCY_CLOSE"} \subseteq ExitReason
      BY DEF ExitReason
    <2>2. ClosePosition => plan.why \in ExitReason
      BY DEF ClosePosition, ExitHasReason, ExitSteps, ExitReason
    <2> QED
      BY <1>0, <1>1, <1>6, <2>1, <2>2, RepositoryTyped
      DEF ReplaceClose, ClosePosition, ReconcileClose, ReconcileSold
  <1>7. CASE Candle \/ Crash \/ Restart \/ ExchangeMoves \/ EntryBuy
             \/ EntryOco \/ EntrySell
    BY <1>7, <1>1 DEF Candle, QuietCandle, SignalCandle, Crash, Restart,
                      ExchangeMoves, EntryBuy, EntryOco, EntrySell
  <1>8. CASE ApplyBreakeven \/ ApplyDynamicTakeProfit \/ CheckExits
             \/ ConfirmOcoFilled \/ TrailCancel \/ TrailCheck \/ TrailSell
    BY <1>8, <1>1 DEF ApplyBreakeven, ApplyDynamicTakeProfit, CheckExits,
                      ConfirmOcoFilled, TrailCancel, TrailCheck, TrailSell
  <1>9. CASE ReplaceCancel \/ ReplaceCheck \/ ReplaceAborted \/ ReplacePlace
             \/ ReplaceSell
    BY <1>9, <1>1 DEF ReplaceCancel, ReplaceCheck, ReplaceAborted,
                      ReplacePlace, ReplaceSell
  <1>10. CASE ReconcileNothing \/ ReconcileUntracked \/ ReconcileTracked
              \/ ReconcileSell \/ ReconcileOrphans
    BY <1>10, <1>1 DEF ReconcileNothing, ReconcileUntracked, ReconcileTracked,
                       ReconcileSell, ReconcileOrphans
  <1>11. CASE UNCHANGED vars
    BY <1>11, <1>1 DEF vars
  <1> QED
    BY <1>2, <1>3, <1>4, <1>5, <1>6, <1>7, <1>8, <1>9, <1>10, <1>11
    DEF Next, ProcessNext, RouterNext, Execute, ManagerNext, ReplaceNext,
        ExitNext, ReconcilerNext

\* Every step of the process names its successor and keeps its plan typed.
LEMMA ProcessStep == TypeOK /\ [Next]_vars => ProcessTypeOK'
  <1> SUFFICES ASSUME TypeOK, [Next]_vars PROVE ProcessTypeOK'
    OBVIOUS
  <1>0. /\ pc \in Steps /\ price \in Int /\ plan \in Plan /\ NoPlan \in Plan
        /\ trade.entry \in Int /\ trade.sl \in Int /\ trade.tp \in Int
        /\ alarm \in BOOLEAN
    BY NoPlanTyped DEF TypeOK, ProcessTypeOK, RepositoryTypeOK, Trade
  <1> USE <1>0 DEF ProcessTypeOK, Goto
  <1>1. CASE QuietCandle
    BY <1>1, LadderAssumption DEF QuietCandle, Steps, ManageSteps
  <1>2. CASE SignalCandle
    <2>1. price' \in Int
      BY <1>2, LadderAssumption DEF SignalCandle, SignalPrices
    <2> QED
      BY <1>2, <2>1, LevelsTyped DEF SignalCandle, Steps, EntrySteps
  <1>3. CASE ExecutePaper \/ EntryRecord
    BY <1>3 DEF ExecutePaper, EntryRecord, Raises, Steps, ManageSteps
  <1>4. CASE EntryBuy
    <2>1. ASSUME NEW slip \in Fills
          PROVE  [plan EXCEPT !.entry = @ + slip, !.sl = @ + slip,
                              !.tp = @ + slip] \in Plan
      <3>1. slip \in Int
        BY SlippageAssumption DEF Fills
      <3>2. /\ plan.entry + slip \in Int
            /\ plan.sl + slip \in Int
            /\ plan.tp + slip \in Int
        BY <3>1 DEF Plan
      <3> QED
        BY <3>2 DEF Plan
    <2> QED
      BY <1>4, <2>1 DEF EntryBuy, Steps, EntrySteps, ManageSteps
  <1>5. CASE EntryOco \/ ReplacePlace
    <2>1. ASSUME NEW l \in FreshLists PROVE [plan EXCEPT !.list = l] \in Plan
      BY DEF FreshLists, Plan
    <2> QED
      BY <1>5, <2>1
      DEF EntryOco, ReplacePlace, Steps, EntrySteps, ManageSteps
  <1>6. CASE EntrySell
    BY <1>6 DEF EntrySell, Steps, ManageSteps
  <1>7. CASE Manage \/ ClosePosition
    BY <1>7 DEF Manage, ClosePosition, Raises, Steps, ManageSteps
  <1>8. CASE ApplyBreakeven \/ ApplyDynamicTakeProfit
    <2>1. ASSUME NEW why \in Purpose, NEW sl \in Int, NEW tp \in Int,
                 Adjust(why, sl, tp)
          PROVE  plan' \in Plan /\ pc' \in Steps /\ UNCHANGED price
      BY <2>1 DEF Adjust, Plan, Steps, ManageSteps
    <2>2. ASSUME NEW atr \in Atrs
          PROVE  trade.tp + atr * DynamicMultiplier \in Int
      BY ManagementAssumption
    <2>3. {"BREAKEVEN", "DYNAMIC_TAKE_PROFIT"} \subseteq Purpose
      BY DEF Purpose
    <2> QED
      BY <1>8, <2>1, <2>2, <2>3
      DEF ApplyBreakeven, ApplyDynamicTakeProfit, Steps, ManageSteps
  <1>9. CASE ReplaceCancel \/ ReplaceCheck \/ ReplaceAborted
    BY <1>9 DEF ReplaceCancel, ReplaceCheck, ReplaceAborted, Resume, Steps,
                ManageSteps
  <1>10. CASE ReplaceSell \/ ReplaceClose \/ SaveAdjustment
    BY <1>10 DEF ReplaceSell, ReplaceClose, SaveAdjustment, Resume, Raises,
                 Steps, ManageSteps
  <1>11. CASE CheckExits
    <2>1. ASSUME NEW why \in Purpose, NEW step \in ManageSteps,
                 ExitFor(why, step)
          PROVE  plan' \in Plan /\ pc' \in Steps /\ UNCHANGED price
      BY <2>1 DEF ExitFor, Plan, Steps, ManageSteps
    <2>2. /\ {"STOP_LOSS", "TAKE_PROFIT", "TRAILING_STOP"} \subseteq Purpose
          /\ {"confirm", "trail_cancel"} \subseteq ManageSteps
      BY DEF Purpose, ManageSteps
    <2> QED
      BY <1>11, <2>1, <2>2 DEF CheckExits, Steps
  <1>12. CASE ConfirmOcoFilled \/ TrailCancel \/ TrailCheck \/ TrailSell
    BY <1>12 DEF ConfirmOcoFilled, TrailCancel, TrailCheck, TrailSell,
                 ClosedIfDone, NotClosed, Steps, ManageSteps
  <1>13. CASE Crash \/ Restart
    BY <1>13 DEF Crash, Restart, Steps, StartupSteps
  <1>14. CASE ReconcileNothing \/ ReconcileUntracked \/ ReconcileTracked
    BY <1>14 DEF ReconcileNothing, ReconcileUntracked, ReconcileTracked, Steps,
                 StartupSteps
  <1>15. CASE ReconcileClose \/ ReconcileSell \/ ReconcileSold
    BY <1>15 DEF ReconcileClose, ReconcileSell, ReconcileSold, Raises, Steps,
                 StartupSteps
  <1>16. CASE ReconcileOrphans
    BY <1>16 DEF ReconcileOrphans, Steps
  <1>17. CASE ExchangeMoves \/ UNCHANGED vars
    BY <1>17 DEF ExchangeMoves, processVars, vars
  <1> QED
    BY <1>1, <1>2, <1>3, <1>4, <1>5, <1>6, <1>7, <1>8, <1>9, <1>10, <1>11,
       <1>12, <1>13, <1>14, <1>15, <1>16, <1>17
    DEF Next, ProcessNext, Candle, RouterNext, Execute, ManagerNext,
        ReplaceNext, ExitNext, ReconcilerNext

-----------------------------------------------------------------------------
(* The other parts of the inductive invariant.                             *)

\* The row changes only in the steps that write it.
Writes == Manage \/ SaveAdjustment \/ Execute \/ EntryRecord
          \/ ReplaceClose \/ ClosePosition \/ ReconcileClose \/ ReconcileSold

LEMMA RowUnchanged == [Next]_vars => UNCHANGED trade \/ Writes
  BY DEF Writes, Next, ProcessNext, Candle, QuietCandle, SignalCandle,
      RouterNext, Execute, EntryBuy, EntryOco, EntrySell, ManagerNext,
      ApplyBreakeven,
      ApplyDynamicTakeProfit, ReplaceNext, ReplaceCancel, ReplaceCheck,
      ReplaceAborted, ReplacePlace, ReplaceSell, ExitNext, CheckExits,
      ConfirmOcoFilled, TrailCancel, TrailCheck, TrailSell, Crash, Restart,
      ReconcilerNext, ReconcileNothing, ReconcileUntracked, ReconcileTracked,
      ReconcileSell, ReconcileOrphans, ExchangeMoves, vars

Stays == UNCHANGED processVars /\ UNCHANGED trade

\* Which steps lead into each phase of the handler.
LEMMA Predecessors ==
    ASSUME [Next]_vars
    PROVE  /\ pc' \in EntrySteps =>
                 SignalCandle \/ Execute \/ EntryOco \/ Stays
           /\ pc' \in AdjustSteps =>
                 \/ ApplyBreakeven \/ ApplyDynamicTakeProfit
                 \/ ReplaceCancel \/ ReplacePlace \/ ReplaceSell \/ Stays
           /\ pc' \in ExitSteps =>
                 \/ CheckExits \/ ConfirmOcoFilled \/ TrailCancel
                 \/ TrailCheck \/ TrailSell \/ Stays
           /\ pc' \in ReleasedSteps =>
                 \/ ReplaceCancel \/ ReplacePlace \/ ReplaceSell
                 \/ CheckExits \/ ConfirmOcoFilled \/ TrailCancel
                 \/ TrailCheck \/ TrailSell
                 \/ ReconcileTracked \/ ReconcileSell \/ Stays
  <1> USE DEF EntrySteps, AdjustSteps, ExitSteps, ReleasedSteps, Goto, Raises
  <1>1. CASE QuietCandle \/ SignalCandle \/ Crash \/ Restart
    BY <1>1 DEF QuietCandle, SignalCandle, Crash, Restart
  <1>2. CASE ExchangeMoves \/ UNCHANGED vars
    BY <1>2 DEF ExchangeMoves, Stays, processVars, vars
  <1>3. CASE RouterNext
    BY <1>3 DEF RouterNext, Execute, ExecutePaper, EntryBuy, EntryOco,
                EntrySell, EntryRecord
  <1>4. CASE ReplaceNext \/ SaveAdjustment
    BY <1>4 DEF ReplaceNext, ReplaceCancel, ReplaceCheck, ReplaceAborted,
                ReplacePlace, ReplaceSell, ReplaceClose, SaveAdjustment, Resume
  <1>5. CASE Manage \/ ApplyBreakeven \/ ApplyDynamicTakeProfit
    BY <1>5 DEF Manage, ApplyBreakeven, ApplyDynamicTakeProfit, Adjust
  <1>6. CASE ExitNext
    BY <1>6 DEF ExitNext, CheckExits, ExitFor, ConfirmOcoFilled, TrailCancel,
                TrailCheck, TrailSell, ClosePosition, ClosedIfDone, NotClosed
  <1>7. CASE ReconcilerNext
    BY <1>7 DEF ReconcilerNext, ReconcileNothing, ReconcileUntracked,
                ReconcileTracked, ReconcileClose, ReconcileSell, ReconcileSold,
                ReconcileOrphans
  <1> QED
    BY <1>1, <1>2, <1>3, <1>4, <1>5, <1>6, <1>7
    DEF Next, ProcessNext, Candle, ManagerNext

LEMMA EnteringStep == IInv /\ [Next]_vars => NoRowWhileEntering'
  <1> SUFFICES ASSUME IInv, [Next]_vars, pc' \in EntrySteps
               PROVE  ~HasOpenTrade'
    BY DEF NoRowWhileEntering
  <1>1. CASE SignalCandle
    BY <1>1 DEF SignalCandle, HasOpenTrade
  <1>2. CASE Execute \/ EntryOco \/ Stays
    BY <1>2 DEF IInv, NoRowWhileEntering, Execute, EntryBuy, ExecutePaper,
                EntryOco, Stays, Raises, Goto, processVars, EntrySteps,
                HasOpenTrade
  <1> QED
    BY <1>1, <1>2, Predecessors

LEMMA ExitStep == IInv /\ [Next]_vars => ExitHasReason'
  <1> SUFFICES ASSUME IInv, [Next]_vars, pc' \in ExitSteps
               PROVE  plan'.why \in {"STOP_LOSS", "TAKE_PROFIT", "TRAILING_STOP"}
    BY DEF ExitHasReason
  <1>1. CASE CheckExits
    BY <1>1 DEF CheckExits, ExitFor, Goto, ExitSteps, NoPlan
  <1>2. CASE \/ ConfirmOcoFilled \/ TrailCancel \/ TrailCheck \/ TrailSell
             \/ Stays
    BY <1>2 DEF IInv, ExitHasReason, ConfirmOcoFilled, TrailCancel, TrailCheck,
                TrailSell, ClosedIfDone, NotClosed, Goto, Stays, processVars,
                ExitSteps
  <1> QED
    BY <1>1, <1>2, Predecessors

LEMMA AdjustPlans ==
    ASSUME NEW why, NEW sl, NEW tp, Adjust(why, sl, tp)
    PROVE  plan'.why = why /\ plan'.sl = sl /\ plan'.tp = tp
  BY DEF Adjust, NoPlan

LEMMA AdjustmentStep == IInv /\ [Next]_vars => AdjustmentImproves'
  <1> SUFFICES ASSUME IInv, [Next]_vars, pc' \in AdjustSteps
               PROVE  \/ /\ plan'.why = "BREAKEVEN"
                         /\ plan'.sl = trade'.entry
                         /\ plan'.sl >= trade'.sl
                      \/ /\ plan'.why = "DYNAMIC_TAKE_PROFIT"
                         /\ plan'.tp >= trade'.tp
    BY DEF AdjustmentImproves
  <1>0. /\ trade.entry \in Int /\ trade.sl \in Int /\ trade.tp \in Int
        /\ plan \in Plan
    BY DEF IInv, TypeOK, RepositoryTypeOK, ProcessTypeOK, Trade
  <1>1. CASE ApplyBreakeven
    <2>1. BreakevenDue /\ Adjust("BREAKEVEN", trade.entry, trade.tp)
          /\ UNCHANGED trade
      BY <1>1 DEF ApplyBreakeven, Goto, AdjustSteps
    <2>2. trade.entry >= trade.sl
      BY <1>0, <2>1 DEF BreakevenDue
    <2> QED
      BY <2>1, <2>2, AdjustPlans
  <1>2. CASE ApplyDynamicTakeProfit
    <2>1. PICK atr \in Atrs : Adjust("DYNAMIC_TAKE_PROFIT", trade.sl,
                                   trade.tp + atr * DynamicMultiplier)
      BY <1>2 DEF ApplyDynamicTakeProfit, Goto, AdjustSteps
    <2>2. UNCHANGED trade
      BY <1>2 DEF ApplyDynamicTakeProfit
    <2>3. atr * DynamicMultiplier \in Nat
      BY ManagementAssumption
    <2>4. trade.tp + atr * DynamicMultiplier >= trade.tp
      BY <1>0, <2>3
    <2> QED
      BY <2>1, <2>2, <2>4, AdjustPlans
  <1>3. CASE ReplacePlace
    BY <1>0, <1>3 DEF ReplacePlace, IInv, AdjustmentImproves, AdjustSteps, Goto,
                      Plan
  <1>4. CASE ReplaceCancel \/ ReplaceSell \/ Stays
    BY <1>4 DEF ReplaceCancel, ReplaceSell, Resume, Stays, processVars, IInv,
                AdjustmentImproves, AdjustSteps, Goto
  <1> QED
    BY <1>1, <1>2, <1>3, <1>4, Predecessors

\* No step of the process or of the exchange revives a list that is over:
\* new lists get an identifier that the row does not hold.
LEMMA ListsStayOver ==
    ASSUME IInv, [Next]_vars, trade.list # NoList,
           oco[trade.list].st # "EXECUTING"
    PROVE  oco'[trade.list].st # "EXECUTING"
  <1>0. trade.list \in Lists /\ oco \in [Lists -> OrderList]
    BY DEF IInv, TypeOK, RepositoryTypeOK, ExchangeTypeOK, Trade
  <1>1. CASE UNCHANGED oco
    BY <1>1
  <1>2. CASE EntryOco \/ ReplacePlace
    BY <1>0, <1>2 DEF EntryOco, ReplacePlace, FreshLists, PlaceOco
  <1>3. CASE ReplaceCancel \/ TrailCancel
    BY <1>0, <1>3 DEF ReplaceCancel, TrailCancel, CancelList
  <1>4. CASE ExchangeMoves
    BY <1>0, <1>4 DEF ExchangeMoves, ListFills, OperatorCancels, Done
  <1>5. CASE EntryBuy \/ EntrySell \/ ReplaceSell \/ TrailSell \/ ReconcileSell
    BY <1>1, <1>5 DEF EntryBuy, EntrySell, ReplaceSell, TrailSell,
                      ReconcileSell, MarketBuy, MarketSell
  <1>6. CASE Candle \/ Crash \/ Restart \/ ExecutePaper \/ EntryRecord
    BY <1>6, <1>1 DEF Candle, QuietCandle, SignalCandle, Crash, Restart,
                      ExecutePaper, EntryRecord, exchangeVars
  <1>7. CASE Manage \/ ApplyBreakeven \/ ApplyDynamicTakeProfit
             \/ SaveAdjustment \/ CheckExits \/ ConfirmOcoFilled
             \/ TrailCheck \/ ClosePosition
    BY <1>7, <1>1 DEF Manage, ApplyBreakeven, ApplyDynamicTakeProfit,
                      SaveAdjustment, CheckExits, ConfirmOcoFilled, TrailCheck,
                      ClosePosition, exchangeVars
  <1>8. CASE ReplaceCheck \/ ReplaceAborted \/ ReplaceClose
    BY <1>8, <1>1 DEF ReplaceCheck, ReplaceAborted, ReplaceClose, exchangeVars
  <1>9. CASE ReconcileNothing \/ ReconcileUntracked \/ ReconcileTracked
             \/ ReconcileClose \/ ReconcileSold \/ ReconcileOrphans
    BY <1>9, <1>1 DEF ReconcileNothing, ReconcileUntracked, ReconcileTracked,
                      ReconcileClose, ReconcileSold, ReconcileOrphans,
                      exchangeVars
  <1>10. CASE UNCHANGED vars
    BY <1>10, <1>1 DEF vars
  <1> QED
    BY <1>2, <1>3, <1>4, <1>5, <1>6, <1>7, <1>8, <1>9, <1>10
    DEF Next, ProcessNext, RouterNext, Execute, ManagerNext, ReplaceNext,
        ExitNext, ReconcilerNext

\* A status reply that ends an exit or a reconciliation comes from a list
\* that is over.
LEMMA OnlyRestingExecutes ==
    ASSUME IInv, trade.list # NoList, NEW reply \in StatusReplies(trade.list),
           reply \in {"ALL_DONE", "NOT_FOUND"}
    PROVE  oco[trade.list].st # "EXECUTING"
  BY DEF StatusReplies

LEMMA ReleasedStep == IInv /\ [Next]_vars => Released'
  <1> SUFFICES ASSUME IInv, [Next]_vars, Managed', pc' \in ReleasedSteps
               PROVE  oco'[trade'.list].st # "EXECUTING"
    BY DEF Released
  <1>0. trade.list \in Lists \cup {NoList} /\ oco \in [Lists -> OrderList]
    BY DEF IInv, TypeOK, RepositoryTypeOK, ExchangeTypeOK, Trade
  <1>1. UNCHANGED trade /\ Managed
    <2>1. UNCHANGED trade
      BY Predecessors
      DEF ReplaceCancel, ReplacePlace, ReplaceSell, CheckExits, ConfirmOcoFilled,
          TrailCancel, TrailCheck, TrailSell, ReconcileTracked, ReconcileSell,
          Stays
    <2> QED
      BY <2>1 DEF Managed
  <1>2. trade.list \in Lists
    BY <1>0, <1>1 DEF Managed
  <1>3. CASE ReplaceCancel \/ TrailCancel
    BY <1>0, <1>1, <1>2, <1>3
    DEF ReplaceCancel, TrailCancel, CancelList, Refused, Goto, ReleasedSteps,
        Done
  <1>4. CASE CheckExits
    BY <1>1, <1>4 DEF CheckExits, ExitFor, Goto, ReleasedSteps
  <1>5. CASE ConfirmOcoFilled \/ TrailCheck \/ ReconcileTracked
    BY <1>1, <1>2, <1>5, OnlyRestingExecutes, ListsStayOver
    DEF ConfirmOcoFilled, TrailCheck, ReconcileTracked, ClosedIfDone, NotClosed,
        Goto, ReleasedSteps, Managed
  <1>6. CASE \/ ReplacePlace \/ ReplaceSell \/ TrailSell \/ ReconcileSell
             \/ Stays
    <2>1. pc \in ReleasedSteps
      BY <1>6 DEF ReplacePlace, ReplaceSell, TrailSell, ReconcileSell, Stays,
                  processVars, ReleasedSteps
    <2> QED
      BY <1>1, <2>1, ListsStayOver DEF IInv, Released, Managed
  <1> QED
    BY <1>3, <1>4, <1>5, <1>6, Predecessors

CloseSteps == {"replace_close", "close", "reconcile_close", "reconcile_sold"}

SameLevels ==
    /\ trade'.sl = trade.sl /\ trade'.tp = trade.tp
    /\ trade'.entry = trade.entry /\ trade'.be = trade.be

\* What a step can do to the row: nothing that matters here, open it, close
\* it, move the stop to the planned one, or the target.
LEMMA RowSteps ==
    ASSUME IInv, [Next]_vars
    PROVE  \/ SameLevels /\ trade'.st = trade.st
           \/ ~HasOpenTrade /\ trade'.be = FALSE
           \/ SameLevels /\ trade'.st = "CLOSED" /\ pc \in CloseSteps
           \/ /\ pc = "save" /\ plan.why = "BREAKEVEN"
              /\ trade'.st = trade.st /\ trade'.entry = trade.entry
              /\ trade'.sl = plan.sl /\ trade'.tp = trade.tp
           \/ /\ pc = "save" /\ plan.why # "BREAKEVEN"
              /\ trade'.st = trade.st /\ trade'.entry = trade.entry
              /\ trade'.sl = trade.sl /\ trade'.tp = plan.tp
              /\ trade'.be = trade.be
  <1>0. trade \in Trade
    BY DEF IInv, TypeOK, RepositoryTypeOK
  <1>1. CASE UNCHANGED trade
    BY <1>1 DEF SameLevels
  <1>2. CASE Manage
    BY <1>0, <1>1, <1>2 DEF Manage, UpdateTradePrice, Trade, SameLevels
  <1>3. CASE Execute \/ EntryRecord
    <2>1. ~HasOpenTrade
      BY <1>3 DEF Execute, EntryRecord, EntrySteps, IInv, NoRowWhileEntering
    <2>2. ASSUME NEW entry, NEW sl, NEW tp, NEW list,
                 CreateTrade(entry, sl, tp, list)
          PROVE  trade'.be = FALSE
      BY <2>2 DEF CreateTrade
    <2> QED
      BY <1>1, <1>3, <2>1, <2>2
      DEF Execute, EntryBuy, ExecutePaper, EntryRecord
  <1>4. CASE ReplaceClose \/ ClosePosition \/ ReconcileClose \/ ReconcileSold
    <2>1. pc \in CloseSteps
      BY <1>4 DEF ReplaceClose, ClosePosition, ReconcileClose, ReconcileSold,
                  CloseSteps
    <2>2. ASSUME NEW reason, CloseTrade(reason)
          PROVE  SameLevels /\ trade'.st = "CLOSED"
      BY <1>0, <2>2 DEF CloseTrade, SameLevels, Trade
    <2> QED
      BY <1>1, <1>4, <2>1, <2>2
      DEF ReplaceClose, ClosePosition, ReconcileClose, ReconcileSold
  <1>5. CASE SaveAdjustment
    BY <1>0, <1>1, <1>5
    DEF SaveAdjustment, UpdateStopLoss, UpdateTakeProfit, Trade
  <1> QED
    BY <1>1, <1>2, <1>3, <1>4, <1>5, RowUnchanged DEF Writes

LEMMA BreakevenStep == IInv /\ [Next]_vars => BreakevenHolds'
  <1> SUFFICES ASSUME IInv, [Next]_vars, HasOpenTrade', trade'.be
               PROVE  trade'.sl >= trade'.entry
    BY DEF BreakevenHolds
  <1>0. trade.entry \in Int
    BY DEF IInv, TypeOK, RepositoryTypeOK, Trade
  <1>1. CASE pc = "save" /\ plan.why = "BREAKEVEN" /\ trade'.sl = plan.sl
             /\ trade'.entry = trade.entry
    BY <1>0, <1>1 DEF IInv, AdjustmentImproves, AdjustSteps
  <1>2. CASE trade'.sl = trade.sl /\ trade'.entry = trade.entry
             /\ trade'.be = trade.be /\ trade'.st = trade.st
    BY <1>2 DEF IInv, BreakevenHolds, HasOpenTrade
  <1> QED
    BY <1>1, <1>2, RowSteps DEF SameLevels, HasOpenTrade

LEMMA InitHolds == Init => IInv
  <1> SUFFICES ASSUME Init PROVE IInv
    OBVIOUS
  <1>1. TypeOK
    BY TypeInit
  <1>2. NoRowWhileEntering /\ ExitHasReason /\ AdjustmentImproves /\ Released
    BY DEF Init, NoRowWhileEntering, EntrySteps, ExitHasReason, ExitSteps,
           AdjustmentImproves, AdjustSteps, Released, ReleasedSteps
  <1>3. BreakevenHolds
    <2>1. trade.be = FALSE
      <3>1. NoTrade.be = FALSE
        BY DEF NoTrade
      <3>2. ASSUME NEW p \in SignalPrices PROVE LegacyRow(p).be = NoTrade.be
        BY DEF LegacyRow, NoTrade
      <3> QED
        BY <3>1, <3>2 DEF Init
    <2> QED
      BY <2>1 DEF BreakevenHolds
  <1> QED
    BY <1>1, <1>2, <1>3 DEF IInv

LEMMA InvariantStep == IInv /\ [Next]_vars => IInv'
  <1> SUFFICES ASSUME IInv, [Next]_vars PROVE IInv'
    OBVIOUS
  <1>1. TypeOK'
    BY ExchangeStep, RepositoryStep, ProcessStep DEF IInv, TypeOK
  <1> QED
    BY <1>1, EnteringStep, ExitStep, AdjustmentStep, ReleasedStep, BreakevenStep
    DEF IInv

LEMMA Invariant == Spec => []IInv
  BY InitHolds, InvariantStep, PTL DEF Spec

-----------------------------------------------------------------------------
(* The results.                                                            *)

\* Every state of the Runner, the trades table and the exchange has the
\* types that the modules give their variables.
THEOREM TypeCorrect == Spec => []TypeOK
  <1>1. IInv => TypeOK
    BY DEF IInv
  <1> QED
    BY <1>1, Invariant, PTL

\* Whatever fails in between, a row marked with breakeven has its stop at
\* the entry or above it (_apply_breakeven and update_stop_loss).
THEOREM BreakevenIsKept == Spec => []BreakevenHolds
  <1>1. IInv => BreakevenHolds
    BY DEF IInv
  <1> QED
    BY <1>1, Invariant, PTL

\* No step of a candle, a crash or a reconciliation moves the stop or the
\* target of an open row down (update_stop_loss: "never used to move it
\* backward", update_take_profit: "extends, not shrinks").
THEOREM LevelsOnlyRise == Spec => StopOnlyRises
  <1>1. IInv /\ [Next]_vars
          => [HasOpenTrade => trade'.sl >= trade.sl /\ trade'.tp >= trade.tp]_vars
    <2> SUFFICES ASSUME IInv, [Next]_vars, HasOpenTrade
                 PROVE  trade'.sl >= trade.sl /\ trade'.tp >= trade.tp
      OBVIOUS
    <2>1. trade.sl \in Int /\ trade.tp \in Int
      BY DEF IInv, TypeOK, RepositoryTypeOK, Trade
    <2>2. pc = "save" =>
            \/ plan.why = "BREAKEVEN" /\ plan.sl >= trade.sl
            \/ plan.why # "BREAKEVEN" /\ plan.tp >= trade.tp
      BY DEF IInv, AdjustmentImproves, AdjustSteps
    <2> QED
      BY <2>1, <2>2, RowSteps DEF SameLevels
  <1> QED
    BY <1>1, Invariant, PTL DEF Spec, StopOnlyRises

\* No row that the exchange manages is closed in the trades table while its
\* order list still rests (_close_position, _replace_oco, _reconcile_trade).
THEOREM ClosedAfterTheList == Spec => CloseIsConfirmed
  <1>1. IInv /\ [Next]_vars
          => [Managed /\ Closes => oco[trade.list].st # "EXECUTING"]_vars
    <2> SUFFICES ASSUME IInv, [Next]_vars, Managed, Closes
                 PROVE  oco[trade.list].st # "EXECUTING"
      OBVIOUS
    <2>1. pc \in CloseSteps
      BY RowSteps DEF Closes, HasOpenTrade
    <2> QED
      BY <2>1 DEF CloseSteps, ReleasedSteps, IInv, Released
  <1> QED
    BY <1>1, Invariant, PTL DEF Spec, CloseIsConfirmed
=============================================================================
