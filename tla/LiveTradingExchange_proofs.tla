--------------------- MODULE LiveTradingExchange_proofs ---------------------
(***************************************************************************)
(* What the row, the order lists and the holdings have to do with each     *)
(* other, for every ladder of prices and every number of identifiers: the  *)
(* bot never offers more than it bought, the row tells the truth about its *)
(* list, no list is forgotten and no position stays bare, each under the   *)
(* faults that it can stand.                                               *)
(***************************************************************************)
EXTENDS LiveTrading_proofs, FiniteSetTheorems

ManagedSteps ==
    {"replace", "replace_check", "place", "replace_sell", "replace_close",
     "confirm", "trail_cancel", "trail_check", "trail_sell",
     "reconcile_close", "reconcile_sell", "reconcile_sold"}

\* The steps that ask the exchange about the list of the row have one, and
\* only a live session reconciles.
TouchesManaged ==
    /\ pc \in ManagedSteps => Managed
    /\ pc = "reconcile" => Live

\* Without a row there is nothing to adjust.
EmptyRow == trade.st = "NONE" => trade = NoTrade /\ pc \notin AdjustSteps

\* An identifier in the row or in the plan was handed out by the exchange.
ListsPlaced ==
    /\ trade.list # NoList => oco[trade.list].st # "NONE"
    /\ plan.list # NoList => oco[plan.list].st # "NONE"

ReplacingSteps == {"place", "replace_sell", "replace_close", "save"}

\* A closed row has no resting list whose cancellation could succeed, so
\* what the handler does after an emergency close replaces nothing.
OpenWhileReplacing ==
    /\ Managed /\ pc \in ReplacingSteps => HasOpenTrade
    /\ ~Managed /\ pc = "save" => plan.list = NoList

ClosedReleased ==
    Managed /\ trade.st = "CLOSED" => oco[trade.list].st # "EXECUTING"

RowInv ==
    /\ IInv
    /\ TouchesManaged
    /\ EmptyRow
    /\ ListsPlaced
    /\ OpenWhileReplacing
    /\ ClosedReleased

-----------------------------------------------------------------------------
(* What a step can do to the lists and to the row.                         *)

\* Only the requests to the exchange, and the exchange itself, change it.
LEMMA CallsOnly ==
    [Next]_vars =>
        \/ UNCHANGED exchangeVars \/ Execute \/ EntryOco \/ EntrySell
        \/ ReplaceCancel \/ ReplacePlace \/ ReplaceSell
        \/ TrailCancel \/ TrailSell \/ ReconcileSell \/ ExchangeMoves
  BY DEF Next, ProcessNext, Candle, QuietCandle, SignalCandle, RouterNext,
      EntryRecord, ManagerNext, Manage, ApplyBreakeven, ApplyDynamicTakeProfit,
      ReplaceNext, ReplaceCheck, ReplaceAborted, ReplaceClose, SaveAdjustment,
      ExitNext, CheckExits, ConfirmOcoFilled, TrailCheck, ClosePosition, Crash,
      Restart, ReconcilerNext, ReconcileNothing, ReconcileUntracked,
      ReconcileTracked, ReconcileClose, ReconcileSold, ReconcileOrphans, vars,
      exchangeVars

\* A step leaves the lists alone, has a new one placed at the prices of the
\* plan, or ends one that was resting.
LEMMA ListSteps ==
    ASSUME RowInv, [Next]_vars
    PROVE  \/ UNCHANGED oco
           \/ \E l \in FreshLists :
                 /\ pc \in {"entry_oco", "place"}
                 /\ oco' = [oco EXCEPT ![l] = [st |-> "EXECUTING",
                                               sl |-> plan.sl, tp |-> plan.tp]]
           \/ \E l \in Lists, state \in {"FILLED", "CANCELED"} :
                 /\ oco[l].st = "EXECUTING"
                 /\ oco' = [oco EXCEPT ![l] = Done(state)]
  <1>0. trade.list \in Lists \cup {NoList}
    BY DEF RowInv, IInv, TypeOK, RepositoryTypeOK, Trade
  <1>1. CASE UNCHANGED oco
    BY <1>1
  <1>2. CASE EntryOco \/ ReplacePlace
    BY <1>2 DEF EntryOco, ReplacePlace, PlaceOco
  <1>3. CASE ReplaceCancel
    <2>1. trade.list \in Lists
      BY <1>0, <1>3 DEF ReplaceCancel, RowInv, TouchesManaged, ManagedSteps, Managed
    <2> QED
      BY <1>3, <2>1 DEF ReplaceCancel, CancelList
  <1>4. CASE TrailCancel
    <2>1. trade.list \in Lists
      BY <1>0, <1>4 DEF TrailCancel, RowInv, TouchesManaged, ManagedSteps, Managed
    <2> QED
      BY <1>4, <2>1 DEF TrailCancel, CancelList
  <1>5. CASE ExchangeMoves
    BY <1>5 DEF ExchangeMoves, ListFills, OperatorCancels
  <1>6. CASE Execute \/ EntrySell \/ ReplaceSell \/ TrailSell \/ ReconcileSell
    BY <1>1, <1>6 DEF Execute, ExecutePaper, EntryBuy, EntrySell, ReplaceSell,
                      TrailSell, ReconcileSell, MarketBuy, MarketSell, exchangeVars
  <1> QED
    BY <1>1, <1>2, <1>3, <1>4, <1>5, <1>6, CallsOnly DEF exchangeVars

\* A step keeps the identifier and the status of the row, closes it, opens
\* a new one with the list of the plan, or gives it that list.
LEMMA ListOfRowSteps ==
    ASSUME RowInv, [Next]_vars
    PROVE  \/ trade'.list = trade.list /\ trade'.st = trade.st
           \/ /\ trade'.list = trade.list /\ trade'.st = "CLOSED"
              /\ pc \in CloseSteps
           \/ /\ pc = "save" /\ trade'.st = trade.st
              /\ plan.list # NoList /\ trade'.list = plan.list
           \/ pc = "record" /\ trade'.st = "OPEN" /\ trade'.list = plan.list
           \/ pc = "buy" /\ ~Live /\ trade'.st = "OPEN" /\ trade'.list = NoList
  <1>0. trade \in Trade
    BY DEF RowInv, IInv, TypeOK, RepositoryTypeOK
  <1>1. CASE UNCHANGED trade
    BY <1>1
  <1>2. CASE Manage
    BY <1>0, <1>1, <1>2 DEF Manage, UpdateTradePrice, Trade
  <1>3. CASE Execute \/ EntryRecord
    <2>1. ASSUME NEW entry, NEW sl, NEW tp, NEW list,
                 CreateTrade(entry, sl, tp, list)
          PROVE  trade'.st = "OPEN" /\ trade'.list = list
      BY <2>1 DEF CreateTrade
    <2> QED
      BY <1>1, <1>3, <2>1 DEF Execute, EntryBuy, ExecutePaper, EntryRecord
  <1>4. CASE ReplaceClose \/ ClosePosition \/ ReconcileClose \/ ReconcileSold
    <2>1. pc \in CloseSteps
      BY <1>4 DEF ReplaceClose, ClosePosition, ReconcileClose, ReconcileSold,
                  CloseSteps
    <2>2. ASSUME NEW reason, CloseTrade(reason)
          PROVE  trade'.list = trade.list /\ trade'.st = "CLOSED"
      BY <1>0, <2>2 DEF CloseTrade, Trade
    <2> QED
      BY <1>1, <1>4, <2>1, <2>2
      DEF ReplaceClose, ClosePosition, ReconcileClose, ReconcileSold
  <1>5. CASE SaveAdjustment
    <2>1. ASSUME NEW level,
                 UpdateStopLoss(level, plan.list) \/ UpdateTakeProfit(level, plan.list)
          PROVE  /\ trade'.st = trade.st
                 /\ trade'.list = IF plan.list = NoList THEN trade.list ELSE plan.list
      BY <1>0, <2>1 DEF UpdateStopLoss, UpdateTakeProfit, Trade
    <2> QED
      BY <1>1, <1>5, <2>1 DEF SaveAdjustment
  <1> QED
    BY <1>1, <1>2, <1>3, <1>4, <1>5, RowUnchanged DEF Writes

\* A list that was placed with an answer rests, at the prices asked for.
LEMMA PlacedRests ==
    ASSUME RowInv, NEW l \in FreshLists, NEW sl, NEW tp,
           PlaceOco(l, sl, tp, "ok"), plan' = [plan EXCEPT !.list = l]
    PROVE  /\ plan'.list = l /\ l \in Lists /\ oco'[l].st = "EXECUTING"
           /\ oco'[l].sl = sl /\ oco'[l].tp = tp
  BY DEF PlaceOco, Refused, RowInv, IInv, TypeOK, ExchangeTypeOK, ProcessTypeOK,
         FreshLists, Plan

\* The plan keeps its identifier, loses it, or gets that of a list that has
\* just been placed.
LEMMA ListOfPlanSteps ==
    ASSUME RowInv, [Next]_vars
    PROVE  \/ plan'.list \in {NoList, plan.list}
           \/ \E l \in FreshLists :
                 /\ pc \in {"entry_oco", "place"}
                 /\ PlaceOco(l, plan.sl, plan.tp, "ok")
                 /\ plan' = [plan EXCEPT !.list = l]
  <1>0. plan \in Plan /\ NoPlan.list = NoList
    BY DEF NoPlan, RowInv, IInv, TypeOK, ProcessTypeOK
  <1>1. CASE UNCHANGED plan \/ plan' = NoPlan
    BY <1>0, <1>1
  <1>2. CASE SignalCandle
    BY <1>0, <1>2 DEF SignalCandle, Levels, NoPlan
  <1>3. CASE QuietCandle \/ Crash \/ Restart \/ ExchangeMoves \/ UNCHANGED vars
    BY <1>1, <1>3 DEF QuietCandle, Crash, Restart, ExchangeMoves, processVars, vars
  <1>4. CASE Execute
    BY <1>0, <1>1, <1>4 DEF Execute, EntryBuy, ExecutePaper, Raises, Plan
  <1>5. CASE EntryOco \/ ReplacePlace
    BY <1>1, <1>5 DEF EntryOco, ReplacePlace
  <1>6. CASE EntrySell \/ EntryRecord
    BY <1>1, <1>6 DEF EntrySell, EntryRecord, Raises
  <1>7. CASE ApplyBreakeven \/ ApplyDynamicTakeProfit
    BY <1>0, <1>1, <1>7 DEF ApplyBreakeven, ApplyDynamicTakeProfit, Adjust, NoPlan
  <1>8. CASE Manage \/ SaveAdjustment \/ ReplaceCancel \/ ReplaceCheck
             \/ ReplaceAborted \/ ReplaceSell \/ ReplaceClose
    BY <1>1, <1>8 DEF Manage, SaveAdjustment, ReplaceCancel, ReplaceCheck,
                      ReplaceAborted, ReplaceSell, ReplaceClose, Raises
  <1>9. CASE CheckExits
    BY <1>0, <1>1, <1>9 DEF CheckExits, ExitFor, NoPlan
  <1>10. CASE ConfirmOcoFilled \/ TrailCancel \/ TrailCheck \/ TrailSell
              \/ ClosePosition
    BY <1>1, <1>10 DEF ConfirmOcoFilled, TrailCancel, TrailCheck, TrailSell,
                       ClosePosition, ClosedIfDone, NotClosed, Raises
  <1>11. CASE ReconcilerNext
    BY <1>1, <1>11 DEF ReconcilerNext, ReconcileNothing, ReconcileUntracked,
                       ReconcileTracked, ReconcileClose, ReconcileSell,
                       ReconcileSold, ReconcileOrphans, Raises
  <1> QED
    BY <1>2, <1>3, <1>4, <1>5, <1>6, <1>7, <1>8, <1>9, <1>10, <1>11
    DEF Next, ProcessNext, Candle, RouterNext, ManagerNext, ReplaceNext, ExitNext

LEMMA TouchesStep == RowInv /\ [Next]_vars => TouchesManaged'
  <1> SUFFICES ASSUME RowInv, [Next]_vars
               PROVE  /\ pc' \in ManagedSteps => Managed'
                      /\ pc' = "reconcile" => Live
    BY DEF TouchesManaged
  <1> USE DEF ManagedSteps, Goto
  <1>1. UNCHANGED trade => (Managed' <=> Managed)
    BY DEF Managed
  <1>2. CASE ApplyBreakeven \/ ApplyDynamicTakeProfit
    BY <1>1, <1>2 DEF ApplyBreakeven, ApplyDynamicTakeProfit, Adjust
  <1>3. CASE ReplaceCancel \/ ReplaceCheck \/ ReplaceAborted
             \/ ReplacePlace \/ ReplaceSell
    BY <1>1, <1>3 DEF RowInv, TouchesManaged, ReplaceCancel, ReplaceCheck,
                      ReplaceAborted, ReplacePlace, ReplaceSell, Resume
  <1>4. CASE CheckExits
    BY <1>1, <1>4 DEF CheckExits, ExitFor
  <1>5. CASE ConfirmOcoFilled \/ TrailCancel \/ TrailCheck \/ TrailSell
    BY <1>1, <1>5 DEF RowInv, TouchesManaged, ConfirmOcoFilled, TrailCancel,
                      TrailCheck, TrailSell, ClosedIfDone, NotClosed
  <1>6. CASE Restart \/ ReconcileNothing \/ ReconcileUntracked
             \/ ReconcileOrphans \/ ReconcileClose \/ ReconcileSold
    BY <1>6 DEF Restart, ReconcileNothing, ReconcileUntracked,
                ReconcileOrphans, ReconcileClose, ReconcileSold, Raises
  <1>7. CASE ReconcileTracked \/ ReconcileSell
    BY <1>1, <1>7 DEF ReconcileTracked, ReconcileSell, RowInv, TouchesManaged,
                      Managed
  <1>8. CASE RouterNext \/ Candle \/ Crash
    BY <1>8 DEF RouterNext, Execute, ExecutePaper, EntryBuy, EntryOco,
                EntrySell, EntryRecord, Raises, Candle, QuietCandle,
                SignalCandle, Crash
  <1>9. CASE Manage \/ SaveAdjustment \/ ReplaceClose \/ ClosePosition
    BY <1>9 DEF Manage, SaveAdjustment, ReplaceClose, ClosePosition, Resume,
                Raises
  <1>10. CASE ExchangeMoves \/ UNCHANGED vars
    BY <1>1, <1>10 DEF ExchangeMoves, processVars, vars, RowInv, TouchesManaged
  <1> QED
    BY <1>2, <1>3, <1>4, <1>5, <1>6, <1>7, <1>8, <1>9, <1>10
    DEF Next, ProcessNext, ManagerNext, ReplaceNext, ExitNext, ReconcilerNext

LEMMA EmptyRowStep == RowInv /\ [Next]_vars => EmptyRow'
  <1> SUFFICES ASSUME RowInv, [Next]_vars, trade'.st = "NONE"
               PROVE  trade' = NoTrade /\ pc' \notin AdjustSteps
    BY DEF EmptyRow
  <1>1. trade.st = "NONE" /\ pc # "save" /\ trade = NoTrade
    BY ListOfRowSteps DEF RowInv, EmptyRow, AdjustSteps
  <1>2. UNCHANGED trade
    <2>1. ~HasOpenTrade
      BY <1>1 DEF HasOpenTrade
    <2>2. CASE Manage
      BY <2>1, <2>2 DEF Manage
    <2>3. CASE Execute \/ EntryRecord
      <3>1. ASSUME NEW entry, NEW sl, NEW tp, NEW list,
                   CreateTrade(entry, sl, tp, list)
            PROVE  trade'.st = "OPEN"
        BY <3>1 DEF CreateTrade
      <3> QED
        BY <2>3, <3>1 DEF Execute, EntryBuy, ExecutePaper, EntryRecord
    <2>4. CASE ReplaceClose \/ ClosePosition \/ ReconcileClose \/ ReconcileSold
      <3>1. ASSUME NEW reason, CloseTrade(reason) PROVE trade'.st = "CLOSED"
        BY <1>1, <3>1 DEF CloseTrade, NoTrade
      <3> QED
        BY <2>4, <3>1
        DEF ReplaceClose, ClosePosition, ReconcileClose, ReconcileSold
    <2>5. CASE SaveAdjustment
      BY <1>1, <2>5 DEF SaveAdjustment
    <2> QED
      BY <2>2, <2>3, <2>4, <2>5, RowUnchanged DEF Writes
  <1>3. ~BreakevenDue /\ ~DynamicDue
    BY <1>1 DEF BreakevenDue, DynamicDue, NoTrade
  <1>4. ASSUME pc' \in AdjustSteps PROVE pc \in AdjustSteps
    <2>1. CASE ApplyBreakeven \/ ApplyDynamicTakeProfit
      BY <1>3, <1>4, <2>1 DEF ApplyBreakeven, ApplyDynamicTakeProfit, AdjustSteps,
                              Goto
    <2>2. CASE ReplaceCancel \/ ReplacePlace \/ ReplaceSell \/ Stays
      BY <1>4, <2>2 DEF ReplaceCancel, ReplacePlace, ReplaceSell, Stays,
                        processVars, AdjustSteps
    <2> QED
      BY <1>4, <2>1, <2>2, Predecessors
  <1> QED
    BY <1>1, <1>2, <1>4 DEF RowInv, EmptyRow

LEMMA ListsPlacedStep == RowInv /\ [Next]_vars => ListsPlaced'
  <1> SUFFICES ASSUME RowInv, [Next]_vars PROVE ListsPlaced'
    OBVIOUS
  <1>0. /\ trade.list \in Lists \cup {NoList} /\ plan.list \in Lists \cup {NoList}
        /\ plan \in Plan
        /\ oco \in [Lists -> OrderList]
    BY DEF RowInv, IInv, TypeOK, RepositoryTypeOK, ProcessTypeOK, ExchangeTypeOK,
           Trade, Plan
  <1>1. ASSUME NEW l \in Lists, oco[l].st # "NONE" PROVE oco'[l].st # "NONE"
    BY <1>0, <1>1, ListSteps DEF Done, FreshLists
  <1>2. \/ plan'.list \in {NoList, plan.list}
        \/ plan'.list \in Lists /\ oco'[plan'.list].st = "EXECUTING"
    <2>1. ASSUME NEW l \in FreshLists, PlaceOco(l, plan.sl, plan.tp, "ok"),
                 plan' = [plan EXCEPT !.list = l]
          PROVE  plan'.list \in Lists /\ oco'[plan'.list].st = "EXECUTING"
      BY <2>1, PlacedRests
    <2> QED
      BY <2>1, ListOfPlanSteps
  <1>3. trade'.list \in {trade.list, plan.list, NoList}
    BY ListOfRowSteps
  <1> QED
    BY <1>0, <1>1, <1>2, <1>3 DEF RowInv, ListsPlaced

LEMMA ReplacingStep == RowInv /\ [Next]_vars => OpenWhileReplacing'
  <1> SUFFICES ASSUME RowInv, [Next]_vars
               PROVE  /\ Managed' /\ pc' \in ReplacingSteps => HasOpenTrade'
                      /\ ~Managed' /\ pc' = "save" => plan'.list = NoList
    BY DEF OpenWhileReplacing
  <1> SUFFICES ASSUME pc' \in ReplacingSteps
               PROVE  /\ Managed' => HasOpenTrade'
                      /\ ~Managed' /\ pc' = "save" => plan'.list = NoList
    BY DEF ReplacingSteps
  <1>1. UNCHANGED trade => (Managed' <=> Managed) /\ (HasOpenTrade' <=> HasOpenTrade)
    BY DEF Managed, HasOpenTrade
  <1>2. CASE ApplyBreakeven \/ ApplyDynamicTakeProfit
    BY <1>1, <1>2 DEF ApplyBreakeven, ApplyDynamicTakeProfit, Adjust, Goto,
                      ReplacingSteps, NoPlan
  <1>3. CASE ReplaceCancel
    <2>1. UNCHANGED trade /\ pc' = "place" /\ oco[trade.list].st = "EXECUTING"
      BY <1>3 DEF ReplaceCancel, CancelList, Goto, ReplacingSteps, Refused
    <2>2. Managed /\ trade.st # "NONE"
      BY <1>3 DEF ReplaceCancel, RowInv, TouchesManaged, ManagedSteps, EmptyRow,
                  AdjustSteps
    <2>3. HasOpenTrade
      BY <2>1, <2>2 DEF RowInv, IInv, TypeOK, RepositoryTypeOK, Trade,
                        TradeStatus, ClosedReleased, HasOpenTrade
    <2> QED
      BY <1>1, <2>1, <2>2, <2>3
  <1>4. CASE ReplacePlace \/ ReplaceSell
    BY <1>1, <1>4 DEF ReplacePlace, ReplaceSell, RowInv, TouchesManaged,
                      ManagedSteps, OpenWhileReplacing, ReplacingSteps
  <1>5. CASE Stays
    BY <1>1, <1>5 DEF Stays, processVars, RowInv, OpenWhileReplacing
  <1> QED
    BY <1>2, <1>3, <1>4, <1>5, Predecessors DEF ReplacingSteps, AdjustSteps

LEMMA ClosedStep == RowInv /\ [Next]_vars => ClosedReleased'
  <1> SUFFICES ASSUME RowInv, [Next]_vars, Managed', trade'.st = "CLOSED"
               PROVE  oco'[trade'.list].st # "EXECUTING"
    BY DEF ClosedReleased
  <1>1. pc # "save" \/ trade'.list = trade.list
    BY ListOfRowSteps DEF RowInv, OpenWhileReplacing, ReplacingSteps,
                          HasOpenTrade, Managed
  <1>2. trade'.list = trade.list /\ (trade.st = "CLOSED" \/ pc \in CloseSteps)
    BY <1>1, ListOfRowSteps
  <1>3. oco[trade.list].st # "EXECUTING"
    BY <1>2 DEF Managed, RowInv, ClosedReleased, IInv, Released, CloseSteps,
                ReleasedSteps
  <1> QED
    BY <1>2, <1>3, ListsStayOver DEF Managed, RowInv

LEMMA RowInvStep == RowInv /\ [Next]_vars => RowInv'
  BY InvariantStep, TouchesStep, EmptyRowStep, ListsPlacedStep, ReplacingStep,
     ClosedStep
  DEF RowInv

LEMMA RowInvHolds == Spec => []RowInv
  <1>1. Init => RowInv
    <2> SUFFICES ASSUME Init PROVE RowInv
      OBVIOUS
    <2>1. TouchesManaged /\ OpenWhileReplacing
      BY DEF Init, TouchesManaged, ManagedSteps, OpenWhileReplacing, ReplacingSteps
    <2>2. plan.list = NoList
      BY DEF Init, NoPlan
    <2>3. trade.list = NoList /\ EmptyRow /\ trade.st # "CLOSED"
      <3>1. CASE trade = NoTrade
        BY <3>1 DEF EmptyRow, NoTrade, Init, AdjustSteps
      <3>2. ASSUME NEW p \in SignalPrices, trade = LegacyRow(p) 
            PROVE  trade.list = NoList /\ trade.st = "OPEN"
        BY <3>2 DEF LegacyRow, NoTrade
      <3> QED
        BY <3>1, <3>2 DEF Init, EmptyRow, NoTrade
    <2> QED
      BY <2>1, <2>2, <2>3, InitHolds
      DEF RowInv, ListsPlaced, ClosedReleased, Managed
  <1> QED
    BY <1>1, RowInvStep, PTL DEF Spec

-----------------------------------------------------------------------------
(* How much of what the bot holds is offered by resting lists.             *)

LEMMA RestingIsFinite ==
    /\ IsFiniteSet(Resting) /\ Cardinality(Resting) \in Nat
    /\ Cardinality(Resting)' \in Nat
  <1>1. Resting \in SUBSET Lists /\ Resting' \in SUBSET Lists
    BY DEF Resting
  <1> QED
    BY <1>1, ExchangeAssumption, FS_Subset, FS_CardinalityType

LEMMA SameCount == UNCHANGED oco => Cardinality(Resting)' = Cardinality(Resting)
  <1> SUFFICES ASSUME UNCHANGED oco PROVE Resting' = Resting
    OBVIOUS
  <1> QED
    BY DEF Resting

LEMMA PlacedCount ==
    ASSUME TypeOK, NEW l \in FreshLists, NEW sl, NEW tp,
           oco' = [oco EXCEPT ![l] = [st |-> "EXECUTING", sl |-> sl, tp |-> tp]]
    PROVE  Cardinality(Resting)' = Cardinality(Resting) + 1
  <1>1. l \in Lists /\ l \notin Resting /\ oco \in [Lists -> OrderList]
    BY DEF FreshLists, Resting, TypeOK, ExchangeTypeOK
  <1>2. Resting' = Resting \cup {l}
    BY <1>1 DEF Resting
  <1> QED
    BY <1>1, <1>2, RestingIsFinite, FS_AddElement

LEMMA EndedCount ==
    ASSUME TypeOK, NEW l \in Lists, oco[l].st = "EXECUTING",
           NEW state \in {"FILLED", "CANCELED"},
           oco' = [oco EXCEPT ![l] = Done(state)]
    PROVE  Cardinality(Resting)' = Cardinality(Resting) - 1
  <1>1. l \in Resting /\ oco \in [Lists -> OrderList]
    BY DEF Resting, TypeOK, ExchangeTypeOK
  <1>2. Resting' = Resting \ {l}
    BY <1>1 DEF Resting, Done
  <1> QED
    BY <1>1, <1>2, RestingIsFinite, FS_RemoveElement

\* The steps during which one unit is neither offered nor sold.
BareSteps == {"entry_oco", "entry_sell", "place", "replace_sell", "trail_sell"}

Uncovered == held - Cardinality(Resting)

\* With no reply lost, a step changes what is uncovered by one at most, and
\* the program counter tells which way: buying or canceling leads into the
\* bare steps, covering or selling out of them.
LEMMA UncoveredSteps ==
    ASSUME "lost" \notin Faults, RowInv, [Next]_vars
    PROVE  \/ /\ Uncovered' = Uncovered
              /\ pc' \in BareSteps => pc \in BareSteps
              /\ pc \in BareSteps =>
                    \/ pc' \in BareSteps \/ alarm'
                    \/ pc = "place" /\ ~ValidRelation
                    \/ "crash" \in Faults
           \/ /\ Uncovered' = Uncovered + 1
              /\ pc \in {"buy", "replace", "trail_cancel"} /\ pc' \in BareSteps
           \/ /\ Uncovered' = Uncovered - 1
              /\ pc \in BareSteps \cup {"reconcile_sell"} /\ pc' \notin BareSteps
           \/ /\ Uncovered' = Uncovered + 1
              /\ "operator" \in Faults /\ UNCHANGED pc
  <1>0. /\ TypeOK /\ held \in Int /\ Cardinality(Resting) \in Nat
        /\ Executed("ok") /\ ~Executed("error") /\ ~Refused("ok")
    BY RestingIsFinite DEF RowInv, IInv, TypeOK, ExchangeTypeOK, Executed, Refused
  <1> DEFINE Kept == Uncovered' = Uncovered
             Up   == Uncovered' = Uncovered + 1
             Down == Uncovered' = Uncovered - 1
  <1>1. UNCHANGED exchangeVars => Kept
    BY SameCount DEF Uncovered, exchangeVars
  <1>2. ASSUME NEW reply, MarketBuy(reply)
        PROVE  IF reply = "ok" THEN Up ELSE reply = "error" => Kept
    BY <1>0, <1>2, SameCount DEF MarketBuy, Uncovered
  <1>3. ASSUME NEW reply, MarketSell(reply)
        PROVE  IF reply = "ok" THEN Down ELSE reply = "error" => Kept
    BY <1>0, <1>3, SameCount DEF MarketSell, Uncovered
  <1>4. ASSUME NEW reply, NEW l \in FreshLists, NEW sl, NEW tp,
               PlaceOco(l, sl, tp, reply)
        PROVE  IF reply = "ok" THEN Down ELSE reply = "error" => Kept
    BY <1>0, <1>4, SameCount, PlacedCount DEF PlaceOco, Uncovered
  <1>5. ASSUME NEW reply, CancelList(trade.list, reply), trade.list \in Lists
        PROVE  IF reply = "ok" THEN Up ELSE reply = "error" => Kept
    BY <1>0, <1>5, SameCount, EndedCount DEF CancelList, Uncovered
  <1>6. CASE Execute
    BY <1>0, <1>1, <1>2, <1>6 DEF Execute, EntryBuy, ExecutePaper, Goto, Raises,
                                  BareSteps
  <1>7. CASE EntryOco \/ ReplacePlace
    BY <1>0, <1>4, <1>7 DEF EntryOco, ReplacePlace, Goto, BareSteps
  <1>8. CASE EntrySell \/ ReplaceSell \/ TrailSell
    BY <1>0, <1>3, <1>8 DEF EntrySell, ReplaceSell, TrailSell, NotClosed, Resume,
                            Goto, BareSteps
  <1>9. CASE ReconcileSell
    BY <1>0, <1>3, <1>9 DEF ReconcileSell, Goto, BareSteps
  <1>10. CASE ReplaceCancel \/ TrailCancel
    <2>1. trade.list \in Lists
      BY <1>10 DEF ReplaceCancel, TrailCancel, RowInv, TouchesManaged, IInv,
                   TypeOK, RepositoryTypeOK, Trade, ManagedSteps, Managed
    <2> QED
      BY <1>0, <1>5, <1>10, <2>1 DEF ReplaceCancel, TrailCancel, Goto, BareSteps
  <1>11. CASE ReplaceAborted
    BY <1>1, <1>11 DEF ReplaceAborted, Resume, Goto, BareSteps
  <1>12. CASE ExchangeMoves
    <2>1. UNCHANGED <<pc, alarm>>
      BY <1>12 DEF ExchangeMoves, processVars
    <2>2. Kept \/ (Up /\ "operator" \in Faults)
      <3>1. PICK l \in Lists : ListFills(l) \/ OperatorCancels(l)
        BY <1>12 DEF ExchangeMoves
      <3>2. Cardinality(Resting)' = Cardinality(Resting) - 1
        BY <1>0, <3>1, EndedCount DEF ListFills, OperatorCancels
      <3> QED
        BY <1>0, <3>1, <3>2 DEF ListFills, OperatorCancels, Uncovered
    <2> QED
      BY <2>1, <2>2
  <1>13. CASE Crash \/ Candle \/ Restart \/ EntryRecord
    BY <1>1, <1>13 DEF Crash, Candle, QuietCandle, SignalCandle, Restart,
                       EntryRecord, Raises, Goto, BareSteps
  <1>14. CASE Manage \/ ApplyBreakeven \/ ApplyDynamicTakeProfit
              \/ SaveAdjustment \/ ReplaceCheck \/ ReplaceClose
    BY <1>1, <1>14 DEF Manage, ApplyBreakeven, ApplyDynamicTakeProfit, Adjust,
                       SaveAdjustment, ReplaceCheck, ReplaceClose, Resume,
                       Raises, Goto, BareSteps
  <1>15. CASE CheckExits \/ ConfirmOcoFilled \/ TrailCheck \/ ClosePosition
    BY <1>1, <1>15 DEF CheckExits, ExitFor, ConfirmOcoFilled, TrailCheck,
                       ClosePosition, ClosedIfDone, NotClosed, Raises, Goto,
                       BareSteps
  <1>16. CASE ReconcileNothing \/ ReconcileUntracked \/ ReconcileTracked
              \/ ReconcileClose \/ ReconcileSold \/ ReconcileOrphans
    BY <1>1, <1>16 DEF ReconcileNothing, ReconcileUntracked, ReconcileTracked,
                       ReconcileClose, ReconcileSold, ReconcileOrphans, Raises,
                       Goto, BareSteps
  <1>17. CASE UNCHANGED vars
    BY <1>1, <1>17 DEF vars, exchangeVars
  <1> QED
    BY <1>6, <1>7, <1>8, <1>9, <1>10, <1>11, <1>12, <1>13, <1>14, <1>15, <1>16,
       <1>17
    DEF Next, ProcessNext, RouterNext, ManagerNext, ReplaceNext, ExitNext,
        ReconcilerNext

\* Between canceling or buying and covering or selling, something is left.
OneUncovered == pc \in BareSteps => Uncovered >= 1

\* No reply makes the reconciler sell: it sells for a list that the exchange
\* does not know, and the row has none of these.
NothingForgotten == pc # "reconcile_sell"

OfferInv == RowInv /\ NeverOverOffered /\ OneUncovered /\ NothingForgotten

\* The reconciler sells only when the exchange does not find the list.
LEMMA SellsUnknown ==
    ASSUME RowInv, [Next]_vars, pc' = "reconcile_sell"
    PROVE  \/ pc = "reconcile_sell"
           \/ "NOT_FOUND" \in CanceledReplies
  <1>1. ReconcileTracked \/ Stays
    BY Predecessors DEF ReleasedSteps, ReplaceCancel, ReplacePlace, ReplaceSell,
       CheckExits, ExitFor, ConfirmOcoFilled, TrailCancel, TrailCheck, TrailSell,
       ReconcileSell, ClosedIfDone, NotClosed, Resume, Goto
  <1>2. CASE ReconcileTracked
    <2>1. trade.list # NoList /\ "NOT_FOUND" \in StatusReplies(trade.list)
      BY <1>2 DEF ReconcileTracked, Goto
    <2>2. oco[trade.list].st # "NONE"
      BY <2>1 DEF RowInv, ListsPlaced
    <2> QED
      BY <2>1, <2>2 DEF StatusReplies, RowInv, IInv, TypeOK, ExchangeTypeOK,
         RepositoryTypeOK, Trade, OrderList, ListState
  <1> QED
    BY <1>1, <1>2 DEF Stays, processVars

LEMMA OfferStep ==
    ASSUME "lost" \notin Faults, "NOT_FOUND" \notin CanceledReplies,
           OfferInv, [Next]_vars
    PROVE  NeverOverOffered' /\ OneUncovered' /\ NothingForgotten'
  <1>1. held \in Int /\ Cardinality(Resting) \in Nat
    BY RestingIsFinite DEF OfferInv, RowInv, IInv, TypeOK, ExchangeTypeOK
  <1>2. held' \in Int /\ Cardinality(Resting)' \in Nat
    BY RestingIsFinite, RowInvStep
    DEF OfferInv, RowInv, IInv, TypeOK, ExchangeTypeOK
  <1>3. NeverOverOffered <=> Uncovered >= 0
    BY <1>1 DEF NeverOverOffered, Uncovered
  <1>4. NeverOverOffered' <=> Uncovered' >= 0
    BY <1>2 DEF NeverOverOffered, Uncovered
  <1>5. pc' # "reconcile_sell"
    BY SellsUnknown DEF OfferInv, NothingForgotten
  <1>6. RowInv
    BY DEF OfferInv
  <1>7. Uncovered \in Int /\ Uncovered' \in Int
    BY <1>1, <1>2 DEF Uncovered
  <1>8. Uncovered' >= 0 /\ OneUncovered'
    BY <1>3, <1>6, <1>7, UncoveredSteps
    DEF OfferInv, OneUncovered, NothingForgotten, BareSteps
  <1> QED
    BY <1>4, <1>5, <1>8 DEF NothingForgotten

\* As long as no reply is lost and the exchange still knows the lists that
\* were canceled, the bot offers no more than it has bought, even if the
\* account owns more of the asset and would let it (_replace_oco and
\* _close_via_trailing_stop cancel before they place or sell).
THEOREM OfferedIsBought ==
    ASSUME "lost" \notin Faults, "NOT_FOUND" \notin CanceledReplies
    PROVE  Spec => []NeverOverOffered
  <1>1. Init => OneUncovered /\ NothingForgotten /\ NeverOverOffered
    <2> SUFFICES ASSUME Init
                 PROVE  OneUncovered /\ NothingForgotten /\ NeverOverOffered
      OBVIOUS
    <2>1. Resting = {} /\ held >= 0
      BY DEF Init, Resting, Done
    <2> QED
      BY <2>1, FS_EmptySet DEF Init, OneUncovered, BareSteps, NothingForgotten,
                               NeverOverOffered
  <1>2. RowInv /\ RowInv' /\ NeverOverOffered /\ OneUncovered
          /\ NothingForgotten /\ [Next]_vars
          => NeverOverOffered' /\ OneUncovered' /\ NothingForgotten'
    BY OfferStep DEF OfferInv
  <1> QED
    BY <1>1, <1>2, RowInvHolds, PTL DEF Spec

\* An account that owns nothing else cannot offer or sell too much, whatever
\* fails and whatever reply is lost: the exchange itself refuses.
THEOREM NothingElseToOffer ==
    ASSUME Reserve = 0
    PROVE  Spec => []NeverOverOffered
  <1>1. Init => NeverOverOffered
    <2> SUFFICES ASSUME Init PROVE NeverOverOffered
      OBVIOUS
    <2>1. Resting = {} /\ held >= 0
      BY DEF Init, Resting, Done
    <2> QED
      BY <2>1, FS_EmptySet DEF NeverOverOffered
  <1>2. RowInv /\ NeverOverOffered /\ [Next]_vars => NeverOverOffered'
    <2> SUFFICES ASSUME RowInv, NeverOverOffered, [Next]_vars
                 PROVE  Uncovered' >= 0
      <3> SUFFICES ASSUME RowInv, [Next]_vars, Uncovered' >= 0
                   PROVE  NeverOverOffered'
        OBVIOUS
      <3>1. held' \in Int /\ Cardinality(Resting)' \in Nat
        BY RowInvStep, RestingIsFinite DEF RowInv, IInv, TypeOK, ExchangeTypeOK
      <3> QED
        BY <3>1 DEF NeverOverOffered, Uncovered
    <2>1. held \in Int /\ Cardinality(Resting) \in Nat /\ TypeOK
      BY RestingIsFinite DEF RowInv, IInv, TypeOK, ExchangeTypeOK
    <2>2. Uncovered \in Nat /\ (Free >= 1 <=> Uncovered >= 1)
      BY <2>1 DEF Uncovered, Free, NeverOverOffered
    <2>3. CASE UNCHANGED exchangeVars
      BY <2>2, <2>3, SameCount DEF exchangeVars, Uncovered
    <2>4. CASE Execute
      <3>1. ASSUME NEW reply, MarketBuy(reply) PROVE Uncovered' >= 0
        BY <2>1, <2>2, <3>1, SameCount DEF MarketBuy, Uncovered
      <3> QED
        BY <2>3, <2>4, <3>1 DEF Execute, EntryBuy, ExecutePaper
    <2>5. ASSUME NEW reply, MarketSell(reply) PROVE Uncovered' >= 0
      BY <2>1, <2>2, <2>5, SameCount DEF MarketSell, Uncovered
    <2>6. ASSUME NEW reply, NEW l \in FreshLists, NEW sl, NEW tp,
                 PlaceOco(l, sl, tp, reply)
          PROVE  Uncovered' >= 0
      BY <2>1, <2>2, <2>6, SameCount, PlacedCount DEF PlaceOco, Uncovered
    <2>7. ASSUME NEW reply, CancelList(trade.list, reply), trade.list \in Lists
          PROVE  Uncovered' >= 0
      BY <2>1, <2>2, <2>7, SameCount, EndedCount DEF CancelList, Uncovered
    <2>8. CASE ReplaceCancel \/ TrailCancel
      <3>1. trade.list \in Lists
        BY <2>8 DEF ReplaceCancel, TrailCancel, RowInv, TouchesManaged, IInv,
                    TypeOK, RepositoryTypeOK, Trade, ManagedSteps, Managed
      <3> QED
        BY <2>7, <2>8, <3>1 DEF ReplaceCancel, TrailCancel
    <2>9. CASE ExchangeMoves
      <3>1. PICK l \in Lists : ListFills(l) \/ OperatorCancels(l)
        BY <2>9 DEF ExchangeMoves
      <3>2. Cardinality(Resting)' = Cardinality(Resting) - 1
        BY <2>1, <3>1, EndedCount DEF ListFills, OperatorCancels
      <3> QED
        BY <2>1, <2>2, <3>1, <3>2 DEF ListFills, OperatorCancels, Uncovered
    <2>10. CASE EntryOco \/ ReplacePlace
      BY <2>6, <2>10 DEF EntryOco, ReplacePlace
    <2>11. CASE EntrySell \/ ReplaceSell \/ TrailSell \/ ReconcileSell
      BY <2>5, <2>11 DEF EntrySell, ReplaceSell, TrailSell, ReconcileSell
    <2> QED
      BY <2>3, <2>4, <2>8, <2>9, <2>10, <2>11, CallsOnly
  <1> QED
    BY <1>1, <1>2, RowInvHolds, PTL DEF Spec

-----------------------------------------------------------------------------
(* A position that stays bare: what the code does about it.                *)

\* No stop of a position is so low that its limit rounds to the same tick.
NoCoarseTick == \A p \in SignalPrices : p - StopDistance >= CoarseBelow

SoundLevels(entry, sl, tp) == tp > entry /\ entry >= sl /\ sl >= CoarseBelow

\* The levels of a live row, or of one that is on its way, can be placed on
\* the exchange, and so can those of every adjustment of the row.
LevelsSound ==
    /\ HasOpenTrade => SoundLevels(trade.entry, trade.sl, trade.tp)
    /\ pc \in {"buy", "entry_oco", "record"} =>
          SoundLevels(plan.entry, plan.sl, plan.tp)
    /\ HasOpenTrade /\ pc \in AdjustSteps => ValidRelation

LEMMA SignalsSound ==
    ASSUME NoCoarseTick, NEW p \in SignalPrices
    PROVE  /\ Levels(p).entry = p
           /\ SoundLevels(p, Levels(p).sl, Levels(p).tp)
  <1>1. p \in Int /\ StopDistance \in Nat \ {0} /\ TargetDistance \in Nat \ {0}
    BY LadderAssumption DEF SignalPrices
  <1>2. /\ Levels(p).entry = p /\ Levels(p).sl = p - StopDistance
        /\ Levels(p).tp = p + TargetDistance
    BY DEF Levels, NoPlan
  <1> QED
    BY <1>1, <1>2 DEF NoCoarseTick, SoundLevels

\* Live, only the record of an entry opens a row, with the levels of the plan.
LEMMA RowOpens ==
    ASSUME Live, RowInv, [Next]_vars, ~HasOpenTrade, HasOpenTrade'
    PROVE  /\ pc = "record" /\ pc' = "manage" /\ UNCHANGED <<exchangeVars, alarm>>
           /\ CreateTrade(plan.entry, plan.sl, plan.tp, plan.list)
           /\ trade'.entry = plan.entry /\ trade'.sl = plan.sl
           /\ trade'.tp = plan.tp /\ trade'.list = plan.list
  <1>1. pc = "record" \/ trade'.st \in {trade.st, "CLOSED"}
    BY ListOfRowSteps
  <1>2. trade'.st = "OPEN" /\ trade.st # "OPEN"
    BY DEF HasOpenTrade
  <1>3. EntryRecord
    <2>1. UNCHANGED trade \/ Writes
      BY RowUnchanged
    <2> QED
      BY <1>1, <1>2, <2>1
      DEF Writes, Manage, SaveAdjustment, Execute, ReplaceClose, ClosePosition,
          ReconcileClose, ReconcileSold
  <1>4. CreateTrade(plan.entry, plan.sl, plan.tp, plan.list)
    BY <1>2, <1>3 DEF EntryRecord
  <1> QED
    BY <1>1, <1>2, <1>3, <1>4 DEF EntryRecord, CreateTrade, Goto, Raises

LEMMA LevelsInit == NoCoarseTick /\ Init => LevelsSound
  <1> SUFFICES ASSUME NoCoarseTick, Init PROVE LevelsSound
    OBVIOUS
  <1>1. HasOpenTrade => SoundLevels(trade.entry, trade.sl, trade.tp)
    <2>1. ASSUME NEW p \in SignalPrices, trade = LegacyRow(p)
          PROVE  SoundLevels(trade.entry, trade.sl, trade.tp)
      BY <2>1, SignalsSound DEF LegacyRow, NoTrade
    <2> QED
      BY <2>1 DEF Init, HasOpenTrade, NoTrade
  <1> QED
    BY <1>1 DEF Init, LevelsSound, AdjustSteps

LEMMA LevelsStep ==
    ASSUME Live, NoCoarseTick, RowInv, LevelsSound, [Next]_vars
    PROVE  LevelsSound'
  <1>0. /\ trade.entry \in Int /\ trade.sl \in Int /\ trade.tp \in Int
        /\ plan \in Plan /\ plan.entry \in Int /\ plan.sl \in Int
        /\ plan.tp \in Int /\ CoarseBelow \in Nat
    BY ManagementAssumption
    DEF RowInv, IInv, TypeOK, RepositoryTypeOK, ProcessTypeOK, Trade, Plan
  <1>1. ASSUME HasOpenTrade' PROVE SoundLevels(trade.entry, trade.sl, trade.tp)'
    <2>1. CASE ~HasOpenTrade
      BY <1>1, <2>1, RowOpens DEF LevelsSound
    <2>2. CASE HasOpenTrade
      <3>1. SoundLevels(trade.entry, trade.sl, trade.tp)
        BY <2>2 DEF LevelsSound
      <3>2. pc = "save" =>
              \/ plan.why = "BREAKEVEN" /\ plan.sl = trade.entry
              \/ plan.why # "BREAKEVEN" /\ plan.tp >= trade.tp
        BY DEF RowInv, IInv, AdjustmentImproves, AdjustSteps
      <3>3. trade'.entry = trade.entry /\
              \/ trade'.sl = trade.sl /\ trade'.tp = trade.tp
              \/ trade'.sl = trade.entry /\ trade'.tp = trade.tp
              \/ trade'.sl = trade.sl /\ trade'.tp >= trade.tp
        BY <2>2, <3>2, RowSteps DEF SameLevels, RowInv
      <3>4. /\ trade'.entry \in Int /\ trade'.sl \in Int /\ trade'.tp \in Int
        BY RowInvStep DEF RowInv, IInv, TypeOK, RepositoryTypeOK, Trade
      <3> QED
        BY <1>0, <3>1, <3>3, <3>4 DEF SoundLevels
    <2> QED
      BY <2>1, <2>2
  <1>2. ASSUME pc' \in {"buy", "entry_oco", "record"}
        PROVE  SoundLevels(plan.entry, plan.sl, plan.tp)'
    <2>1. CASE SignalCandle
      <3>1. price' \in SignalPrices /\ plan' = Levels(price')
        BY <2>1 DEF SignalCandle
      <3> QED
        BY <3>1, SignalsSound
    <2>2. CASE Execute
      <3>1. PICK slip \in Fills :
              plan' = [plan EXCEPT !.entry = @ + slip, !.sl = @ + slip,
                                   !.tp = @ + slip]
        BY <1>2, <2>2 DEF Execute, EntryBuy, Goto
      <3>2. pc = "buy" /\ slip \in Nat
        BY <2>2, SlippageAssumption DEF Execute, Fills
      <3>3. /\ plan'.entry = plan.entry + slip /\ plan'.sl = plan.sl + slip
            /\ plan'.tp = plan.tp + slip
        BY <1>0, <3>1 DEF Plan
      <3> QED
        BY <1>0, <3>2, <3>3 DEF LevelsSound, SoundLevels
    <2>3. CASE EntryOco
      <3>1. pc = "entry_oco" /\ \E l \in Lists : plan' = [plan EXCEPT !.list = l]
        BY <1>2, <2>3 DEF EntryOco, Goto, FreshLists
      <3> QED
        BY <1>0, <3>1 DEF LevelsSound, Plan
    <2>4. CASE Stays
      BY <1>2, <2>4 DEF Stays, processVars, LevelsSound
    <2> QED
      BY <1>2, <2>1, <2>2, <2>3, <2>4, Predecessors DEF EntrySteps
  <1>3. ASSUME HasOpenTrade', pc' \in AdjustSteps PROVE ValidRelation'
    <2>1. UNCHANGED trade /\ HasOpenTrade
      <3>1. UNCHANGED trade
        BY <1>3, Predecessors
        DEF ApplyBreakeven, ApplyDynamicTakeProfit, ReplaceCancel, ReplacePlace,
            ReplaceSell, Stays
      <3> QED
        BY <1>3, <3>1 DEF HasOpenTrade
    <2>2. SoundLevels(trade.entry, trade.sl, trade.tp)
      BY <2>1 DEF LevelsSound
    <2>3. CASE ApplyBreakeven
      <3>1. Adjust("BREAKEVEN", trade.entry, trade.tp)
        BY <1>3, <2>3 DEF ApplyBreakeven, Goto, AdjustSteps
      <3> QED
        BY <1>0, <2>2, <3>1, AdjustPlans DEF ValidRelation, SoundLevels
    <2>4. CASE ApplyDynamicTakeProfit
      <3>1. PICK atr \in Atrs : Adjust("DYNAMIC_TAKE_PROFIT", trade.sl,
                                     trade.tp + atr * DynamicMultiplier)
        BY <1>3, <2>4 DEF ApplyDynamicTakeProfit, Goto, AdjustSteps
      <3>2. atr * DynamicMultiplier \in Nat
        BY ManagementAssumption
      <3> QED
        BY <1>0, <2>2, <3>1, <3>2, AdjustPlans DEF ValidRelation, SoundLevels
    <2>5. CASE ReplacePlace
      BY <1>0, <2>5 DEF ReplacePlace, ValidRelation, Plan
    <2>6. CASE ReplaceCancel \/ ReplaceSell \/ Stays
      BY <1>3, <2>1, <2>6
      DEF ReplaceCancel, ReplaceSell, Resume, Stays, processVars, Goto,
          AdjustSteps, LevelsSound, ValidRelation
    <2> QED
      BY <1>3, <2>3, <2>4, <2>5, <2>6, Predecessors
  <1> QED
    BY <1>1, <1>2, <1>3 DEF LevelsSound

LEMMA LevelsHold == ASSUME Live, NoCoarseTick PROVE Spec => [](RowInv /\ LevelsSound)
  <1>1. Init => LevelsSound
    BY LevelsInit
  <1>2. RowInv /\ LevelsSound /\ [Next]_vars => LevelsSound'
    BY LevelsStep
  <1> QED
    BY <1>1, <1>2, RowInvHolds, PTL DEF Spec

\* Unless a human has been told, at most one unit is bare, and only between
\* the cancellation or the purchase and what covers or sells it.  A row from
\* before lists were tracked is reported by the reconciler.
BareIsBrief ==
    ~alarm =>
        IF pc \in {"down", "reconcile"}
        THEN Uncovered <= 0 \/ (HasOpenTrade /\ trade.list = NoList)
        ELSE Uncovered <= IF pc \in BareSteps THEN 1 ELSE 0

\* Nobody takes an alarm back.
LEMMA AlarmStays ==
    ASSUME alarm, [Next]_vars
    PROVE  alarm'
  <1>1. CASE Candle \/ Crash \/ Restart \/ ExchangeMoves \/ RouterNext
    BY <1>1 DEF Candle, QuietCandle, SignalCandle, Crash, Restart,
                ExchangeMoves, processVars, RouterNext, Execute, EntryBuy,
                ExecutePaper, EntryOco, EntrySell, EntryRecord
  <1>2. CASE ManagerNext
    BY <1>2 DEF ManagerNext, Manage, ApplyBreakeven, ApplyDynamicTakeProfit,
                SaveAdjustment, ReplaceNext, ReplaceCancel, ReplaceCheck,
                ReplaceAborted, ReplacePlace, ReplaceSell, ReplaceClose,
                ExitNext, CheckExits, ConfirmOcoFilled, TrailCancel,
                TrailCheck, TrailSell, ClosePosition
  <1>3. CASE ReconcilerNext
    BY <1>3 DEF ReconcilerNext, ReconcileNothing, ReconcileUntracked,
                ReconcileTracked, ReconcileClose, ReconcileSell, ReconcileSold,
                ReconcileOrphans
  <1> QED
    BY <1>1, <1>2, <1>3 DEF Next, ProcessNext, vars

\* Without a crash the process is started once, and with a balance request
\* that is answered it reconciles before it trades.
LEMMA StartSteps ==
    ASSUME Live, "startup" \notin Faults, [Next]_vars
    PROVE  /\ pc' \in {"down", "reconcile"} =>
                 \/ pc \in {"down", "reconcile"} /\ UNCHANGED trade
                 \/ "crash" \in Faults
           /\ pc = "down" => pc' \in {"down", "reconcile"} /\ UNCHANGED trade
           /\ pc = "reconcile" =>
                 \/ pc' \in {"down", "reconcile"} /\ UNCHANGED trade
                 \/ ~HasOpenTrade \/ trade.list # NoList \/ alarm'
  <1> USE DEF Goto
  <1>1. CASE Candle \/ Crash \/ Restart \/ ExchangeMoves \/ RouterNext
    BY <1>1 DEF Candle, QuietCandle, SignalCandle, Crash, Restart,
                ExchangeMoves, processVars, RouterNext, Execute, EntryBuy,
                ExecutePaper, EntryOco, EntrySell, EntryRecord, Raises
  <1>2. CASE ManagerNext
    BY <1>2 DEF ManagerNext, Manage, ApplyBreakeven, ApplyDynamicTakeProfit,
                Adjust, Resume, Raises,
                SaveAdjustment, ReplaceNext, ReplaceCancel, ReplaceCheck,
                ReplaceAborted, ReplacePlace, ReplaceSell, ReplaceClose,
                ExitNext, CheckExits, ConfirmOcoFilled, TrailCancel, ExitFor,
                TrailCheck, TrailSell, ClosePosition, ClosedIfDone, NotClosed
  <1>3. CASE ReconcilerNext
    BY <1>3 DEF ReconcilerNext, ReconcileNothing, ReconcileUntracked,
                ReconcileTracked, ReconcileClose, ReconcileSell, ReconcileSold,
                ReconcileOrphans, Raises
  <1>4. CASE UNCHANGED vars
    BY <1>4 DEF vars
  <1> QED
    BY <1>1, <1>2, <1>3, <1>4 DEF Next, ProcessNext

LEMMA BareStep ==
    ASSUME Live, Faults \subseteq {"reject", "query", "db"},
           RowInv, LevelsSound, BareIsBrief, [Next]_vars
    PROVE  BareIsBrief'
  <1> SUFFICES ASSUME ~alarm'
               PROVE  IF pc' \in {"down", "reconcile"}
                      THEN Uncovered' <= 0 \/ (HasOpenTrade /\ trade.list = NoList)'
                      ELSE Uncovered' <= IF pc' \in BareSteps THEN 1 ELSE 0
    BY DEF BareIsBrief
  <1>1. ~alarm
    BY AlarmStays
  <1>2. Uncovered \in Int /\ Uncovered' \in Int
    BY RestingIsFinite, RowInvStep
    DEF RowInv, IInv, TypeOK, ExchangeTypeOK, Uncovered
  <1>3. /\ "lost" \notin Faults /\ "startup" \notin Faults
        /\ "crash" \notin Faults /\ "operator" \notin Faults
    OBVIOUS
  <1>4. pc = "place" => ValidRelation
    BY DEF RowInv, TouchesManaged, ManagedSteps, OpenWhileReplacing,
           ReplacingSteps, LevelsSound, AdjustSteps
  <1>5. CASE pc \in BareSteps
    <2>1. pc \notin {"down", "reconcile"} /\ Uncovered <= 1
      BY <1>1, <1>5 DEF BareIsBrief, BareSteps
    <2>2. pc' \notin {"down", "reconcile"}
      BY <1>3, <2>1, StartSteps
    <2>3. pc \notin {"buy", "replace", "trail_cancel"}
      BY <1>5 DEF BareSteps
    <2> QED
      BY <1>2, <1>3, <1>4, <1>5, <2>1, <2>2, <2>3, UncoveredSteps
  <1>6. CASE pc \in {"down", "reconcile"}
    <2>1. pc \notin BareSteps /\ pc \notin {"buy", "replace", "trail_cancel"}
          /\ pc # "reconcile_sell"
      BY <1>6 DEF BareSteps
    <2>2. Uncovered' = Uncovered /\ pc' \notin BareSteps
      BY <1>3, <2>1, UncoveredSteps
    <2>3. Uncovered <= 0 \/ (HasOpenTrade /\ trade.list = NoList)
      BY <1>1, <1>6 DEF BareIsBrief
    <2>4. UNCHANGED trade =>
            (HasOpenTrade' <=> HasOpenTrade) /\ trade'.list = trade.list
      BY DEF HasOpenTrade
    <2> QED
      BY <1>1, <1>3, <1>6, <2>2, <2>3, <2>4, StartSteps
  <1>7. CASE pc \notin BareSteps \cup {"down", "reconcile"}
    <2>1. Uncovered <= 0
      BY <1>1, <1>7 DEF BareIsBrief
    <2>2. pc' \notin {"down", "reconcile"}
      BY <1>3, <1>7, StartSteps
    <2> QED
      BY <1>2, <1>3, <1>7, <2>1, <2>2, UncoveredSteps
  <1> QED
    BY <1>5, <1>6, <1>7

LEMMA BareInit == Init => BareIsBrief
  <1> SUFFICES ASSUME Init
               PROVE  Uncovered <= 0 \/ (HasOpenTrade /\ trade.list = NoList)
    BY DEF Init, BareIsBrief
  <1>1. CASE trade = NoTrade /\ held = 0
    <2>1. Resting = {}
      BY DEF Init, Resting, Done
    <2> QED
      BY <1>1, <2>1, FS_EmptySet DEF Uncovered
  <1>2. ASSUME NEW p \in SignalPrices, trade = LegacyRow(p)
        PROVE  HasOpenTrade /\ trade.list = NoList
    BY <1>2 DEF LegacyRow, NoTrade, HasOpenTrade
  <1> QED
    BY <1>1, <1>2 DEF Init

\* While the process does not die, the exchange does not swallow a reply,
\* nobody interferes by hand and the ticks are fine enough, a position that
\* is left without its list between two candles has been reported
\* (_handle_unprotected_position, _replace_oco, _close_via_trailing_stop and
\* the reconciler's alert for rows that have no list): whatever the exchange
\* refuses, whatever query or write fails, whatever the prices do.
THEOREM BareIsEscalated ==
    ASSUME NoCoarseTick, Faults \subseteq {"reject", "query", "db"}
    PROVE  Spec => []NakedIsEscalated
  <1>1. CASE Live
    <2>1. RowInv /\ LevelsSound /\ BareIsBrief /\ [Next]_vars => BareIsBrief'
      BY <1>1, BareStep
    <2>2. RowInv /\ BareIsBrief => NakedIsEscalated
      <3> SUFFICES ASSUME RowInv, BareIsBrief, Idle, ~alarm
                   PROVE  held <= Cardinality(Resting)
        BY RestingIsFinite
        DEF NakedIsEscalated, RowInv, IInv, TypeOK, ExchangeTypeOK
      <3>1. Uncovered <= 0
        BY DEF BareIsBrief, Idle, BareSteps
      <3> QED
        BY <3>1, RestingIsFinite
        DEF Uncovered, RowInv, IInv, TypeOK, ExchangeTypeOK
    <2> QED
      BY <1>1, <2>1, <2>2, BareInit, LevelsHold, PTL DEF Spec
  <1>2. CASE ~Live
    <2>1. NakedIsEscalated
      BY <1>2 DEF NakedIsEscalated
    <2> QED
      BY <2>1, PTL
  <1> QED
    BY <1>1, <1>2

-----------------------------------------------------------------------------
(* The row and the list that it points to.                                 *)

\* Between these steps and the next the row may point to a list that is
\* over, or not yet to the one that replaced it.
SettlingSteps ==
    {"down", "reconcile", "reconcile_close", "reconcile_sell",
     "reconcile_sold", "place", "replace_sell", "replace_close", "save",
     "trail_sell", "close"}

RowCovered ==
    Managed /\ HasOpenTrade /\ ~alarm /\ pc \notin SettlingSteps =>
        oco[trade.list].st \in {"EXECUTING", "FILLED"}

\* What rests, rests at these prices.
AtPrices(list, sl, tp) ==
    list.st = "EXECUTING" => list.sl = sl /\ list.tp = tp

ListAtRow ==
    Managed /\ HasOpenTrade => AtPrices(oco[trade.list], trade.sl, trade.tp)

\* What is about to be written into the row is what the exchange has.
PlacedAtPlan ==
    pc = "record" \/ (Managed /\ pc = "save") =>
        /\ plan.list \in Lists
        /\ oco[plan.list].st \in {"EXECUTING", "FILLED"}
        /\ AtPrices(oco[plan.list], plan.sl, plan.tp)

\* An adjustment leaves the other level alone: only one is written back.
AdjustsOne ==
    pc \in AdjustSteps =>
        IF plan.why = "BREAKEVEN" THEN plan.tp = trade.tp ELSE plan.sl = trade.sl

MatchInv ==
    RowInv /\ LevelsSound /\ RowCovered /\ ListAtRow /\ PlacedAtPlan /\ AdjustsOne

\* The life of one list: it stays as it is, fills, is canceled as the list
\* of the row, or its identifier is handed out again.
LEMMA ListLife ==
    ASSUME "lost" \notin Faults, "operator" \notin Faults, RowInv, [Next]_vars,
           NEW l \in Lists
    PROVE  \/ oco'[l] = oco[l]
           \/ oco'[l] = Done("FILLED")
           \/ l = trade.list /\ pc' \in {"place", "trail_sell"}
           \/ l # trade.list /\ pc \in {"entry_oco", "place"}
  <1>0. /\ oco \in [Lists -> OrderList] /\ trade.list \in Lists \cup {NoList}
        /\ ~Executed("error")
    BY DEF RowInv, IInv, TypeOK, ExchangeTypeOK, RepositoryTypeOK, Trade, Executed
  <1>1. CASE UNCHANGED oco
    BY <1>1
  <1>2. CASE EntryOco \/ ReplacePlace
    BY <1>0, <1>2 DEF EntryOco, ReplacePlace, PlaceOco, FreshLists
  <1>3. CASE ReplaceCancel \/ TrailCancel
    BY <1>0, <1>3 DEF ReplaceCancel, TrailCancel, CancelList, Goto
  <1>4. CASE ExchangeMoves
    BY <1>0, <1>4 DEF ExchangeMoves, ListFills, OperatorCancels
  <1>5. CASE Execute \/ EntrySell \/ ReplaceSell \/ TrailSell \/ ReconcileSell
    BY <1>1, <1>5 DEF Execute, ExecutePaper, EntryBuy, EntrySell, ReplaceSell,
                      TrailSell, ReconcileSell, MarketBuy, MarketSell, exchangeVars
  <1> QED
    BY <1>1, <1>2, <1>3, <1>4, <1>5, CallsOnly DEF exchangeVars

LEMMA SaveSteps ==
    ASSUME "db" \notin Faults, RowInv, SaveAdjustment
    PROVE  /\ UNCHANGED <<exchangeVars, plan, alarm>> /\ pc' # "save"
           /\ trade'.list = IF plan.list = NoList THEN trade.list ELSE plan.list
           /\ plan.why = "BREAKEVEN" => trade'.sl = plan.sl /\ trade'.tp = trade.tp
           /\ plan.why # "BREAKEVEN" => trade'.sl = trade.sl /\ trade'.tp = plan.tp
  <1>1. trade \in Trade
    BY DEF RowInv, IInv, TypeOK, RepositoryTypeOK
  <1>2. ~Raises("idle")
    BY DEF Raises
  <1> QED
    BY <1>1, <1>2 DEF SaveAdjustment, UpdateStopLoss, UpdateTakeProfit, Trade,
                      Resume, Goto

\* Live, a row without a list gets none, and keeps to the database.
LEMMA StaysUnmanaged ==
    ASSUME Live, RowInv, [Next]_vars, ~Managed, HasOpenTrade
    PROVE  ~Managed' \/ pc = "record"
  <1>1. trade.list = NoList
    BY DEF Managed
  <1>2. pc = "save" => plan.list = NoList
    BY DEF RowInv, OpenWhileReplacing
  <1> QED
    BY <1>1, <1>2, ListOfRowSteps DEF Managed

\* How a settling phase ends with the row still open and nobody told: the
\* reconciler found the list resting, or the replacement was recorded.
LEMMA SettlingEnds ==
    ASSUME Live, Faults \subseteq {"reject", "query", "crash"},
           RowInv, LevelsSound, [Next]_vars,
           HasOpenTrade, HasOpenTrade', Managed, ~alarm',
           pc \in SettlingSteps, pc' \notin SettlingSteps
    PROVE  \/ /\ UNCHANGED <<trade, oco>>
              /\ oco[trade.list].st = "EXECUTING"
           \/ SaveAdjustment
  <1>0. /\ "db" \notin Faults /\ "startup" \notin Faults
        /\ ~Raises("idle") /\ ~Raises("manage")
    BY DEF Raises
  <1>1. ASSUME NEW reason, CloseTrade(reason) PROVE FALSE
    BY <1>1 DEF CloseTrade, HasOpenTrade, RowInv, IInv, TypeOK,
                RepositoryTypeOK, Trade
  <1>2. pc = "place" => ValidRelation
    BY DEF LevelsSound, AdjustSteps
  <1> USE <1>0 DEF SettlingSteps, Goto
  <1>3. CASE Restart \/ Crash \/ Candle \/ ExchangeMoves \/ UNCHANGED vars
    BY <1>3 DEF Restart, Crash, Candle, QuietCandle, SignalCandle,
                ExchangeMoves, processVars, vars
  <1>4. CASE ReconcileTracked
    <2>1. "EXECUTING" \in StatusReplies(trade.list) /\ UNCHANGED <<trade, oco>>
      BY <1>4 DEF ReconcileTracked, exchangeVars
    <2> QED
      BY <2>1, ExchangeAssumption
      DEF StatusReplies, RowInv, IInv, TypeOK, ExchangeTypeOK,
          RepositoryTypeOK, Trade, Managed, OrderList, ListState
  <1>5. CASE ReconcileNothing \/ ReconcileUntracked \/ ReconcileOrphans
             \/ ReconcileSell
    BY <1>5 DEF ReconcileNothing, ReconcileUntracked, ReconcileOrphans,
                ReconcileSell, Managed
  <1>6. CASE ReconcileClose \/ ReconcileSold \/ ReplaceClose \/ ClosePosition
    BY <1>1, <1>6 DEF ReconcileClose, ReconcileSold, ReplaceClose, ClosePosition
  <1>7. CASE ReplaceCancel \/ ReplaceCheck \/ ReplaceAborted \/ ReplacePlace
             \/ ReplaceSell
    BY <1>2, <1>7 DEF ReplaceCancel, ReplaceCheck, ReplaceAborted,
                      ReplacePlace, ReplaceSell
  <1>8. CASE RouterNext \/ Manage \/ ApplyBreakeven \/ ApplyDynamicTakeProfit
    BY <1>8 DEF RouterNext, Execute, EntryOco, EntrySell, EntryRecord, Manage,
                ApplyBreakeven, ApplyDynamicTakeProfit
  <1>9. CASE CheckExits \/ ConfirmOcoFilled \/ TrailCancel \/ TrailCheck
             \/ TrailSell
    BY <1>9 DEF CheckExits, ConfirmOcoFilled, TrailCancel, TrailCheck, TrailSell
  <1> QED
    BY <1>3, <1>4, <1>5, <1>6, <1>7, <1>8, <1>9
    DEF Next, ProcessNext, ManagerNext, ReplaceNext, ExitNext, ReconcilerNext

LEMMA CoveredStep ==
    ASSUME Live, Faults \subseteq {"reject", "query", "crash"},
           MatchInv, [Next]_vars
    PROVE  RowCovered'
  <1> SUFFICES ASSUME Managed', HasOpenTrade', ~alarm', pc' \notin SettlingSteps
               PROVE  oco'[trade'.list].st \in {"EXECUTING", "FILLED"}
    BY DEF RowCovered
  <1> USE DEF MatchInv
  <1>0. /\ "db" \notin Faults /\ "lost" \notin Faults /\ "operator" \notin Faults
        /\ Done("FILLED").st = "FILLED"
    BY DEF Done
  <1>1. CASE ~HasOpenTrade
    BY <1>1, RowOpens DEF PlacedAtPlan, exchangeVars
  <1>2. CASE HasOpenTrade /\ SaveAdjustment
    <2>1. Managed
      BY <1>2, StaysUnmanaged DEF SaveAdjustment
    <2>2. plan.list \in Lists /\ oco[plan.list].st \in {"EXECUTING", "FILLED"}
      BY <1>2, <2>1 DEF PlacedAtPlan, SaveAdjustment
    <2> QED
      BY <1>0, <1>2, <2>2, SaveSteps, ExchangeAssumption DEF exchangeVars
  <1>3. CASE HasOpenTrade /\ ~SaveAdjustment
    <2>1. trade'.list = trade.list
      <3>1. pc = "save" => UNCHANGED trade
        BY <1>3, RowUnchanged
        DEF Writes, Manage, Execute, EntryRecord, ReplaceClose, ClosePosition,
            ReconcileClose, ReconcileSold
      <3>2. pc # "record" /\ pc # "buy"
        BY <1>3 DEF RowInv, IInv, NoRowWhileEntering, EntrySteps
      <3> QED
        BY <3>1, <3>2, ListOfRowSteps
    <2>2. Managed /\ ~alarm /\ trade.list \in Lists
      BY <2>1, AlarmStays
      DEF Managed, RowInv, IInv, TypeOK, RepositoryTypeOK, Trade
    <2>3. CASE pc \in SettlingSteps
      BY <1>3, <2>1, <2>2, <2>3, SettlingEnds
    <2>4. CASE pc \notin SettlingSteps
      <3>1. oco[trade.list].st \in {"EXECUTING", "FILLED"}
        BY <1>3, <2>2, <2>4 DEF RowCovered
      <3>2. pc' \notin {"place", "trail_sell"}
        BY DEF SettlingSteps
      <3> QED
        BY <1>0, <2>1, <2>2, <3>1, <3>2, ListLife
    <2> QED
      BY <2>3, <2>4
  <1> QED
    BY <1>1, <1>2, <1>3

LEMMA ListAtRowStep ==
    ASSUME Live, Faults \subseteq {"reject", "query", "crash"},
           MatchInv, [Next]_vars
    PROVE  ListAtRow'
  <1> SUFFICES ASSUME Managed', HasOpenTrade'
               PROVE  AtPrices(oco[trade.list], trade.sl, trade.tp)'
    BY DEF ListAtRow
  <1> USE DEF MatchInv
  <1>0. /\ "db" \notin Faults /\ "lost" \notin Faults /\ "operator" \notin Faults
        /\ Done("FILLED").st # "EXECUTING"
    BY DEF Done
  <1>1. CASE ~HasOpenTrade
    BY <1>1, RowOpens DEF PlacedAtPlan, exchangeVars, AtPrices
  <1>2. CASE HasOpenTrade /\ SaveAdjustment
    <2>1. Managed /\ pc = "save"
      BY <1>2, StaysUnmanaged DEF SaveAdjustment
    <2>2. plan.list \in Lists /\ AtPrices(oco[plan.list], plan.sl, plan.tp)
      BY <1>2, <2>1 DEF PlacedAtPlan
    <2>3. trade'.sl = plan.sl /\ trade'.tp = plan.tp
      BY <1>0, <1>2, <2>1, SaveSteps DEF AdjustsOne, AdjustSteps
    <2> QED
      BY <1>0, <1>2, <2>2, <2>3, SaveSteps, ExchangeAssumption
      DEF exchangeVars, AtPrices
  <1>3. CASE HasOpenTrade /\ ~SaveAdjustment
    <2>1. trade'.list = trade.list /\ trade'.sl = trade.sl /\ trade'.tp = trade.tp
      <3>1. pc = "save" => UNCHANGED trade
        BY <1>3, RowUnchanged
        DEF Writes, Manage, Execute, EntryRecord, ReplaceClose, ClosePosition,
            ReconcileClose, ReconcileSold
      <3>2. pc # "record" /\ pc # "buy"
        BY <1>3 DEF RowInv, IInv, NoRowWhileEntering, EntrySteps
      <3> QED
        BY <1>3, <3>1, <3>2, ListOfRowSteps, RowSteps DEF SameLevels, RowInv
    <2>2. Managed /\ trade.list \in Lists
      BY <2>1 DEF Managed, RowInv, IInv, TypeOK, RepositoryTypeOK, Trade
    <2>3. pc' \in {"place", "trail_sell"} => oco'[trade.list].st # "EXECUTING"
      BY <2>1, RowInvStep DEF RowInv, IInv, Released, ReleasedSteps
    <2> QED
      BY <1>0, <1>3, <2>1, <2>2, <2>3, ListLife DEF ListAtRow, AtPrices
  <1> QED
    BY <1>1, <1>2, <1>3

LEMMA PlacedAtPlanStep ==
    ASSUME Live, Faults \subseteq {"reject", "query", "crash"},
           MatchInv, [Next]_vars
    PROVE  PlacedAtPlan'
  <1> SUFFICES ASSUME pc' = "record" \/ (Managed' /\ pc' = "save")
               PROVE  /\ plan'.list \in Lists
                      /\ oco'[plan'.list].st \in {"EXECUTING", "FILLED"}
                      /\ AtPrices(oco[plan.list], plan.sl, plan.tp)'
    BY DEF PlacedAtPlan
  <1> USE DEF MatchInv
  <1>0. /\ "lost" \notin Faults /\ "operator" \notin Faults
        /\ Done("FILLED").st = "FILLED"
    BY DEF Done
  <1>1. CASE EntryOco \/ ReplacePlace
    <2>1. PICK l \in FreshLists : /\ PlaceOco(l, plan.sl, plan.tp, "ok")
                                  /\ plan' = [plan EXCEPT !.list = l]
      BY <1>1 DEF EntryOco, ReplacePlace, Goto
    <2>2. plan'.sl = plan.sl /\ plan'.tp = plan.tp
      BY <2>1 DEF RowInv, IInv, TypeOK, ProcessTypeOK, Plan
    <2> QED
      BY <2>1, <2>2, PlacedRests DEF AtPrices
  <1>2. CASE Stays
    <2>1. pc = "record" \/ (Managed /\ pc = "save")
      BY <1>2 DEF Stays, processVars, Managed
    <2>2. plan' = plan /\ pc' = pc
      BY <1>2 DEF Stays, processVars
    <2> QED
      BY <1>0, <2>1, <2>2, ListLife DEF PlacedAtPlan, AtPrices
  <1>3. CASE ApplyBreakeven \/ ApplyDynamicTakeProfit
    BY <1>3 DEF ApplyBreakeven, ApplyDynamicTakeProfit, Adjust, Goto, Managed
  <1>4. CASE \/ SignalCandle \/ Execute \/ ReplaceCancel \/ ReplaceSell
    BY <1>4 DEF SignalCandle, Execute, EntryBuy, ExecutePaper, Raises,
                ReplaceCancel, ReplaceSell, Resume, Goto
  <1> QED
    BY <1>1, <1>2, <1>3, <1>4, Predecessors DEF EntrySteps, AdjustSteps

LEMMA AdjustsOneStep == MatchInv /\ [Next]_vars => AdjustsOne'
  <1> SUFFICES ASSUME MatchInv, [Next]_vars, pc' \in AdjustSteps
               PROVE  IF plan'.why = "BREAKEVEN"
                      THEN plan'.tp = trade'.tp ELSE plan'.sl = trade'.sl
    BY DEF AdjustsOne
  <1>1. CASE ApplyBreakeven
    BY <1>1, AdjustPlans DEF ApplyBreakeven, Goto, AdjustSteps
  <1>2. CASE ApplyDynamicTakeProfit
    BY <1>2, AdjustPlans DEF ApplyDynamicTakeProfit, Goto, AdjustSteps
  <1>3. CASE ReplacePlace
    <2>1. /\ plan'.why = plan.why /\ plan'.sl = plan.sl /\ plan'.tp = plan.tp
          /\ UNCHANGED trade
      BY <1>3 DEF ReplacePlace, MatchInv, RowInv, IInv, TypeOK, ProcessTypeOK,
                  Plan
    <2> QED
      BY <1>3, <2>1 DEF ReplacePlace, MatchInv, AdjustsOne, AdjustSteps
  <1>4. CASE ReplaceCancel \/ ReplaceSell \/ Stays
    BY <1>4 DEF ReplaceCancel, ReplaceSell, Resume, Stays, processVars, Goto,
                AdjustSteps, MatchInv, AdjustsOne
  <1> QED
    BY <1>1, <1>2, <1>3, <1>4, Predecessors

\* Unless a human has been told, the open row of a live session has, between
\* two candles, its list resting at the row's own stop and target, or filled:
\* whatever the exchange refuses, whatever query fails and wherever the
\* process is killed and started again, because the row is written only after
\* the list that it names (execution_router.py, step 3; _replace_oco) and the
\* reconciler compares the two before trading resumes.
THEOREM RowTellsTheTruth ==
    ASSUME NoCoarseTick, Faults \subseteq {"reject", "query", "crash"}
    PROVE  Spec => []RowMatchesExchange
  <1>1. CASE Live
    <2>1. Init => RowCovered /\ ListAtRow /\ PlacedAtPlan /\ AdjustsOne
      <3> SUFFICES ASSUME Init
                   PROVE  RowCovered /\ ListAtRow /\ PlacedAtPlan /\ AdjustsOne
        OBVIOUS
      <3>1. ~Managed
        <4>1. ASSUME NEW p \in SignalPrices, trade = LegacyRow(p)
              PROVE  trade.list = NoList
          BY <4>1 DEF LegacyRow, NoTrade
        <4> QED
          BY <4>1 DEF Init, Managed, NoTrade
      <3> QED
        BY <3>1 DEF Init, RowCovered, ListAtRow, PlacedAtPlan, AdjustsOne,
                    AdjustSteps
    <2>2. /\ RowInv /\ LevelsSound /\ RowCovered /\ ListAtRow
          /\ PlacedAtPlan /\ AdjustsOne
          /\ [Next]_vars
          => RowCovered' /\ ListAtRow' /\ PlacedAtPlan' /\ AdjustsOne'
      BY <1>1, CoveredStep, ListAtRowStep, PlacedAtPlanStep, AdjustsOneStep
      DEF MatchInv
    <2>3. RowCovered /\ ListAtRow => RowMatchesExchange
      BY DEF RowCovered, ListAtRow, RowMatchesExchange, AtPrices, Idle,
             SettlingSteps
    <2> QED
      BY <1>1, <2>1, <2>2, <2>3, LevelsHold, PTL DEF Spec
  <1>2. CASE ~Live
    <2>1. RowMatchesExchange
      BY <1>2 DEF RowMatchesExchange, Managed
    <2> QED
      BY <2>1, PTL
  <1> QED
    BY <1>1, <1>2

-----------------------------------------------------------------------------
(* Lists that no row knows.                                                *)

\* A live row names a list, or the reconciler has reported it; and so does
\* the plan of an entry that is about to be recorded.
RowTracked ==
    /\ ~alarm /\ HasOpenTrade /\ pc \notin {"down", "reconcile"} =>
          trade.list # NoList
    /\ pc = "record" => plan.list # NoList

\* Once the reconciler has looked, and unless it has told somebody, only the
\* list of the row rests, or the one that the plan is about to record.
KnownOrPlanned ==
    ~alarm /\ pc \notin {"down"} \cup StartupSteps =>
        Resting \subseteq
            IF pc \in {"record", "save"} THEN {plan.list} ELSE KnownLists

OrphanInv == RowInv /\ RowTracked /\ KnownOrPlanned

LEMMA TrackedStep ==
    ASSUME Live, Faults \subseteq {"reject", "operator", "crash"},
           RowInv, RowTracked, [Next]_vars
    PROVE  RowTracked'
  <1>1. ASSUME ~alarm', HasOpenTrade', pc' \notin {"down", "reconcile"}
        PROVE  trade'.list # NoList
    <2>1. CASE ~HasOpenTrade
      BY <1>1, <2>1, RowOpens DEF RowTracked
    <2>2. CASE HasOpenTrade
      <3>1. trade.list # NoList
        BY <1>1, <2>2, AlarmStays, StartSteps DEF RowTracked
      <3> QED
        BY <3>1, <2>2, ListOfRowSteps
        DEF RowTracked, RowInv, IInv, NoRowWhileEntering, EntrySteps
    <2> QED
      BY <2>1, <2>2
  <1>2. ASSUME pc' = "record" PROVE plan'.list # NoList
    <2>1. CASE EntryOco
      <3>1. PICK l \in FreshLists : /\ PlaceOco(l, plan.sl, plan.tp, "ok")
                                    /\ plan' = [plan EXCEPT !.list = l]
        BY <1>2, <2>1 DEF EntryOco, Goto
      <3> QED
        BY <3>1, PlacedRests, ExchangeAssumption
    <2>2. CASE Stays
      BY <1>2, <2>2 DEF Stays, processVars, RowTracked
    <2>3. CASE SignalCandle \/ Execute
      BY <1>2, <2>3 DEF SignalCandle, Execute, EntryBuy, ExecutePaper, Raises,
                        Goto
    <2> QED
      BY <1>2, <2>1, <2>2, <2>3, Predecessors DEF EntrySteps
  <1> QED
    BY <1>1, <1>2 DEF RowTracked

\* The reconciler ends with a look at the open lists.
LEMMA StartupEnds ==
    ASSUME Live, Faults \subseteq {"reject", "operator", "crash"},
           RowInv, [Next]_vars,
           pc \in {"down"} \cup StartupSteps,
           pc' \notin {"down"} \cup StartupSteps
    PROVE  /\ UNCHANGED <<oco, trade>> /\ pc' = "idle"
           /\ alarm' \/ Resting \subseteq KnownLists
  <1>0. "db" \notin Faults /\ "startup" \notin Faults /\ "query" \notin Faults
    OBVIOUS
  <1> USE <1>0 DEF StartupSteps, Goto
  <1>1. CASE ReconcileOrphans
    BY <1>1 DEF ReconcileOrphans, exchangeVars
  <1>2. CASE Restart \/ ReconcileNothing \/ ReconcileUntracked
             \/ ReconcileTracked \/ ReconcileClose \/ ReconcileSell
             \/ ReconcileSold
    BY <1>2 DEF Restart, ReconcileNothing, ReconcileUntracked,
                ReconcileTracked, ReconcileClose, ReconcileSell, ReconcileSold,
                Raises
  <1>3. CASE Candle \/ Crash \/ ExchangeMoves \/ RouterNext \/ UNCHANGED vars
    BY <1>3 DEF Candle, QuietCandle, SignalCandle, Crash, ExchangeMoves,
                processVars, RouterNext, Execute, EntryOco, EntrySell,
                EntryRecord, vars
  <1>4. CASE ManagerNext
    BY <1>4 DEF ManagerNext, Manage, ApplyBreakeven, ApplyDynamicTakeProfit,
                SaveAdjustment, ReplaceNext, ReplaceCancel, ReplaceCheck,
                ReplaceAborted, ReplacePlace, ReplaceSell, ReplaceClose,
                ExitNext, CheckExits, ConfirmOcoFilled, TrailCancel,
                TrailCheck, TrailSell, ClosePosition
  <1> QED
    BY <1>1, <1>2, <1>3, <1>4 DEF Next, ProcessNext, ReconcilerNext

\* With no reply lost, a list rests only after an answer that the handler
\* has kept.
LEMMA RestingSteps ==
    ASSUME "lost" \notin Faults, RowInv, [Next]_vars
    PROVE  \/ Resting' \subseteq Resting
           \/ /\ EntryOco /\ pc' = "record"
              /\ Resting' \subseteq Resting \cup {plan'.list}
           \/ /\ ReplacePlace /\ pc' = "save"
              /\ Resting' \subseteq Resting \cup {plan'.list}
  <1>0. /\ oco \in [Lists -> OrderList] /\ ~Executed("error")
        /\ ~Refused("ok")
    BY DEF RowInv, IInv, TypeOK, ExchangeTypeOK, Executed, Refused
  <1>1. CASE EntryOco \/ ReplacePlace
    <2>1. PICK l \in FreshLists :
            \/ /\ PlaceOco(l, plan.sl, plan.tp, "ok")
               /\ plan' = [plan EXCEPT !.list = l]
               /\ (EntryOco /\ pc' = "record") \/ (ReplacePlace /\ pc' = "save")
            \/ PlaceOco(l, plan.sl, plan.tp, "error")
      BY <1>1 DEF EntryOco, ReplacePlace, Goto
    <2>2. CASE PlaceOco(l, plan.sl, plan.tp, "error")
      BY <1>0, <2>2 DEF PlaceOco, Resting
    <2>3. CASE /\ PlaceOco(l, plan.sl, plan.tp, "ok")
               /\ plan' = [plan EXCEPT !.list = l]
      <3>1. plan'.list = l
        BY <2>3, PlacedRests
      <3>2. Resting' \subseteq Resting \cup {l}
        BY <1>0, <2>3 DEF PlaceOco, Resting, FreshLists
      <3> QED
        BY <1>0, <2>1, <3>1, <3>2 DEF PlaceOco, Resting
    <2> QED
      BY <2>1, <2>2, <2>3
  <1>2. CASE \/ UNCHANGED oco
             \/ \E l \in Lists, state \in {"FILLED", "CANCELED"} :
                   /\ oco[l].st = "EXECUTING"
                   /\ oco' = [oco EXCEPT ![l] = Done(state)]
    BY <1>0, <1>2 DEF Resting, Done
  <1>3. CASE pc \in {"entry_oco", "place"} /\ ~UNCHANGED oco
             /\ ~(EntryOco \/ ReplacePlace)
    <2>1. ExchangeMoves
      BY <1>3, CallsOnly
      DEF Execute, EntrySell, ReplaceCancel, ReplaceSell, TrailCancel,
          TrailSell, ReconcileSell, exchangeVars
    <2> QED
      BY <1>0, <2>1 DEF ExchangeMoves, ListFills, OperatorCancels, Resting, Done
  <1> QED
    BY <1>1, <1>2, <1>3, ListSteps

LEMMA KnownStep ==
    ASSUME Live, Faults \subseteq {"reject", "operator", "crash"},
           OrphanInv, [Next]_vars
    PROVE  KnownOrPlanned'
  <1> SUFFICES ASSUME ~alarm', pc' \notin {"down"} \cup StartupSteps
               PROVE  Resting' \subseteq
                          IF pc' \in {"record", "save"}
                          THEN {plan'.list} ELSE KnownLists'
    BY DEF KnownOrPlanned
  <1> USE DEF OrphanInv
  <1>0. /\ "lost" \notin Faults /\ "db" \notin Faults /\ ~alarm
        /\ NoList \notin Resting
    BY AlarmStays, ExchangeAssumption DEF Resting
  <1>1. CASE pc \in {"down"} \cup StartupSteps
    <2>1. /\ UNCHANGED <<oco, trade>> /\ pc' = "idle"
          /\ Resting \subseteq KnownLists
      BY <1>1, StartupEnds
    <2> QED
      BY <2>1 DEF Resting, KnownLists, HasOpenTrade
  <1>2. CASE pc \in {"record", "save"}
    <2>1. Resting \subseteq {plan.list}
      BY <1>0, <1>2 DEF KnownOrPlanned, StartupSteps
    <2>2. Resting' \subseteq Resting
      BY <1>0, <1>2, RestingSteps DEF EntryOco, ReplacePlace
    <2>3. CASE Stays
      BY <1>2, <2>1, <2>2, <2>3 DEF Stays, processVars
    <2>4. CASE EntryRecord
      <3>1. trade'.st = "OPEN" /\ trade'.list = plan.list /\ pc' = "manage"
        BY <1>0, <2>4 DEF EntryRecord, CreateTrade, Raises, Goto
      <3> QED
        BY <2>1, <2>2, <3>1 DEF KnownLists, HasOpenTrade
    <2>5. CASE SaveAdjustment
      <3>1. pc' \notin {"record", "save"}
        BY <1>0, <2>5 DEF SaveAdjustment, Raises, Resume, Goto
      <3>2. CASE plan.list = NoList
        BY <1>0, <2>1, <2>2, <3>1, <3>2
      <3>3. CASE plan.list # NoList
        <4>1. HasOpenTrade /\ pc = "save"
          BY <2>5, <3>3 DEF SaveAdjustment, RowInv, OpenWhileReplacing,
                            ReplacingSteps
        <4>2. trade'.list = plan.list
          BY <1>0, <2>5, <3>3, SaveSteps
        <4>3. HasOpenTrade'
          BY <4>1, <4>2, ListOfRowSteps DEF HasOpenTrade, CloseSteps
        <4> QED
          BY <2>1, <2>2, <3>1, <4>2, <4>3 DEF KnownLists
      <3> QED
        BY <3>2, <3>3
    <2>6. EntryRecord \/ SaveAdjustment \/ Stays
      <3>1. CASE ProcessNext
        BY <1>2, <3>1
        DEF ProcessNext, Candle, QuietCandle, SignalCandle, RouterNext, Execute,
            EntryOco, EntrySell, ManagerNext, Manage, ApplyBreakeven,
            ApplyDynamicTakeProfit, ReplaceNext, ReplaceCancel, ReplaceCheck,
            ReplaceAborted, ReplacePlace, ReplaceSell, ReplaceClose, ExitNext,
            CheckExits, ConfirmOcoFilled, TrailCancel, TrailCheck, TrailSell,
            ClosePosition, Restart, ReconcilerNext, ReconcileNothing,
            ReconcileUntracked, ReconcileTracked, ReconcileClose, ReconcileSell,
            ReconcileSold, ReconcileOrphans
      <3>2. CASE Crash \/ ExchangeMoves \/ UNCHANGED vars
        BY <3>2 DEF Crash, ExchangeMoves, vars, Stays, processVars, Goto
      <3> QED
        BY <3>1, <3>2 DEF Next
    <2> QED
      BY <2>3, <2>4, <2>5, <2>6
  <1>3. CASE pc \notin {"down", "record", "save"} \cup StartupSteps
    <2>1. Resting \subseteq KnownLists
      BY <1>0, <1>3 DEF KnownOrPlanned
    <2>2. HasOpenTrade => Managed
      BY <1>0, <1>3 DEF RowTracked, Managed, StartupSteps
    <2>3. CASE EntryOco /\ pc' = "record"
      <3>1. Resting = {}
        BY <2>1, <2>3 DEF KnownLists, EntryOco, RowInv, IInv,
                          NoRowWhileEntering, EntrySteps
      <3> QED
        BY <1>0, <2>3, <3>1, RestingSteps
    <2>4. CASE ReplacePlace /\ pc' = "save"
      <3>1. Managed => oco[trade.list].st # "EXECUTING"
        BY <2>4 DEF ReplacePlace, RowInv, IInv, Released, ReleasedSteps
      <3>2. Resting = {}
        BY <2>1, <2>2, <3>1 DEF KnownLists, Resting
      <3> QED
        BY <1>0, <2>4, <3>2, RestingSteps
    <2>5. CASE Resting' \subseteq Resting /\ pc' \in {"record", "save"}
      <3>1. CASE ApplyBreakeven \/ ApplyDynamicTakeProfit
        <4>1. ~Managed
          BY <2>5, <3>1 DEF ApplyBreakeven, ApplyDynamicTakeProfit, Adjust, Goto
        <4> QED
          BY <2>1, <2>2, <2>5, <4>1 DEF KnownLists
      <3>2. CASE EntryOco \/ ReplacePlace
        BY <2>3, <2>4, <2>5, <3>2 DEF EntryOco, ReplacePlace, Goto
      <3>3. CASE SignalCandle \/ Execute \/ ReplaceCancel \/ ReplaceSell \/ Stays
        BY <1>3, <2>5, <3>3
        DEF SignalCandle, Execute, EntryBuy, ExecutePaper, ReplaceCancel,
            ReplaceSell, Resume, Stays, processVars, Raises, Goto
      <3> QED
        BY <2>5, <3>1, <3>2, <3>3, Predecessors DEF EntrySteps, AdjustSteps
    <2>6. CASE Resting' \subseteq Resting /\ pc' \notin {"record", "save"}
      <3>1. CASE Resting = {}
        BY <2>6, <3>1
      <3>2. CASE Resting # {}
        <4>1. HasOpenTrade /\ oco[trade.list].st = "EXECUTING"
          BY <2>1, <3>2 DEF KnownLists, Resting
        <4>2. pc \notin CloseSteps
          BY <2>2, <4>1 DEF CloseSteps, RowInv, IInv, Released, ReleasedSteps
        <4>3. trade'.list = trade.list /\ trade'.st = trade.st
          BY <1>3, <4>1, <4>2, ListOfRowSteps
        <4> QED
          BY <2>1, <2>6, <4>3 DEF KnownLists, HasOpenTrade
      <3> QED
        BY <3>1, <3>2
    <2> QED
      BY <1>0, <2>3, <2>4, <2>5, <2>6, RestingSteps
  <1> QED
    BY <1>1, <1>2, <1>3

\* Unless a human has been told, no list rests on the exchange, between two
\* candles, that the open row does not name: an entry that dies before its
\* record, a replacement that dies before it is saved and a list that was
\* there all along are reported by the next start, and a list that somebody
\* cancels by hand is no orphan (_reconcile_orphan_orders, scenario 3).
THEOREM OrphansAreReported ==
    ASSUME Live, Faults \subseteq {"reject", "operator", "crash"}
    PROVE  Spec => []OrphansAreEscalated
  <1>1. Init => RowTracked /\ KnownOrPlanned
    BY DEF Init, RowTracked, KnownOrPlanned
  <1>2. RowInv /\ RowTracked /\ KnownOrPlanned /\ [Next]_vars
          => RowTracked' /\ KnownOrPlanned'
    BY TrackedStep, KnownStep DEF OrphanInv
  <1>3. KnownOrPlanned => OrphansAreEscalated
    BY DEF KnownOrPlanned, OrphansAreEscalated, Idle, StartupSteps
  <1> QED
    BY <1>1, <1>2, <1>3, RowInvHolds, PTL DEF Spec

=============================================================================
