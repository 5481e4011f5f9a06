---------------------------- MODULE LiveTrading -----------------------------
(***************************************************************************)
(* One symbol traded by the whole Runner: the signal pipeline (reduced to  *)
(* the question whether a BUY comes out of it), the execution router, the  *)
(* position manager, the startup reconciler, the trades table and the      *)
(* exchange, whose order lists fill while the process is between steps.    *)
(***************************************************************************)
EXTENDS ExecutionRouter, PositionManager, StartupReconciler

CONSTANTS
    Prices,                      \* the ladder of closes, in ticks
    EntryPrices,                 \* bound: the closes at which a BUY may come
    StopDistance, TargetDistance, \* what RiskAgent puts around the entry
    MaxHeld,                     \* bound: no new entry once this much is held
    LegacyRows                   \* a row from before order lists were tracked
                                 \* may still be open

ASSUME LadderAssumption ==
    /\ Prices \subseteq Nat \ {0}
    /\ EntryPrices \subseteq Prices
    /\ StopDistance \in Nat \ {0}
    /\ TargetDistance \in Nat \ {0}
    /\ MaxHeld \in Nat
    /\ LegacyRows \in BOOLEAN

\* What RiskAgent puts around the price of a signal.
Levels(p) ==
    [NoPlan EXCEPT !.entry = p, !.sl = p - StopDistance, !.tp = p + TargetDistance]

SignalPrices == {p \in EntryPrices : p > StopDistance}

LegacyRow(p) ==
    [NoTrade EXCEPT !.st = "OPEN", !.entry = p, !.high = p,
                    !.sl = Levels(p).sl, !.tp = Levels(p).tp]

\* The Runner has not been started yet.
Init ==
    /\ oco = [l \in Lists |-> Done("NONE")]
    /\ \/ trade = NoTrade /\ held = 0
       \/ LegacyRows /\ trade \in {LegacyRow(p) : p \in SignalPrices} /\ held = 1
    /\ pc = "down"
    /\ price = 0
    /\ plan = NoPlan
    /\ alarm = FALSE

\* Bound: a candle is handled only while there are identifiers left for the
\* two lists it may have to place.
RoomForLists ==
    Cardinality(Resting \cup ({trade.list} \ {NoList})) + 2 <= Cardinality(Lists)

\* A candle closes and no signal passes the gates, or the symbol already
\* has a position: only the position manager acts on it.
QuietCandle ==
    /\ pc = "idle" /\ RoomForLists
    /\ pc' = "manage"
    /\ price' \in Prices
    /\ UNCHANGED <<exchangeVars, trade, plan, alarm>>

\* A candle closes and a BUY reaches ExecutionAgent, which checks once more
\* that the symbol has no open row.
SignalCandle ==
    /\ pc = "idle" /\ RoomForLists
    /\ ~HasOpenTrade
    /\ held < MaxHeld
    /\ pc' = "buy"
    /\ price' \in SignalPrices
    /\ plan' = Levels(price')
    /\ UNCHANGED <<exchangeVars, trade, alarm>>

ExchangeMoves ==
    /\ \E l \in Lists : ListFills(l) \/ OperatorCancels(l)
    /\ UNCHANGED <<trade, processVars>>

Candle == QuietCandle \/ SignalCandle

ProcessNext == Candle \/ RouterNext \/ ManagerNext \/ Restart \/ ReconcilerNext

Next == ProcessNext \/ ExchangeMoves \/ Crash

Spec == Init /\ [][Next]_vars

\* The event loop keeps running and candles keep coming.
FairSpec == Spec /\ WF_vars(ProcessNext)

TypeOK == ExchangeTypeOK /\ RepositoryTypeOK /\ ProcessTypeOK

-----------------------------------------------------------------------------
(* Safety.                                                                 *)

Idle == pc = "idle"

\* Between candles a position that the bot bought is covered by a resting
\* list, or the code has told a human that it is not (execution_router.py
\* calls an unprotected position the single worst state it can be in).
NakedIsEscalated ==
    Idle /\ Live /\ held > Cardinality(Resting) => alarm

\* Between candles an open live row tells the truth: its list is resting at
\* the row's own stop and target, or has filled and waits to be noticed, or
\* the code has told a human that the two may disagree.
RowMatchesExchange ==
    Idle /\ Managed /\ HasOpenTrade /\ ~alarm =>
        LET list == oco[trade.list] IN
        \/ list.st = "FILLED"
        \/ list.st = "EXECUTING" /\ list.sl = trade.sl /\ list.tp = trade.tp

\* Between candles every resting list belongs to the open row, or the
\* operator has been told about it (startup_reconciler.py, scenario 3).
OrphansAreEscalated ==
    Idle /\ ~alarm => Resting \subseteq KnownLists

\* The bot never sells what it did not buy, not even when the account owns
\* more of the asset (Reserve).
NeverOversold == held >= 0

\* At no moment could the resting lists sell more than the bot has bought:
\* an old list is canceled before its replacement or a market sell goes out.
NeverOverOffered == Cardinality(Resting) <= held

\* Breakeven stays: once it is marked on an open row, the stop is at the
\* entry or above it, whatever happened to the exchange in between.
BreakevenHolds == HasOpenTrade /\ trade.be => trade.sl >= trade.entry

\* Paper: no row stays open after a candle that closed beyond its stop or
\* target, or beyond every trailing stop the ATR could have given.
ExitsNotMissed ==
    Idle /\ ~Live /\ HasOpenTrade =>
        /\ ~StopHit /\ ~TargetHit
        /\ \E distance \in TrailingDistances : ~TrailHit(distance)

-----------------------------------------------------------------------------
(* Action properties.                                                      *)

Closes == HasOpenTrade /\ trade'.st = "CLOSED"

\* The stop and the target of an open row only ever move up.
StopOnlyRises ==
    [][HasOpenTrade => trade'.sl >= trade.sl /\ trade'.tp >= trade.tp]_vars

\* A live row is never closed while the list it points to is still resting.
CloseIsConfirmed ==
    [][Managed /\ Closes => oco[trade.list].st # "EXECUTING"]_vars

\* An entry that failed has bought nothing: execution_router.py rejects the
\* signal as if no request had been sent ("No funds are at risk yet").
FailedEntryRisksNothing ==
    [][pc = "buy" /\ pc' = "manage" => held' = held]_vars

\* A live row is only closed when its position has been sold.
ClosedMeansSold ==
    [][Managed /\ Closes => held <= Cardinality(Resting)]_vars

-----------------------------------------------------------------------------
(* Liveness, under FairSpec.                                               *)

\* No handler waits or retries for ever: every candle comes to its end.
CandleEnds == (pc \notin {"idle", "down"}) ~> Idle

SoldByExchange ==
    HasOpenTrade /\ Managed /\ oco[trade.list].st = "FILLED"

BeyondLevels == Idle /\ (StopHit \/ TargetHit)

\* A position that the exchange has sold is closed in the trades table once
\* candles keep closing beyond its levels.
NoticedOnceCrossed ==
    [](SoldByExchange => <>(~HasOpenTrade) \/ <>[](~BeyondLevels))
=============================================================================
