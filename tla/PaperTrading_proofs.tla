------------------------- MODULE PaperTrading_proofs -------------------------
(***************************************************************************)
(* Trading with the market in it is trading: everything proved about       *)
(* LiveTrading holds in PaperTrading.  On top of that, for every history   *)
(* of closes: no exit is missed once a session is under way.               *)
(***************************************************************************)
EXTENDS PaperTrading, LiveTradingExchange_proofs

\* The market only adds reasons for which no BUY comes.
LEMMA PaperSteps == [PaperNext]_paperVars => [Next]_vars
  <1> SUFFICES ASSUME [PaperNext]_paperVars PROVE [Next]_vars
    OBVIOUS
  <1>1. CASE AnalysedCandle
    BY <1>1 DEF AnalysedCandle, Next, ProcessNext, Candle
  <1>2. CASE RouterNext \/ ManagerNext \/ Restart \/ ReconcilerNext
             \/ ExchangeMoves \/ Crash
    BY <1>2 DEF Next, ProcessNext
  <1>3. CASE UNCHANGED paperVars
    BY <1>3 DEF paperVars
  <1> QED
    BY <1>1, <1>2, <1>3 DEF PaperNext

\* PaperTrading implements LiveTrading: what was proved about the row, the
\* lists and the holdings holds whatever the analysis makes of the closes.
THEOREM PaperIsTrading == PaperSpec => Spec
  <1>1. PaperInit => Init
    BY DEF PaperInit
  <1> QED
    BY <1>1, PaperSteps, PTL DEF PaperSpec, Spec

-----------------------------------------------------------------------------
(* The exits of a paper row.                                               *)

\* Live, and only then, the process looks for orphans at its start.
OrphansLive == pc = "orphans" => Live

\* The histories of a process that is not running are empty.
NothingHeard == pc = "down" => candles = <<>>

LEMMA OrphansLiveStep == RowInv /\ OrphansLive /\ [Next]_vars => OrphansLive'
  <1> SUFFICES ASSUME RowInv, OrphansLive, [Next]_vars, pc' = "orphans"
               PROVE  Live
    BY DEF OrphansLive
  <1> USE DEF Goto
  <1>1. CASE ReconcilerNext
    BY <1>1 DEF ReconcilerNext, ReconcileNothing, ReconcileUntracked,
                ReconcileTracked, ReconcileClose, ReconcileSell, ReconcileSold,
                ReconcileOrphans, RowInv, TouchesManaged, ManagedSteps, Managed
  <1>2. CASE Candle \/ Crash \/ Restart \/ ExchangeMoves \/ UNCHANGED vars
    BY <1>2 DEF Candle, QuietCandle, SignalCandle, Crash, Restart,
                ExchangeMoves, processVars, vars, OrphansLive
  <1>3. CASE RouterNext
    BY <1>3 DEF RouterNext, Execute, EntryBuy, ExecutePaper, EntryOco,
                EntrySell, EntryRecord, Raises
  <1>4. CASE ManagerNext
    BY <1>4 DEF ManagerNext, Manage, ApplyBreakeven, ApplyDynamicTakeProfit,
                Adjust, SaveAdjustment, ReplaceNext, ReplaceCancel,
                ReplaceCheck, ReplaceAborted, ReplacePlace, ReplaceSell,
                ReplaceClose, Resume, Raises, ExitNext, CheckExits, ExitFor,
                ConfirmOcoFilled, TrailCancel, TrailCheck, TrailSell,
                ClosePosition, ClosedIfDone, NotClosed
  <1> QED
    BY <1>1, <1>2, <1>3, <1>4 DEF Next, ProcessNext

\* What the exits depend on, as a step leaves it.
LEMMA ExitsAsBefore ==
    ASSUME UNCHANGED <<pc, price, trade>>
    PROVE  ExitsNotMissed' <=> ExitsNotMissed
  BY DEF ExitsNotMissed, Idle, HasOpenTrade, StopHit, TargetHit, TrailHit,
         TrailingDistances

\* On paper a handler comes to its end by checking the exits, by closing the
\* row, or because there is none.
LEMMA PaperIdles ==
    ASSUME ~Live, "db" \notin Faults, RowInv, OrphansLive, [Next]_vars,
           pc' = "idle"
    PROVE  \/ UNCHANGED <<pc, price, trade>>
           \/ pc = "down"
           \/ ~HasOpenTrade'
           \/ /\ CheckExits /\ UNCHANGED <<price, trade>>
              /\ ~StopHit /\ ~TargetHit
              /\ \E distance \in TrailingDistances : ~TrailHit(distance)
  <1>0. ~Raises("idle") /\ pc \notin ManagedSteps \cup {"orphans", "reconcile"}
    BY DEF Raises, RowInv, TouchesManaged, Managed, OrphansLive
  <1>1. ASSUME NEW reason, CloseTrade(reason) PROVE ~HasOpenTrade'
    BY <1>1 DEF CloseTrade, HasOpenTrade, RowInv, IInv, TypeOK,
                RepositoryTypeOK, Trade
  <1> USE <1>0 DEF Goto, ManagedSteps
  <1>2. CASE CheckExits
    BY <1>2 DEF CheckExits, ExitFor
  <1>3. CASE ClosePosition
    BY <1>1, <1>3 DEF ClosePosition
  <1>4. CASE Manage
    BY <1>4 DEF Manage, HasOpenTrade
  <1>5. CASE ApplyBreakeven \/ ApplyDynamicTakeProfit \/ SaveAdjustment
    BY <1>5 DEF ApplyBreakeven, ApplyDynamicTakeProfit, Adjust, SaveAdjustment,
                Resume
  <1>6. CASE ReplaceNext \/ ConfirmOcoFilled \/ TrailCancel \/ TrailCheck
             \/ TrailSell
    BY <1>6 DEF ReplaceNext, ReplaceCancel, ReplaceCheck, ReplaceAborted,
                ReplacePlace, ReplaceSell, ReplaceClose, ConfirmOcoFilled,
                TrailCancel, TrailCheck, TrailSell
  <1>7. CASE RouterNext
    BY <1>7 DEF RouterNext, Execute, EntryBuy, ExecutePaper, EntryOco,
                EntrySell, EntryRecord, Raises
  <1>8. CASE ReconcilerNext
    BY <1>8 DEF ReconcilerNext, ReconcileNothing, ReconcileUntracked,
                ReconcileTracked, ReconcileClose, ReconcileSell, ReconcileSold,
                ReconcileOrphans
  <1>9. CASE Candle \/ Crash \/ Restart
    BY <1>9 DEF Candle, QuietCandle, SignalCandle, Crash, Restart
  <1>10. CASE ExchangeMoves \/ UNCHANGED vars
    BY <1>10 DEF ExchangeMoves, processVars, vars
  <1> QED
    BY <1>2, <1>3, <1>4, <1>5, <1>6, <1>7, <1>8, <1>9, <1>10
    DEF Next, ProcessNext, ManagerNext, ExitNext

\* The analysis hears of a candle when its handler starts, and forgets
\* everything when the process dies.
LEMMA CandlesHeard ==
    ASSUME [PaperNext]_paperVars
    PROVE  \/ UNCHANGED candles /\ (pc' = "down" => pc = "down")
           \/ pc = "idle" /\ pc' \in {"manage", "buy"}
           \/ candles' = <<>>
  <1>1. CASE AnalysedCandle
    BY <1>1 DEF AnalysedCandle, QuietCandle, SignalCandle
  <1>2. CASE Crash /\ AnalysisLost
    BY <1>2 DEF AnalysisLost
  <1>3. CASE UNCHANGED paperVars
    BY <1>3 DEF paperVars, analysisVars, vars
  <1>4. CASE /\ RouterNext \/ ManagerNext \/ Restart \/ ReconcilerNext
                  \/ ExchangeMoves
             /\ UNCHANGED analysisVars
    <2>1. ASSUME pc' = "down" PROVE pc = "down"
      <3> USE <2>1 DEF Goto
      <3>1. CASE RouterNext
        BY <3>1 DEF RouterNext, Execute, EntryBuy, ExecutePaper, EntryOco,
                    EntrySell, EntryRecord, Raises
      <3>2. CASE ManagerNext
        BY <3>2 DEF ManagerNext, Manage, ApplyBreakeven,
                    ApplyDynamicTakeProfit, Adjust, SaveAdjustment,
                    ReplaceNext, ReplaceCancel, ReplaceCheck, ReplaceAborted,
                    ReplacePlace, ReplaceSell, ReplaceClose, Resume, Raises,
                    ExitNext, CheckExits, ExitFor, ConfirmOcoFilled,
                    TrailCancel, TrailCheck, TrailSell, ClosePosition,
                    ClosedIfDone, NotClosed
      <3>3. CASE Restart \/ ExchangeMoves
        BY <3>3 DEF Restart, ExchangeMoves, processVars
      <3>4. CASE ReconcilerNext
        BY <3>4 DEF ReconcilerNext, ReconcileNothing, ReconcileUntracked,
                    ReconcileTracked, ReconcileClose, ReconcileSell,
                    ReconcileSold, ReconcileOrphans, Raises
      <3> QED
        BY <1>4, <3>1, <3>2, <3>3, <3>4
    <2> QED
      BY <1>4, <2>1 DEF analysisVars
  <1> QED
    BY <1>1, <1>2, <1>3, <1>4 DEF PaperNext

\* On paper, and while the database takes every write, no row stays open
\* after a candle that closed beyond its stop, its target or every trailing
\* stop, in this session or, at its first candle, in an earlier one that was
\* killed before it could close the row (_check_exit_conditions): neither an
\* adjustment nor an entry on the same candle keeps the exits from being
\* looked at.
THEOREM NoExitIsMissed ==
    ASSUME ~Live, "db" \notin Faults
    PROVE  PaperSpec => []ExitsCaughtUp
  <1>1. PaperInit => OrphansLive /\ NothingHeard /\ ExitsCaughtUp
    BY DEF PaperInit, Init, AnalysisInit, OrphansLive, NothingHeard,
           ExitsCaughtUp
  <1>2. RowInv /\ OrphansLive /\ [PaperNext]_paperVars => OrphansLive'
    BY OrphansLiveStep, PaperSteps
  <1>3. NothingHeard /\ [PaperNext]_paperVars => NothingHeard'
    BY CandlesHeard DEF NothingHeard
  <1>4. /\ RowInv /\ OrphansLive /\ NothingHeard /\ ExitsCaughtUp
        /\ [PaperNext]_paperVars
        => ExitsCaughtUp'
    <2> SUFFICES ASSUME RowInv, OrphansLive, NothingHeard, ExitsCaughtUp,
                        [PaperNext]_paperVars, candles' # <<>>, pc' = "idle",
                        HasOpenTrade'
                 PROVE  ExitsNotMissed'
      BY DEF ExitsCaughtUp, ExitsNotMissed, Idle
    <2>1. UNCHANGED candles /\ candles # <<>> /\ pc # "down"
      BY CandlesHeard DEF NothingHeard
    <2>2. CASE UNCHANGED <<pc, price, trade>>
      BY <2>1, <2>2, ExitsAsBefore DEF ExitsCaughtUp
    <2>3. CASE /\ UNCHANGED <<price, trade>> /\ ~StopHit /\ ~TargetHit
               /\ \E distance \in TrailingDistances : ~TrailHit(distance)
      BY <2>3 DEF ExitsNotMissed, StopHit, TargetHit, TrailHit,
                  TrailingDistances
    <2> QED
      BY <2>1, <2>2, <2>3, PaperIdles, PaperSteps
  <1> QED
    BY <1>1, <1>2, <1>3, <1>4, RowInvHolds, PaperIsTrading, PTL DEF PaperSpec
=============================================================================
