---------------------------- MODULE PaperTrading ----------------------------
(***************************************************************************)
(* LiveTrading with the market in it: a BUY no longer comes for no reason  *)
(* but when the analysis of the closes so far allows it.  The histories of *)
(* the analysis are memory of the process: a crash loses them, and the     *)
(* next session warms up from nothing beside a position that may be open.  *)
(* The limits of SignalQuality.tla remain a reason for which no BUY comes, *)
(* the ATR and the regime that PositionManager.tla asks for remain free.   *)
(***************************************************************************)
EXTENDS LiveTrading, MarketAnalysis

CONSTANT
    Wick   \* how far high and low are from the close, in ticks

ASSUME WickAssumption == Wick \in Nat

paperVars == <<vars, analysisVars>>

PaperInit == Init /\ AnalysisInit

\* AnalystAgent hears of a candle before any other agent acts on it.
AnalysedCandle ==
    /\ \E close \in Prices : Observe(close, Wick) /\ price' = close
    /\ \/ QuietCandle
       \/ SignalCandle /\ MarketAllowsBuy'

PaperNext ==
    \/ AnalysedCandle
    \/ (RouterNext \/ ManagerNext \/ Restart \/ ReconcilerNext \/ ExchangeMoves)
           /\ UNCHANGED analysisVars
    \/ Crash /\ AnalysisLost

PaperSpec == PaperInit /\ [][PaperNext]_paperVars

-----------------------------------------------------------------------------
(* Properties.                                                             *)

\* Paper, over all sessions: once a session has handled a candle, no row is
\* open beyond its stop, its target or every trailing stop.  What a crash
\* kept from being closed is closed at the next candle.
ExitsCaughtUp == candles # <<>> => ExitsNotMissed

Buys == pc = "idle" /\ pc' = "buy"

\* ENABLE_MARKET_REGIME_ALIGNMENT "blocks only on BEARISH specifically"
\* (signal_quality_service.py), for whom it is enabled: then no BUY is made
\* into a market that the regime service calls BEARISH.
AlignedWhenEnabled ==
    [][Buys /\ Env.ENABLE_MARKET_REGIME_ALIGNMENT =>
           DetectRegime(regimePrices') # "BEARISH"]_paperVars

\* A swing that has been seen does not move: with each candle the newest
\* one may be added and the oldest one forgotten, no other changes.
SwingsKept(old, new) ==
    \E forgotten \in 0 .. 1 :
        LET kept == SubSeq(old, forgotten + 1, Len(old))
        IN IsPrefix(kept, new) /\ Len(new) <= Len(kept) + 1

SwingsStayPut ==
    [][structurePrices' # <<>> =>
           /\ SwingsKept(SwingHighs(structurePrices), SwingHighs(structurePrices'))
           /\ SwingsKept(SwingLows(structurePrices), SwingLows(structurePrices'))]_paperVars
=============================================================================
