--------------------------- MODULE MarketAnalysis ---------------------------
(***************************************************************************)
(* What the Runner makes of the closes of one symbol.  Four services keep  *)
(* a history each (core/services/market_structure_service.py,              *)
(* market_regime_service.py, ema_trend_service.py, atr_service.py), with a *)
(* cap of its own.  AnalystAgent appends every candle to the four of them; *)
(* AnalystAgent, StrategyAgent and the filters of SignalQualityService     *)
(* then read them.  The records of constants are the dictionaries of       *)
(* core/config.  Percentages are in hundredths and are compared by         *)
(* multiplication: the rounding to four decimals is left out.              *)
(***************************************************************************)
EXTENDS Integers, SequencesExt

CONSTANTS
    Structure,     \* MARKET_STRUCTURE_CONFIG
    Regime,        \* what MarketRegimeService is constructed with
    Ema, Atr,      \* EMA_TREND_CONFIG, ATR_CONFIG
    Confidence,    \* ANALYST_CONFIG
    Strategy,      \* STRATEGY_CONFIG and the period of data/features
    Quality,       \* the filters on the market of SIGNAL_QUALITY_CONFIG
    Env            \* the switches of these filters as .env has them

ASSUME AnalysisAssumption ==
    /\ Structure \in [history: Nat \ {0}, swing: Nat \ {0}, swings: Nat \ {0},
                      candles: Nat \ {0}, score: Nat,
                      impulseWindow: Nat \ {0}, impulse: Nat,
                      impulseScore: Nat, highScore: Nat, lowScore: Nat,
                      calm: BOOLEAN, calmWindow: Nat \ {0}, calmRange: Nat]
    /\ Regime \in [history: Nat \ {0}, warmup: Nat \ {0, 1}, lookback: Nat \ {0, 1}]
    /\ Ema \in [history: Nat \ {0}]
    /\ Atr \in [history: Nat \ {0}, period: Nat \ {0}]
    /\ Confidence \in [base: Nat, structure: Nat, regime: Nat,
                       volatility: Nat, enough: Nat, maximum: Nat]
    /\ Strategy \in [period: Nat \ {0}, strength: Nat]
    /\ Quality \in [fast: Nat \ {0}, slow: Nat \ {0}, trend: Nat,
                    period: Nat \ {0}, atr: Nat, confidence: Nat]
    /\ Env \in [ENABLE_EMA_TREND_FILTER: BOOLEAN,
                ENABLE_VOLATILITY_FILTER: BOOLEAN,
                ENABLE_MARKET_REGIME_ALIGNMENT: BOOLEAN]

VARIABLES
    structurePrices,   \* MarketStructureService.market_prices
    regimePrices,      \* MarketRegimeService.market_prices
    emaPrices,         \* EmaTrendService.market_history
    candles            \* AtrService.market_data

analysisVars == <<structurePrices, regimePrices, emaPrices, candles>>

-----------------------------------------------------------------------------
(* The histories.                                                          *)

\* Append, then forget the oldest entry of a history beyond its cap.
Remembered(history, x, cap) ==
    LET grown == Append(history, x)
    IN IF Len(grown) > cap THEN Tail(grown) ELSE grown

Latest(history, n) ==
    SubSeq(history, (IF n > Len(history) THEN 1 ELSE Len(history) - n + 1),
           Len(history))

\* A change of this many hundredths of a percent at least.
RisesBy(first, last, percent) == (last - first) * 10000 >= percent * first
FallsBy(first, last, percent) == (first - last) * 10000 >= percent * first

-----------------------------------------------------------------------------
(* Market structure.                                                       *)

Around(i) == ((i - Structure.swing) .. (i + Structure.swing)) \ {i}

\* Mutant: a close counts before the closes to its right are known.
IsSwingHighEarly(h, i) == \A j \in Around(i) \cap DOMAIN h : h[i] > h[j]

\* Strictly above every close of the window on both sides.
IsSwingHigh(h, i) ==
    Around(i) \subseteq DOMAIN h /\ \A j \in Around(i) : h[i] > h[j]

IsSwingLow(h, i) ==
    Around(i) \subseteq DOMAIN h /\ \A j \in Around(i) : h[i] < h[j]

SwingsAt(h, positions) ==
    FoldLeftDomain(LAMBDA found, i :
                       IF i \in positions THEN Append(found, h[i]) ELSE found,
                   <<>>, h)

SwingHighs(h) == SwingsAt(h, {i \in DOMAIN h : IsSwingHigh(h, i)})
SwingLows(h) == SwingsAt(h, {i \in DOMAIN h : IsSwingLow(h, i)})

\* The last one is above the mean of the last two.
Rising(swings) ==
    LET n == Len(swings)
    IN n > 1 /\ 2 * swings[n] > swings[n - 1] + swings[n]

\* The closes do not spread over the window: lowest and highest.
IsConsolidating(h) ==
    LET recent == Latest(h, Max({Structure.candles, Structure.calmWindow}))
        low == Min(ToSet(recent))
        high == Max(ToSet(recent))
    IN Structure.calm /\ Len(recent) > 1 /\ ~RisesBy(low, high, Structure.calmRange)

HasImpulse(h) ==
    LET recent == Latest(h, Max({Structure.candles, Structure.impulseWindow}))
    IN RisesBy(Head(recent), Last(recent), Structure.impulse)

StructureScore(h) ==
    (IF Rising(SwingHighs(h)) THEN Structure.highScore ELSE 0)
    + (IF Rising(SwingLows(h)) THEN Structure.lowScore ELSE 0)
    + (IF HasImpulse(h) THEN Structure.impulseScore ELSE 0)

\* The reason of the analysis; the structure is valid for the last one only.
AnalyzeStructure(h) ==
    IF Len(h) < Max({Structure.candles, 2 * Structure.swing + 1})
        THEN "INSUFFICIENT_DATA"
    ELSE IF \/ Len(SwingHighs(h)) < Structure.swings
            \/ Len(SwingLows(h)) < Structure.swings
        THEN "NO_STRUCTURE"
    ELSE IF StructureScore(h) < Structure.score THEN "WEAK_STRUCTURE"
    ELSE IF IsConsolidating(h) THEN "CONSOLIDATION"
    ELSE "BULLISH_STRUCTURE"

ValidStructure(h) == AnalyzeStructure(h) = "BULLISH_STRUCTURE"

-----------------------------------------------------------------------------
(* Market regime.                                                          *)

\* 3% from the first to the last close of a window is a trend with a name,
\* 1% is a trend.
RegimeOver(recent) ==
    LET Rises(percent) == RisesBy(Head(recent), Last(recent), percent)
        Falls(percent) == FallsBy(Head(recent), Last(recent), percent)
    IN IF Rises(300) THEN "BULLISH"
       ELSE IF Falls(300) THEN "BEARISH"
       ELSE IF Rises(100) \/ Falls(100) THEN "TRENDING"
       ELSE "SIDEWAYS"

DetectRegime(h) ==
    IF Len(h) < Regime.warmup THEN "UNKNOWN"
    ELSE RegimeOver(Latest(h, Regime.lookback))

-----------------------------------------------------------------------------
(* Volatility and trend.                                                   *)

CandleAt(close, wick) == [high |-> close + wick, low |-> close - wick, close |-> close]

\* update_candle drops what cannot be a candle.
IsCandle(c) == c.high > 0 /\ c.low > 0 /\ c.close > 0 /\ c.low <= c.high

Distance(x, y) == IF x > y THEN x - y ELSE y - x

TrueRange(c, previous) ==
    Max({c.high - c.low, Distance(c.high, previous), Distance(c.low, previous)})

TrueRanges(cs) ==
    [i \in 1 .. Len(cs) - 1 |-> TrueRange(cs[i + 1], cs[i].close)]

Total(s) == FoldLeft(LAMBDA x, y : x + y, 0, s)

\* calculate_atr(...) is not None.
AtrReady(cs, period) == Len(cs) >= period + 1

\* calculate_atr_percent(...) >= percent, for an ATR that is not None.
AtrPercentIs(cs, period, percent) ==
    Total(Latest(TrueRanges(cs), period)) * 10000
        >= percent * period * Last(cs).close

\* The ATR of StrategyAgent is that of the closes (data/features): one for
\* which the closes never moved is not above zero.
ClosesMove(h, period) ==
    LET recent == Latest(h, period + 1)
    IN Len(h) >= period + 1 /\ \E i \in 2 .. Len(recent) : recent[i] # recent[i - 1]

\* calculate_ema as a fraction: the mean of the first closes of the history,
\* then 2/(period + 1) of the way to each following close.
EmaOf(h, period) ==
    FoldLeft(LAMBDA e, x : [num |-> (period - 1) * e.num + 2 * x * e.den,
                            den |-> (period + 1) * e.den],
             [num |-> Total(SubSeq(h, 1, period)), den |-> period],
             SubSeq(h, period + 1, Len(h)))

EmaReady(h) == Len(h) >= Quality.fast /\ Len(h) >= Quality.slow

\* The fast average is less than the minimum below the slow one.
TrendHolds(h) ==
    LET fast == EmaOf(h, Quality.fast)
        slow == EmaOf(h, Quality.slow)
    IN (slow.num * fast.den - fast.num * slow.den) * 10000
           <= Quality.trend * slow.num * fast.den

-----------------------------------------------------------------------------
(* The agents, on the histories as they are after the candle.              *)

AnalysisInit ==
    /\ structurePrices = <<>>
    /\ regimePrices = <<>>
    /\ emaPrices = <<>>
    /\ candles = <<>>

\* The histories are memory of the process.
AnalysisLost ==
    /\ structurePrices' = <<>>
    /\ regimePrices' = <<>>
    /\ emaPrices' = <<>>
    /\ candles' = <<>>

\* AnalystAgent.on_message: every engine is told of the candle.
Observe(close, wick) ==
    /\ close > 0
    /\ emaPrices' = Remembered(emaPrices, close, Ema.history)
    /\ structurePrices' = Remembered(structurePrices, close, Structure.history)
    /\ LET c == CandleAt(close, wick)
       IN candles' = IF IsCandle(c) THEN Remembered(candles, c, Atr.history)
                     ELSE candles
    /\ regimePrices' = Remembered(regimePrices, close, Regime.history)

\* _calculate_confidence, for a structure that is valid.
SignalStrength ==
    LET sum ==
            Confidence.base + Confidence.structure
            + (IF DetectRegime(regimePrices) \in {"TRENDING", "BULLISH"}
               THEN Confidence.regime ELSE 0)
            + (IF AtrReady(candles, Atr.period)
                    /\ AtrPercentIs(candles, Atr.period, Confidence.enough)
               THEN Confidence.volatility ELSE 0)
    IN Min({sum, Confidence.maximum})

\* The class Settings reads its attributes from .env; getattr falls back for a
\* name that is none of them, whatever .env says.
Settings == {"ENABLE_EMA_TREND_FILTER", "ENABLE_VOLATILITY_FILTER"}

Enabled(name, fallback) == IF name \in Settings THEN Env[name] ELSE fallback

\* The filters of SignalQualityService on the market: each passes while its
\* engine warms up.
TrendFilter ==
    Enabled("ENABLE_EMA_TREND_FILTER", TRUE) /\ Len(emaPrices) >= Quality.slow =>
        EmaReady(emaPrices) /\ TrendHolds(emaPrices)

RegimeFilter ==
    Enabled("ENABLE_MARKET_REGIME_ALIGNMENT", FALSE) =>
        DetectRegime(regimePrices) # "BEARISH"

VolatilityFilter ==
    Enabled("ENABLE_VOLATILITY_FILTER", TRUE) /\ AtrReady(candles, Quality.period) =>
        AtrPercentIs(candles, Quality.period, Quality.atr)

\* StrategyAgent.on_message up to the limits that SignalQuality.tla models.
MarketAllowsBuy ==
    /\ ClosesMove(structurePrices, Strategy.period)
    /\ ValidStructure(structurePrices)
    /\ SignalStrength >= Strategy.strength
    /\ TrendFilter
    /\ RegimeFilter
    /\ VolatilityFilter
    /\ SignalStrength >= Quality.confidence
=============================================================================
