--------------------------- MODULE MCPaperTrading ---------------------------
(***************************************************************************)
(* Values for the constants of PaperTrading: four closes around one entry  *)
(* price, 3% and 4% apart so that every regime occurs, histories of six    *)
(* closes (four for the EMA) so that the oldest are forgotten, and warm-up *)
(* lengths in the order of the defaults of core/config.                    *)
(***************************************************************************)
EXTENDS PaperTrading

MCPrices == {97, 100, 102, 104}
MCEntryPrices == {100}
MCAtrs == {2}

MCStructure ==
    [history |-> 6, swing |-> 1, swings |-> 2, candles |-> 5, score |-> 2,
     impulseWindow |-> 3, impulse |-> 10, impulseScore |-> 1,
     highScore |-> 1, lowScore |-> 1,
     calm |-> TRUE, calmWindow |-> 4, calmRange |-> 30]
MCRegime == [history |-> 6, warmup |-> 5, lookback |-> 6]
MCEma == [history |-> 4]
MCAtr == [history |-> 4, period |-> 3]
MCConfidence ==
    [base |-> 50, structure |-> 20, regime |-> 15, volatility |-> 10,
     enough |-> 30, maximum |-> 100]
MCStrategy == [period |-> 4, strength |-> 50]
MCQuality ==
    [fast |-> 2, slow |-> 3, trend |-> 15, period |-> 3, atr |-> 1,
     confidence |-> 45]

\* As .env.example has them, and with the regime in use.
MCEnv ==
    [ENABLE_EMA_TREND_FILTER |-> TRUE, ENABLE_VOLATILITY_FILTER |-> TRUE,
     ENABLE_MARKET_REGIME_ALIGNMENT |-> FALSE]
MCEnvAligned == [MCEnv EXCEPT !.ENABLE_MARKET_REGIME_ALIGNMENT = TRUE]
=============================================================================
