-------------------------- MODULE MCSignalPipeline --------------------------
(***************************************************************************)
(* Values for the constants of SignalPipeline: symbols are                 *)
(* interchangeable.                                                        *)
(***************************************************************************)
EXTENDS SignalPipeline, TLC

MCSignals == {[price |-> 3, atr |-> 1]}
MCResults == {-2, 1}

SymbolSymmetry == Permutations(Symbols)
=============================================================================
