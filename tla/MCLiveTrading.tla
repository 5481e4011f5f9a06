--------------------------- MODULE MCLiveTrading ----------------------------
(***************************************************************************)
(* Values for the constants of LiveTrading: five closes, one entry price   *)
(* in their middle, a stop and a target two ticks away, breakeven and the  *)
(* dynamic target due one tick above the entry.                            *)
(***************************************************************************)
EXTENDS LiveTrading, TLC

MCPrices == 1..5
MCEntryPrices == {3}
MCAtrs == {1}

\* The identifiers that the exchange hands out are interchangeable.
ListSymmetry == Permutations(Lists)
=============================================================================
