-------------------------- MODULE MCMarketPipeline --------------------------
(***************************************************************************)
(* Values for the constants of MarketPipeline: the agents in the order in  *)
(* which initialize_agents creates them, a pause within and one beyond the *)
(* window of the signature.                                                *)
(***************************************************************************)
EXTENDS MarketPipeline

MCSubscribers == <<"Analyst", "Strategy", "Risk", "Execution", "PositionManager">>
MCRetryAfter == {1, 30}
=============================================================================
