---------------------------- MODULE RuntimeState ----------------------------
(***************************************************************************)
(* core/state/market_state.py, the counters of a Runner, and the one row   *)
(* of data/storage/repositories/runtime_state_repository.py through which  *)
(* the API, another process, sees them.                                    *)
(***************************************************************************)
EXTENDS Naturals

CONSTANT NoRow   \* the Runner has never flushed

VARIABLES
    market,  \* MarketState of the Runner that is up
    row      \* runtime_state, or NoRow

Fresh == [connected |-> FALSE, messages |-> 0, analyses |-> 0, generated |-> 0,
          approved |-> 0, rejected |-> 0, executed |-> 0]

Counters == DOMAIN Fresh \ {"connected"}

StateTypeOK ==
    /\ DOMAIN market = DOMAIN Fresh
    /\ market.connected \in BOOLEAN /\ \A c \in Counters : market[c] \in Nat
    /\ row = NoRow \/ (row.connected \in BOOLEAN /\ DOMAIN row = DOMAIN Fresh)

SetConnected(connected) == market' = [market EXCEPT !.connected = connected]
RegisterKline == market' = [market EXCEPT !.messages = @ + 1]
RegisterGenerated == market' = [market EXCEPT !.analyses = @ + 1, !.generated = @ + 1]
RegisterRejectedAnalysis == market' = [market EXCEPT !.analyses = @ + 1, !.rejected = @ + 1]
RegisterAnalysis == market' = [market EXCEPT !.analyses = @ + 1]
RegisterRejected == market' = [market EXCEPT !.rejected = @ + 1]
RegisterExecution == market' = [market EXCEPT !.approved = @ + 1, !.executed = @ + 1]

Upsert(snapshot) == row' = snapshot

\* Mutant: the last flush persists what is in memory.
FinalFlushAsIs(succeeds) ==
    /\ market' = Fresh
    /\ row' = IF succeeds THEN market ELSE row

\* The last flush of a Runner that ends, which may fail, and its memory.
FinalFlush(succeeds) ==
    /\ market' = Fresh
    /\ row' = IF succeeds THEN [market EXCEPT !.connected = FALSE] ELSE row

\* build_runtime_response: whatever the row says, however old it is.
Shown == IF row = NoRow THEN Fresh ELSE row

\* Ratio of two counters in percent.
Ratio(part, whole) == IF whole = 0 THEN 0 ELSE (100 * part) \div whole
=============================================================================
