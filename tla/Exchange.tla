------------------------------ MODULE Exchange ------------------------------
(***************************************************************************)
(* The part of Binance Spot that core/services/binance_trading_client.py   *)
(* talks to: what the bot holds of one asset, and the OCO order lists it   *)
(* has placed for one symbol.  The matching engine is external; each call  *)
(* is modelled by the replies _request() can hand back to its caller.      *)
(*                                                                         *)
(* A position is one unit.  A call ends in reply "ok" or "error": an       *)
(* error is a clean rejection (nothing happened) or a network failure      *)
(* after which the order may or may not have been executed.                *)
(***************************************************************************)
EXTENDS Integers, FiniteSets

CONSTANTS
    Lists,            \* order-list identifiers
    NoList,           \* Python's None in place of an order_list_id
    Reserve,          \* units of the asset the account owned before the bot
    Faults,           \* which failures the environment may produce
    CanceledReplies   \* how a status query answers for a canceled list

FaultKinds == {"reject", "lost", "query", "operator", "crash", "startup", "db"}

ASSUME ExchangeAssumption ==
    /\ NoList \notin Lists
    /\ IsFiniteSet(Lists)
    /\ Reserve \in Nat
    /\ Faults \subseteq FaultKinds
    /\ CanceledReplies \subseteq {"ALL_DONE", "NOT_FOUND"}

VARIABLES
    held,   \* units the bot has bought minus units it has sold
    oco     \* the state and the two trigger prices of every order list

exchangeVars == <<held, oco>>

ListState == {"NONE", "EXECUTING", "FILLED", "CANCELED"}
OrderList == [st: ListState, sl: Int, tp: Int]

\* A list that protects nothing (any more); its prices are forgotten.
Done(state) == [st |-> state, sl |-> 0, tp |-> 0]

Resting == {l \in Lists : oco[l].st = "EXECUTING"}

\* A resting sell list locks its quantity: only the rest can be sold.
Free == Reserve + held - Cardinality(Resting)

ExchangeTypeOK ==
    /\ held \in Int
    /\ oco \in [Lists -> OrderList]

-----------------------------------------------------------------------------
(* The order calls: relation between the effect and the reply.             *)

\* _request: the order was executed; its reply may get lost on the way.
Executed(reply) == reply = "ok" \/ (reply = "error" /\ "lost" \in Faults)

\* _request: an error of the exchange or of the network, nothing happened.
Refused(reply) == reply = "error" /\ {"reject", "lost"} \cap Faults # {}

\* place_market_order(side="BUY").
MarketBuy(reply) ==
    /\ UNCHANGED oco
    /\ \/ Executed(reply) /\ held' = held + 1
       \/ Refused(reply) /\ UNCHANGED held

\* place_market_order(side="SELL"): refused when the balance is locked.
MarketSell(reply) ==
    /\ UNCHANGED oco
    /\ \/ Executed(reply) /\ Free >= 1 /\ held' = held - 1
       \/ Refused(reply) /\ UNCHANGED held
       \/ reply = "error" /\ Free < 1 /\ UNCHANGED held

\* place_oco_sell_order: l is the identifier the exchange hands out.
PlaceOco(l, sl, tp, reply) ==
    /\ UNCHANGED held
    /\ \/ /\ Executed(reply) /\ Free >= 1
          /\ oco' = [oco EXCEPT ![l] = [st |-> "EXECUTING", sl |-> sl, tp |-> tp]]
       \/ Refused(reply) /\ UNCHANGED oco
       \/ reply = "error" /\ Free < 1 /\ UNCHANGED oco

\* cancel_order_list: a list that is no longer resting cannot be canceled.
CancelList(l, reply) ==
    /\ UNCHANGED held
    /\ \/ /\ Executed(reply) /\ oco[l].st = "EXECUTING"
          /\ oco' = [oco EXCEPT ![l] = Done("CANCELED")]
       \/ Refused(reply) /\ UNCHANGED oco
       \/ reply = "error" /\ oco[l].st # "EXECUTING" /\ UNCHANGED oco

\* get_order_list_status: ALL_DONE says that the list is over, not that it
\* sold anything; NOT_FOUND is the error -2013, "error" any other one.
StatusReplies(l) ==
    (IF "query" \in Faults THEN {"error"} ELSE {})
        \cup CASE oco[l].st = "EXECUTING" -> {"EXECUTING"}
               [] oco[l].st = "FILLED"    -> {"ALL_DONE"}
               [] oco[l].st = "CANCELED"  -> CanceledReplies
               [] oco[l].st = "NONE"      -> {"NOT_FOUND"}

-----------------------------------------------------------------------------
(* What happens on the exchange without the bot.                           *)

\* The market reaches one of the two legs and the list sells its unit.
ListFills(l) ==
    /\ oco[l].st = "EXECUTING"
    /\ oco' = [oco EXCEPT ![l] = Done("FILLED")]
    /\ held' = held - 1

\* Somebody cancels the list from the exchange's own user interface.
OperatorCancels(l) ==
    /\ "operator" \in Faults
    /\ oco[l].st = "EXECUTING"
    /\ oco' = [oco EXCEPT ![l] = Done("CANCELED")]
    /\ UNCHANGED held
=============================================================================
