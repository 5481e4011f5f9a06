--------------------------- MODULE TradingProcess ---------------------------
(***************************************************************************)
(* The control state of the Runner process (apps/trader/runner.py) while   *)
(* it handles one closed candle.  The websocket loop awaits bus.publish(), *)
(* so a single candle is in the pipeline at a time: one program counter.   *)
(* A step of the process ends wherever the code awaits the exchange or     *)
(* commits to the database, because there the exchange can move and the    *)
(* process can die.                                                        *)
(***************************************************************************)
EXTENDS TradesRepository

CONSTANT
    Live   \* settings.MODE = "live" (FALSE: "paper")

ASSUME ModeAssumption == Live \in BOOLEAN

VARIABLES
    pc,      \* the next step of the process
    price,   \* the close of the candle being handled
    plan,    \* what the step at pc is about to place or record
    alarm    \* the operator has been told that a human must intervene

EntrySteps == {"buy", "entry_oco", "entry_sell", "record"}

ManageSteps ==
    {"manage", "breakeven", "dynamic", "exit", "close",
     "replace", "replace_check", "place", "replace_sell", "replace_close",
     "save", "confirm", "trail_cancel", "trail_check", "trail_sell"}

StartupSteps ==
    {"reconcile", "reconcile_close", "reconcile_sell", "reconcile_sold",
     "orphans"}

Steps == {"idle", "down"} \cup EntrySteps \cup ManageSteps \cup StartupSteps

\* Why the process is about to touch the position.
Purpose == {"NONE", "BREAKEVEN", "DYNAMIC_TAKE_PROFIT",
            "STOP_LOSS", "TAKE_PROFIT", "TRAILING_STOP"}

Plan == [why: Purpose, entry: Int, sl: Int, tp: Int, list: Lists \cup {NoList}]

NoPlan == [why |-> "NONE", entry |-> 0, sl |-> 0, tp |-> 0, list |-> NoList]

processVars == <<pc, price, plan, alarm>>
vars == <<held, oco, trade, pc, price, plan, alarm>>

ProcessTypeOK ==
    /\ pc \in Steps
    /\ price \in Int
    /\ plan \in Plan
    /\ alarm \in BOOLEAN

\* The exchange never hands out an identifier twice; an identifier that
\* nothing refers to any more is reused here to keep Lists small.
FreshLists == {l \in Lists : oco[l].st # "EXECUTING" /\ l # trade.list}

\* The exits of a row go through the exchange (client is not None and
\* trade.order_list_id is not None).
Managed == Live /\ trade.list # NoList

Goto(step) == pc' = step /\ UNCHANGED price

\* An exception leaves the handler; EventBus.publish logs it and goes on.
Raises(step) == "db" \in Faults /\ Goto(step) /\ plan' = NoPlan
=============================================================================
