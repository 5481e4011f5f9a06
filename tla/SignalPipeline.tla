--------------------------- MODULE SignalPipeline ---------------------------
(***************************************************************************)
(* A closed candle on its way through strategy, risk and execution agent   *)
(* to an entry, then to the position manager; beside it the clock, the     *)
(* periodic snapshot, and sessions that are stopped, killed and started.   *)
(* One candle is in the pipeline at a time (BinanceWS awaits publish), but *)
(* between the gates and the row, and inside the position manager, the     *)
(* live mode awaits the exchange: time passes and the snapshot task runs.  *)
(***************************************************************************)
EXTENDS SignalQuality, PositionSizing

CONSTANTS
    Signals,     \* [price, atr] of the signals the strategy may generate
    Results,     \* what a position may be worth at a close, minus its cost
    MaxSessions, \* bound of the number of sessions
    NoSymbol     \* no candle is being handled

ASSUME PipelineAssumption ==
    /\ \A signal \in Signals : signal.price \in Nat \ {0} /\ signal.atr \in Nat
    /\ Results \subseteq Int
    /\ IsFiniteSet(Signals) /\ IsFiniteSet(Results)
    /\ MaxSessions \in Nat
    /\ NoSymbol \notin Symbols

VARIABLES
    task,     \* what the event loop of the Runner is doing
    session,  \* how many sessions there have been
    older     \* how many rows are older than this session (only observes)

vars == <<now, trades, mode, balance, drawdown, peaks, cooldowns, task,
          session, older>>

Steps == {"down", "connect", "idle", "enter", "manage", "exit"}

Task == [step: Steps, symbol: Symbols \cup {NoSymbol}, cost: Nat]

TypeOK ==
    /\ LedgerTypeOK
    /\ PortfolioTypeOK
    /\ QualityTypeOK
    /\ task \in Task
    /\ session \in 0 .. MaxSessions
    /\ older \in 0 .. Len(trades)

At(step, s, cost) == [step |-> step, symbol |-> s, cost |-> cost]
Goto(step) == task' = At(step, NoSymbol, 0)

memory == <<cooldowns, balance, mode, session, older>>
tables == <<trades, drawdown, peaks>>

\* Every table is empty before the first session.
Init ==
    /\ now = 0
    /\ trades = << >>
    /\ mode \in {"paper", "live"}
    /\ balance = AccountBalance
    /\ drawdown = NoSnapshot
    /\ peaks = {}
    /\ cooldowns = [s \in {} |-> 0]
    /\ task = At("down", NoSymbol, 0)
    /\ session = 0
    /\ older = 0

(***************************************************************************)
(* A candle                                                                *)
(***************************************************************************)
\* The position manager, which sees the candle last, looks at the open rows
\* of its symbol.
PositionManager(s) ==
    IF HasOpenTrade(s)
    THEN /\ \E pnl \in Results : UpdateTradePrice(OpenTradesOf(s), pnl)
         /\ task' = At("exit", s, 0)
    ELSE Goto("idle") /\ UNCHANGED trades

\* The candle of s closes without a signal, or with one that is rejected.
QuietCandle(s) ==
    /\ task.step = "idle"
    /\ PositionManager(s)
    /\ UNCHANGED <<now, drawdown, peaks, memory>>

\* The strategy agent generates a signal, the risk agent sizes it, the
\* execution agent hands it to the router: no await up to here.
SignalCandle(s) ==
    /\ task.step = "idle"
    /\ Len(trades) < MaxRows
    /\ Validate(s)
    /\ ~HasOpenTrade(s)
    /\ \E signal \in Signals :
         \E q \in ApprovedQuantities(signal, balance) :
            task' = At("enter", s, q * signal.price)
    /\ UNCHANGED <<now, tables, memory>>

\* The router has filled the order and records it.
Executed ==
    /\ task.step = "enter"
    /\ CreateTrade(task.symbol, task.cost)
    /\ RegisterTrade(task.symbol)
    /\ task' = At("manage", task.symbol, 0)
    /\ UNCHANGED <<now, drawdown, peaks, balance, mode, session, older>>

\* The exchange refuses, the order does not fill or was undone, or the
\* commit fails: no row, and no cooldown either.
NotExecuted ==
    /\ task.step = "enter"
    /\ PositionManager(task.symbol)
    /\ UNCHANGED <<now, drawdown, peaks, memory>>

\* The same candle reaches the position manager with the new row.
Manage ==
    /\ task.step = "manage"
    /\ PositionManager(task.symbol)
    /\ UNCHANGED <<now, drawdown, peaks, memory>>

\* An exit is due and confirmed, or the position stays open.
Exit ==
    /\ task.step = "exit"
    /\ \/ CloseTrades(OpenTradesOf(task.symbol))
       \/ UNCHANGED trades
    /\ Goto("idle")
    /\ UNCHANGED <<now, drawdown, peaks, memory>>

(***************************************************************************)
(* Beside the candle                                                       *)
(***************************************************************************)
\* The loop waits: for a candle, or in live mode for the exchange.
Awaiting ==
    \/ task.step = "idle"
    \/ mode = "live" /\ task.step \in {"enter", "exit"}

PeriodicSnapshot ==
    /\ Awaiting
    /\ BuildSnapshot
    /\ UNCHANGED <<now, trades, memory, task>>

TimePasses ==
    /\ Tick
    /\ UNCHANGED <<tables, memory, task>>

\* The process is gone, and with it what it had in memory.
Ends ==
    /\ Goto("down")
    /\ cooldowns' = [s \in {} |-> 0]
    /\ balance' = AccountBalance
    /\ older' = Len(trades)
    /\ UNCHANGED <<now, trades, mode, session>>

\* SIGTERM or Ctrl-C, in live mode also during the requests at the start:
\* the session report writes a snapshot.
Stop ==
    /\ Awaiting \/ (mode = "live" /\ task.step = "connect")
    /\ BuildSnapshot
    /\ Ends

Killed == task.step # "down" /\ Ends /\ UNCHANGED <<drawdown, peaks>>

\* A new session.  In live mode the balance is that of the account; then
\* rows whose position was sold meanwhile, or is sold now because its order
\* list is gone, are closed with the result last recorded.  Neither happens
\* when the request for the balance fails.
Start ==
    /\ task.step = "down"
    /\ session < MaxSessions
    /\ session' = session + 1
    /\ \/ UNCHANGED <<balance, trades>>
       \/ /\ mode = "live"
          /\ balance' = FreeUsdt
          /\ \E rows \in SUBSET OpenTrades : CloseTrades(rows)
    /\ Goto("connect")
    /\ UNCHANGED <<now, drawdown, peaks, cooldowns, mode, older>>

\* The snapshot task runs before the websocket is connected.
Connect ==
    /\ task.step = "connect"
    /\ BuildSnapshot
    /\ Goto("idle")
    /\ UNCHANGED <<now, trades, memory>>

Next ==
    \/ \E s \in Symbols : QuietCandle(s) \/ SignalCandle(s)
    \/ Executed \/ NotExecuted \/ Manage \/ Exit
    \/ PeriodicSnapshot \/ TimePasses
    \/ Stop \/ Killed \/ Start \/ Connect

Spec == Init /\ [][Next]_vars

(***************************************************************************)
(* Properties                                                              *)
(***************************************************************************)
\* A symbol has one open row at most, although the entry is decided before
\* the exchange is awaited and recorded after it.
OneRowPerSymbol == \A s \in Symbols : Cardinality(OpenTradesOf(s)) <= 1

\* The limit of open positions holds over all symbols and sessions.
OpenWithinLimit == Cardinality(OpenTrades) <= MaxOpen

\* No UTC day sees more entries than max_daily_trades, also when an entry
\* is decided before midnight and recorded after it, and across restarts,
\* which the count survives because it is read from the table.
DailyTradesWithinLimit ==
    "daily_trades" \in Filters =>
        \A t \in Time :
            Cardinality({i \in DOMAIN trades : Day(trades[i].created) = Day(t)})
                <= MaxDailyTrades

\* The largest loss of a single position, in the model.
WorstLoss == Max({0} \cup {-r : r \in Results})

ClosedOn(day) == {i \in ClosedTrades : Day(trades[i].closed) = day}

\* What a day can cost: the limit stops new positions, but those already
\* open, and the one just being opened, may still lose.
DailyLossBounded ==
    "daily_loss" \in Filters =>
        \A t \in Time :
            LET beyond == MaxOpen * WorstLoss
            IN  ~LossReached(Pnl(ClosedOn(Day(t))) + beyond)

\* Two entries of one symbol in one session are a cooldown apart, whatever
\* happened to the position between them.
CooldownKept ==
    "cooldown" \in Filters =>
        \A i, j \in older + 1 .. Len(trades) :
            i < j /\ trades[i].symbol = trades[j].symbol =>
                trades[j].created - trades[i].created >= Cooldown

\* No entry costs more, at the price of its signal, than the exposure limit,
\* but for the rounding of the quantity to the nearest step, which may exceed
\* it by half a step.
ExposureKept ==
    [][\A i \in DOMAIN trades' \ DOMAIN trades :
          100 * trades'[i].cost <=
              balance * ExposurePercent
                + 50 * ConfigStep * Max({signal.price : signal \in Signals})]_vars

\* In paper mode the account has one initial balance: its drawdown is
\* measured from the highest equity any session has recorded.
DrawdownNotUnderstated ==
    [][mode = "paper" /\ drawdown' # drawdown =>
          \A p \in peaks :
              drawdown' >= DrawdownPercent(p.equity, AtLeastZero(Equity))]_vars

\* docs/README_FULL.md:260-262: once the loss of a day has reached the
\* limit, no position opens for the rest of that UTC day.
HaltedUntilMidnight ==
    \A i \in DOMAIN trades : \A t \in Time :
        Day(t) = Day(trades[i].created) /\ t < trades[i].created =>
            ~LossReached(Pnl({c \in ClosedOn(Day(t)) : trades[c].closed <= t}))
=============================================================================
