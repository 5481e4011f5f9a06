# Crypto.Bot in TLA+

Crypto.Bot (Python) trades spot pairs on Binance: a **Runner** process reads
closed candles from a websocket, lets a chain of agents decide whether to buy,
places the orders, and manages the open positions until they are closed. This
directory holds TLA+ models of it, TLC configurations that check them on small
instances, and proofs that TLAPS checks for every value of the constants.

Line numbers are those of the repository; `PROJECT.json` maps every definition
to the lines it stands for.

    tlc -workers 2 -config crash.cfg MCLiveTrading      # one run
    tlc -workers 2 -config control.cfg MCRunnerControl
    tlc -workers 2 -config gates.cfg MCSignalPipeline
    tlc -workers 2 -config paper.cfg MCPaperTrading
    tlc -workers 2 -config tuning.cfg MCTuningJobs
    tlc -workers 2 -config market.cfg MCMarketPipeline
    tlapm LiveTrading_proofs.tla                        # the proofs
    tlapm LiveTradingExchange_proofs.tla
    tlapm PaperTrading_proofs.tla
    tlapm RunnerControl_proofs.tla
    tlapm SignalPipeline_proofs.tla
    tlapm TuningJobs_proofs.tla
    tlapm TuningResults_proofs.tla
    tlapm MarketPipeline_proofs.tla

## 1. The system

### 1.1 Processes and what they share

| process | what it does | shares |
|---|---|---|
| Runner (`apps/trader/runner.py`) | one asyncio loop: websocket, event bus, agents; two background flushes | SQLite, `.env`, the Binance account, the PID file |
| API (`apps/api/main.py`) | FastAPI: starts and stops the Runner, starts jobs in a thread, edits settings | the same files; its own memory of the running job |
| job (backtest, optimizer) | a subprocess of the API | reads history, writes result files |
| Binance | fills, cancels and remembers orders on its own | the account |

### 1.2 Inside the Runner

The websocket loop *awaits* `bus.publish()` for each closed candle, so exactly
one candle is in the pipeline at a time. `EventBus.publish` calls the
subscribers in order and isolates their exceptions; an agent that publishes
re-enters it, so one candle runs Analyst, Strategy, Risk and Execution to the
end before the position manager sees it (subscription order, `runner.py`
164-176). That single coroutine is the only lock of the trading path. It does
not protect from the exchange, which moves between any two requests, nor from
the death of the process between any two requests or commits.

| component | state | operations | what is hard | what makes it correct |
|---|---|---|---|---|
| ExecutionRouter | none of its own | BUY, protective OCO, record; emergency sell | three requests and a commit that can each fail or be the last thing the process does | a row exists only with its protection; what was bought is protected or somebody is told |
| PositionManagerAgent | rows of `trades` | watermark, breakeven, dynamic target, OCO replacement, three exits | several adjustments in one candle; the list fills in the middle of a cancel | levels only rise; never two sells for one position; never closed while the list rests |
| TradesRepository | `trades` | create, update, close | each call commits by itself | the row and the exchange agree |
| startup reconciler | none | compares rows with lists, lists with rows | runs after a death at any point | nothing is forgotten silently |
| EventBus | subscribers, counters | subscribe, publish, telemetry | nesting, a subscriber that fails | isolation: nobody loses a message to another's failure |
| Analyst agent and its four engines | a history of closes or candles per symbol and engine, each with its own cap | append, swings, structure score, regime, ATR, EMA | windows over histories that forget; every filter passes while it warms up; a restart empties the histories beside open positions | no signal from a structure that was never there; a filter that is turned on filters |
| Strategy, Risk, Execution agents | cooldown memory | gates, levels, sizing | many gates in order, day rollover, restart | one open row per symbol; limits hold |
| SignalQuality, RiskProtection | cooldowns, counters; reads `trades` | gates | memory is lost at a restart | limits hold over a day |
| Portfolio | snapshots | equity, drawdown | periodic writer beside the readers | drawdown never understated |
| MarketState and its row | counters, connection flag; one row of `runtime_state` | count, flush, last flush | the API, another process, shows whatever the row says | the counters form a funnel; no connection of a Runner that has ended |
| MarketStream | connection, attempt counter | connect, read, back off | a connection that dies silently, also while a candle is handled | it is noticed; back-off bounded by 60 s |
| Binance client | none | signed requests, retry after 429 and 418 | lost replies, no client order id, one signature for three attempts | a retry never orders twice; an error is not a proof of absence |
| Runner control (API) | PID file, process table | start, stop, restart | two starters, a late exit handler | at most one Runner |
| jobs (API) | running job, history of 5 of each kind, report and progress files | start, time out, reset, apply | thread beside requests, files that are rewritten in place | no job beside a Runner; a result is that of its own job; a job that hangs ends |
| optimizer, backtest | a pool of worker processes, sandbox users in `trades`, `best_config.json` | evaluate, rank, validate, export | workers that outlive their main process; a kill at any point | a combination is measured by its own trades; only what was validated is exported |
| settings | `.env`, environments of the processes | rewrite in place; override at start | a Runner in the old mode | mode changes only without open positions |

### 1.3 The behaviours that are hard

Listed one by one, at their lines, under `hazards` in `PROJECT.json`. The ones
that the present modules are about: the gaps between *cancel* and *place*,
between *BUY* and *OCO*, between *OCO* and *commit*; a list that fills inside
one of those gaps; replies that are lost; a status that says "over" without
saying "sold"; two adjustments and an exit in the same candle, all working on
one copy of the row; a start after a death at any of these points; and, outside
the Runner, a process that exists before its PID file does, a PID file that is
removed by the wrong process, a dead child that still answers, a start that is
decided before an await and carried out after it, a thread whose state is
guessed from a name that another thread rebinds. And of the entries: limits that
are checked before the exchange is awaited and must hold when the row is created,
after it and perhaps after midnight; memory that a restart empties beside tables
that it does not; a sum that is read again at every signal; filters that pass as long
as they know nothing, and one that cannot be turned on. And of the jobs: a timeout that kills one process of several, files
that exist but are empty, a time stamp that is compared with one of another process.

## 2. The modules

    Exchange                 the account: what is held, the order lists
      TradesRepository       the newest row of the symbol
        TradingProcess       program counter, candle, plan, alarm
          ExecutionRouter    opening
          PositionManager    adjusting and closing
          StartupReconciler  death, start, reconciliation
            LiveTrading      all of them: Init, Next, properties
              MCLiveTrading        values for TLC
              LiveTrading_proofs   theorems about the row
                LiveTradingExchange_proofs   theorems about row, lists and holdings

| module | code | state | an action is |
|---|---|---|---|
| `Exchange` | `binance_trading_client.py`, seen from its callers | `held`: bought minus sold; `oco`: each list's state and trigger prices | a call with reply `ok` or `error`; a list that fills; a person who cancels |
| `TradesRepository` | `trades_repository.py`, `models.py` | `trade`: the newest row | one commit |
| `TradingProcess` | `event_bus.py` isolation, the Runner's loop | `pc`, `price`, `plan`, `alarm` | (helpers) |
| `ExecutionRouter` | `execution_router.py` | - | the code between two awaits or commits |
| `PositionManager` | `position_manager_agent.py` | - | the same |
| `StartupReconciler` | `startup_reconciler.py`, `runner.py` | - | the same, for one symbol |
| `LiveTrading` | `runner.py`, `risk_agent.py`, `execution_agent.py` | - | a candle that arrives, the exchange that moves, all of the above |

The market enters in an extension of this model, for paper mode, in which a BUY comes
only when the analysis of the closes allows it:

    MarketAnalysis           histories, structure, regime, ATR, EMA, the filters
      PaperTrading           LiveTrading with the analysis deciding its BUY
        MCPaperTrading             values for TLC
        PaperTrading_proofs        theorems (with those about LiveTrading)

| module | code | state | an action is |
|---|---|---|---|
| `MarketAnalysis` | `market_structure_service.py`, `market_regime_service.py`, `ema_trend_service.py`, `atr_service.py`, `analyst_agent.py`, `strategy_agent.py`, the filters of `signal_quality_service.py` | `structurePrices`, `regimePrices`, `emaPrices`, `candles`: four histories with four caps | `Observe`: a candle appended to all four; the rest are functions of the histories |
| `PaperTrading` | `analyst_agent.py`, `strategy_agent.py` in front of the first model | - | a candle with its analysis; a crash, which empties the histories and nothing else |

The second model is of the process that starts the first one:

    RunnerProcess            the Runners as processes, the PID file, the environments
      ProcessManager         start_runner, stop_runner, restart_runner
        JobThreads           the job threads and the memory of the current job
          RunnerControl      the requests: Init, Next, properties
            MCRunnerControl        values for TLC
            RunnerControl_proofs   theorems

| module | code | state | an action is |
|---|---|---|---|
| `RunnerProcess` | the entry point of `runner.py`, `runner_pid.py`, the operating system | `runner`: per identifier a life stage and the mode it read; `pidFile`; `env` (the file) and `environ` (the API's environment); `open`: the trades table has an open row; `children` of the API that runs now | something a Runner does or suffers |
| `ProcessManager` | `process_manager_service.py` | `loop`: where the event loop of the API is; `caller`, `target`; `handle`: `_managed_process`; `excuses` | the code between two waits of `stop_runner` |
| `JobThreads` | `_run_job_subprocess`, `_current_job`, `_active_thread` of `main.py` | `thread`, `activeThread`, `jobStatus` | a step of a job thread |
| `RunnerControl` | the handlers of `main.py` | `awaiting`: starts suspended in their await; `payload` | a handler, or its part before or after a wait |

The two models meet in one variable: `open`, which in `RunnerControl` is the only
thing the API knows of positions, and which a trading Runner changes at any time.

The third model is of how an entry comes about, for many symbols and days; what the
first model refines, the exits, is one step here:

    TradeLedger              the trades table over symbols and days, the clock
      Portfolio              balance, snapshots, peaks, drawdown
        SignalQuality        the limits a signal must pass
          SignalPipeline     candle, entry, sessions: Init, Next, properties
            MCSignalPipeline       values for TLC
            SignalPipeline_proofs  theorems
    PositionSizing           levels, quantity, exposure, rounding (used by SignalPipeline)

| module | code | state | an action is |
|---|---|---|---|
| `TradeLedger` | `trades_repository.py`, its queries for limits and portfolio | `now`, `trades`: rows with symbol, status, times, cost and PnL | (helpers) |
| `PositionSizing` | `risk_agent.py` | - | - |
| `Portfolio` | `portfolio_service.py`, `portfolio_repository.py`, `runtime_balance.py` | `mode`, `balance`; of the snapshots what is read again: `drawdown` of the newest, `peaks` per initial balance | (helpers) |
| `SignalQuality` | `signal_quality_service.py`, `risk_protection_service.py` | `cooldowns` | (helpers) |
| `SignalPipeline` | the four agents, `position_manager_agent.py`, `runner.py` | `task`: what the event loop does; `session`; `older`: rows from earlier sessions, which no action reads | the code between two awaits: the candle up to the router, the record of the entry, the position manager, the snapshot, a start or an end |

The fourth model is of what the first and the third take for granted: that a candle
reaches every agent once, that a request is made at most once, and that what the API
shows of it is true.

    EventBus                 publishes under way as a stack, the bus counters
    MarketStream             the connection: connecting, receiving, sleeping
    RuntimeState             the counters and the row that the API reads
    ExchangeClient           one signed request with its attempts
      RequestPromise         (abstract) what the callers of the client rely on
        MarketPipeline       all of them and the life of the Runner: Init, Next, properties
          MCMarketPipeline         values for TLC
          MarketPipeline_proofs    theorems

| module | code | state | an action is |
|---|---|---|---|
| `EventBus` | `event_bus.py` | `stack`: of each publish under way the message and how many are left to serve; `stats` | a handler that returns, raises or publishes |
| `MarketStream` | `binance_ws.py` | `stream`, `attempts`, `link` (what has become of the connection, which the code cannot see) | one turn of the loop |
| `RuntimeState` | `market_state.py`, `runtime_state_repository.py` | `market`, `row` | a counter; a flush |
| `ExchangeClient` | `_request` of `binance_trading_client.py` | `request`: phase, attempt, seconds waited, how often it was carried out, the answer (a confirmation or an error) | an attempt, its outcome, a pause |
| `MarketPipeline` | the agents' `on_message` by what they publish and count; `runner.py` | `session`; `excuses` | a step of a handler, of the stream, of the request; start, shutdown, kill |

The fifth model is of the jobs whose threads `JobThreads` starts, and of what they leave
behind:

    ValidationInterpreter    the verdict on a walk-forward validation
      Optimizer              the processes of a job and the files they write
        TuningJobs           threads, memory, history, settings: Init, Next, properties
          MCTuningJobs             values for TLC
          TuningJobs_proofs        theorems about what the Runner trades with
            TuningResults_proofs     theorems about what the jobs tell their user

| module | code | state | an action is |
|---|---|---|---|
| `ValidationInterpreter` | `validation_interpreter.py` | - | - |
| `Optimizer` | `optimizer_engine.py`, `backtest/runner.py` | `proc`: each main process; `pool`: what its workers are at; `rows`: whose trades each sandbox user holds; `report`, `progress`, `best`: files; `clock` | a task taken up or completed; a phase of the main process; its end |
| `TuningJobs` | the job part of `main.py`, `load_best_config`, `update_settings` | `thread`, `kinds`, `job`, `entry`, `draft`, `history`; `env`, `runner`; `excuses` | a step of a job thread; a request; the end of the API |

**Grain of a job.** A file is emptied in one action and filled in another (`Torn`
between), because a kill may come between; the trades of a replay are seen at its end.
Whether a combination earns anything is chosen freely. What is followed is the evidence: by
which job, under which parameters, every trade was made that a result was measured with.

**Grain of a request.** Where the first model has a relation between effect and reply, here
is the loop behind it. `executed` counts what the exchange carries out: after a pause longer
than the window of the signature (`Window`) it carries out nothing any more, because the
query is signed once, before the first attempt. Every error is the same `BinanceTradingError`
to the caller, and leaves open whether the request was carried out: a 5xx or -1007 says so
itself, and the client's docstring asks its callers to take every non-2xx answer that way.
Only 429 and 418 are known to the client to have done nothing; those it sends again.

**Grain of a session.** `main` awaits the balance, the filters and the reconciliation before
it enters the `try` around the stream (`stream = "starting"`); a Runner that is stopped there
does no last flush (`ShutdownEarly`).

**Grain of an entry.** From the candle to the router nothing is awaited that yields:
signal, gates, sizing and the second guard are one action (`SignalCandle`). In live mode
the router then awaits the exchange (`step = "enter"`): time passes, possibly midnight,
snapshots are written, the process may be told to stop or be killed. In paper mode
nothing else runs there, except that time passes. A kill after the BUY and before the
row is the subject of the first model; here it leaves no row.

**What is abstracted.** A closed row has the result last recorded for it, and a result is
any of `Results`: prices between do not matter to a limit. A sum over rows (`Total`) is the
number of units in it, minus that of the units lost, and what the bus has still to deliver
(`ToServe`) is the size of a set: both are what a fold would compute, in a form about which
the prover's lemmas on finite sets say something. The market filters are reasons
for no signal to come; in `MarketAnalysis` each is read as the code reads it, from the
attributes that `Settings` has, or from the fallback (`Enabled`). `mode` does not change during a behaviour (that is what
`RunnerControl` is about), the configured balance neither. Money is in integers;
`Rounded` takes both neighbours exactly between two steps, where floating point may take
either.

**Grain of a trading step.** A step of the process ends where the code awaits the exchange or
commits. In between, nothing else of this process runs that touches the
position, so a finer grain would add only stutters.

**Calls.** A request is a relation between its effect and the reply the caller
sees. With `"reject" \in Faults` it may be refused cleanly; with `"lost"` it may
be executed or not and the reply is an error in both cases. A sell (and a list)
needs unlocked balance: `Free = Reserve + held - resting lists`. A cancel of a
list that no longer rests is an error.

**Alarm.** `alarm` becomes TRUE where the code writes its escalation (CRITICAL,
"MANUAL INTERVENTION") or sends its alert. It is never reset: what a person does
afterwards is not part of the program. Properties that say "or somebody has been
told" are the weakest a bot can promise when the exchange refuses its orders.

**Prices.** Ticks on a ladder; the stop limit (0.1% below the stop) is
represented by the one thing the control depends on, whether it is below the
stop after rounding (`CoarseBelow`). Quantity is one unit per position.

**What the code's conditions become.** `BreakevenDue`, `DynamicDue`, `StopHit`,
`TargetHit`, `TrailHit` are the code's comparisons in integers (percent times
price instead of a quotient). The market regime and the ATR are inputs: an
extension that is due may be skipped (regime not bullish, ATR None), and the ATR
is any of `Atrs`. `CheckExits` keeps the code's order stop, target, trailing.

**After an emergency close the handler goes on.** `_process_position` works on
the copy of the row it read at the beginning, and no step reads its status.
The model keeps that: after `ReplaceClose` the remaining checks of the candle
still run on the closed row.

**Faults** (`Faults` of `Exchange`):

| name | what may happen |
|---|---|
| `reject` | an order call is refused, nothing happened |
| `lost` | an order call fails in the network, the order may exist |
| `query` | the status query or the open-orders query fails |
| `operator` | a person cancels the list in Binance's interface |
| `crash` | the process dies between any two steps |
| `startup` | the balance request at start fails, which skips the reconciliation |
| `db` | a commit raises; the bus swallows the exception |

**The event loop of the API** (`loop`). Handlers are coroutines on one loop, and
`stop_runner` is synchronous, sleeping included: from `read` to its return no
other request is served, while Runners and job threads go on. `runner_start` is
the exception; it awaits the balance report, so its checks (`RunnerStart`) and
its `Popen` (`BalanceReported`) are two actions with any request in between.

**Operating system.** A child of the API that dies becomes a zombie: it answers
`kill(pid, 0)` until `poll()`, a later `Popen` or the destructor of its handle
waits for it. `SeesAlive` is `_is_process_alive` with that difference. When the
API dies its children are adopted and leave no zombies. A Runner reads MODE when
it starts, from the environment it inherits (`environ`), because `load_dotenv`
does not override what is set.

**Jobs.** `jobStatus` keeps what the handlers ask of `_current_job`, whether it is
`running`. A thread that has been started has not executed anything yet; the
subprocess of a thread outlives the API (`orphan`). A timeout kills the subprocess of a
thread and nothing else: of an optimizer the workers of the pool go on (`survivors`) while
the memory of the API says that the job is over.

**`excuses`** is a history variable. The API's promises about Runners and jobs have
conditions that the code cannot check; they are recorded where they fail:
`overlap` when a request arrives while an earlier one has not taken effect (a start
waiting for its report, a Runner without PID file, a thread that has not begun),
`api` when the API dies, `error` when it has answered that a Runner could not be
stopped, `edit` when `.env` was edited by hand. No action reads it.

## 3. The runs

| run | faults | shows | distinct states |
|---|---|---|---|
| `rejections` | reject | `TypeOK`; `NakedIsEscalated`; `CandleEnds` and `NoticedOnceCrossed` under fairness | 66 498 |
| `crash` | crash, reject | `RowMatchesExchange`, `OrphansAreEscalated`, `NeverOverOffered` | 212 103 |
| `anything` | all seven, both answers for canceled lists, coarse ticks, untracked rows | `BreakevenHolds`, `StopOnlyRises`, `CloseIsConfirmed` | 84 419 |
| `paper` | crash; paper mode, slippage, ATR trailing, the analysis of the market | `ExitsCaughtUp`, `SwingsStayPut` | 197 414 |
| `control` | Runners, jobs and the API die at any point; stops and jobs time out; `.env` is edited | `TypeOK`, `AtMostOneRunner`, `RunnerIsKnown`, `ZombieIsRecognized`, `RunnerFollowsEnv`, `JobAndBotApartIfCalm` | 2 977 768 |
| `gates` | kill and restart; live entries that fail | `TypeOK`, `OneRowPerSymbol`, `OpenWithinLimit`, `DailyTradesWithinLimit`, `DailyLossBounded`, `CooldownKept`, `ExposureKept`, `DrawdownNotUnderstated` | 1 630 854 |
| `market` | handlers raise, requests fail in each of their ways, the stream fails or dies silently, the Runner is stopped, also before its stream, or killed | `TypeOK`, `EveryoneServed`, `SignalsAccounted`, `ShownConnected`, `DeadStreamNoticed` under fairness, `RequestKeepsPromise` (refinement) | 944 338 |
| `tuning` | subprocesses fail, hang and are killed, the API dies, a backtest starts beside another job, the minimum ratio changes between jobs | `TypeOK`, `MeasuredAlone`, `ResultIsOfThisJob`, `OnlyApprovedTrade`, `HistoryKept`, `StaleIsWarned`, `JobEnds` under fairness | 1 065 119 |
| `closed_means_sold` | reject | `ClosedMeansSold`, violated | |
| `lost_reply` | lost | `NeverOversold`, violated | |
| `overlapped` | as `control` | `JobAndBotApart`, violated | |
| `halt_lifted` | as `gates` | `HaltedUntilMidnight`, violated | |

The violated ones are the findings of section 4.

The properties:

- `NakedIsEscalated` - between candles, a position that was bought has a resting
  list or somebody has been told.
- `RowMatchesExchange` - between candles, the list of an open row rests at the
  row's own stop and target, or has filled, or somebody has been told that it may not.
- `OrphansAreEscalated` - between candles, every resting list belongs to the
  open row or somebody has been told.
- `NeverOverOffered` - at *no* moment could the resting lists sell more than was
  bought: the old list is gone before its replacement or a market sell goes out.
- `CloseIsConfirmed` - no managed row is closed while its list still rests.
- `StopOnlyRises`, `BreakevenHolds` - levels never move down; a row that says
  breakeven has its stop at the entry or above.
- `CandleEnds` - every handler comes back to the event loop.
- `NoticedOnceCrossed` - a row whose list has filled is closed, provided closes
  keep crossing its levels. (That proviso is the code's: nothing asks for the
  list otherwise until the next start.)

Of the processes:

- `AtMostOneRunner` - unless requests overlap, at most one Runner lives. Neither a
  crash of the API, nor a stop that times out, nor a late exit breaks it.
- `RunnerIsKnown` - unless requests overlap, the PID file names the Runner that
  trades, although every Runner removes the file unseen when it ends.
- `ZombieIsRecognized` - the PID file never names a zombie whose handle was lost,
  which would look like a Runner that cannot be stopped.
- `RunnerFollowsEnv` - when the API is idle, every Runner trades in the mode that
  `.env` says; with no excuse at all.
- `JobAndBotApartIfCalm` - the subprocess of a job never runs beside a Runner, unless
  requests overlap or the API dies. (`JobAndBotApart`, without that condition and with the
  workers of a pool counted, is what the documentation says; it fails, section 4.)

Of the entries:

- `OneRowPerSymbol`, `OpenWithinLimit` - also when the entry is decided before the
  exchange is awaited and recorded after it.
- `DailyTradesWithinLimit` - no UTC day sees more entries than `max_daily_trades`, also
  when an entry is decided before midnight and recorded after it, and over restarts.
- `DailyLossBounded` - what the loss limit really bounds. It stops new positions; those
  that are open may still lose, so a day may end beyond the limit by what
  `maximum_open_positions` positions can lose at most.
- `CooldownKept` - two entries of a symbol in one session are a cooldown apart. A restart
  forgets cooldowns; stated over sessions it would not hold.
- `ExposureKept` - no entry costs more than the exposure limit plus half a step of
  quantity, because the quantity is rounded to the nearest step.
- `DrawdownNotUnderstated` - paper mode: the drawdown of a snapshot is measured from the
  highest equity that any session has recorded. In live mode each session starts from
  another balance and the code deliberately ignores the older peaks.

Of the market:

- `ExitsCaughtUp` - once a session has handled a candle, no paper row is open beyond its
  stop, target, or every possible trailing stop, although breakeven and the extension
  of the target may have moved them in that very candle, and although a crash may have
  come between the close of the candle and that of the row.
- `SwingsStayPut` - a swing that has been seen never moves: the newest may be added, the
  oldest forgotten.

Of the messages and the requests:

- `EveryoneServed` - every published message reaches every agent once, or is still on its
  way: neither a handler that raises nor one that publishes costs another agent a message.
- `SignalsAccounted` - every analysis ends as one rejection or one entry, unless a handler
  failed; the ratios on the dashboard never exceed 100%.
- `ShownConnected` - the API shows no connection of a Runner that has ended, unless it was
  killed or could not write any more.
- `DeadStreamNoticed` - a connection that dies silently is given up in the end, also when
  it dies while a handler waits out a rate limit.
- `RequestKeepsPromise` - the refinement: seen by its caller, a request with all its
  attempts is `RequestPromise`, that is carried out at most once, and confirmed only when it
  was. An error promises nothing.

Of the jobs:

- `MeasuredAlone` - what a combination is scored by was earned by its own job under its own
  parameters, unless workers survived a timeout, jobs overlapped or subprocesses survived the
  API; and whatever survived, not under the parameters of another combination of a job that
  had the same list. (`NeverCollide` says it of any two jobs, and fails, section 4: a worker's
  user is its place in the list of its job, and a setting may shorten the list of the next.)
- `ResultIsOfThisJob` - a completed job shows its own report or none, although the file of
  the report is a checkpoint that an earlier job may have left.
- `OnlyApprovedTrade` - the Runner never trades with parameters that were neither shipped,
  nor saved by a person, nor chosen by a run whose validation does not block them,
  whatever was killed when.
- `HistoryKept` - the history holds the newest jobs of each kind, newest first.
- `StaleIsWarned` - applying a configuration that a later completed run did not confirm is
  answered with a warning, as long as the history remembers that run.
- `JobEnds` - a running job ends in the memory of the API, also when its subprocess hangs.

**Why some faults are left out of some runs.** Each omission is a thing the code
does not do, not a bound:
a failed `query` makes the reconciler skip the orphan search with a warning, a
`db` error after the exchange accepted a list leaves the old identifier in the
row, a `lost` reply is handled as a refusal, an `operator` who cancels
unprotects the row until the next start, and `startup` skips the
reconciliation. `RowMatchesExchange` and its companions cannot survive these;
the run `anything` shows what does. `NakedIsEscalated` survives neither a crash nor a
coarse tick (section 4).

**Bounds.**

- One symbol. Rows, lists and handlers of different symbols meet only in the
  balance and in the order of candles; with one coroutine they interleave at
  candle boundaries only.
- `Prices = 1..5`, entry at 3, stop and target two ticks away, breakeven and
  extension due one tick above the entry: below the stop, at it, unchanged,
  breakeven and extension together, target. Every comparison is made with less,
  equal and greater.
- `Lists` are reused when nothing refers to them; `RoomForLists` starts a candle
  only while two are free, the most one candle can place. `SYMMETRY` permutes
  them in the runs without liveness.
- `MaxHeld` stops new entries while earlier positions are still held without a
  row. Two in `crash` and `rejections`, so that a forgotten position and a new
  one coexist.
- `Reserve = 1` in `rejections`, `crash`, `anything` and `lost_reply`: the account owned the asset
  before, so the exchange does not stop a second sell or a second list by itself.
- `control`: two process identifiers (a Runner and one too many, or a zombie and
  its successor), two threads (a job and the one the memory confuses it with), two
  modes, one suspended start (`MaxStarts`; with the starts that have already become
  processes, two overlap). All three sets are interchangeable, hence `SYMMETRY`;
  `excuses` makes the states many. The theorems hold for every size of these.
- `gates`: three symbols (two open positions and one more to enter), two days of two
  ticks and part of a second (`MaxTime = 2`), so that midnight falls between any two
  steps; three rows, one more than a day allows and one more than may be open at once;
  two sessions, so that a restart lies between entries; a cooldown as long as a day.
  One loss is exactly the daily limit, so the comparison is made at equality. One signal,
  whose quantity must be cut to the exposure limit and is rounded up. Deadlock is not checked:
  when the clock and the sessions are at their bounds nothing is left to happen.
  `halt_lifted` allows three entries a day, or the other limit would hide the halt.
- `paper`: closes of 97, 100, 102 and 104 around one entry price, so that a window may
  lose 3%, gain 3%, gain 1% or go nowhere; histories of six closes (four for EMA and ATR),
  long enough for two swings of each kind and short enough to forget; warm-up lengths in
  the order of the defaults; one wick. With longer histories nothing new is read: every
  window is of the length that the configuration says. `Env` is what `.env.example` has: the two
  filters that `Settings` knows are on, the regime is off.
- `market`: the five agents in the order of their subscription; two candles and two
  sessions (`MaxCandles`, `MaxSessions`), so that counters outlive nothing they should not
  and a row of one session is shown in the next; pauses of 1 and of 30 seconds
  (`RetryAfter`), within and beyond the window of the signature, beside the growing
  default. Deadlock is not checked: after the last session nothing is left to happen.
- `tuning`: two jobs (`MaxJobs`), the one that runs and the one it is confused with; three
  parameter values, of which the lower risk/reward minimum keeps out one and the higher one
  another, so that the third moves up in the list; two workers, so that
  both remaining combinations are measured at once; one entry of each kind in the history
  (`MaxHistory = 1`), so that it is full at once; three measures, judged suspicious,
  robust and insufficient; one kind of trouble per behaviour (`MaxFaults`), and only a backtest beside
  another job (`Overlapping`), to keep the run within minutes. Deadlock is not checked: when
  both jobs are over and the Runner is up, nothing need happen.

**Fairness.** `FairSpec` adds `WF_vars(ProcessNext)`: the event loop keeps
running and closed candles keep coming, which is what an asyncio process with a
reconnecting stream gives. Nothing is assumed of the exchange, of which candle
comes, nor of any single branch. `Crash` and `ExchangeMoves` are unfair.
In `MarketPipeline`, `WF_vars(AgentStep)` says that a coroutine that can go on does, which
includes that an awaited request is answered or runs into `REQUEST_TIMEOUT_SECONDS`, and
`WF_vars(RecvTimesOut)` that `asyncio.wait_for` around `recv` raises after 90 seconds; nothing
makes the stream deliver, connect or fail. In `TuningJobs`, `WF_vars(ThreadStep(j))` for every
job says that its thread is scheduled and that `subprocess.run` comes back at the latest at its
timeout; nothing is assumed of the subprocesses.

## 4. Findings

1. **`closed_means_sold`** - `_confirm_oco_filled` and `_oco_already_resolved`
   take `ALL_DONE` for "sold". A list that the bot canceled itself, before a
   market sell that was then refused, is `ALL_DONE` too; the next exit check
   closes the row of a position that is still held.
   `tests/test_position_manager_agent.py:1362` calls that a database lie.
2. **`lost_reply`** - a network error while the first list is placed is handled as
   "not placed"; the emergency sell then goes out beside a list that may rest.
   With other units of the asset in the account both sell.
3. **`halt_lifted`** - `check_daily_loss_limit` says that after the limit "no new
   positions should open for the rest of the UTC day", and so does
   `docs/README_FULL.md:260`. The code sums the day's results again at every signal: when a
   position that was still open is closed with a profit, the sum is below the limit again
   and the next signal is entered on the same day.
4. **`overlapped`** - `docs/README_FULL.md:811` says that a job and the bot never run at the
   same time. A Runner is known only once it has imported everything and written its PID
   file; a job that is requested before, or while `runner_start` awaits its balance report,
   starts beside it. Without any overlap the same happens after a timeout:
   `subprocess.run` kills the subprocess of the job only, the status says that the job is
   over, a Runner is accepted, and the workers of the pool replay beside it.

**More statements that fail.** Each of these is a statement of the repository, written as a
property of the module named, that the model violates; the last column is the configuration
to see it with. They stand here and not among the runs because the passing properties above
are stated around them.

| property | the statement | what happens | see it with |
|---|---|---|---|
| `FailedEntryRisksNothing` (`LiveTrading`) | `execution_router.py:20`: if the BUY fails, "nothing has happened", "no funds are at risk yet" | its answer is lost after it was executed: `LIVE_ENTRY_FAILED`, one unit is held, nothing and nobody knows of it | `lost_reply.cfg`, this as its PROPERTY |
| `NakedIsEscalated` (`LiveTrading`) | `position_manager_agent.py:1115`: no order at all is worse than closing at market | `_replace_oco` checks `TP > SL > SL_LIMIT` after the cancel and gives up with a WARNING where the tick makes stop and stop limit equal; no fault is needed | `rejections.cfg` with `Faults = {}`, `CoarseBelow = 4` |
| `NeverCollide` (`TuningJobs`) | `optimizer_engine.py:202`: the sandbox users of combinations that run at once never collide | a worker survives the timeout of its job; the user of its place in the list is that of another combination once `MINIMUM_RISK_REWARD_RATIO` has been changed | `tuning.cfg`, this as an INVARIANT |
| `AlignedWhenEnabled` (`PaperTrading`) | `signal_quality_service.py:343`: the filter blocks BEARISH; `.env.example:100`, the settings API and the frontend have its switch | `signal_quality_config.py:355` reads an attribute that `Settings` does not have and falls back to off, so the switch does nothing | `paper.cfg` with `Env <- MCEnvAligned`, this as its PROPERTY |
| `FreshIsNotWarned` (`TuningJobs`) | `tests/test_api.py:1124`: no warning for a fresh `best_config.json` | the time of the file is compared with the end of the run that wrote it, which is always later (`main.py:1174`): the newest configuration is reported as that of another run | `tuning.cfg`, this as an INVARIANT |

`ENABLE_DAILY_LOSS_LIMIT` and `ENABLE_DAILY_TRADE_LIMIT` are read like the switch of the
regime and fall back to on: these limits cannot be turned off.

**Known exceptions.** What the models can do beside, and what a property therefore has to
except:

- A death between the BUY and the list (`execution_router.py:387`) leaves neither a row
  nor an order; the reconciliation compares rows with orders and finds nothing:
  `NakedIsEscalated` is checked without crashes.
- Two starts that overlap are two Runners, a death of the API forgets the job under way, and
  a restart of the Runner forgets the cooldowns: the properties of `control` except `overlap`
  and `api`, and `CooldownKept` speaks of one session.

**Observations** from the translation that no property is about:

- `_request` signs once. With pauses of 2 and 4 seconds, or a `Retry-After` of more than
  five, the attempt that follows is refused with -1021, although the comment calls the
  retry safe. It is safe, in that nothing happens twice; it is also in vain.
- A killed Runner leaves a row that says `connected`, and the API does not look at its age.
- The Runner starts with `best_config.json` whatever `.env` says, a backtest with `.env`.
- `.env`, `best_config.json` and the history are rewritten in place, not replaced.
- The regime history is kept by symbol and is not emptied between the combinations that
  one worker of the pool evaluates; what a replay sees at its begin depends on scheduling.
- With `ATR_PERIOD` at least `ATR_MAX_CANDLE_HISTORY` there is never an ATR.
- A structure stays valid after the price has fallen below its last higher low.
- `register_closed_position` of the counters is never called.

## 5. The proofs

### 5.1 Trading

`LiveTrading_proofs` proves, for every ladder of prices, every set of lists,
every set of faults and every setting of the strategy:

| theorem | statement |
|---|---|
| `TypeCorrect` | `Spec => []TypeOK` |
| `BreakevenIsKept` | `Spec => []BreakevenHolds` |
| `LevelsOnlyRise` | `Spec => StopOnlyRises` |
| `ClosedAfterTheList` | `Spec => CloseIsConfirmed` |

Assumptions: the five named `ASSUME`s on the constants (`ExchangeAssumption`,
`ModeAssumption`, `SlippageAssumption`, `ManagementAssumption`,
`LadderAssumption`), which TLC evaluates in every run.

The inductive invariant `IInv` is `TypeOK` and

- `ExitHasReason` - at `close` the plan carries one of the exit reasons; without it
  the row's type is not preserved, because a plan may also carry the name of an
  adjustment;
- `NoRowWhileEntering` - no open row while the router is at work: a new row
  replaces the old one, and would otherwise lower its levels;
- `AdjustmentImproves` - while a replacement is under way, what is planned is not
  below what the row has, and a planned breakeven is at the entry or above. This is
  the fact about the steps *between* the decision and the commit, during which the
  exchange moves;
- `Released` - once the handler is past the cancel (placing, emergency sell,
  closing), the row's list no longer rests. `CloseIsConfirmed` follows from it;
- `BreakevenHolds` itself.

Each action has a lemma or a step of its own; the temporal theorems combine them
with PTL. `IInv` was itself checked by TLC on the constants of `anything`.

### 5.2 Control of the Runner

`RunnerControl_proofs` proves, for any sets of identifiers, modes and threads and any
number of suspended starts:

| theorem | statement |
|---|---|
| `ControlTypeCorrect` | `Spec => []TypeOK` |
| `OnlyOneRunner` | `Spec => []AtMostOneRunner` |
| `RunnerStaysKnown` | `Spec => []RunnerIsKnown` |
| `ZombieStaysRecognized` | `Spec => []ZombieIsRecognized` |
| `ModeFollowsEnv` | `Spec => []RunnerFollowsEnv` |
| `JobsStayApart` | `Spec => []JobAndBotApartIfCalm` |
| `RestartAlwaysReplaces` | `Spec => RestartReplaces`: a restart starts a Runner only if the one it waited for is dead (proved only) |

Assumptions: `NoPid` is no identifier, `NoThread` no thread, `MaxStarts` a natural
number. The argument: as long as no request overlaps, a request finds nothing under
way, so what it sees in the PID file is all there is (`NoneSeen`, `SeenLives`).
For that to survive every step the invariant (`ControlInvariant`) needs more than the
properties:

- `AwaitingAlone` - a suspended start waits alone and with no Runner: what
  `runner_start` saw before its await is still true after it;
- `BusySettled` - a handler that keeps the loop began with no Runner booting;
- `StopsTheOne`, `StartsAlone` - `stop_runner` waits for the only Runner there is, so
  a restart starts where there is none (`WaitedFor`);
- `Handled` - every dead or living child is the one whose handle is held, so that
  losing the handle never leaves a zombie;
- `Restarting` in `FollowInv` - a Runner in the old mode exists only while its restart
  is still to come;
- `JobInv` - a job's thread is the active one, its status is remembered, and no start
  and no restart is on its way (workers that a timeout leaves are no part of it: a Runner
  may start beside them); `CallerInv` - nobody is left as caller of a stop that
  is over.

The process table is used through effect lemmas (`GoneEffect`, `ReapedEffect`,
`PopenEffect`, `TerminateEffect`, `StoppedEffect`): who lives, who is starting, who is a
zombie after a step. The invariant was checked by TLC on the constants of `control`
before it was proved.

### 5.3 Limits on entries

`SignalPipeline_proofs` proves, for any symbols, signals, results, number of rows and
sessions, length of a day and setting of the limits:

| theorem | statement |
|---|---|
| `LimitsInvariant` | `Spec => []IInv` |
| `OneRowKept` | `Spec => []OneRowPerSymbol` |
| `OpenLimitKept` | `Spec => []OpenWithinLimit` |
| `DailyTradesKept` | `Spec => []DailyTradesWithinLimit` |
| `CooldownAlwaysKept` | `Spec => []CooldownKept` |
| `DailyLossKept` | `Spec => []DailyLossBounded` |
| `SignalTypeCorrect` | `Spec => []TypeOK` |
| `ExposureAlwaysKept` | `Spec => ExposureKept` |
| `DrawdownNeverUnderstated` | `Spec => DrawdownNotUnderstated` |

Assumptions: `LedgerAssumption`, `PortfolioAssumption`, `QualityAssumption`,
`SizingAssumption` and `PipelineAssumption`; the last one wants finitely many signals and
results, without which there is no highest price and no worst loss.
A property speaks of rows, an entry of a moment before its row; so each part of `IInv` has
a second half about an entry that awaits the exchange: its symbol has no open row
(`OneEach`), there is room for one more (`Room`), also on the day that has come meanwhile
(`DailyRoom`), and the rows of the symbol in this session are a cooldown old (`Rested`).
`Rested` also says that the memory of cooldowns knows every row of this session and is not
older than it; `Typed`, that no row is younger than the clock, without which "created
since midnight" and "created on this day" would differ (`OpenedThisDay`). `Classified`
reduces every step to one of five kinds (`Settles` covers all that end a handler, a
session or a position), and each part is shown for each kind.

*The loss of a day.* `DailyLossBounded` is not inductive: when a day is at the limit and
two positions are open, the first may close with the worst loss only because the bound
still has room for the second. `MoneyInv` counts that room: today's loss stays below the
limit even if every *free* slot (`MaxOpen - Slots`, where an entry that awaits the exchange
has taken its slot) brought one worst loss (`SparedToday`), a day that is over below the
limit plus `MaxOpen` worst losses (`SparedOn`). Closing a position frees its slot and brings
at most one worst loss (`ClosingCosts`, `SparedByClosing`); an entry takes a slot only after
the gate has seen the loss below the limit; midnight starts at zero because no row was
closed in the future (`Dated`, `NothingClosedYet`). Sums enter through `TotalAdds` (the sum
over two disjoint sets of rows) and `TotalBounded`, from `FS_Union` and `FS_Product`.

*The account.* `AccountInv` holds the types of balance, drawdown and peaks, that the peaks
are finitely many, and that in paper mode there is only one initial balance (`OneInitial`).
`HighestNumber` proves that a finite set of integers has a highest one (`Max` is a CHOOSE),
by well-foundedness over the number of members above. `HigherPeak` is the monotonicity of
the rounded percentage in its peak, by multiplying and cancelling (`Divided`, `Cancelled`);
with it a snapshot reports no less than any recorded peak would. `ExposureAlwaysKept` rests
on `WithinExposure`: what is about to be bought was sized with the balance that is still
there when the row is written.

### 5.4 Messages, requests and what the API shows

`MarketPipeline_proofs` proves, for any agents, pauses, candles and sessions:

| theorem | statement |
|---|---|
| `RequestInvariant` | `Spec => []RequestInv` |
| `ClientKeepsPromise` | `Spec => RequestKeepsPromise`, the refinement of `RequestPromise` |
| `ShownConnectedEver` | `Spec => []ShownConnected` |
| `BusInvariant` | `Spec => []BusInv` |
| `EveryoneIsServed` | `Spec => []EveryoneServed` |
| `PipelineTypeCorrect` | `Spec => []TypeOK` |
| `SignalsAreAccounted` | `Spec => []SignalsAccounted` |

Assumptions: `ClientAssumption`, that pauses are natural numbers; `BusAssumption`;
`PipelineAssumption`; and for `SignalsAreAccounted` alone `AgentsAssumption`, that every
agent is subscribed once and that the risk and the execution agent are among them, which is
what `initialize_agents` does: without a risk agent a signal would be settled by nobody, and
with two it would be settled twice. The refinement mapping is in
`ExchangeClient`: sent and pausing are "pending". `OnlyRequestSteps` reduces the whole Runner,
its death included, to steps of the client, its call and its end. What the mapping needs
is `Waits`: while an answer is awaited nothing has been carried out, which is true because
a rate limit refuses before the order and every other outcome, a 5xx answer included, is
the last; without it a
second attempt might be the second order. `Bounded` ends the attempts. `ShownConnected` is
inductive with `Flagged` (the counters keep their flag).

`StackInv` says that the publishes under way are chained: each was called by the agent that
the one below it is at, with the message that this agent publishes. So a handler that
returns, raises or publishes changes what is still to be delivered (`ToServe`, the size of
`Undelivered`) by the one delivery that it counts, or by a whole round that it starts;
that is `EveryoneServed`, inductive together with `BusInv`. `AskedByExecution` ties the
request to the stack: it is under way only while the execution agent handles a decision.

`SignalsAccounted` compares the counters when the bus is quiet. Its strengthening `Accounts`
holds always and knows what the innermost publish will still count: an analysis that is due
(`Due`), a signal that is yet to be settled (`Owed`). Each agent's step moves one unit from
one side to the other; a handler that raises may lose one, and is counted in `failed`.

### 5.5 What the Runner trades with

`TuningJobs_proofs` proves, for any number of jobs and workers, any parameters and measures:

| theorem | statement |
|---|---|
| `OnlyApprovedEver` | `Spec => []OnlyApprovedTrade` |

Assumption: `OptimizerAssumption`, of which only "no verdict is `Nothing`" is used. The
invariant `ApprovedInv` adds to the property that the file holds what was shipped or earned
(`BestEarned`), that a verdict is the last decision of a process (`VerdictLast`), that what
is being exported is not blocked (`ExportJudged`), and that a job whose thread has not begun
has no process (`NotBegun`). The crux is `EarnedKept`: what a job has earned is never taken
back, because a process chooses, judges and begins only while it has no verdict. So the
file and the Runner may lag behind by any number of kills and restarts. Every action is
shown to be one of two kinds (`MovesOn`, `Decides`) or to touch no process.

### 5.6 What the jobs tell their user

`TuningResults_proofs` proves, for any number of jobs and workers, any parameters and any
length of the history:

| theorem | statement |
|---|---|
| `TuningTypeCorrect` | `Spec => []TypeOK` |
| `ScoredByOwnTrades` | `Spec => []MeasuredAlone` |
| `ShowsOwnReport` | `Spec => []ResultIsOfThisJob` |
| `NewestOfEachKindKept` | `Spec => []HistoryKept` |
| `StaleAlwaysWarned` | `Spec => []StaleIsWarned` |

Assumptions: `OptimizerAssumption`, among it that `product()` orders the combinations and
that no two have the same place (`Position`); `JobsAssumption`; and
`EntryAssumption`, that the markers for "nothing" and for an emptied file are no entries.

`TypeInv` follows the life of a process along that of its thread (`LifeOf`, `ThreadOf`): a
thread that saves has no living process, an entry exists from the end on. The types of
`clock` need a count: a time stamp is handed out once by each thread at its end and once by
each export (`ClockCounts`). On top of it `ResultsInv` has four parts:

- `EvidenceInv` - a sandbox holds only trades of jobs that have begun, each of a combination
  that has this place on the list of its own job (`OwnRows`, `OwnTasks`, `Listed`). A place on
  a list belongs to one combination (`SandboxesApart`, by counting those that come before), so
  whoever shared the sandbox with the same list had the same parameters. Without trouble only
  the job that is waited for has tasks, and the sandbox of a task is empty until its replay
  ends (`Undisturbed`), so the trades are of that job alone. `OwnResults` is needed because a
  job's minimum is set when it begins: what has been measured must be of jobs whose list no
  longer changes;
- `OneAtATime` and `ReportInv` - unless requests overlapped or the API died, the newest job
  is the only living one, and the report on disk while a job is waited for is its own or none;
- `HistoryTells` - what the file or the draft lists is exactly the newest `MaxHistory` jobs
  of each kind. `_save_history` filters by a counter that runs along the list; the proof maps
  the positions it keeps one to one to the newest jobs (`Older`, `Newer`, `InOrder`) and
  compares cardinalities, so that no induction over the list is needed;
- `FileBefore` - `best_config.json` is older than what any later job has told, so that
  comparing time stamps finds out whether it is stale.

### 5.7 Row, lists and holdings

`LiveTradingExchange_proofs` proves what the order lists on the exchange have to do with the
row. Each theorem names the faults under which it holds as hypotheses on the constants, which
the constants of its run satisfy, and allows more faults than that run:

| theorem | hypotheses | statement |
|---|---|---|
| `OfferedIsBought` | no `lost`; the exchange knows canceled lists | `Spec => []NeverOverOffered` |
| `NothingElseToOffer` | `Reserve = 0` | `Spec => []NeverOverOffered` |
| `BareIsEscalated` | `NoCoarseTick`; faults among `reject`, `query`, `db` | `Spec => []NakedIsEscalated` |
| `RowTellsTheTruth` | `NoCoarseTick`; faults among `reject`, `query`, `crash` | `Spec => []RowMatchesExchange` |
| `OrphansAreReported` | `Live`; faults among `reject`, `operator`, `crash` | `Spec => []OrphansAreEscalated` |

`NoCoarseTick` says that no stop is so low that its limit rounds to the same tick, which the
statements that fail in section 4 show to be needed. All rest on `RowInv`, the invariant of 5.1
with what the program counter says of the row: who touches a managed list has one, an
identifier in row or plan was handed out by the exchange, a closed row has released its list.

- Offering: `Uncovered`, what is held and not offered, changes by one at most in a step, and
  the program counter tells which way; between a purchase or a cancel and what covers or
  sells it, at least one unit is uncovered (`OneUncovered`). This is arithmetic on
  `Cardinality(Resting)`, which a list that is placed, canceled or filled moves by one.
- Bareness: at most one unit is bare, and only in these steps, unless somebody has been told
  (`BareIsBrief`). It needs `LevelsSound`: the levels that are to be placed are in an order
  the code accepts, also those of every adjustment, or `_replace_oco` would give up.
- The row: outside the steps that settle it, the list of the row rests or has filled
  (`RowCovered`), at the row's levels (`ListAtRow`); what is about to be written is what was
  placed (`PlacedAtPlan`), and an adjustment writes back the one level it has changed
  (`AdjustsOne`). The reconciler restores these after a crash, or tells.
- Orphans: after a start only the list of the row rests, or the one that the plan is about
  to record (`KnownOrPlanned`).

### 5.8 Paper trading

`PaperTrading_proofs` proves, for every ladder of prices and every history of closes:

| theorem | hypotheses | statement |
|---|---|---|
| `PaperIsTrading` | | `PaperSpec => Spec`, the refinement of `LiveTrading` |
| `NoExitIsMissed` | paper mode, no `db` | `PaperSpec => []ExitsCaughtUp` |

By the first one, everything of 5.1 and 5.7 holds with the market in it. The second needs
that a session that is not running has heard of no candle, and that the handler reaches the
exits on every path (an adjustment or an entry of the same candle included).

### 5.9 Only model-checked

All invariants that the runs check are proved, and all action properties but one. With TLC
stay

- the liveness properties `CandleEnds`, `NoticedOnceCrossed`, `DeadStreamNoticed`, `JobEnds`:
  fairness and ENABLED are out of the prover's reach;
- `SwingsStayPut`: the swings are collected by a fold over the history (`SwingsAt`), and what
  a fold over a shifted window finds is an induction over the history that the provers
  cannot do;
- what the other folds compute for every input (EMA, ATR, averages): nothing above depends
  on it.

## 6. Not modelled

- Of the market engines: `rsi` and `ema` of `data/features`, the EMA spread and the
  volatility label, which nothing in the trading path reads. The position manager of
  the first model sees any regime and any ATR.
- What a replay earns: whether a combination is valid, and the metrics of its validation, are
  chosen freely. Datasets, their download and the synthetic fallback.
- Which leg of a list filled, fees, PnL: reporting; the code takes the exit price
  from the close of the candle.
- Signing, transport, formatting, logging, panels, the frontend, migrations, launcher, backup.
- Of the API: the endpoints that only read, maintenance (`reset`); a Runner that somebody
  starts from a shell, a launcher or a container beside the API; two workers of the API.
- Of the settings: the rewriting of the lines of `.env`.
- Identifiers of processes that do not belong to this system: a PID file that names a
  recycled identifier of a stranger.

## 7. Plan

Done so far: the five models, and of all five the type invariant and every invariant that a
passing run checks, proved. Next, in this order:

1. **Abstract specification** of a position's life (`none`, `protected`, `exposed`,
   `sold`) and `LiveTrading` shown to implement it, checked as a property and then
   proved step by step from `RowInv` and `MatchInv`.
2. **SignalPipeline** as an abstraction of `LiveTrading`: the life of a row there, which is one
   step per await, implemented by the router and the position manager.
3. **SwingsStayPut**: a definition of the swings by their positions instead of a fold, shown
   equal to the present one on bounded histories, about which a proof can reason.
4. **SettingsRepository**: the rewriting of `.env` in place.
