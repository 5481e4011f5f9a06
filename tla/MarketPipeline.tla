--------------------------- MODULE MarketPipeline ---------------------------
(***************************************************************************)
(* The Runner around the trading itself: the stream delivers a candle, the *)
(* agents pass it on through the bus, an entry awaits the exchange, what   *)
(* happens is counted, and the counters are flushed to the row that the    *)
(* API shows.  One coroutine handles the candles; the stream is not read   *)
(* while one is under way.                                                 *)
(***************************************************************************)
EXTENDS EventBus, MarketStream, RuntimeState, ExchangeClient

CONSTANTS
    MaxCandles,   \* bound: candles of a session
    MaxSessions   \* bound: Runners that are started

VARIABLES
    session,   \* Runners started so far
    excuses    \* history variable: ways to end without a last flush

vars == <<stack, stats, stream, attempts, link, market, row, request, session, excuses>>

runnerVars == <<session, excuses>>

ASSUME PipelineAssumption == MaxCandles \in Nat /\ MaxSessions \in Nat

\* initialize_agents creates every agent once, and subscribes it once.
ASSUME AgentsAssumption ==
    IsInjective(Subscribers) /\ {"Risk", "Execution"} \subseteq ToSet(Subscribers)

Interest ==
    [agent \in ToSet(Subscribers) |->
        CASE agent = "Strategy" -> "analysis"
          [] agent = "Risk" -> "signal"
          [] agent = "Execution" -> "decision"
          [] OTHER -> "candle"]

Up == stream # "off"

\* main has reached the try around the stream, and the tasks that flush.
Running == Up /\ stream # "starting"

TypeOK ==
    /\ BusTypeOK /\ StreamTypeOK /\ StateTypeOK /\ RequestTypeOK
    /\ session \in 0..MaxSessions /\ excuses \subseteq {"killed", "flush"}

Init ==
    /\ stack = << >> /\ stats = NoStats
    /\ stream = "off" /\ attempts = 0 /\ link = "none"
    /\ market = Fresh /\ row = NoRow
    /\ request = NoRequest
    /\ session = 0 /\ excuses = {}

-----------------------------------------------------------------------------
\* The agents.

\* A message that is not an agent's own is returned from at once.
Ignores ==
    /\ ~Quiet /\ Head(stack).left > 0
    /\ Head(stack).message # Interest[At(Head(stack))]
    /\ Returns
    /\ UNCHANGED <<streamVars, market, row, request, runnerVars>>

\* AnalystAgent.on_message publishes an analysis of every candle.
Analyst ==
    /\ Handles("Analyst", "candle")
    /\ Publish("analysis") \/ Raises
    /\ UNCHANGED <<streamVars, market, row, request, runnerVars>>

\* StrategyAgent.on_message: the analysis is counted first.
Strategy ==
    /\ Handles("Strategy", "analysis")
    /\ \/ RegisterGenerated /\ Publish("signal")
       \/ RegisterRejectedAnalysis /\ Returns
       \/ RegisterAnalysis /\ Raises
    /\ UNCHANGED <<streamVars, row, request, runnerVars>>

\* Mutant: a signal that the risk agent blocks is not counted.
RiskSilent ==
    /\ Handles("Risk", "signal")
    /\ Publish("decision") \/ Returns \/ Raises
    /\ UNCHANGED <<streamVars, market, row, request, runnerVars>>

\* RiskAgent.on_message.
Risk ==
    /\ Handles("Risk", "signal")
    /\ \/ Publish("decision") /\ UNCHANGED market
       \/ RegisterRejected /\ Returns
       \/ Raises /\ UNCHANGED market
    /\ UNCHANGED <<streamVars, row, request, runnerVars>>

\* ExecutionAgent.on_message blocks the decision, or has the router ask the
\* exchange and awaits the answer.
ExecutionBlocks ==
    /\ Handles("Execution", "decision") /\ request.phase = "idle"
    /\ \/ RegisterRejected /\ Returns
       \/ Raises /\ UNCHANGED market
    /\ UNCHANGED <<streamVars, row, request, runnerVars>>

ExecutionAsks ==
    /\ Handles("Execution", "decision")
    /\ Call
    /\ UNCHANGED <<busVars, streamVars, market, row, runnerVars>>

\* A confirmed order that filled is counted, and the metrics that are logged
\* afterwards may raise.  One that did not fill, or whose list failed, is
\* rejected like an error, and the row of the trade may not get written.
ExecutionGoesOn ==
    /\ request.phase = "answered"
    /\ \/ request.answer = "confirmed" /\ RegisterExecution /\ (Returns \/ Raises)
       \/ request.answer = "confirmed" /\ Raises /\ UNCHANGED market
       \/ RegisterRejected /\ Returns
    /\ Taken
    /\ UNCHANGED <<streamVars, row, runnerVars>>

\* PositionManagerAgent.on_message; its own requests are those of the module
\* PositionManager.
PositionManager ==
    /\ Handles("PositionManager", "candle")
    /\ Returns \/ Raises
    /\ UNCHANGED <<streamVars, market, row, request, runnerVars>>

PublishReturns ==
    /\ Published
    /\ UNCHANGED <<streamVars, market, row, request, runnerVars>>

\* The awaited request goes on.
Requests ==
    /\ RequestNext
    /\ UNCHANGED <<busVars, streamVars, market, row, runnerVars>>

-----------------------------------------------------------------------------
\* The stream.

Candle ==
    /\ stream = "receiving" /\ link = "alive" /\ Quiet
    /\ market.messages < MaxCandles
    /\ RegisterKline
    /\ Publish("candle")
    /\ UNCHANGED <<streamVars, row, request, runnerVars>>

StreamConnects ==
    /\ Connects
    /\ SetConnected(TRUE)
    /\ UNCHANGED <<busVars, row, request, runnerVars>>

\* The loop sees an exception, or a timeout, when no candle is under way.
StreamFails ==
    /\ Quiet
    /\ Errs \/ Stale \/ ConnectTimesOut
    /\ SetConnected(FALSE)
    /\ UNCHANGED <<busVars, row, request, runnerVars>>

StreamWakesUp ==
    /\ WakesUp
    /\ UNCHANGED <<busVars, market, row, request, runnerVars>>

LinkDies ==
    /\ GoesDead
    /\ UNCHANGED <<busVars, market, row, request, runnerVars>>

-----------------------------------------------------------------------------
\* The life of the Runner.

Flush ==
    /\ Running
    /\ Upsert(market)
    /\ UNCHANGED <<busVars, streamVars, market, request, runnerVars>>

Start ==
    /\ ~Up /\ session < MaxSessions
    /\ session' = session + 1
    /\ stream' = "starting"
    /\ UNCHANGED <<busVars, attempts, link, market, row, request, excuses>>

\* What main awaits before the stream: in live mode the balance, the filters
\* and the reconciliation, whose failures it catches.
StreamBegins ==
    /\ stream = "starting"
    /\ stream' = "connecting"
    /\ UNCHANGED <<busVars, attempts, link, market, row, request, runnerVars>>

Gone ==
    /\ stack' = << >> /\ stats' = NoStats
    /\ stream' = "off" /\ attempts' = 0 /\ link' = "none"
    /\ request' = NoRequest

\* A signal cancels whatever is awaited; the last flush may fail.
Shutdown ==
    /\ Running /\ Gone
    /\ \E succeeds \in BOOLEAN :
          /\ FinalFlush(succeeds)
          /\ excuses' = IF succeeds THEN excuses \ {"killed", "flush"} ELSE excuses \cup {"flush"}
    /\ UNCHANGED session

\* Before the try there is no last flush: the row stays as the Runner before
\* this one has left it.
ShutdownEarly ==
    /\ stream = "starting" /\ Gone
    /\ market' = Fresh
    /\ UNCHANGED <<row, session, excuses>>

Killed ==
    /\ Up /\ Gone
    /\ market' = Fresh
    /\ excuses' = excuses \cup {"killed"}
    /\ UNCHANGED <<row, session>>

-----------------------------------------------------------------------------
AgentStep ==
    \/ Ignores \/ Analyst \/ Strategy \/ Risk
    \/ ExecutionBlocks \/ ExecutionAsks \/ ExecutionGoesOn
    \/ PositionManager \/ PublishReturns \/ Requests

RecvTimesOut == Stale /\ StreamFails

StreamStep == StreamConnects \/ StreamFails \/ StreamWakesUp

Next ==
    \/ AgentStep \/ Candle \/ StreamStep \/ LinkDies
    \/ Flush \/ Start \/ StreamBegins \/ Shutdown \/ ShutdownEarly \/ Killed

\* A handler is not left alone, the exchange answers or the request times
\* out, and so does recv.
Spec == Init /\ [][Next]_vars /\ WF_vars(AgentStep) /\ WF_vars(RecvTimesOut)

-----------------------------------------------------------------------------
\* Every message that was published reaches every agent once, or is still on
\* its way to it: a handler that fails, or that publishes in turn, costs no
\* other agent a message.
EveryoneServed ==
    Len(Subscribers) * stats.published = stats.succeeded + stats.failed + ToServe

\* Every analysis ends as one rejection or one entry, and is lost only when
\* a handler fails; the counters that the dashboard divides are a funnel.
SignalsAccounted ==
    /\ Quiet => LET settled == market.rejected + market.executed
                IN settled <= market.analyses /\ market.analyses <= settled + stats.failed
    /\ Ratio(market.generated, market.analyses) <= 100
    /\ Ratio(market.approved, market.generated) <= 100
    /\ market.analyses <= market.messages

\* The API never shows a connection of a Runner that has ended, unless it
\* was killed or could not write any more.
ShownConnected == Shown.connected /\ ~Up => excuses # {}

\* A connection that has died is noticed in the end, also when it dies while
\* a candle is handled and the handler waits out a rate limit.
DeadStreamNoticed == link = "dead" ~> link # "dead"

\* The request, with its pauses and repetitions, is no more than what its
\* callers rely on: one order at most, and exactly one when it is confirmed.
RequestKeepsPromise == Promise!Spec
=============================================================================
