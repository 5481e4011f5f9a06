------------------------ MODULE MarketPipeline_proofs ------------------------
(***************************************************************************)
(* Proofs about MarketPipeline, for every order of the agents, every set   *)
(* of pauses and any number of candles and sessions.                       *)
(***************************************************************************)
EXTENDS MarketPipeline, FiniteSetTheorems, SequenceTheorems, TLAPS

-----------------------------------------------------------------------------
(* The request.                                                            *)

\* While an answer is awaited the exchange has carried out nothing: a rate
\* limit comes before the order, any other outcome ends the request.
Waits ==
    request.phase \in {"sent", "pausing"} =>
        request.executed = 0 /\ request.answer = "none"

\* Three attempts are the end of it.
Bounded == request.phase = "pausing" => request.attempt < MaxAttempts

Requested == [phase : {"idle", "sent", "pausing", "answered"},
              attempt : 0..MaxAttempts, waited : Nat, executed : 0..1,
              answer : {"none", "confirmed", "error"}]

RequestInv == request \in Requested /\ Waits /\ Bounded

\* What a step of the Runner may do to the request.
RequestStep == RequestNext \/ Call \/ Taken \/ UNCHANGED request

LEMMA OnlyRequestSteps == [Next]_vars => RequestStep
<1> SUFFICES ASSUME [Next]_vars PROVE RequestStep
    OBVIOUS
<1>1. CASE AgentStep
    BY <1>1 DEF AgentStep, Ignores, Analyst, Strategy, Risk, ExecutionBlocks, ExecutionAsks,
        ExecutionGoesOn, PositionManager, PublishReturns, Requests, RequestStep
<1>2. CASE Candle \/ StreamStep \/ LinkDies
    BY <1>2 DEF Candle, StreamStep, StreamConnects, StreamFails, StreamWakesUp, LinkDies, RequestStep
<1>3. CASE Flush \/ Start \/ StreamBegins \/ Shutdown \/ ShutdownEarly \/ Killed
    BY <1>3 DEF Flush, Start, StreamBegins, Shutdown, ShutdownEarly, Killed, Gone, Taken, RequestStep
<1>4. CASE UNCHANGED vars
    BY <1>4 DEF vars, RequestStep
<1> QED
    BY <1>1, <1>2, <1>3, <1>4 DEF Next

LEMMA RequestFields ==
    ASSUME RequestInv
    PROVE  /\ request = [phase |-> request.phase, attempt |-> request.attempt,
                         waited |-> request.waited, executed |-> request.executed,
                         answer |-> request.answer]
           /\ request.attempt \in 0..3 /\ request.waited \in Nat
           /\ request.executed \in 0..1
BY DEF RequestInv, Requested, MaxAttempts

\* An answer ends a request of which nothing had been carried out.
LEMMA ReplyEffect ==
    ASSUME RequestInv, NEW a, NEW e \in {0, 1}, Reply(a, e)
    PROVE  /\ request.phase = "sent" /\ request.executed = 0 /\ request.answer = "none"
           /\ request' = [phase |-> "answered", attempt |-> request.attempt,
                          waited |-> request.waited, executed |-> e, answer |-> a]
<1>1. request.phase = "sent" /\ request.executed = 0 /\ request.answer = "none"
    BY DEF RequestInv, Waits, Reply
<1>2. request.executed + e = e
    BY <1>1
<1> QED
    BY <1>1, <1>2, RequestFields DEF Reply

LEMMA RequestInvKept == RequestInv /\ RequestStep => RequestInv'
<1> SUFFICES ASSUME RequestInv, RequestStep PROVE RequestInv'
    OBVIOUS
<1> USE DEF MaxAttempts
<1>1. CASE Call
    <2>1. request' = [phase |-> "sent", attempt |-> 1, waited |-> 0, executed |-> 0, answer |-> "none"]
        BY <1>1 DEF Call, NoRequest
    <2> QED
        BY <2>1 DEF RequestInv, Requested, Waits, Bounded
<1>2. CASE Taken
    <2>1. request' = [phase |-> "idle", attempt |-> 0, waited |-> 0, executed |-> 0, answer |-> "none"]
        BY <1>2 DEF Taken, NoRequest
    <2> QED
        BY <2>1 DEF RequestInv, Requested, Waits, Bounded
<1>3. CASE UNCHANGED request
    BY <1>3 DEF RequestInv, Requested, Waits, Bounded
<1>4. ASSUME NEW a \in {"confirmed", "error"}, NEW e \in {0, 1}, Reply(a, e)
      PROVE  RequestInv'
    BY <1>4, ReplyEffect, RequestFields DEF RequestInv, Requested, Waits, Bounded
<1>5. CASE Accepted \/ Rejected \/ NetworkError
    BY <1>4, <1>5 DEF Accepted, Rejected, NetworkError, Failure
<1>6. CASE RateLimited
    <2>1. CASE Reply("error", 0)
        BY <1>4, <2>1
    <2>2. ASSUME NEW pause \in Pauses, request.attempt < 3, Sleep(pause)
          PROVE  RequestInv'
        <3>1. pause \in Nat
            BY ClientAssumption, RequestFields DEF Pauses, DefaultPause
        <3>2. request.executed = 0 /\ request.answer = "none"
            BY <2>2 DEF RequestInv, Waits, Sleep
        <3>3. request' = [phase |-> "pausing", attempt |-> request.attempt,
                          waited |-> request.waited + pause, executed |-> 0, answer |-> "none"]
            BY <2>2, <3>2, RequestFields DEF Sleep
        <3>4. request.waited + pause \in Nat
            BY <3>1, RequestFields
        <3>5. request' \in Requested
            BY <3>3, <3>4, RequestFields DEF Requested
        <3>6. Waits' /\ Bounded'
            <4>1. request'.attempt = request.attempt /\ request'.executed = 0
                  /\ request'.answer = "none"
                BY <3>3
            <4> QED
                BY <2>2, <4>1 DEF Waits, Bounded
        <3> QED
            BY <3>5, <3>6 DEF RequestInv, Requested
    <2> QED
        BY <1>6, <2>1, <2>2 DEF RateLimited
<1>7. CASE SendAgain
    <2>1. request.attempt < 3 /\ request.executed = 0 /\ request.answer = "none"
        BY <1>7 DEF SendAgain, RequestInv, Waits, Bounded
    <2>2. request' = [phase |-> "sent", attempt |-> request.attempt + 1,
                      waited |-> request.waited, executed |-> 0, answer |-> "none"]
        BY <1>7, <2>1, RequestFields DEF SendAgain
    <2>3. (request' \in Requested) /\ Waits' /\ Bounded'
        BY <2>1, <2>2, RequestFields DEF Requested, Waits, Bounded
    <2> QED
        BY <2>3 DEF RequestInv, Requested
<1> QED
    BY <1>1, <1>2, <1>3, <1>5, <1>6, <1>7 DEF RequestStep, RequestNext

\* The bounds of a request, whatever the exchange answers: at most three
\* attempts, and none of them follows one that may have been carried out.
THEOREM RequestInvariant == Spec => []RequestInv
<1>1. Init => RequestInv
    BY DEF Init, NoRequest, RequestInv, Requested, Waits, Bounded, MaxAttempts
<1>2. RequestInv /\ [Next]_vars => RequestInv'
    BY OnlyRequestSteps, RequestInvKept
<1> QED
    BY <1>1, <1>2, PTL DEF Spec

-----------------------------------------------------------------------------
(* The request of the client implements the promise to its callers.        *)

LEMMA PromiseBegins == Init => Promise!Init
BY DEF Init, NoRequest, Promise!Init

LEMMA PromiseStep == RequestInv /\ RequestStep => [Promise!Next]_(Promise!promiseVars)
<1> SUFFICES ASSUME RequestInv, RequestStep
             PROVE  Promise!Next \/ UNCHANGED Promise!promiseVars
    OBVIOUS
<1>1. CASE Call
    <2>1. request.phase = "idle" /\ request' = [phase |-> "sent", attempt |-> 1, waited |-> 0,
                                                executed |-> 0, answer |-> "none"]
        BY <1>1 DEF Call, NoRequest
    <2> QED
        BY <2>1 DEF Promise!Next, Promise!Ask
<1>2. CASE Taken
    BY <1>2 DEF Taken, NoRequest, Promise!Next, Promise!Forget
<1>3. CASE UNCHANGED request
    BY <1>3 DEF Promise!promiseVars
<1>4. CASE Accepted
    <2>1. Reply("confirmed", 1)
        BY <1>4 DEF Accepted
    <2> QED
        BY <2>1, ReplyEffect DEF Promise!Next, Promise!Answer, Promise!Confirm
<1>5. ASSUME NEW e \in {0, 1}, Reply("error", e) PROVE Promise!Next
    BY <1>5, ReplyEffect DEF Promise!Next, Promise!Answer, Promise!Error
<1>6. CASE Rejected \/ NetworkError
    BY <1>5, <1>6 DEF Rejected, NetworkError, Failure
<1>7. ASSUME NEW pause, Sleep(pause)
      PROVE  UNCHANGED Promise!promiseVars
    <2>1. request.phase = "sent"
          /\ request' = [phase |-> "pausing", attempt |-> request.attempt,
                         waited |-> request.waited + pause, executed |-> request.executed,
                         answer |-> request.answer]
        BY <1>7, RequestFields DEF Sleep
    <2> QED
        BY <2>1 DEF Promise!promiseVars
<1>8. CASE SendAgain
    <2>1. request.phase = "pausing"
          /\ request' = [phase |-> "sent", attempt |-> request.attempt + 1,
                         waited |-> request.waited, executed |-> request.executed,
                         answer |-> request.answer]
        BY <1>8, RequestFields DEF SendAgain
    <2> QED
        BY <2>1 DEF Promise!promiseVars
<1>9. CASE RateLimited
    BY <1>5, <1>7, <1>9 DEF RateLimited
<1> QED
    BY <1>1, <1>2, <1>3, <1>4, <1>6, <1>8, <1>9 DEF RequestStep, RequestNext

\* Refinement: however often the client sends a request again, the exchange
\* carries it out at most once, and a confirmation means exactly once.
THEOREM ClientKeepsPromise == Spec => RequestKeepsPromise
<1>1. RequestInv /\ [Next]_vars => [Promise!Next]_(Promise!promiseVars)
    BY OnlyRequestSteps, PromiseStep
<1> QED
    BY <1>1, PromiseBegins, RequestInvariant, PTL DEF Spec, RequestKeepsPromise, Promise!Spec

-----------------------------------------------------------------------------
(* The connection that the API shows.                                      *)

\* The counters stay a record with a flag.
Flagged == "connected" \in DOMAIN market

\* While main has not reached the stream the row is that of the Runner before.
ShownInv == Flagged /\ (Shown.connected /\ ~Running => excuses # {})

LEMMA FlagKept == Flagged /\ [Next]_vars => Flagged'
<1> SUFFICES ASSUME Flagged, [Next]_vars PROVE Flagged'
    OBVIOUS
<1> USE DEF Flagged
<1>1. CASE AgentStep
    BY <1>1 DEF AgentStep, Ignores, Analyst, Strategy, Risk, ExecutionBlocks, ExecutionAsks,
        ExecutionGoesOn, PositionManager, PublishReturns, Requests, RegisterGenerated,
        RegisterRejectedAnalysis, RegisterAnalysis, RegisterRejected, RegisterExecution
<1>2. CASE Candle \/ StreamStep \/ LinkDies
    BY <1>2 DEF Candle, StreamStep, StreamConnects, StreamFails, StreamWakesUp, LinkDies,
        RegisterKline, SetConnected
<1>3. CASE Flush \/ Start \/ StreamBegins \/ Shutdown \/ ShutdownEarly \/ Killed
    BY <1>3 DEF Flush, Start, StreamBegins, Shutdown, ShutdownEarly, Killed, FinalFlush, Fresh
<1>4. CASE UNCHANGED vars
    BY <1>4 DEF vars
<1> QED
    BY <1>1, <1>2, <1>3, <1>4 DEF Next

LEMMA ShownKept == ShownInv /\ [Next]_vars => ShownInv'
<1> SUFFICES ASSUME ShownInv, [Next]_vars PROVE ShownInv'
    OBVIOUS
<1>1. Flagged'
    BY FlagKept DEF ShownInv
<1> DEFINE Excused == Shown.connected /\ ~Running => excuses # {}
<1> SUFFICES Excused'
    BY <1>1 DEF ShownInv
<1>2. ASSUME UNCHANGED <<row, excuses>>, Running' = Running
      PROVE  Excused'
    BY <1>2 DEF ShownInv, Shown, Fresh
<1>3. CASE AgentStep
    <2>1. UNCHANGED <<row, excuses>> /\ Running' = Running
        BY <1>3 DEF AgentStep, Ignores, Analyst, Strategy, Risk, ExecutionBlocks, ExecutionAsks,
            ExecutionGoesOn, PositionManager, PublishReturns, Requests, streamVars, runnerVars,
            Running, Up
    <2> QED
        BY <1>2, <2>1
<1>4. CASE Candle \/ LinkDies
    <2>1. UNCHANGED <<row, excuses>> /\ Running' = Running
        BY <1>4 DEF Candle, LinkDies, GoesDead, streamVars, runnerVars, Running, Up
    <2> QED
        BY <1>2, <2>1
<1>5. CASE StreamStep
    <2>1. UNCHANGED <<row, excuses>> /\ Running' = Running
        BY <1>5 DEF StreamStep, StreamConnects, StreamFails, StreamWakesUp, Connects, Errs,
            Stale, ConnectTimesOut, WakesUp, streamVars, runnerVars, Running, Up
    <2> QED
        BY <1>2, <2>1
<1>6. CASE Flush \/ StreamBegins
    <2>1. Running'
        BY <1>6 DEF Flush, StreamBegins, streamVars, Running, Up
    <2> QED
        BY <2>1, Zenon
<1>7. CASE Start \/ ShutdownEarly
    <2>1. UNCHANGED <<row, excuses>> /\ Running' = Running
        BY <1>7 DEF Start, ShutdownEarly, Gone, Running, Up
    <2> QED
        BY <1>2, <2>1
<1>8. CASE Shutdown
    <2>1. PICK succeeds \in BOOLEAN :
              /\ FinalFlush(succeeds)
              /\ excuses' = IF succeeds THEN excuses \ {"killed", "flush"}
                            ELSE excuses \cup {"flush"}
        BY <1>8 DEF Shutdown
    <2>2. CASE succeeds
        <3>1. ~row'.connected
            BY <2>1, <2>2 DEF FinalFlush, ShownInv, Flagged
        <3>2. ~Shown'.connected
            BY <3>1 DEF Shown, Fresh
        <3> QED
            BY <3>2, Zenon
    <2>3. CASE ~succeeds
        <3>1. excuses' # {}
            BY <2>1, <2>3
        <3> QED
            BY <3>1, Zenon
    <2> QED
        BY <2>2, <2>3
<1>9. CASE Killed
    <2>1. excuses' # {}
        BY <1>9 DEF Killed
    <2> QED
        BY <2>1, Zenon
<1>10. CASE UNCHANGED vars
    <2>1. UNCHANGED <<row, excuses>> /\ Running' = Running
        BY <1>10 DEF vars, Running, Up
    <2> QED
        BY <1>2, <2>1
<1> QED
    BY <1>3, <1>4, <1>5, <1>6, <1>7, <1>8, <1>9, <1>10 DEF Next

\* The API shows no connection of a Runner that has ended in order: neither
\* the periodic flush, nor a restart, nor an end before the first flush can
\* bring the flag back.
THEOREM ShownConnectedEver == Spec => []ShownConnected
<1>1. Init => ShownInv
    BY DEF Init, Fresh, ShownInv, Flagged, Shown
<1>2. ShownInv => ShownConnected
    BY DEF ShownInv, ShownConnected, Running
<1> QED
    BY <1>1, <1>2, ShownKept, PTL DEF Spec
-----------------------------------------------------------------------------
(* The publishes under way.                                                *)

Messages == {"candle", "analysis", "signal", "decision"}

\* The agent that the publish f is at publishes the message.
Passes(f, message) ==
    /\ f.left > 0
    /\ <<f.message, At(f), message>> \in
          {<<"candle", "Analyst", "analysis">>, <<"analysis", "Strategy", "signal">>,
           <<"signal", "Risk", "decision">>}

Frame == [message : Messages, left : 0..Len(Subscribers)]

\* A publish is called by the agent that the publish below it is at.
Chained(s) == \A i \in 2..Len(s) : Passes(s[i], s[i - 1].message)

StackInv ==
    /\ stack \in Seq(Frame) /\ Chained(stack)
    /\ stats \in [published : Nat, succeeded : Nat, failed : Nat]

LEMMA SubscribersCounted == Len(Subscribers) \in Nat /\ DOMAIN Subscribers = 1..Len(Subscribers)
BY BusAssumption

\* The parts of a stack.
LEMMA StackParts ==
    ASSUME NEW s \in Seq(Frame), s # << >>
    PROVE  /\ Len(s) \in Nat /\ Len(s) > 0 /\ DOMAIN s = 1..Len(s)
           /\ Head(s) = s[1] /\ Head(s) \in Frame
           /\ Tail(s) \in Seq(Frame) /\ Len(Tail(s)) = Len(s) - 1
           /\ \A i \in 1..(Len(s) - 1) : Tail(s)[i] = s[i + 1]
           /\ s = <<Head(s)>> \o Tail(s)
<1>1. /\ Len(s) \in Nat /\ Len(s) > 0 /\ DOMAIN s = 1..Len(s) /\ Head(s) = s[1]
    BY EmptySeq, LenProperties
<1>2. /\ Head(s) \in Frame /\ Tail(s) \in Seq(Frame) /\ Len(Tail(s)) = Len(s) - 1
      /\ \A i \in 1..(Len(s) - 1) : Tail(s)[i] = s[i + 1]
    BY HeadTailProperties
<1> DEFINE t == <<Head(s)>> \o Tail(s)
<1>3. t \in Seq(Frame) /\ Len(t) = Len(s) /\ \A i \in 1..Len(s) : t[i] = s[i]
    BY <1>1, <1>2
<1> HIDE DEF t
<1>4. s = t
    BY <1>3, SeqEqual
<1> QED
    BY <1>1, <1>2, <1>4 DEF t

\* A publish more, in front of those under way.
LEMMA Pushed ==
    ASSUME NEW s \in Seq(Frame), NEW f \in Frame
    PROVE  LET t == <<f>> \o s IN
           /\ t \in Seq(Frame) /\ t # << >> /\ Len(t) = Len(s) + 1 /\ Head(t) = f /\ Tail(t) = s
           /\ t[1] = f /\ \A i \in 1..Len(s) : t[i + 1] = s[i]
           /\ \A i \in 2..Len(t) : t[i] = s[i - 1]
           /\ s # << >> => s = <<Head(s)>> \o Tail(s)
<1> DEFINE t == <<f>> \o s
<1>1. /\ t \in Seq(Frame) /\ Len(t) = Len(s) + 1 /\ t[1] = f /\ Len(s) \in Nat
      /\ \A i \in 1..Len(s) : t[i + 1] = s[i]
    OBVIOUS
<1>2. \A i \in 2..Len(t) : t[i] = s[i - 1]
    <2> TAKE i \in 2..Len(t)
    <2>1. i - 1 \in 1..Len(s) /\ i = (i - 1) + 1
        BY <1>1
    <2> QED
        BY <1>1, <2>1
<1> HIDE DEF t
<1>3. t # << >> /\ Head(t) = f
    BY <1>1
<1>4. Tail(t) \in Seq(Frame) /\ Len(Tail(t)) = Len(s) /\ \A i \in 1..Len(s) : Tail(t)[i] = s[i]
    BY <1>1, <1>3, HeadTailProperties
<1>5. Tail(t) = s
    BY <1>4, SeqEqual
<1> QED
    BY <1>1, <1>2, <1>3, <1>5, StackParts DEF t

\* The message of a publish when the agent it is at has been served.
Passed(f) == [f EXCEPT !.left = @ - 1]

LEMMA PassedFrame ==
    ASSUME NEW f \in Frame, f.left > 0
    PROVE  Passed(f) \in Frame /\ Passed(f).left = f.left - 1 /\ Passed(f).message = f.message
BY SubscribersCounted DEF Frame, Messages, Passed

LEMMA ServedIsPassed ==
    ASSUME NEW s \in Seq(Frame), s # << >>, Head(s).left > 0
    PROVE  Served(s) = <<Passed(Head(s))>> \o Tail(s)
<1> DEFINE f == Passed(Head(s))
           t == <<f>> \o Tail(s)
<1>1. f \in Frame
    BY StackParts, PassedFrame
<1>2. Served(s) = [s EXCEPT ![1] = f]
    BY StackParts DEF Served, Passed
<1> HIDE DEF f
<1>3. 1 \in 1..Len(s)
    BY StackParts
<1>4. /\ Served(s) \in Seq(Frame) /\ Len(Served(s)) = Len(s)
      /\ \A i \in 1..Len(s) : Served(s)[i] = IF i = 1 THEN f ELSE s[i]
    BY <1>1, <1>2, <1>3, ExceptSeq
<1>5. /\ t \in Seq(Frame) /\ Len(t) = Len(s) /\ t[1] = f
      /\ \A i \in 2..Len(s) : t[i] = Tail(s)[i - 1]
    BY <1>1, StackParts, Pushed
<1> HIDE DEF t
<1>6. \A i \in 2..Len(s) : t[i] = s[i]
    <2> TAKE i \in 2..Len(s)
    <2>1. i - 1 \in 1..(Len(s) - 1) /\ (i - 1) + 1 = i
        BY StackParts
    <2> QED
        BY <1>5, <2>1, StackParts
<1>7. \A i \in 1..Len(s) : Served(s)[i] = t[i]
    BY <1>4, <1>5, <1>6, <1>3
<1>8. Served(s) = t
    BY <1>4, <1>5, <1>7, SeqEqual
<1> QED
    BY <1>8 DEF t, f

\* What is undelivered is what the publish in front and what the others have.
LEMMA UndeliveredFinite ==
    ASSUME NEW s \in Seq(Frame)
    PROVE  IsFiniteSet(Undelivered(s)) /\ Cardinality(Undelivered(s)) \in Nat
<1>1. Len(s) \in Int /\ Len(Subscribers) \in Int
    BY SubscribersCounted
<1>2. IsFiniteSet(1..Len(s)) /\ IsFiniteSet(1..Len(Subscribers))
    BY <1>1, FS_Interval
<1>3. IsFiniteSet((1..Len(s)) \X (1..Len(Subscribers)))
    BY <1>2, FS_Product
<1>4. Undelivered(s) \subseteq (1..Len(s)) \X (1..Len(Subscribers))
    BY DEF Undelivered
<1>5. IsFiniteSet(Undelivered(s))
    BY <1>3, <1>4, FS_Subset
<1> QED
    BY <1>5, FS_CardinalityType

LEMMA UndeliveredAdds ==
    ASSUME NEW s \in Seq(Frame), NEW f \in Frame
    PROVE  Cardinality(Undelivered(<<f>> \o s)) = f.left + Cardinality(Undelivered(s))
<1> DEFINE t == <<f>> \o s
           n == Len(s)
           N == Len(Subscribers)
           New == {n + 1} \X (1..f.left)
<1>1. n \in Nat /\ N \in Nat /\ f.left \in 0..N
    BY SubscribersCounted DEF Frame
<1>2. /\ Len(t) = n + 1 /\ t[1] = f /\ \A i \in 1..n : t[i + 1] = s[i]
    BY Pushed
<1>3. Undelivered(t) = {d \in (1..(n + 1)) \X (1..N) : d[2] <= t[(n + 1) + 1 - d[1]].left}
    BY <1>2 DEF Undelivered
<1>4. Undelivered(s) = {d \in (1..n) \X (1..N) : d[2] <= s[n + 1 - d[1]].left}
    BY DEF Undelivered
<1> HIDE DEF t, n, N
<1>5. ASSUME NEW i \in 1..(n + 1), NEW k \in 1..N
      PROVE  <<i, k>> \in Undelivered(t) <=> (<<i, k>> \in Undelivered(s) \/ <<i, k>> \in New)
    <2>1. CASE i = n + 1
        <3>1. (n + 1) + 1 - i = 1 /\ i \notin 1..n
            BY <1>1, <2>1
        <3>2. <<i, k>> \in Undelivered(t) <=> k <= f.left
            BY <1>2, <1>3, <3>1
        <3>3. <<i, k>> \notin Undelivered(s)
            BY <1>4, <3>1
        <3>4. <<i, k>> \in New <=> k <= f.left
            BY <1>1, <2>1
        <3> QED
            BY <3>2, <3>3, <3>4
    <2>2. CASE i # n + 1
        <3>1. i \in 1..n /\ n + 1 - i \in 1..n /\ (n + 1) + 1 - i = (n + 1 - i) + 1
            BY <1>1, <2>2
        <3>2. t[(n + 1) + 1 - i] = s[n + 1 - i]
            BY <1>2, <3>1
        <3>3. <<i, k>> \in Undelivered(t) <=> <<i, k>> \in Undelivered(s)
            BY <1>3, <1>4, <3>1, <3>2
        <3>4. <<i, k>> \notin New
            BY <2>2
        <3> QED
            BY <3>3, <3>4
    <2> QED
        BY <2>1, <2>2
<1>6. Undelivered(t) \subseteq (1..(n + 1)) \X (1..N)
    BY <1>3
<1>7. Undelivered(s) \subseteq (1..(n + 1)) \X (1..N) /\ New \subseteq (1..(n + 1)) \X (1..N)
    <2>1. 1..n \subseteq 1..(n + 1) /\ n + 1 \in 1..(n + 1) /\ 1..f.left \subseteq 1..N
        BY <1>1
    <2> QED
        BY <1>4, <2>1
<1> HIDE DEF New
<1>8. Undelivered(t) = Undelivered(s) \cup New
    BY <1>5, <1>6, <1>7
<1>9. Undelivered(s) \cap New = {}
    <2>1. n + 1 \notin 1..n
        BY <1>1
    <2> QED
        BY <1>4, <2>1 DEF New
<1>10. IsFiniteSet(New) /\ Cardinality(New) = f.left
    <2>1. IsFiniteSet(1..f.left) /\ Cardinality(1..f.left) = f.left
        <3>1. 1 \in Int /\ f.left \in Int /\ f.left >= 0
            BY <1>1
        <3>2. /\ IsFiniteSet(1..f.left)
              /\ Cardinality(1..f.left) = IF 1 > f.left THEN 0 ELSE f.left - 1 + 1
            BY <3>1, FS_Interval, Zenon
        <3> QED
            BY <3>1, <3>2
    <2>2. IsFiniteSet({n + 1}) /\ Cardinality({n + 1}) = 1
        BY FS_Singleton
    <2>3. IsFiniteSet(New) /\ Cardinality(New) = 1 * f.left
        <3>1. IsFiniteSet({n + 1} \X (1..f.left))
              /\ Cardinality({n + 1} \X (1..f.left)) = Cardinality({n + 1}) * Cardinality(1..f.left)
            BY <2>1, <2>2, FS_Product
        <3> QED
            BY <2>1, <2>2, <3>1 DEF New
    <2> QED
        BY <1>1, <2>3
<1>11. Cardinality(Undelivered(t)) = Cardinality(Undelivered(s)) + f.left - 0
    BY <1>8, <1>9, <1>10, UndeliveredFinite, FS_Union, FS_EmptySet
<1> QED
    BY <1>1, <1>11, UndeliveredFinite DEF t

\* What a step may do to the bus.
Begins(message) == (Quiet \/ Passes(Head(stack), message)) /\ Publish(message)

Serves ==
    /\ ~Quiet /\ Head(stack).left > 0
    /\ Returns \/ Raises

BusStep ==
    \/ \E message \in Messages : Begins(message)
    \/ Serves \/ Published
    \/ stack' = << >> /\ stats' = NoStats
    \/ UNCHANGED busVars

\* The request under way is that of the execution agent, at its decision.
AskedByExecution == request.phase # "idle" => Handles("Execution", "decision")

LEMMA IgnoresIsIdle == StackInv /\ AskedByExecution /\ Ignores => request.phase = "idle"
<1> SUFFICES ASSUME StackInv, Ignores, Handles("Execution", "decision") PROVE FALSE
    BY DEF AskedByExecution
<1> DEFINE f == Head(stack)
           i == Len(Subscribers) + 1 - f.left
<1>1. f \in Frame /\ f.left > 0 /\ f.message = "decision" /\ At(f) = "Execution"
    BY StackParts DEF StackInv, Quiet, Handles
<1>2. i \in DOMAIN Subscribers /\ Subscribers[i] = "Execution"
    BY <1>1, SubscribersCounted DEF Frame, At
<1>3. "Execution" \in ToSet(Subscribers)
    BY <1>2 DEF ToSet
<1>4. Interest["Execution"] = "decision"
    BY <1>3 DEF Interest
<1> QED
    BY <1>1, <1>4 DEF Ignores

LEMMA OnlyBusSteps == StackInv /\ AskedByExecution /\ [Next]_vars => BusStep
<1> SUFFICES ASSUME StackInv, AskedByExecution, [Next]_vars PROVE BusStep
    OBVIOUS
<1>1. ASSUME NEW agent, NEW message, Handles(agent, message), Returns \/ Raises
      PROVE  BusStep
    BY <1>1 DEF Handles, BusStep, Serves
<1>2. CASE Ignores
    BY <1>2 DEF Ignores, BusStep, Serves
<1>3. CASE Analyst
    BY <1>1, <1>3 DEF Analyst, Handles, BusStep, Begins, Passes, Messages
<1>4. CASE Strategy
    BY <1>1, <1>4 DEF Strategy, Handles, BusStep, Begins, Passes, Messages
<1>5. CASE Risk
    BY <1>1, <1>5 DEF Risk, Handles, BusStep, Begins, Passes, Messages
<1>6. CASE ExecutionBlocks \/ PositionManager
    BY <1>1, <1>6 DEF ExecutionBlocks, PositionManager
<1>7. CASE ExecutionGoesOn
    <2>1. Handles("Execution", "decision") /\ (Returns \/ Raises)
        BY <1>7 DEF ExecutionGoesOn, AskedByExecution
    <2> QED
        BY <1>1, <2>1
<1>8. CASE PublishReturns
    BY <1>8 DEF PublishReturns, BusStep
<1>9. CASE Candle
    BY <1>9 DEF Candle, BusStep, Begins, Messages
<1>10. CASE Shutdown \/ ShutdownEarly \/ Killed
    BY <1>10 DEF Shutdown, ShutdownEarly, Killed, Gone, BusStep
<1>11. CASE ExecutionAsks \/ Requests
    BY <1>11 DEF ExecutionAsks, Requests, BusStep
<1>12. CASE StreamStep \/ LinkDies \/ Flush \/ Start \/ StreamBegins
    BY <1>12 DEF StreamStep, StreamConnects, StreamFails, StreamWakesUp, LinkDies, Flush, Start,
        StreamBegins, BusStep
<1>13. CASE UNCHANGED vars
    BY <1>13 DEF vars, busVars, BusStep
<1> QED
    BY <1>2, <1>3, <1>4, <1>5, <1>6, <1>7, <1>8, <1>9, <1>10, <1>11, <1>12, <1>13
        DEF Next, AgentStep

LEMMA AskedKept == StackInv /\ AskedByExecution /\ [Next]_vars => AskedByExecution'
<1> SUFFICES ASSUME StackInv, AskedByExecution, [Next]_vars PROVE AskedByExecution'
    OBVIOUS
<1>1. ASSUME request.phase = "idle", UNCHANGED request PROVE AskedByExecution'
    BY <1>1 DEF AskedByExecution
<1>2. ASSUME AskedByExecution, UNCHANGED <<request, busVars>> PROVE AskedByExecution'
    BY <1>2 DEF AskedByExecution, Handles, Quiet, busVars
<1>3. ASSUME NEW agent, NEW message, Handles(agent, message),
             agent # "Execution" \/ message # "decision"
      PROVE  request.phase = "idle"
    BY <1>3 DEF AskedByExecution, Handles
<1>4. CASE Ignores
    BY <1>1, <1>4, IgnoresIsIdle DEF Ignores
<1>5. CASE Analyst \/ Strategy \/ Risk \/ PositionManager
    BY <1>1, <1>3, <1>5 DEF Analyst, Strategy, Risk, PositionManager
<1>6. CASE ExecutionBlocks
    BY <1>1, <1>6 DEF ExecutionBlocks
<1>7. CASE ExecutionGoesOn \/ Shutdown \/ ShutdownEarly \/ Killed
    BY <1>7 DEF ExecutionGoesOn, Taken, Shutdown, ShutdownEarly, Killed, Gone, NoRequest,
        AskedByExecution
<1>8. CASE PublishReturns
    <2>1. ~Handles("Execution", "decision")
        BY <1>8 DEF PublishReturns, Published, Handles
    <2>2. request.phase = "idle" /\ UNCHANGED request
        BY <1>8, <2>1 DEF PublishReturns, AskedByExecution
    <2> QED
        BY <1>1, <2>2
<1>9. CASE Candle
    BY <1>1, <1>9 DEF Candle, AskedByExecution, Handles
<1>10. CASE ExecutionAsks
    BY <1>10 DEF ExecutionAsks, AskedByExecution, Handles, Quiet, busVars
<1>11. CASE Requests
    <2>1. request.phase # "idle"
        BY <1>11 DEF Requests, RequestNext, Accepted, Rejected, NetworkError, Failure, RateLimited,
            Reply, Sleep, SendAgain
    <2> QED
        BY <1>11, <2>1 DEF Requests, AskedByExecution, Handles, Quiet, busVars
<1>12. CASE StreamStep \/ LinkDies \/ Flush \/ Start \/ StreamBegins
    BY <1>2, <1>12 DEF StreamStep, StreamConnects, StreamFails, StreamWakesUp, LinkDies, Flush, Start,
        StreamBegins
<1>13. CASE UNCHANGED vars
    BY <1>2, <1>13 DEF vars, busVars
<1> QED
    BY <1>4, <1>5, <1>6, <1>7, <1>8, <1>9, <1>10, <1>11, <1>12, <1>13 DEF Next, AgentStep

\* publish returns, to the handler that called it or to the stream.
LEMMA PublishedParts ==
    ASSUME StackInv, Published
    PROVE  /\ stack # << >> /\ Head(stack).left = 0
           /\ \/ /\ Tail(stack) # << >> /\ stack' = Served(Tail(stack))
                 /\ stats' = [stats EXCEPT !.succeeded = @ + 1]
              \/ Tail(stack) = << >> /\ stack' = << >> /\ stats' = stats
<1>1. stack # << >> /\ Head(stack).left = 0
    BY DEF Published, Quiet
<1>2. /\ Len(stack) \in Nat /\ Tail(stack) \in Seq(Frame) /\ Len(Tail(stack)) = Len(stack) - 1
    BY <1>1, StackParts DEF StackInv
<1>3. Tail(stack) = << >> <=> Len(stack) = 1
    <2>1. CASE Tail(stack) = << >>
        <3> DEFINE n == Len(stack)
                   m == Len(Tail(stack))
        <3>1. n \in Nat /\ m = n - 1 /\ m = 0
            BY <1>2, <2>1
        <3> HIDE DEF n, m
        <3>2. n = 1
            BY <3>1
        <3> QED
            BY <2>1, <3>2 DEF n
    <2>2. CASE Tail(stack) # << >>
        <3>1. Len(Tail(stack)) > 0
            BY <1>2, <2>2, StackParts
        <3> QED
            BY <1>2, <2>2, <3>1
    <2> QED
        BY <2>1, <2>2
<1>4. CASE Len(stack) > 1
    <2>1. Len(stack) # 1
        BY <1>2, <1>4
    <2>2. stack' = Served(Tail(stack)) /\ stats' = [stats EXCEPT !.succeeded = @ + 1]
        BY <2>1 DEF Published
    <2> QED
        BY <1>1, <1>3, <2>1, <2>2
<1>5. CASE ~(Len(stack) > 1)
    <2>1. Len(stack) = 1 /\ stack' = << >> /\ stats' = stats
        BY <1>5 DEF Published
    <2> QED
        BY <1>1, <1>3, <2>1
<1> QED
    BY <1>4, <1>5

\* What each kind of bus step leaves.
LEMMA ChainedAbove ==
    ASSUME NEW s \in Seq(Frame), Chained(s), NEW f \in Frame,
           s = << >> \/ Passes(Head(s), f.message)
    PROVE  Chained(<<f>> \o s)
<1> DEFINE t == <<f>> \o s
<1>1. Len(t) = Len(s) + 1 /\ t[1] = f /\ Len(s) \in Nat /\ \A i \in 2..Len(t) : t[i] = s[i - 1]
    BY Pushed, LenProperties
<1> HIDE DEF t
<1> SUFFICES ASSUME NEW i \in 2..Len(t) PROVE Passes(t[i], t[i - 1].message)
    BY DEF Chained, t
<1>2. t[i] = s[i - 1] /\ s # << >>
    BY <1>1
<1>3. CASE i = 2
    BY <1>1, <1>2, <1>3, StackParts
<1>4. CASE i # 2
    <2>1. i - 1 \in 2..Len(s) /\ i - 1 \in 2..Len(t)
        BY <1>1, <1>4
    <2>2. t[i - 1] = s[(i - 1) - 1]
        BY <1>1, <2>1
    <2> QED
        BY <1>2, <2>1, <2>2 DEF Chained
<1> QED
    BY <1>3, <1>4

LEMMA ChainedBelow ==
    ASSUME NEW s \in Seq(Frame), Chained(s), s # << >>
    PROVE  /\ Chained(Tail(s))
           /\ Tail(s) # << >> => Passes(Head(Tail(s)), Head(s).message)
<1>1. /\ Len(s) \in Nat /\ Len(s) > 0 /\ Head(s) = s[1]
      /\ Tail(s) \in Seq(Frame) /\ Len(Tail(s)) = Len(s) - 1
      /\ \A i \in 1..(Len(s) - 1) : Tail(s)[i] = s[i + 1]
    BY StackParts
<1>2. Chained(Tail(s))
    <2> SUFFICES ASSUME NEW i \in 2..Len(Tail(s))
                 PROVE  Passes(Tail(s)[i], Tail(s)[i - 1].message)
        BY DEF Chained
    <2>1. /\ i \in 1..(Len(s) - 1) /\ i - 1 \in 1..(Len(s) - 1)
          /\ (i - 1) + 1 = i /\ i + 1 \in 2..Len(s) /\ (i + 1) - 1 = i
        BY <1>1
    <2>2. Tail(s)[i] = s[i + 1] /\ Tail(s)[i - 1] = s[i]
        BY <1>1, <2>1
    <2> QED
        BY <2>1, <2>2 DEF Chained
<1>3. ASSUME Tail(s) # << >>
      PROVE  Passes(Head(Tail(s)), Head(s).message)
    <2>1. Len(Tail(s)) > 0 /\ Head(Tail(s)) = Tail(s)[1]
        BY <1>1, <1>3, StackParts
    <2>2. 1 \in 1..(Len(s) - 1) /\ 2 \in 2..Len(s)
        BY <1>1, <2>1
    <2>3. Passes(s[2], s[2 - 1].message)
        BY <2>2 DEF Chained
    <2>4. Head(Tail(s)) = s[2] /\ 2 - 1 = 1
        BY <1>1, <2>1, <2>2
    <2> QED
        BY <1>1, <2>3, <2>4
<1> QED
    BY <1>2, <1>3

\* A frame that is served is at the next agent, and its caller where it was.
LEMMA ServedChained ==
    ASSUME NEW s \in Seq(Frame), s # << >>, Head(s).left > 0, Chained(s)
    PROVE  /\ Served(s) \in Seq(Frame) /\ Chained(Served(s)) /\ Served(s) # << >>
           /\ Head(Served(s)) = Passed(Head(s)) /\ Tail(Served(s)) = Tail(s)
           /\ Cardinality(Undelivered(Served(s))) = Cardinality(Undelivered(s)) - 1
<1> DEFINE f == Passed(Head(s))
<1>1. f \in Frame /\ f.message = Head(s).message /\ f.left = Head(s).left - 1
      /\ Tail(s) \in Seq(Frame) /\ Head(s) \in Frame
    BY StackParts, PassedFrame
<1>2. Served(s) = <<f>> \o Tail(s) /\ s = <<Head(s)>> \o Tail(s)
    BY StackParts, ServedIsPassed
<1>3. Chained(Tail(s)) /\ (Tail(s) # << >> => Passes(Head(Tail(s)), f.message))
    BY <1>1, ChainedBelow
<1> HIDE DEF f
<1>4. /\ Served(s) \in Seq(Frame) /\ Served(s) # << >>
      /\ Head(Served(s)) = f /\ Tail(Served(s)) = Tail(s)
    BY <1>1, <1>2, Pushed
<1>5. Chained(Served(s))
    BY <1>1, <1>2, <1>3, ChainedAbove
<1>6. Cardinality(Undelivered(Served(s))) = f.left + Cardinality(Undelivered(Tail(s)))
    BY <1>1, <1>2, UndeliveredAdds
<1>7. Cardinality(Undelivered(s)) = Head(s).left + Cardinality(Undelivered(Tail(s)))
    BY <1>1, <1>2, UndeliveredAdds
<1>8. Cardinality(Undelivered(Tail(s))) \in Nat
    BY <1>1, UndeliveredFinite
<1>9. Head(s).left \in Nat
    BY <1>1, SubscribersCounted DEF Frame
<1> QED
    BY <1>1, <1>4, <1>5, <1>6, <1>7, <1>8, <1>9 DEF f

LEMMA StackKept == StackInv /\ BusStep => StackInv'
<1> SUFFICES ASSUME StackInv, BusStep PROVE StackInv'
    OBVIOUS
<1> DEFINE Counted == [published : Nat, succeeded : Nat, failed : Nat]
<1>1. stack \in Seq(Frame) /\ Chained(stack) /\ stats \in Counted
    BY DEF StackInv
<1>2. /\ [stats EXCEPT !.published = @ + 1] \in Counted
      /\ [stats EXCEPT !.succeeded = @ + 1] \in Counted
      /\ [stats EXCEPT !.failed = @ + 1] \in Counted
    BY <1>1
<1>3. << >> \in Seq(Frame) /\ Chained(<< >>)
    BY DEF Chained
<1> HIDE DEF Counted
<1>4. ASSUME NEW message \in Messages, Begins(message)
      PROVE  StackInv'
    <2> DEFINE f == [message |-> message, left |-> Len(Subscribers)]
    <2>1. f \in Frame /\ f.message = message
        BY SubscribersCounted DEF Frame
    <2>2. stack' = <<f>> \o stack /\ stats' \in Counted
        BY <1>2, <1>4 DEF Begins, Publish
    <2> HIDE DEF f
    <2>3. stack' \in Seq(Frame)
        BY <1>1, <2>1, <2>2, Pushed
    <2>4. Chained(stack')
        BY <1>1, <1>4, <2>1, <2>2, ChainedAbove DEF Begins, Quiet
    <2> QED
        BY <2>2, <2>3, <2>4 DEF StackInv, Chained, Passes, At, Counted
<1>5. CASE Serves
    <2>1. stack # << >> /\ Head(stack).left > 0 /\ stack' = Served(stack) /\ stats' \in Counted
        BY <1>2, <1>5 DEF Serves, Returns, Raises, Quiet
    <2>2. stack' \in Seq(Frame) /\ Chained(stack')
        BY <1>1, <2>1, ServedChained
    <2> QED
        BY <2>1, <2>2 DEF StackInv, Chained, Passes, At, Counted
<1>6. CASE Published /\ Tail(stack) # << >>
    <2>1. stack # << >> /\ stack' = Served(Tail(stack)) /\ stats' \in Counted
        BY <1>2, <1>6, PublishedParts
    <2>2. Tail(stack) \in Seq(Frame) /\ Tail(stack) # << >>
        BY <1>1, <1>6, <2>1, StackParts
    <2>3. Chained(Tail(stack)) /\ Head(Tail(stack)).left > 0
        BY <1>1, <2>1, <2>2, ChainedBelow DEF Passes
    <2>4. stack' \in Seq(Frame) /\ Chained(stack')
        BY <2>1, <2>2, <2>3, ServedChained
    <2> QED
        BY <2>1, <2>4 DEF StackInv, Chained, Passes, At, Counted
<1>7. CASE Published /\ Tail(stack) = << >>
    <2>1. stack' = << >> /\ stats' = stats
        BY <1>7, PublishedParts
    <2> QED
        BY <1>1, <1>3, <2>1 DEF StackInv, Chained, Passes, At, Counted
<1>8. CASE stack' = << >> /\ stats' = NoStats
    <2>1. NoStats \in Counted
        BY DEF NoStats, Counted
    <2> QED
        BY <1>3, <1>8, <2>1 DEF StackInv, Chained, Passes, At, Counted
<1>9. CASE UNCHANGED busVars
    BY <1>1, <1>9 DEF busVars, StackInv, Chained, Passes, At, Counted
<1> QED
    BY <1>4, <1>5, <1>6, <1>7, <1>8, <1>9 DEF BusStep

LEMMA OneMore == ASSUME NEW n \in Nat, NEW p \in Nat PROVE n * (p + 1) = n * p + n
OBVIOUS

LEMMA ServedKept == StackInv /\ EveryoneServed /\ BusStep => EveryoneServed'
<1> SUFFICES ASSUME StackInv, EveryoneServed, BusStep PROVE EveryoneServed'
    OBVIOUS
<1> DEFINE n == Len(Subscribers)
           U(s) == Cardinality(Undelivered(s))
           p == stats.published
           c == stats.succeeded + stats.failed
<1>1. stack \in Seq(Frame) /\ Chained(stack) /\ stats.succeeded \in Nat /\ stats.failed \in Nat
    BY DEF StackInv
<1>2. n \in Nat /\ p \in Nat /\ c \in Nat /\ n * p \in Nat
    BY SubscribersCounted DEF StackInv
<1>3. n * p = c + U(stack) /\ U(stack) \in Nat
    BY <1>1, UndeliveredFinite DEF EveryoneServed, ToServe
<1>4. EveryoneServed' <=> n * stats'.published = stats'.succeeded + stats'.failed + U(stack')
    BY DEF EveryoneServed, ToServe, Undelivered
<1>5. U(<< >>) = 0
    <2>1. Undelivered(<< >>) = {}
        BY DEF Undelivered
    <2> QED
        BY <2>1, FS_EmptySet
<1>6. stats = [published |-> p, succeeded |-> stats.succeeded, failed |-> stats.failed]
    BY DEF StackInv
<1> HIDE DEF n
<1>7. ASSUME NEW message \in Messages, Begins(message)
      PROVE  EveryoneServed'
    <2> DEFINE f == [message |-> message, left |-> Len(Subscribers)]
    <2>1. f \in Frame /\ f.left = n
        BY SubscribersCounted DEF Frame, n
    <2>2. stack' = <<f>> \o stack
        BY <1>7 DEF Begins, Publish
    <2> HIDE DEF f
    <2>3. U(stack') = n + U(stack)
        BY <1>1, <2>1, <2>2, UndeliveredAdds
    <2>4. /\ stats'.published = p + 1 /\ stats'.succeeded = stats.succeeded
          /\ stats'.failed = stats.failed
        BY <1>6, <1>7 DEF Begins, Publish
    <2>5. n * (p + 1) = n * p + n
        BY <1>2, OneMore
    <2> HIDE DEF U, p
    <2>6. n * stats'.published = n * p + n
        BY <2>4, <2>5
    <2>7. stats'.succeeded + stats'.failed = c
        BY <2>4
    <2> HIDE DEF c
    <2>8. n * stats'.published = stats'.succeeded + stats'.failed + U(stack')
        BY <1>2, <1>3, <2>3, <2>6, <2>7
    <2> QED
        BY <1>4, <2>8
<1>8. ASSUME U(stack') = U(stack) - 1, Returns \/ Raises \/ stats' = [stats EXCEPT !.succeeded = @ + 1]
      PROVE  EveryoneServed'
    <2>1. /\ stats'.published = p
          /\ stats'.succeeded + stats'.failed = c + 1
        BY <1>1, <1>6, <1>8 DEF Returns, Raises
    <2> HIDE DEF U, p, c
    <2> QED
        BY <1>2, <1>3, <1>4, <1>8, <2>1
<1>9. CASE Serves
    <2>1. stack # << >> /\ Head(stack).left > 0 /\ stack' = Served(stack)
        BY <1>9 DEF Serves, Returns, Raises, Quiet
    <2>2. U(stack') = U(stack) - 1
        BY <1>1, <2>1, ServedChained
    <2> QED
        BY <1>8, <1>9, <2>2 DEF Serves
<1>10. ASSUME Published
       PROVE  U(Tail(stack)) = U(stack) /\ Tail(stack) \in Seq(Frame)
    <2>1. /\ stack # << >> /\ Head(stack).left = 0 /\ Head(stack) \in Frame
          /\ Tail(stack) \in Seq(Frame) /\ stack = <<Head(stack)>> \o Tail(stack)
        BY <1>1, <1>10, StackParts DEF Published, Quiet
    <2>2. U(stack) = 0 + U(Tail(stack))
        BY <2>1, UndeliveredAdds
    <2>3. U(Tail(stack)) \in Nat
        BY <2>1, UndeliveredFinite
    <2> QED
        BY <2>1, <2>2, <2>3
<1>11. CASE Published /\ Tail(stack) # << >>
    <2>1. stack # << >> /\ stack' = Served(Tail(stack)) /\ stats' = [stats EXCEPT !.succeeded = @ + 1]
        BY <1>11, PublishedParts
    <2>2. Tail(stack) \in Seq(Frame) /\ Tail(stack) # << >>
        BY <1>1, <1>11, <2>1, StackParts
    <2>3. Chained(Tail(stack)) /\ Head(Tail(stack)).left > 0
        BY <1>1, <2>1, <2>2, ChainedBelow DEF Passes
    <2>4. U(stack') = U(Tail(stack)) - 1
        BY <2>1, <2>2, <2>3, ServedChained
    <2> QED
        BY <1>8, <1>10, <1>11, <2>1, <2>4
<1>12. CASE Published /\ Tail(stack) = << >>
    <2>1. stack' = << >> /\ stats' = stats
        BY <1>12, PublishedParts
    <2>2. U(stack) = U(stack')
        BY <1>10, <1>12, <2>1
    <2> HIDE DEF U
    <2> QED
        BY <1>1, <1>3, <1>4, <2>1, <2>2
<1>13. CASE stack' = << >> /\ stats' = NoStats
    <2>1. stats'.published = 0 /\ stats'.succeeded = 0 /\ stats'.failed = 0 /\ U(stack') = 0
        BY <1>5, <1>13 DEF NoStats
    <2>2. n * 0 = 0
        BY <1>2
    <2> HIDE DEF U
    <2> QED
        BY <1>4, <2>1, <2>2
<1>14. CASE UNCHANGED busVars
    BY <1>3, <1>4, <1>14 DEF busVars
<1> QED
    BY <1>7, <1>9, <1>11, <1>12, <1>13, <1>14 DEF BusStep

BusInv == StackInv /\ AskedByExecution

LEMMA BusBegins == Init => BusInv /\ EveryoneServed
<1> SUFFICES ASSUME Init PROVE BusInv /\ EveryoneServed
    OBVIOUS
<1>1. StackInv
    BY DEF Init, NoStats, StackInv, Chained
<1>2. AskedByExecution
    BY DEF Init, NoRequest, AskedByExecution
<1>3. EveryoneServed
    <2>1. Undelivered(stack) = {}
        BY DEF Init, Undelivered
    <2>2. ToServe = 0
        BY <2>1, FS_EmptySet DEF ToServe
    <2> QED
        BY <2>2, SubscribersCounted DEF Init, NoStats, EveryoneServed
<1> QED
    BY <1>1, <1>2, <1>3 DEF BusInv

LEMMA BusKept == BusInv /\ [Next]_vars => BusInv'
BY OnlyBusSteps, AskedKept, StackKept DEF BusInv

\* The chain of calls behind the publishes under way, whatever the agents do.
THEOREM BusInvariant == Spec => []BusInv
BY BusBegins, BusKept, PTL DEF Spec

\* Every message reaches every agent once, or is on its way to it: a handler
\* that raises, publishes or awaits the exchange costs no other agent one.
THEOREM EveryoneIsServed == Spec => []EveryoneServed
<1>1. BusInv /\ EveryoneServed /\ [Next]_vars => EveryoneServed'
    BY OnlyBusSteps, ServedKept DEF BusInv
<1> QED
    BY <1>1, BusBegins, BusInvariant, PTL DEF Spec

-----------------------------------------------------------------------------
(* The types.                                                              *)

Counted == [connected : BOOLEAN, messages : Nat, analyses : Nat, generated : Nat,
            approved : Nat, rejected : Nat, executed : Nat]

DataInv ==
    /\ market \in Counted /\ (row = NoRow \/ row \in Counted)
    /\ StreamTypeOK
    /\ session \in 0..MaxSessions /\ excuses \subseteq {"killed", "flush"}

LEMMA FreshCounted == Fresh \in Counted
BY DEF Fresh, Counted

LEMMA MarketCounted ==
    ASSUME market \in Counted
    PROVE  /\ \A connected \in BOOLEAN : SetConnected(connected) => market' \in Counted
           /\ (RegisterKline \/ RegisterGenerated \/ RegisterRejectedAnalysis
               \/ RegisterAnalysis \/ RegisterRejected \/ RegisterExecution)
              => market' \in Counted
           /\ [market EXCEPT !.connected = FALSE] \in Counted
<1>1. \A connected \in BOOLEAN : [market EXCEPT !.connected = connected] \in Counted
    BY DEF Counted
<1>2. RegisterKline \/ RegisterAnalysis \/ RegisterRejected => market' \in Counted
    BY DEF Counted, RegisterKline, RegisterAnalysis, RegisterRejected
<1>3. /\ market.connected \in BOOLEAN
      /\ market.messages \in Nat /\ market.analyses \in Nat /\ market.generated \in Nat
      /\ market.approved \in Nat /\ market.rejected \in Nat /\ market.executed \in Nat
      /\ market = [connected |-> market.connected, messages |-> market.messages,
                   analyses |-> market.analyses, generated |-> market.generated,
                   approved |-> market.approved, rejected |-> market.rejected,
                   executed |-> market.executed]
    BY DEF Counted
<1>4. ASSUME RegisterGenerated PROVE market' \in Counted
    <2>1. market' = [connected |-> market.connected, messages |-> market.messages,
                     analyses |-> market.analyses + 1, generated |-> market.generated + 1,
                     approved |-> market.approved, rejected |-> market.rejected,
                     executed |-> market.executed]
        BY <1>3, <1>4 DEF RegisterGenerated
    <2> QED
        BY <1>3, <2>1 DEF Counted
<1>5. ASSUME RegisterRejectedAnalysis PROVE market' \in Counted
    <2>1. market' = [connected |-> market.connected, messages |-> market.messages,
                     analyses |-> market.analyses + 1, generated |-> market.generated,
                     approved |-> market.approved, rejected |-> market.rejected + 1,
                     executed |-> market.executed]
        BY <1>3, <1>5 DEF RegisterRejectedAnalysis
    <2> QED
        BY <1>3, <2>1 DEF Counted
<1>6. ASSUME RegisterExecution PROVE market' \in Counted
    <2>1. market' = [connected |-> market.connected, messages |-> market.messages,
                     analyses |-> market.analyses, generated |-> market.generated,
                     approved |-> market.approved + 1, rejected |-> market.rejected,
                     executed |-> market.executed + 1]
        BY <1>3, <1>6 DEF RegisterExecution
    <2> QED
        BY <1>3, <2>1 DEF Counted
<1> QED
    BY <1>1, <1>2, <1>4, <1>5, <1>6 DEF SetConnected

LEMMA DataKept == DataInv /\ [Next]_vars => DataInv'
<1> SUFFICES ASSUME DataInv, [Next]_vars PROVE DataInv'
    OBVIOUS
<1> DEFINE Rest == UNCHANGED <<streamVars, row, session, excuses>>
<1>1. ASSUME market' \in Counted, Rest PROVE DataInv'
    BY <1>1 DEF DataInv, StreamTypeOK, streamVars, Ceiling
<1>2. market \in Counted
    BY DEF DataInv
<1>3. CASE AgentStep
    <2>1. Rest
        BY <1>3 DEF AgentStep, Ignores, Analyst, Strategy, Risk, ExecutionBlocks, ExecutionAsks,
            ExecutionGoesOn, PositionManager, PublishReturns, Requests, runnerVars
    <2>2. market' = market \/ RegisterGenerated \/ RegisterRejectedAnalysis
          \/ RegisterAnalysis \/ RegisterRejected \/ RegisterExecution
        BY <1>3 DEF AgentStep, Ignores, Analyst, Strategy, Risk, ExecutionBlocks, ExecutionAsks,
            ExecutionGoesOn, PositionManager, PublishReturns, Requests
    <2> QED
        BY <1>1, <1>2, <2>1, <2>2, MarketCounted
<1>4. CASE Candle
    BY <1>1, <1>2, <1>4, MarketCounted DEF Candle, runnerVars
<1>5. CASE StreamStep \/ LinkDies
    <2>1. StreamTypeOK'
        <3>1. stream \in {"off", "starting", "connecting", "receiving", "sleeping"}
              /\ attempts \in 0..6
              /\ link \in {"none", "alive", "dead"}
            BY DEF DataInv, StreamTypeOK, Ceiling
        <3>2. Connects \/ Errs \/ Stale \/ ConnectTimesOut \/ WakesUp \/ GoesDead
            BY <1>5 DEF StreamStep, StreamConnects, StreamFails, StreamWakesUp, LinkDies
        <3>3. CASE Errs
            <4>1. attempts' \in 0..6
                BY <3>1, <3>3 DEF Errs, Ceiling
            <4> QED
                BY <3>3, <4>1 DEF Errs, StreamTypeOK, Ceiling
        <3>4. CASE Connects \/ Stale \/ WakesUp
            BY <3>1, <3>4 DEF Connects, Stale, WakesUp, StreamTypeOK, Ceiling
        <3>5. CASE ConnectTimesOut \/ GoesDead
            BY <3>1, <3>5 DEF ConnectTimesOut, GoesDead, streamVars, StreamTypeOK, Ceiling
        <3> QED
            BY <3>2, <3>3, <3>4, <3>5
    <2>2. UNCHANGED <<row, session, excuses>>
        BY <1>5 DEF StreamStep, StreamConnects, StreamFails, StreamWakesUp, LinkDies, runnerVars
    <2>3. market' = market \/ SetConnected(TRUE) \/ SetConnected(FALSE)
        BY <1>5 DEF StreamStep, StreamConnects, StreamFails, StreamWakesUp, LinkDies
    <2>4. market' \in Counted
        BY <1>2, <2>3, MarketCounted
    <2> QED
        BY <2>1, <2>2, <2>4 DEF DataInv
<1>6. CASE Flush
    BY <1>6 DEF Flush, Upsert, DataInv, StreamTypeOK, streamVars, runnerVars, Ceiling
<1>7. CASE Start
    <2>1. session' \in 0..MaxSessions
        BY <1>7, PipelineAssumption DEF Start, DataInv
    <2>2. StreamTypeOK'
        BY <1>7 DEF Start, DataInv, StreamTypeOK, Ceiling
    <2> QED
        BY <1>7, <2>1, <2>2 DEF Start, DataInv
<1>8. ASSUME Gone PROVE StreamTypeOK'
    BY <1>8 DEF Gone, StreamTypeOK, Ceiling
<1>9. CASE Shutdown
    <2>1. PICK succeeds \in BOOLEAN :
              /\ FinalFlush(succeeds)
              /\ excuses' = IF succeeds THEN excuses \ {"killed", "flush"}
                            ELSE excuses \cup {"flush"}
        BY <1>9 DEF Shutdown
    <2>2. market' \in Counted /\ (row' = NoRow \/ row' \in Counted)
        BY <1>2, <2>1, FreshCounted, MarketCounted DEF FinalFlush, DataInv
    <2>3. excuses' \subseteq {"killed", "flush"}
        BY <2>1 DEF DataInv
    <2> QED
        BY <1>8, <1>9, <2>2, <2>3 DEF Shutdown, DataInv
<1>10. CASE ShutdownEarly \/ Killed
    BY <1>8, <1>10, FreshCounted DEF ShutdownEarly, Killed, DataInv
<1>11. CASE UNCHANGED vars
    BY <1>1, <1>2, <1>11 DEF vars, streamVars
<1>12. CASE StreamBegins
    BY <1>12 DEF StreamBegins, DataInv, StreamTypeOK, runnerVars, Ceiling
<1> QED
    BY <1>3, <1>4, <1>5, <1>6, <1>7, <1>9, <1>10, <1>11, <1>12 DEF Next

THEOREM DataInvariant == Spec => []DataInv
<1>1. Init => DataInv
    BY FreshCounted, PipelineAssumption DEF Init, DataInv, StreamTypeOK, Ceiling
<1> QED
    BY <1>1, DataKept, PTL DEF Spec

\* Every variable keeps its type: no publish serves a subscriber too many, no
\* counter of the bus or of the Runner leaves the numbers.
THEOREM PipelineTypeCorrect == Spec => []TypeOK
<1>1. BusInv => BusTypeOK
    <2> SUFFICES ASSUME StackInv PROVE BusTypeOK
        BY DEF BusInv
    <2>1. ASSUME NEW i \in DOMAIN stack PROVE stack[i].left \in 0..Len(Subscribers)
        <3>1. stack[i] \in Frame
            BY <2>1, LenProperties, ElementOfSeq DEF StackInv
        <3> QED
            BY <3>1 DEF Frame
    <2> QED
        BY <2>1 DEF BusTypeOK, StackInv
<1>2. RequestInv => RequestTypeOK
    BY DEF RequestInv, Requested, RequestTypeOK
<1>3. DataInv => StateTypeOK
    <2>1. ASSUME NEW m \in Counted
          PROVE  /\ DOMAIN m = DOMAIN Fresh /\ m.connected \in BOOLEAN
                 /\ \A c \in Counters : m[c] \in Nat
        BY DEF Counted, Counters, Fresh
    <2> QED
        BY <2>1 DEF DataInv, StateTypeOK
<1>4. BusInv /\ RequestInv /\ DataInv => TypeOK
    BY <1>1, <1>2, <1>3 DEF TypeOK, DataInv
<1> QED
    BY <1>4, BusInvariant, RequestInvariant, DataInvariant, PTL

-----------------------------------------------------------------------------
(* The counters.                                                           *)

\* The agent has still to be served by the publish f.
Ahead(agent, f) == \E k \in 1..f.left : Subscribers[Len(Subscribers) + 1 - k] = agent

\* An analysis that is yet to be counted, and one that is yet to be settled.
Analysable(f) ==
    \/ f.message = "candle" /\ Ahead("Analyst", f)
    \/ f.message = "analysis" /\ Ahead("Strategy", f)
Settleable(f) ==
    \/ f.message = "signal" /\ Ahead("Risk", f)
    \/ f.message = "decision" /\ Ahead("Execution", f)
Due(s) == IF s # << >> /\ Analysable(Head(s)) THEN 1 ELSE 0
Owed(s) == IF s # << >> /\ Settleable(Head(s)) THEN 1 ELSE 0

Balanced(m, due, owed, failed) ==
    /\ m.approved = m.executed
    /\ m.approved + owed <= m.generated
    /\ m.generated <= m.analyses
    /\ m.analyses + due <= m.messages
    /\ m.rejected + m.executed + owed <= m.analyses
    /\ m.analyses <= m.rejected + m.executed + owed + failed

Accounts == Balanced(market, Due(stack), Owed(stack), stats.failed)

LEMMA AtIsAhead == ASSUME NEW f \in Frame, f.left > 0 PROVE Ahead(At(f), f)
<1>1. f.left \in 1..f.left
    BY SubscribersCounted DEF Frame
<1> QED
    BY <1>1 DEF Ahead, At

LEMMA DoneIsNotAhead == ASSUME NEW f \in Frame, f.left = 0, NEW agent PROVE ~Ahead(agent, f)
BY DEF Ahead

LEMMA AllAreAhead ==
    ASSUME NEW f \in Frame, f.left = Len(Subscribers), NEW agent \in {"Risk", "Execution"}
    PROVE  Ahead(agent, f)
<1> DEFINE N == Len(Subscribers)
<1>1. N \in Nat /\ DOMAIN Subscribers = 1..N
    BY SubscribersCounted
<1>2. PICK i \in 1..N : Subscribers[i] = agent
    BY <1>1, AgentsAssumption DEF ToSet
<1> HIDE DEF N
<1>3. N + 1 - i \in 1..N /\ N + 1 - (N + 1 - i) = i
    BY <1>1
<1>4. \E k \in 1..N : Subscribers[N + 1 - k] = agent
    BY <1>2, <1>3
<1> QED
    BY <1>4 DEF Ahead, N

\* Serving takes away the agent that the publish is at, and no other.
LEMMA PassedIsAhead ==
    ASSUME NEW f \in Frame, f.left > 0, NEW agent
    PROVE  Ahead(agent, Passed(f)) <=> Ahead(agent, f) /\ agent # At(f)
<1> DEFINE N == Len(Subscribers)
           S(k) == Subscribers[N + 1 - k]
<1>1. N \in Nat /\ DOMAIN Subscribers = 1..N /\ f.left \in 1..N /\ Passed(f).left = f.left - 1
    BY SubscribersCounted, PassedFrame DEF Frame
<1>2. At(f) = S(f.left)
    BY DEF At
<1>3. \A g : Ahead(agent, g) <=> \E k \in 1..g.left : S(k) = agent
    BY DEF Ahead
<1>4. \A j, k \in 1..N : S(j) = S(k) => j = k
    <2> TAKE j, k \in 1..N
    <2>1. N + 1 - j \in DOMAIN Subscribers /\ N + 1 - k \in DOMAIN Subscribers
        BY <1>1
    <2>2. S(j) = S(k) => N + 1 - j = N + 1 - k
        BY <2>1, AgentsAssumption DEF IsInjective
    <2> HIDE DEF S, N
    <2> QED
        BY <1>1, <2>2
<1> HIDE DEF S, N
<1>5. ASSUME Ahead(agent, Passed(f)) PROVE Ahead(agent, f) /\ agent # At(f)
    <2>1. PICK k \in 1..(f.left - 1) : S(k) = agent
        BY <1>1, <1>3, <1>5
    <2>2. k \in 1..f.left /\ k \in 1..N /\ f.left \in 1..N /\ k # f.left
        BY <1>1, <2>1
    <2> QED
        BY <1>2, <1>3, <1>4, <2>1, <2>2
<1>6. ASSUME Ahead(agent, f), agent # At(f) PROVE Ahead(agent, Passed(f))
    <2>1. PICK k \in 1..f.left : S(k) = agent
        BY <1>3, <1>6
    <2>2. k # f.left
        BY <1>2, <1>6, <2>1
    <2>3. k \in 1..(f.left - 1)
        BY <1>1, <2>1, <2>2
    <2> QED
        BY <1>1, <1>3, <2>1, <2>3
<1> QED
    BY <1>5, <1>6

\* What a step of the bus makes of the analyses that are awaited.
LEMMA StandingTyped == \A s : Due(s) \in {0, 1} /\ Owed(s) \in {0, 1}
BY DEF Due, Owed

LEMMA QuietStanding == Due(<< >>) = 0 /\ Owed(<< >>) = 0
BY DEF Due, Owed

LEMMA BegunStanding ==
    ASSUME StackInv, NEW message \in Messages, Publish(message)
    PROVE  /\ message \in {"signal", "decision"} => Due(stack') = 0 /\ Owed(stack') = 1
           /\ message \in {"candle", "analysis"} => Owed(stack') = 0
<1> DEFINE f == [message |-> message, left |-> Len(Subscribers)]
<1>1. f \in Frame /\ f.message = message /\ f.left = Len(Subscribers)
    BY SubscribersCounted DEF Frame
<1>2. stack' = <<f>> \o stack
    BY DEF Publish
<1> HIDE DEF f
<1>3. stack' # << >> /\ Head(stack') = f
    BY <1>1, <1>2, Pushed DEF StackInv
<1>4. Ahead("Risk", f) /\ Ahead("Execution", f)
    BY <1>1, AllAreAhead
<1>5. message \in {"signal", "decision"} => ~Analysable(f) /\ Settleable(f)
    BY <1>1, <1>4 DEF Analysable, Settleable
<1>6. message \in {"candle", "analysis"} => ~Settleable(f)
    BY <1>1 DEF Settleable
<1> QED
    BY <1>3, <1>5, <1>6 DEF Due, Owed

\* The handler of f returns or raises: what was awaited of it is not any more,
\* what was awaited of the others still is.
LEMMA ServedStanding ==
    ASSUME NEW s \in Seq(Frame), s # << >>, Head(s).left > 0, Chained(s),
           NEW m, m = Head(s).message, NEW a, a = At(Head(s))
    PROVE  /\ Due(Served(s)) <= Due(s)
           /\ <<m, a>> \in {<<"candle", "Analyst">>, <<"analysis", "Strategy">>} =>
                 Due(s) = 1 /\ Due(Served(s)) = 0
           /\ <<m, a>> \in {<<"signal", "Risk">>, <<"decision", "Execution">>} =>
                 Owed(s) = 1 /\ Owed(Served(s)) = 0
           /\ <<m, a>> \notin {<<"signal", "Risk">>, <<"decision", "Execution">>} =>
                 Owed(Served(s)) = Owed(s)
           /\ m \in {"signal", "decision"} => Due(s) = 0
           /\ m \in {"candle", "analysis"} => Owed(s) = 0
<1> DEFINE f == Head(s)
           g == Passed(f)
<1>1. f \in Frame /\ g \in Frame /\ f.left > 0 /\ f.message = m /\ g.message = m /\ At(f) = a
    BY StackParts, PassedFrame
<1>2. Served(s) # << >> /\ Head(Served(s)) = g
    BY ServedChained
<1>3. Ahead(a, f)
    BY <1>1, AtIsAhead
<1>4. \A agent : Ahead(agent, g) <=> Ahead(agent, f) /\ agent # a
    BY <1>1, PassedIsAhead
<1> HIDE DEF f, g
<1>5. /\ Analysable(g) => Analysable(f)
      /\ <<m, a>> \in {<<"candle", "Analyst">>, <<"analysis", "Strategy">>} =>
            Analysable(f) /\ ~Analysable(g)
      /\ m \in {"signal", "decision"} => ~Analysable(f)
    BY <1>1, <1>3, <1>4, Zenon DEF Analysable
<1>6. /\ <<m, a>> \in {<<"signal", "Risk">>, <<"decision", "Execution">>} =>
            Settleable(f) /\ ~Settleable(g)
      /\ <<m, a>> \notin {<<"signal", "Risk">>, <<"decision", "Execution">>} =>
            (Settleable(g) <=> Settleable(f))
      /\ m \in {"candle", "analysis"} => ~Settleable(f)
    BY <1>1, <1>3, <1>4, Zenon DEF Settleable
<1>7. /\ Due(s) = IF Analysable(f) THEN 1 ELSE 0
      /\ Due(Served(s)) = IF Analysable(g) THEN 1 ELSE 0
      /\ Owed(s) = IF Settleable(f) THEN 1 ELSE 0
      /\ Owed(Served(s)) = IF Settleable(g) THEN 1 ELSE 0
    BY <1>2 DEF Due, Owed, f
<1> QED
    BY <1>5, <1>6, <1>7

\* A publish that returns leaves nothing awaited of the handler that called it.
LEMMA PublishedStanding ==
    ASSUME StackInv, Published
    PROVE  Owed(stack) = 0 /\ Due(stack') = 0 /\ Owed(stack') = 0
<1>1. stack \in Seq(Frame) /\ Chained(stack) /\ stack # << >> /\ Head(stack).left = 0
    BY PublishedParts DEF StackInv
<1>2. Head(stack) \in Frame /\ Tail(stack) \in Seq(Frame) /\ Chained(Tail(stack))
    BY <1>1, StackParts, ChainedBelow
<1>3. Owed(stack) = 0
    BY <1>1, <1>2, DoneIsNotAhead DEF Owed, Settleable
<1>4. CASE Tail(stack) = << >>
    BY <1>3, <1>4, PublishedParts, QuietStanding
<1>5. CASE Tail(stack) # << >>
    <2> DEFINE f == Head(Tail(stack))
    <2>1. Passes(f, Head(stack).message) /\ stack' = Served(Tail(stack))
        BY <1>1, <1>5, ChainedBelow, PublishedParts
    <2>2. f.left > 0
        BY <2>1 DEF Passes
    <2>3. <<f.message, At(f)>> \in {<<"candle", "Analyst">>, <<"analysis", "Strategy">>,
                                    <<"signal", "Risk">>}
        BY <2>1 DEF Passes
    <2>4. Due(stack') = 0 /\ Owed(stack') = 0
        <3> HIDE DEF f
        <3>1. /\ Due(stack') <= Due(Tail(stack))
              /\ <<f.message, At(f)>> \in {<<"candle", "Analyst">>, <<"analysis", "Strategy">>} =>
                    Due(Tail(stack)) = 1 /\ Due(stack') = 0
              /\ <<f.message, At(f)>> \in {<<"signal", "Risk">>, <<"decision", "Execution">>} =>
                    Owed(Tail(stack)) = 1 /\ Owed(stack') = 0
              /\ <<f.message, At(f)>> \notin {<<"signal", "Risk">>, <<"decision", "Execution">>} =>
                    Owed(stack') = Owed(Tail(stack))
              /\ f.message \in {"signal", "decision"} => Due(Tail(stack)) = 0
              /\ f.message \in {"candle", "analysis"} => Owed(Tail(stack)) = 0
            BY <1>2, <1>5, <2>1, <2>2, ServedStanding DEF f
        <3>2. CASE f.message = "signal" /\ At(f) = "Risk"
            BY <3>1, <3>2, StandingTyped
        <3>3. CASE f.message = "candle" /\ At(f) = "Analyst"
            BY <3>1, <3>3
        <3>4. CASE f.message = "analysis" /\ At(f) = "Strategy"
            BY <3>1, <3>4
        <3> QED
            BY <2>3, <3>2, <3>3, <3>4
    <2> QED
        BY <1>3, <2>4
<1> QED
    BY <1>4, <1>5

LEMMA Balancing ==
    ASSUME Balanced(market', Due(stack'), Owed(stack'), stats'.failed) PROVE Accounts'
BY DEF Accounts, Balanced, Due, Owed, Analysable, Settleable, Ahead

\* What is added to the counters: messages, analyses, generated, approved,
\* rejected and executed.
Adds(m, a, g, p, r, x) ==
    /\ market'.messages = market.messages + m /\ market'.analyses = market.analyses + a
    /\ market'.generated = market.generated + g /\ market'.approved = market.approved + p
    /\ market'.rejected = market.rejected + r /\ market'.executed = market.executed + x

LEMMA Registered ==
    ASSUME market \in Counted
    PROVE  /\ RegisterKline => Adds(1, 0, 0, 0, 0, 0)
           /\ RegisterGenerated => Adds(0, 1, 1, 0, 0, 0)
           /\ RegisterRejectedAnalysis => Adds(0, 1, 0, 0, 1, 0)
           /\ RegisterAnalysis => Adds(0, 1, 0, 0, 0, 0)
           /\ RegisterRejected => Adds(0, 0, 0, 0, 1, 0)
           /\ RegisterExecution => Adds(0, 0, 0, 1, 0, 1)
           /\ \A connected : SetConnected(connected) => Adds(0, 0, 0, 0, 0, 0)
<1>1. RegisterKline => Adds(1, 0, 0, 0, 0, 0)
    BY DEF RegisterKline, Counted, Adds
<1>2. RegisterGenerated => Adds(0, 1, 1, 0, 0, 0)
    BY DEF RegisterGenerated, Counted, Adds
<1>3. RegisterRejectedAnalysis => Adds(0, 1, 0, 0, 1, 0)
    BY DEF RegisterRejectedAnalysis, Counted, Adds
<1>4. RegisterAnalysis => Adds(0, 1, 0, 0, 0, 0)
    BY DEF RegisterAnalysis, Counted, Adds
<1>5. RegisterRejected => Adds(0, 0, 0, 0, 1, 0)
    BY DEF RegisterRejected, Counted, Adds
<1>6. RegisterExecution => Adds(0, 0, 0, 1, 0, 1)
    BY DEF RegisterExecution, Counted, Adds
<1>7. ASSUME NEW connected, SetConnected(connected) PROVE Adds(0, 0, 0, 0, 0, 0)
    BY <1>7 DEF SetConnected, Counted, Adds
<1> QED
    BY <1>1, <1>2, <1>3, <1>4, <1>5, <1>6, <1>7

\* Every step keeps the balance.
LEMMA AccountsKept ==
    DataInv /\ BusInv /\ Accounts /\ [Next]_vars => Accounts'
<1> SUFFICES ASSUME DataInv, BusInv, Accounts, [Next]_vars PROVE Accounts'
    OBVIOUS
<1> DEFINE due == Due(stack)
           owed == Owed(stack)
           due2 == Due(stack')
           owed2 == Owed(stack')
           fails == stats.failed
           fails2 == stats'.failed
           m == Head(stack).message
           a == At(Head(stack))
<1>1. /\ market.messages \in Nat /\ market.analyses \in Nat /\ market.generated \in Nat
      /\ market.approved \in Nat /\ market.rejected \in Nat /\ market.executed \in Nat
      /\ market \in Counted
    BY DEF DataInv, Counted
<1>2. fails \in Nat /\ due \in {0, 1} /\ owed \in {0, 1} /\ due2 \in {0, 1} /\ owed2 \in {0, 1}
    BY StandingTyped DEF BusInv, StackInv
<1>3. Balanced(market, due, owed, fails)
    BY DEF Accounts
<1>4. /\ Returns => fails2 = fails /\ stack' = Served(stack)
      /\ Raises => fails2 = fails + 1 /\ stack' = Served(stack)
      /\ \A message : Publish(message) => fails2 = fails
    BY DEF BusInv, StackInv, Returns, Raises, Publish
<1>5. ASSUME ~Quiet, Head(stack).left > 0, stack' = Served(stack)
      PROVE  /\ due2 <= due
             /\ <<m, a>> \in {<<"candle", "Analyst">>, <<"analysis", "Strategy">>} =>
                   due = 1 /\ due2 = 0
             /\ <<m, a>> \in {<<"signal", "Risk">>, <<"decision", "Execution">>} =>
                   owed = 1 /\ owed2 = 0
             /\ <<m, a>> \notin {<<"signal", "Risk">>, <<"decision", "Execution">>} =>
                   owed2 = owed
             /\ m \in {"signal", "decision"} => due = 0
             /\ m \in {"candle", "analysis"} => owed = 0
    BY <1>5, ServedStanding DEF BusInv, StackInv, Quiet
<1>6. ASSUME ~Quiet, Head(stack).left > 0
      PROVE  /\ <<m, a>> \in {<<"candle", "Analyst">>, <<"analysis", "Strategy">>} => due = 1
             /\ <<m, a>> \in {<<"signal", "Risk">>, <<"decision", "Execution">>} => owed = 1
             /\ m \in {"signal", "decision"} => due = 0
             /\ m \in {"candle", "analysis"} => owed = 0
    BY <1>6, ServedStanding DEF BusInv, StackInv, Quiet
<1>7. \A message \in Messages : Publish(message) =>
           /\ message \in {"signal", "decision"} => due2 = 0 /\ owed2 = 1
           /\ message \in {"candle", "analysis"} => owed2 = 0
    BY BegunStanding DEF BusInv
<1>8. ASSUME Balanced(market', due2, owed2, fails2) PROVE Accounts'
    BY <1>8, Balancing
<1>9. \A agent, message : Handles(agent, message) =>
           ~Quiet /\ Head(stack).left > 0 /\ m = message /\ a = agent
    BY DEF Handles
<1> HIDE DEF due, owed, due2, owed2, fails, fails2, m, a
<1>10. CASE Ignores
    <2>1. /\ ~Quiet /\ Head(stack).left > 0 /\ stack' = Served(stack) /\ market' = market
          /\ fails2 = fails
        BY <1>4, <1>10 DEF Ignores
    <2>2. <<m, a>> \notin {<<"signal", "Risk">>, <<"decision", "Execution">>}
        <3>1. m # Interest[a]
            BY <1>10 DEF Ignores, m, a
        <3>2. /\ Interest["Risk"] = "signal" /\ Interest["Execution"] = "decision"
            BY AgentsAssumption DEF Interest
        <3> QED
            BY <3>1, <3>2
    <2>3. due2 <= due /\ owed2 = owed
        BY <1>5, <2>1, <2>2
    <2> QED
        BY <1>1, <1>2, <1>3, <1>8, <2>1, <2>3 DEF Balanced
<1>11. CASE Analyst
    <2>1. Handles("Analyst", "candle") /\ market' = market /\ (Publish("analysis") \/ Raises)
        BY <1>11 DEF Analyst
    <2>2. ~Quiet /\ Head(stack).left > 0 /\ m = "candle" /\ a = "Analyst"
        BY <1>9, <2>1
    <2>3. due = 1 /\ owed = 0
        BY <1>6, <2>2
    <2>4. owed2 = 0 /\ (fails2 = fails \/ fails2 = fails + 1)
        <3>1. CASE Publish("analysis")
            BY <1>4, <1>7, <3>1 DEF Messages
        <3>2. CASE Raises
            BY <1>4, <1>5, <2>2, <2>3, <3>2
        <3> QED
            BY <2>1, <3>1, <3>2
    <2> QED
        BY <1>1, <1>2, <1>3, <1>8, <2>1, <2>3, <2>4 DEF Balanced
<1>12. CASE Strategy
    <2>1. Handles("Strategy", "analysis")
        BY <1>12 DEF Strategy
    <2>2. ~Quiet /\ Head(stack).left > 0 /\ m = "analysis" /\ a = "Strategy"
        BY <1>9, <2>1
    <2>3. due = 1 /\ owed = 0
        BY <1>6, <2>2
    <2>4. CASE RegisterGenerated /\ Publish("signal")
        <3>1. due2 = 0 /\ owed2 = 1 /\ fails2 = fails
            BY <1>4, <1>7, <2>4 DEF Messages
        <3> QED
            BY <1>1, <1>2, <1>3, <1>8, <2>3, <2>4, <3>1, Registered DEF Balanced, Adds
    <2>5. CASE RegisterRejectedAnalysis /\ Returns
        <3>1. due2 = 0 /\ owed2 = 0 /\ fails2 = fails
            BY <1>4, <1>5, <2>2, <2>3, <2>5
        <3> QED
            BY <1>1, <1>2, <1>3, <1>8, <2>3, <2>5, <3>1, Registered DEF Balanced, Adds
    <2>6. CASE RegisterAnalysis /\ Raises
        <3>1. due2 = 0 /\ owed2 = 0 /\ fails2 = fails + 1
            BY <1>4, <1>5, <2>2, <2>3, <2>6
        <3> QED
            BY <1>1, <1>2, <1>3, <1>8, <2>3, <2>6, <3>1, Registered DEF Balanced, Adds
    <2> QED
        BY <1>12, <2>4, <2>5, <2>6 DEF Strategy
<1>13. ASSUME ~Quiet, Head(stack).left > 0,
              <<m, a>> \in {<<"signal", "Risk">>, <<"decision", "Execution">>}
       PROVE  /\ RegisterRejected /\ Returns => Accounts'
              /\ Raises /\ UNCHANGED market => Accounts'
              /\ RegisterExecution /\ (Returns \/ Raises) => Accounts'
    <2>1. m \in {"signal", "decision"}
        BY <1>13
    <2>2. due = 0 /\ owed = 1
        BY <1>6, <1>13, <2>1
    <2>3. Returns \/ Raises => due2 = 0 /\ owed2 = 0
        BY <1>2, <1>4, <1>5, <1>13, <2>2
    <2>4. ASSUME RegisterRejected, Returns PROVE Accounts'
        BY <1>1, <1>2, <1>3, <1>4, <1>8, <2>2, <2>3, <2>4, Registered DEF Balanced, Adds
    <2>5. ASSUME Raises, market' = market PROVE Accounts'
        BY <1>1, <1>2, <1>3, <1>4, <1>8, <2>2, <2>3, <2>5 DEF Balanced
    <2>6. ASSUME RegisterExecution, Returns \/ Raises PROVE Accounts'
        BY <1>1, <1>2, <1>3, <1>4, <1>8, <2>2, <2>3, <2>6, Registered DEF Balanced, Adds
    <2> QED
        BY <2>4, <2>5, <2>6
<1>14. CASE Risk
    <2>1. Handles("Risk", "signal")
        BY <1>14 DEF Risk
    <2>2. ~Quiet /\ Head(stack).left > 0 /\ m = "signal" /\ a = "Risk"
        BY <1>9, <2>1
    <2>3. due = 0 /\ owed = 1
        BY <1>6, <2>2
    <2>4. CASE Publish("decision") /\ UNCHANGED market
        <3>1. due2 = 0 /\ owed2 = 1 /\ fails2 = fails
            BY <1>4, <1>7, <2>4 DEF Messages
        <3> QED
            BY <1>3, <1>8, <2>3, <2>4, <3>1
    <2> QED
        BY <1>13, <1>14, <2>2, <2>4 DEF Risk
<1>15. CASE ExecutionBlocks
    <2>1. Handles("Execution", "decision")
        BY <1>15 DEF ExecutionBlocks
    <2>2. ~Quiet /\ Head(stack).left > 0 /\ m = "decision" /\ a = "Execution"
        BY <1>9, <2>1
    <2> QED
        BY <1>13, <1>15, <2>2 DEF ExecutionBlocks
<1>16. CASE ExecutionGoesOn
    <2>1. Handles("Execution", "decision")
        BY <1>16 DEF ExecutionGoesOn, BusInv, AskedByExecution
    <2>2. ~Quiet /\ Head(stack).left > 0 /\ m = "decision" /\ a = "Execution"
        BY <1>9, <2>1
    <2> QED
        BY <1>13, <1>16, <2>2 DEF ExecutionGoesOn
<1>17. CASE PositionManager
    <2>1. Handles("PositionManager", "candle") /\ market' = market
        BY <1>17 DEF PositionManager
    <2>2. ~Quiet /\ Head(stack).left > 0 /\ m = "candle" /\ a = "PositionManager"
        BY <1>9, <2>1
    <2>3. /\ stack' = Served(stack) /\ (fails2 = fails \/ fails2 = fails + 1)
        BY <1>4, <1>17 DEF PositionManager
    <2>4. due2 <= due /\ owed2 = owed
        BY <1>5, <2>2, <2>3
    <2> QED
        BY <1>1, <1>2, <1>3, <1>8, <2>1, <2>3, <2>4 DEF Balanced
<1>18. CASE PublishReturns
    <2>1. owed = 0 /\ due2 = 0 /\ owed2 = 0 /\ market' = market
        BY <1>18, PublishedStanding DEF PublishReturns, BusInv, owed, due2, owed2
    <2>2. fails2 = fails
        BY <1>18, PublishedParts DEF PublishReturns, BusInv, StackInv, fails, fails2
    <2> QED
        BY <1>1, <1>2, <1>3, <1>8, <2>1, <2>2 DEF Balanced
<1>19. ASSUME UNCHANGED busVars, market' = market \/ \E connected : SetConnected(connected)
       PROVE  Accounts'
    <2>1. due2 = due /\ owed2 = owed /\ fails2 = fails
        BY <1>19 DEF busVars, due, owed, due2, owed2, fails, fails2
    <2>2. /\ market'.messages = market.messages /\ market'.analyses = market.analyses
          /\ market'.generated = market.generated /\ market'.approved = market.approved
          /\ market'.rejected = market.rejected /\ market'.executed = market.executed
        BY <1>1, <1>19, Registered DEF Adds
    <2> QED
        BY <1>3, <1>8, <2>1, <2>2 DEF Balanced
<1>20. CASE ExecutionAsks \/ Requests
    BY <1>19, <1>20 DEF ExecutionAsks, Requests
<1>21. CASE Candle
    <2>1. due = 0 /\ owed = 0
        BY <1>21, QuietStanding DEF Candle, Quiet, due, owed
    <2>2. RegisterKline /\ owed2 = 0 /\ fails2 = fails
        BY <1>4, <1>7, <1>21 DEF Candle, Messages
    <2> QED
        BY <1>1, <1>2, <1>3, <1>8, <2>1, <2>2, Registered DEF Balanced, Adds
<1>22. CASE StreamStep \/ LinkDies \/ Flush \/ Start \/ StreamBegins
    BY <1>19, <1>22 DEF StreamStep, StreamConnects, StreamFails, StreamWakesUp, LinkDies, Flush, Start,
        StreamBegins
<1>23. CASE Shutdown \/ ShutdownEarly \/ Killed
    <2>1. stack' = << >> /\ stats' = NoStats /\ market' = Fresh
        BY <1>23 DEF Shutdown, ShutdownEarly, Killed, Gone, FinalFlush
    <2>2. due2 = 0 /\ owed2 = 0 /\ fails2 = 0
        BY <2>1, QuietStanding DEF due2, owed2, fails2, NoStats
    <2> QED
        BY <1>8, <2>1, <2>2 DEF Fresh, Balanced
<1>24. CASE UNCHANGED vars
    BY <1>19, <1>24 DEF vars, busVars
<1> QED
    BY <1>10, <1>11, <1>12, <1>14, <1>15, <1>16, <1>17, <1>18, <1>20, <1>21, <1>22, <1>23, <1>24
        DEF Next, AgentStep

THEOREM AccountsInvariant == Spec => []Accounts
<1>1. Init => Accounts
    BY QuietStanding DEF Init, NoStats, Fresh, Accounts, Balanced
<1> QED
    BY <1>1, AccountsKept, BusInvariant, DataInvariant, PTL DEF Spec

LEMMA RatioBounded ==
    ASSUME NEW part \in Nat, NEW whole \in Nat, part <= whole
    PROVE  Ratio(part, whole) <= 100
<1>1. CASE whole = 0
    BY <1>1 DEF Ratio
<1>2. CASE whole # 0
    <2> DEFINE q == (100 * part) \div whole
    <2>1. q \in Int /\ whole * q <= 100 * part
        BY <1>2
    <2>2. 100 * part <= 100 * whole
        OBVIOUS
    <2> HIDE DEF q
    <2>3. ASSUME q >= 101 PROVE FALSE
        <3>1. whole * q >= whole * 101
            BY <1>2, <2>1, <2>3
        <3> QED
            BY <1>2, <2>1, <2>2, <3>1
    <2>4. q <= 100
        BY <2>1, <2>3
    <2> QED
        BY <1>2, <2>4 DEF q, Ratio
<1> QED
    BY <1>1, <1>2

\* Every analysis that the strategy counts ends as one rejection or one entry
\* and is lost only to a handler that raised; nothing in the funnel of the
\* dashboard is more than what it came from.
THEOREM SignalsAreAccounted == Spec => []SignalsAccounted
<1>1. DataInv /\ BusInv /\ Accounts => SignalsAccounted
    <2> SUFFICES ASSUME DataInv, BusInv, Accounts PROVE SignalsAccounted
        OBVIOUS
    <2>1. /\ market.messages \in Nat /\ market.analyses \in Nat /\ market.generated \in Nat
          /\ market.approved \in Nat /\ market.rejected \in Nat /\ market.executed \in Nat
          /\ stats.failed \in Nat
        BY DEF DataInv, Counted, BusInv, StackInv
    <2>2. Due(stack) \in {0, 1} /\ Owed(stack) \in {0, 1}
        BY StandingTyped
    <2>3. /\ market.approved <= market.generated /\ market.generated <= market.analyses
          /\ market.analyses <= market.messages
        BY <2>1, <2>2 DEF Accounts, Balanced
    <2>4. Ratio(market.generated, market.analyses) <= 100
          /\ Ratio(market.approved, market.generated) <= 100
        BY <2>1, <2>3, RatioBounded
    <2>5. Quiet => Owed(stack) = 0
        BY QuietStanding DEF Quiet
    <2>6. Quiet => /\ market.rejected + market.executed <= market.analyses
                   /\ market.analyses <= market.rejected + market.executed + stats.failed
        BY <2>1, <2>5 DEF Accounts, Balanced
    <2> QED
        BY <2>3, <2>4, <2>6 DEF SignalsAccounted
<1> QED
    BY <1>1, DataInvariant, BusInvariant, AccountsInvariant, PTL
=============================================================================
