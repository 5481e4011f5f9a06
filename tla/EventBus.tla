------------------------------ MODULE EventBus ------------------------------
(***************************************************************************)
(* core/bus/event_bus.py.  publish awaits one subscriber after the other;  *)
(* a handler may publish itself, so that the calls under way are a stack,  *)
(* innermost first.  Every agent publishes as the last thing it does.      *)
(***************************************************************************)
EXTENDS Naturals, FiniteSets, SequencesExt

CONSTANT Subscribers   \* the agents, in the order of their subscription

ASSUME BusAssumption == Subscribers \in Seq(STRING)

VARIABLES
    stack,   \* of each publish under way: the message, and how many to serve
    stats    \* total_published, _successful and _failed

busVars == <<stack, stats>>

NoStats == [published |-> 0, succeeded |-> 0, failed |-> 0]

BusTypeOK ==
    /\ \A i \in DOMAIN stack : stack[i].left \in 0..Len(Subscribers)
    /\ stats \in [published : Nat, succeeded : Nat, failed : Nat]

Quiet == stack = << >>

\* The subscriber that a publish under way is at.
At(frame) == Subscribers[Len(Subscribers) + 1 - frame.left]

\* The handler of an agent runs, and has not published anything yet.
Handles(agent, message) ==
    /\ ~Quiet
    /\ Head(stack).left > 0
    /\ Head(stack).message = message /\ At(Head(stack)) = agent

Publish(message) ==
    /\ stack' = <<[message |-> message, left |-> Len(Subscribers)]>> \o stack
    /\ stats' = [stats EXCEPT !.published = @ + 1]

Served(frames) == [frames EXCEPT ![1].left = @ - 1]

Returns ==
    /\ stack' = Served(stack)
    /\ stats' = [stats EXCEPT !.succeeded = @ + 1]

\* Mutant: the exception of a handler ends the delivery.
RaisesThrough ==
    /\ stack' = [stack EXCEPT ![1].left = 0]
    /\ stats' = [stats EXCEPT !.failed = @ + 1]

\* The exception of a handler is counted and goes no further.
Raises ==
    /\ stack' = Served(stack)
    /\ stats' = [stats EXCEPT !.failed = @ + 1]

\* publish returns; the handler that called it has nothing left to do.
Published ==
    /\ ~Quiet /\ Head(stack).left = 0
    /\ \/ /\ Len(stack) > 1
          /\ stack' = Served(Tail(stack))
          /\ stats' = [stats EXCEPT !.succeeded = @ + 1]
       \/ /\ Len(stack) = 1
          /\ stack' = << >>
          /\ UNCHANGED stats

\* What the publishes under way have still to deliver: of each, counted from
\* the outermost, its last ones.
Undelivered(frames) ==
    {d \in (1..Len(frames)) \X (1..Len(Subscribers)) :
        d[2] <= frames[Len(frames) + 1 - d[1]].left}
ToServe == Cardinality(Undelivered(stack))
=============================================================================
