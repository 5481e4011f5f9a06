---------------------------- MODULE MarketStream ----------------------------
(***************************************************************************)
(* data/ingestion/binance_ws.py: the loop that connects, receives closed   *)
(* candles and connects again.  A connection may die without a sign; only  *)
(* the timeout of recv, or a ping of the library, finds out.               *)
(***************************************************************************)
EXTENDS Naturals

VARIABLES
    stream,    \* where the loop is: "off" while no Runner is up, "starting"
               \* until main gets as far as the loop
    attempts,  \* reconnect_attempts
    link       \* what has become of the connection: "none", "alive", "dead"

streamVars == <<stream, attempts, link>>

\* From 2^6 on the pause is 60 seconds, however many attempts follow.
Ceiling == 6

StreamTypeOK ==
    /\ stream \in {"off", "starting", "connecting", "receiving", "sleeping"}
    /\ attempts \in 0..Ceiling
    /\ link \in {"none", "alive", "dead"}

Connects ==
    /\ stream = "connecting"
    /\ stream' = "receiving" /\ attempts' = 0 /\ link' = "alive"

\* An exception other than a timeout, from connecting, from a connection
\* that was closed or from a message that is no candle: it is counted, and
\* the loop sleeps.
Errs ==
    /\ stream \in {"connecting", "receiving"}
    /\ stream' = "sleeping" /\ link' = "none"
    /\ attempts' = IF attempts = Ceiling THEN Ceiling ELSE attempts + 1

WakesUp ==
    /\ stream = "sleeping"
    /\ stream' = "connecting"
    /\ UNCHANGED <<attempts, link>>

\* Mutant: recv waits for as long as it takes.
NeverStale == FALSE /\ UNCHANGED streamVars

\* 90 seconds without a message; the loop connects again at once and counts
\* nothing.
Stale ==
    /\ stream = "receiving" /\ link = "dead"
    /\ stream' = "connecting" /\ link' = "none"
    /\ UNCHANGED attempts

\* A timeout of connecting is the same exception as that of recv.
ConnectTimesOut ==
    /\ stream = "connecting"
    /\ UNCHANGED streamVars

GoesDead ==
    /\ link = "alive"
    /\ link' = "dead"
    /\ UNCHANGED <<stream, attempts>>
=============================================================================
