--------------------------- MODULE ExchangeClient ---------------------------
(***************************************************************************)
(* core/services/binance_trading_client.py, _request: a signed order       *)
(* request, sent again after a rate limit.  The query with its time stamp  *)
(* is signed once, before the first attempt: an attempt that comes after   *)
(* more than RECV_WINDOW_MS of pauses is one that the exchange refuses.    *)
(***************************************************************************)
EXTENDS Naturals, FiniteSets

CONSTANTS RetryAfter   \* pauses, in seconds, that the exchange asks for

ASSUME ClientAssumption == RetryAfter \subseteq Nat

VARIABLE request

MaxAttempts == 3       \* MAX_RATE_LIMIT_RETRIES
DefaultPause == 2      \* DEFAULT_RATE_LIMIT_RETRY_SECONDS
Window == 5            \* RECV_WINDOW_MS

NoRequest == [phase |-> "idle", attempt |-> 0, waited |-> 0,
              executed |-> 0, answer |-> "none"]

RequestTypeOK ==
    /\ request.phase \in {"idle", "sent", "pausing", "answered"}
    /\ request.attempt \in 0..MaxAttempts
    /\ request.executed \in 0..1
    /\ request.answer \in {"none", "confirmed", "error"}

Call ==
    /\ request.phase = "idle"
    /\ request' = [NoRequest EXCEPT !.phase = "sent", !.attempt = 1]

Reply(answer, executions) ==
    /\ request.phase = "sent"
    /\ request' = [request EXCEPT !.phase = "answered", !.answer = answer,
                                  !.executed = @ + executions]

\* Status 200: the order is carried out.
Accepted == request.waited <= Window /\ Reply("confirmed", 1)

\* A BinanceTradingError that may stand for anything: the order may have been
\* carried out, if its time stamp was still good.
Failure == \E executions \in {0, 1} :
    /\ executions = 1 => request.waited <= Window
    /\ Reply("error", executions)

\* Any other status: a refusal (-1021 when the time stamp is too old by now),
\* and also a 5xx or -1007, which the exchange gives without knowing itself.
Rejected == Failure

\* Mutant: the request is sent again.
NetworkErrorRetried ==
    /\ request.phase = "sent"
    /\ request.attempt < MaxAttempts
    /\ \E executions \in {0, 1} :
          request' = [request EXCEPT !.phase = "pausing", !.executed = @ + executions]

\* No answer in time, or none at all: it is not sent again.
NetworkError == Failure

\* The pause is Retry-After's, or grows.
Pauses == RetryAfter \cup {DefaultPause * request.attempt}

Sleep(pause) ==
    /\ request.phase = "sent"
    /\ request' = [request EXCEPT !.phase = "pausing", !.waited = @ + pause]

\* Mutant: the last attempt is not the last one.
RateLimitedAgain == \E pause \in Pauses : Sleep(pause)

\* 429 or 418: nothing was carried out, though the error does not say so.
RateLimited ==
    \/ request.attempt = MaxAttempts /\ Reply("error", 0)
    \/ request.attempt < MaxAttempts /\ \E pause \in Pauses : Sleep(pause)

SendAgain ==
    /\ request.phase = "pausing"
    /\ request' = [request EXCEPT !.phase = "sent", !.attempt = @ + 1]

\* The caller goes on.
Taken == request' = NoRequest

RequestNext == Accepted \/ Rejected \/ NetworkError \/ RateLimited \/ SendAgain

Promise == INSTANCE RequestPromise WITH
    state <- CASE request.phase = "idle" -> "none"
               [] request.phase = "answered" -> "done"
               [] OTHER -> "pending",
    executed <- request.executed,
    answer <- request.answer
=============================================================================
