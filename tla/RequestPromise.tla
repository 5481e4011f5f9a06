--------------------------- MODULE RequestPromise ---------------------------
(***************************************************************************)
(* What the callers of the exchange client rely on, however often a        *)
(* request is sent: the exchange carries it out at most once, a            *)
(* confirmation says that it has, and an error says nothing about it.      *)
(***************************************************************************)
EXTENDS Naturals

VARIABLES
    state,     \* "none", "pending" or "done"
    executed,  \* how often the exchange has carried the request out
    answer     \* what the caller is told

promiseVars == <<state, executed, answer>>

Init == state = "none" /\ executed = 0 /\ answer = "none"

Ask ==
    /\ state # "pending"
    /\ state' = "pending" /\ executed' = 0 /\ answer' = "none"

Confirm == answer' = "confirmed" /\ executed' = 1
Error == answer' = "error" /\ executed' \in {0, 1}

Answer ==
    /\ state = "pending" /\ executed = 0
    /\ state' = "done"
    /\ Confirm \/ Error

\* The answer has been taken, or the process that waits for it is gone.
Forget == state' = "none" /\ executed' = 0 /\ answer' = "none"

Next == Ask \/ Answer \/ Forget

Spec == Init /\ [][Next]_promiseVars
=============================================================================
