SPECIFICATION Spec
CONSTANTS
    Subscribers <- MCSubscribers
    RetryAfter <- MCRetryAfter
    NoRow = NoRow
    MaxCandles = 2
    MaxSessions = 2
CHECK_DEADLOCK FALSE
INVARIANT TypeOK
INVARIANT EveryoneServed
INVARIANT SignalsAccounted
INVARIANT ShownConnected
PROPERTY DeadStreamNoticed
PROPERTY RequestKeepsPromise
