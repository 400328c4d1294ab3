\* Two calls on one connection, whose tasks may fail at any step.
SPECIFICATION FairSpec
CONSTANTS
    r1 = r1
    r2 = r2
    Request <- TwoRequests
    MaxPushes = 1
INVARIANTS
    NobodyWaitsOnTheDead
    PendingAreAwaited
PROPERTIES
    LostCallsEnd
    KeepsPromise
\* All calls may have ended.
CHECK_DEADLOCK FALSE
