\* One owner and two terminals: generations, loss events, contexts, paths,
\* settling.
SPECIFICATION FairSpec
CONSTANTS
    o1 = o1
    o2 = o2
    t1 = t1
    t2 = t2
    h1 = h1
    h2 = h2
    c1 = c1
    p1 = p1
    None = None
    NoHost = NoHost
    NoPath = NoPath
    Owner <- OneOwner
    Session <- OneOwnerTwoTerminals
    Context = {c1}
    Host = {h1}
    Path = {p1}
    MaxReconnectAttempts = 2
    MaxGeneration = 3
INVARIANTS
    HeldClientIsCurrent
    LossReportedOnce
    DaemonHoldsContexts
    PathsHaveTransport
    RetiredStaysAbsent
PROPERTY Settles
\* The manager may be idle for ever.
CHECK_DEADLOCK FALSE
