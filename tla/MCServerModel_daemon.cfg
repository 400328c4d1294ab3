\* One connection at a time: requests of every kind, and the end of the daemon.
SPECIFICATION FairSpec
CONSTANTS
    c1 = c1
    c2 = c2
    r1 = r1
    r2 = r2
    r3 = r3
    r4 = r4
    Conn <- OneConn
    NoConn = NoConn
    NoRequest = NoRequest
    MaxOpens = 2
    Request <- AnyRequests
    Kind <- AnyKind
INVARIANTS
    RunningIsTracked
PROPERTIES
    IdleDaemonEnds
    RequestsEnd
\* The daemon may end.
CHECK_DEADLOCK FALSE
