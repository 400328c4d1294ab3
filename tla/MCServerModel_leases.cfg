\* Two connections that open, save and close one file.
SPECIFICATION Spec
CONSTANTS
    c1 = c1
    c2 = c2
    r1 = r1
    r2 = r2
    r3 = r3
    r4 = r4
    Conn <- TwoConns
    NoConn = NoConn
    NoRequest = NoRequest
    MaxOpens = 2
    Request <- BufferRequests
    Kind <- BufferKind
SYMMETRY BufferSymmetry
INVARIANTS
    HandshakeFirst
    AnsweredOnce
    OwedIsHeld
    BuffersHaveReason
    ActiveIsSaving
    TimerWhileIdle
\* The daemon may end.
CHECK_DEADLOCK FALSE
