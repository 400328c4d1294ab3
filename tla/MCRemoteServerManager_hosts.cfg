\* Two owners on two hosts: the host index and the host events.
\* No terminal, context or path; those are the subject of the bindings run.
SPECIFICATION Spec
CONSTANTS
    o1 = o1
    o2 = o2
    t1 = t1
    t2 = t2
    h1 = h1
    h2 = h2
    c1 = c1
    p1 = p1
    None = None
    NoHost = NoHost
    NoPath = NoPath
    Owner <- TwoOwners
    Session <- TwoOwners
    Context = {}
    Host = {h1, h2}
    Path = {}
    MaxReconnectAttempts = 2
    MaxGeneration = 2
INVARIANT HostEventsFollowIndex
PROPERTIES
    HostIndexExact
    HostsArePresent
SYMMETRY Symmetry
\* The manager may be idle for ever.
CHECK_DEADLOCK FALSE
