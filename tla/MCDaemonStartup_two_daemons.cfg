\* Two proxies start at the same time; one pid file.
SPECIFICATION Spec
CONSTANTS
    Proxy = {p1, p2}
    None = None
    MaxFiles = 1
INVARIANTS
    OneForks
SYMMETRY Symmetry
CHECK_DEADLOCK FALSE
