\* Three proxies start, in any order and at any point of each other.
SPECIFICATION Spec
CONSTANTS
    Proxy = {p1, p2, p3}
    None = None
    MaxFiles = 3
PROPERTIES
    MissesOnlyInWindows
SYMMETRY Symmetry
\* Proxies and daemons end.
CHECK_DEADLOCK FALSE
