\* Two ssh sessions one after the other in one pane; each may die or be left.
SPECIFICATION FairSetupSpec
CONSTANTS
    o1 = o1
    o2 = o2
    h1 = h1
    None = None
    NoHost = NoHost
    NoPath = NoPath
    Owner <- TwoOwners
    Session <- TwoOwners
    Context = {}
    Host = {h1}
    Path = {}
    MaxReconnectAttempts = 2
    MaxGeneration = 2
INVARIANTS
    AnswerOwed
    ControllerTypeOK
PROPERTIES
    SetupImplements
    WaitingShellHeld
    BootstrapAfterSetup
    ChecksSettle
\* All sessions may have ended.
CHECK_DEADLOCK FALSE
