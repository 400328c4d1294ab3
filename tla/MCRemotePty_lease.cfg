\* One pane, one connection.
SPECIFICATION FairSpec
CONSTANTS
    p1 = p1
    p2 = p2
    Pane <- OnePane
    MaxGeneration = 1
    InputLimit <- Silent
    OutputLimit <- Silent
PROPERTIES
    LeaseEnds
CHECK_DEADLOCK FALSE
