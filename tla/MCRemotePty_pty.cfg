\* Two panes, two connections, two daemons.
SPECIFICATION Spec
CONSTANTS
    p1 = p1
    p2 = p2
    Pane <- TwoPanes
    MaxGeneration = 2
    InputLimit <- TwoInputs
    OutputLimit <- TwoOutputs
INVARIANTS
    InputInOrder
    OutputUnbroken
    ExitIsHeard
    ForgottenOnlyUnanswered
    ExitedMeansGone
\* Every pane may be closed.
CHECK_DEADLOCK FALSE
