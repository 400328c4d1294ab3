---------------------------- MODULE MCRemotePty ----------------------------
EXTENDS RemotePty, TLC

CONSTANTS p1, p2

TwoPanes == {p1, p2}
OnePane  == {p1}

\* One pane types and its shell prints; the other is there to be confused with.
TwoInputs   == [p \in TwoPanes |-> IF p = p1 THEN 2 ELSE 0]
TwoOutputs == [p \in TwoPanes |-> IF p = p1 THEN 2 ELSE 0]

\* One pane that nobody types in.
Silent == [p \in OnePane |-> 0]
=============================================================================
