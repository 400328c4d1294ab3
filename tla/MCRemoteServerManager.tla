----------------------- MODULE MCRemoteServerManager -----------------------
(***************************************************************************)
(* Instances of RemoteServerManager for TLC.                               *)
(***************************************************************************)
EXTENDS RemoteServerManager, TLC

CONSTANTS o1, o2, t1, t2, h1, h2, c1, p1

OneOwner  == {o1}
TwoOwners == {o1, o2}
OneOwnerOneTerminal  == {o1, t1}
OneOwnerTwoTerminals == {o1, t1, t2}

\* No action compares hosts or owners but for equality.
Symmetry == Permutations(Host) \cup Permutations(Owner)
=============================================================================
