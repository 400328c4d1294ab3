----------------------------- MODULE MCSshSetup -----------------------------
(***************************************************************************)
(* Instances of SshSetup for TLC.                                          *)
(***************************************************************************)
EXTENDS SshSetup

CONSTANTS o1, o2, h1

TwoOwners == {o1, o2}
=============================================================================
