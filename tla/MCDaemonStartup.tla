-------------------------- MODULE MCDaemonStartup --------------------------
EXTENDS DaemonStartup, TLC

\* Proxies are compared for equality only.
Symmetry == Permutations(Proxy)
=============================================================================
