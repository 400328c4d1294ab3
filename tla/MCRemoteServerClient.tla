------------------------ MODULE MCRemoteServerClient ------------------------
EXTENDS RemoteServerClient

CONSTANTS r1, r2

TwoRequests == {r1, r2}
=============================================================================
