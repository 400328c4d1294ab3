--------------------------- MODULE MCServerModel ---------------------------
EXTENDS ServerModel, TLC

CONSTANTS c1, c2, r1, r2, r3, r4

\* One connection, and a request of each kind.
OneConn     == {c1}
AnyRequests == {r1, r2, r3, r4}
AnyKind     == r1 :> "work" @@ r2 :> "file" @@ r3 :> "open" @@ r4 :> "save"

\* Two connections, either of which may open and save.
TwoConns       == {c1, c2}
BufferRequests == {r1, r2, r3, r4}
BufferKind     == r1 :> "open" @@ r2 :> "open" @@ r3 :> "save" @@ r4 :> "save"

\* Connections are alike, and so are requests of a kind.
BufferSymmetry ==
    Permutations(TwoConns) \cup Permutations({r1, r2}) \cup Permutations({r3, r4})
=============================================================================
