---------------------- MODULE SessionExecutionRegistry ----------------------
(***************************************************************************)
(* The registry that binds terminal sessions to the transport session that *)
(* carries them (crates/remote_server/src/manager.rs, struct               *)
(* SessionExecutionRegistry).  A registry value holds                      *)
(*   aliases   terminal session -> the session whose transport it uses     *)
(*   contexts  session -> its validated bootstrap context                  *)
(* The two HashMaps are total functions here, None standing for an absent  *)
(* key.  The operators are pure: they take a registry and return a new one *)
(* or what a lookup answers.                                               *)
(***************************************************************************)
CONSTANTS Session, Context, None

Registry == [aliases  : [Session -> Session \cup {None}],
             contexts : [Session -> Context \cup {None}]]

EmptyRegistry == [aliases  |-> [s \in Session |-> None],
                  contexts |-> [s \in Session |-> None]]

\* Follow alias entries to the session that owns the transport.  The walk
\* stops at a session without an entry, at a self-alias, or on the first
\* session seen twice.
CanonicalSessionId(r, session) ==
    LET walk[seen \in SUBSET Session] ==
            [s \in Session |->
                IF r.aliases[s] \in {None, s} \/ s \in seen
                  THEN s
                  ELSE walk[seen \cup {s}][r.aliases[s]]]
    IN  walk[{}][session]

HasExecutionContext(r, session) == r.contexts[session] # None

\* An alias registered before its owner has a context lends it its own.
OwnerContextEstablished(r, exact, owner) ==
    exact # owner /\ ~HasExecutionContext(r, owner)

\* Bind exact to the transport of transport and record its context.
Register(r, exact, transport, info) ==
    LET owner == CanonicalSessionId(r, transport)
        gains == {exact} \cup
                 (IF OwnerContextEstablished(r, exact, owner) THEN {owner} ELSE {})
    IN  [aliases  |-> [r.aliases EXCEPT ![exact] =
                          IF exact = owner THEN None ELSE owner],
         contexts |-> [s \in Session |->
                          IF s \in gains THEN info ELSE r.contexts[s]]]

IsAlias(r, session) == r.aliases[session] # None

DirectAliases(r, owner) == {a \in Session : r.aliases[a] = owner}

\* Mutant: an owner's aliases outlive it.
RemovedAlone(r, session) == {session}

\* What a removal drops: the alias alone, or an owner with its direct aliases.
Removed(r, session) ==
    IF IsAlias(r, session) THEN {session}
                           ELSE {session} \cup DirectAliases(r, session)

Remove(r, session) ==
    [aliases  |-> [s \in Session |->
                      IF s \in Removed(r, session) THEN None ELSE r.aliases[s]],
     contexts |-> [s \in Session |->
                      IF s \in Removed(r, session) THEN None ELSE r.contexts[s]]]

\* Every session with a context whose transport is that of transport.
SessionIdsForTransport(r, transport) ==
    {s \in Session :
        /\ HasExecutionContext(r, s)
        /\ CanonicalSessionId(r, s) = CanonicalSessionId(r, transport)}
=============================================================================
