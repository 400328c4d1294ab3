--------------------- MODULE RemoteServerManager_proofs ---------------------
(***************************************************************************)
(* Proofs about RemoteServerManager, for every set of sessions, owners,    *)
(* hosts, contexts and paths and every bound.  ManagerInv is inductive;    *)
(* the safety properties follow from its conjuncts.  What a step may do to *)
(* the host index also needs that a session which reconnects has left the  *)
(* host it lost (ReconnectsLeft).                                          *)
(***************************************************************************)
EXTENDS RemoteServerManager, TLAPS

USE ManagerAssumption

-----------------------------------------------------------------------------
(* The registry: what a walk along flat aliases finds *)

FlatAliases(r) ==
    \A a \in Session : r.aliases[a] # None =>
        /\ r.aliases[a] \in Session
        /\ r.aliases[r.aliases[a]] = None

OneHop(r, s) == IF r.aliases[s] = None THEN s ELSE r.aliases[s]

\* Where aliases point to sessions without an alias, canonical_session_id
\* answers with the session itself or with the one it is an alias of.
LEMMA FlatCanonical ==
    ASSUME NEW r, NEW session \in Session, FlatAliases(r)
    PROVE  CanonicalSessionId(r, session) = OneHop(r, session)
<1> DEFINE
      Hop(s, seen, further) ==
          IF r.aliases[s] \in {None, s} \/ s \in seen THEN s ELSE further
      Body(w) == [seen \in SUBSET Session |-> [s \in Session |->
                     Hop(s, seen, w[seen \cup {s}][r.aliases[s]])]]
      Flat == [seen \in SUBSET Session |-> [s \in Session |->
                     Hop(s, seen, r.aliases[s])]]
      walk == CHOOSE w : w = Body(w)
<1>1. Flat = Body(Flat)
  <2>1. ASSUME NEW seen \in SUBSET Session
        PROVE  Flat[seen] = Body(Flat)[seen]
    <3>1. ASSUME NEW s \in Session, r.aliases[s] # None, r.aliases[s] # s
          PROVE  Flat[seen \cup {s}][r.aliases[s]] = r.aliases[s]
      <4>1. r.aliases[s] \in Session /\ r.aliases[r.aliases[s]] = None
        BY <3>1 DEF FlatAliases
      <4>2. seen \cup {s} \in SUBSET Session
        OBVIOUS
      <4>3. QED
        BY <4>1, <4>2
    <3>2. QED
      BY <3>1
  <2>2. QED
    BY <2>1
<1>2. walk = Body(walk)
  BY <1>1
<1> HIDE DEF walk
<1>3. ASSUME NEW seen \in SUBSET Session, NEW s \in Session
      PROVE  walk[seen][s] = Hop(s, seen, walk[seen \cup {s}][r.aliases[s]])
  <2>1. ASSUME NEW v
        PROVE  Body(v)[seen][s] = Hop(s, seen, v[seen \cup {s}][r.aliases[s]])
    OBVIOUS
  <2> HIDE DEF Body
  <2>2. walk[seen][s] = Body(walk)[seen][s]
    BY <1>2
  <2>3. QED
    BY <2>1, <2>2
<1>4. \A seen \in SUBSET Session, s \in Session :
          r.aliases[s] = None => walk[seen][s] = s
  BY <1>3
<1>5. walk[{}][session] = OneHop(r, session)
  <2>1. CASE r.aliases[session] = None
    BY <2>1, <1>4 DEF OneHop
  <2>2. CASE r.aliases[session] # None
    <3>1. r.aliases[session] \in Session /\ r.aliases[r.aliases[session]] = None
      BY <2>2 DEF FlatAliases
    <3>2. r.aliases[session] # session
      BY <3>1, <2>2
    <3>3. walk[{}][session] = walk[{} \cup {session}][r.aliases[session]]
      BY <1>3, <3>2, <2>2
    <3>4. QED
      BY <3>1, <3>3, <1>4, <2>2 DEF OneHop
  <2>3. QED
    BY <2>1, <2>2
<1>6. CanonicalSessionId(r, session) = walk[{}][session]
  BY DEF CanonicalSessionId, walk
<1>7. QED
  BY <1>5, <1>6

FlatBindings(r) ==
    \A s \in Session : /\ r.aliases[s] \in Owner \cup {None}
                       /\ s \in Owner => r.aliases[s] = None

\* What the lookups of the manager find while terminals bind only to owners.
LEMMA BoundLookups ==
    ASSUME NEW r, FlatBindings(r)
    PROVE  /\ \A s \in Session : /\ CanonicalSessionId(r, s) = OneHop(r, s)
                                 /\ OneHop(r, s) \in Session
           /\ \A o \in Owner :
                 /\ CanonicalSessionId(r, o) = o
                 /\ SessionIdsForTransport(r, o) =
                       {s \in Session : /\ r.contexts[s] # None
                                        /\ OneHop(r, s) = o}
<1>1. FlatAliases(r)
  BY DEF FlatAliases, FlatBindings
<1>2. \A s \in Session : CanonicalSessionId(r, s) = OneHop(r, s)
  BY <1>1, FlatCanonical
<1>3. \A s \in Session : OneHop(r, s) \in Session
  BY DEF OneHop, FlatBindings
<1>4. \A o \in Owner : OneHop(r, o) = o /\ CanonicalSessionId(r, o) = o
  BY <1>2 DEF OneHop, FlatBindings
<1>5. ASSUME NEW o \in Owner
      PROVE  SessionIdsForTransport(r, o) =
               {s \in Session : r.contexts[s] # None /\ OneHop(r, s) = o}
  BY <1>2, <1>4 DEF SessionIdsForTransport, HasExecutionContext
<1>6. QED
  BY <1>2, <1>3, <1>4, <1>5

\* Removing an owner takes exactly the sessions bound to it, and no other
\* owner's.
LEMMA RemovingOwner ==
    ASSUME NEW r, FlatBindings(r), NEW o \in Owner
    PROVE  /\ \A x \in Session : x \in Removed(r, o) <=> OneHop(r, x) = o
           /\ FlatBindings(Remove(r, o))
           /\ \A x \in Session : x \notin Removed(r, o) =>
                 OneHop(Remove(r, o), x) = OneHop(r, x)
           /\ \A p \in Owner \ {o} :
                 SessionIdsForTransport(Remove(r, o), p) = SessionIdsForTransport(r, p)
<1>1. ASSUME NEW x \in Session
      PROVE  x \in Removed(r, o) <=> OneHop(r, x) = o
  BY DEF Removed, DirectAliases, IsAlias, OneHop, FlatBindings
<1>2. FlatBindings(Remove(r, o))
  BY DEF FlatBindings, Remove
<1>3. \A x \in Session : x \notin Removed(r, o) => OneHop(Remove(r, o), x) = OneHop(r, x)
  BY DEF OneHop, Remove
<1>4. ASSUME NEW p \in Owner \ {o}
      PROVE  SessionIdsForTransport(Remove(r, o), p) = SessionIdsForTransport(r, p)
  <2>1. ASSUME NEW x \in Session
        PROVE  (Remove(r, o).contexts[x] # None /\ OneHop(Remove(r, o), x) = p)
                 <=> (r.contexts[x] # None /\ OneHop(r, x) = p)
    <3>1. CASE x \in Removed(r, o)
      <4>1. Remove(r, o).contexts[x] = None
        BY <3>1 DEF Remove
      <4>2. OneHop(r, x) # p
        BY <3>1, <1>1
      <4>3. QED
        BY <4>1, <4>2
    <3>2. CASE x \notin Removed(r, o)
      BY <3>2, <1>3 DEF Remove
    <3>3. QED
      BY <3>1, <3>2
  <2>2. /\ SessionIdsForTransport(r, p) =
              {x \in Session : r.contexts[x] # None /\ OneHop(r, x) = p}
        /\ SessionIdsForTransport(Remove(r, o), p) =
              {x \in Session : /\ Remove(r, o).contexts[x] # None
                               /\ OneHop(Remove(r, o), x) = p}
    BY <1>2, BoundLookups
  <2>3. QED
    BY <2>1, <2>2
<1>5. QED
  BY <1>1, <1>2, <1>3, <1>4

-----------------------------------------------------------------------------
(* Every step preserves ManagerInv *)

\* The initial state satisfies the invariant.
LEMMA InitInv == Init => ManagerInv
<1> SUFFICES ASSUME Init PROVE ManagerInv
  OBVIOUS
<1>1. TypeOK
  BY DEF Init, TypeOK, EmptyRegistry, Registry, Absent, SessionState, Status, Event
<1>2. BindingsFlat
  BY DEF Init, BindingsFlat, EmptyRegistry
<1>3. GenerationsOwned /\ TasksInOrder /\ RetiredGone /\ LossPending
  BY DEF Init, GenerationsOwned, TasksInOrder, RetiredGone, LossPending,
         Absent, SessionState
<1>4. IndexCovers /\ HostEventsFollowIndex /\ HeldClientIsCurrent
  BY DEF Init, IndexCovers, HostEventsFollowIndex, HeldClientIsCurrent,
         ConnectedTo, Absent, SessionState
<1>5. LossReportedOnce /\ DaemonHoldsContexts /\ PathsHaveTransport
  BY DEF Init, LossReportedOnce, DaemonHoldsContexts, PathsHaveTransport,
         Absent, SessionState
<1>6. QED
  BY <1>1, <1>2, <1>3, <1>4, <1>5 DEF ManagerInv

\* connect_session begins a generation whose only task is its own.
LEMMA ConnectSessionInv ==
    ASSUME ManagerInv, NEW s \in Session, ConnectSession(s)
    PROVE  ManagerInv'
<1> USE DEF ManagerInv, ConnectSession, BeginGeneration, Become, StayOnHosts,
            KeepPaths, Connecting, SessionState
<1>1. TypeOK'
  BY DEF TypeOK, Tell, Event, Status, Task
<1>2. BindingsFlat'
  BY DEF BindingsFlat
<1>3. GenerationsOwned'
  BY DEF GenerationsOwned, TypeOK
<1>4. TasksInOrder'
  BY DEF TasksInOrder, TypeOK, Task, IsCurrentGeneration
<1>5. RetiredGone'
  BY DEF RetiredGone
<1>6. LossPending'
  BY DEF LossPending, TasksInOrder, TypeOK, Task, Tell, StillWanted, Tracked,
         IsCurrentGeneration, RetiredGone
<1>7. IndexCovers' /\ HostEventsFollowIndex'
  BY DEF IndexCovers, HostEventsFollowIndex, ConnectedTo, TypeOK
<1>8. HeldClientIsCurrent'
  BY DEF HeldClientIsCurrent, TypeOK
<1>9. LossReportedOnce'
  BY DEF LossReportedOnce, Tell, TypeOK
<1>10. DaemonHoldsContexts'
  BY DEF DaemonHoldsContexts, TypeOK
<1>11. PathsHaveTransport'
  BY BoundLookups DEF PathsHaveTransport, TypeOK, CanonicalSession, BindingsFlat,
         FlatBindings, OneHop
<1>12. QED
  BY <1>1, <1>2, <1>3, <1>4, <1>5, <1>6, <1>7, <1>8, <1>9, <1>10, <1>11

\* Leaving the host it holds takes a session off the whole index.
LEMMA LeavingHosts ==
    ASSUME TypeOK, IndexCovers, HostEventsFollowIndex,
           NEW s \in Session, NEW state,
           LeaveHosts(s, HeldHost(s)),
           sessions' = [sessions EXCEPT ![s] = state], state.st # "Connected"
    PROVE  /\ hostToSessions' \in [Host -> SUBSET Session]
           /\ hostUp' \in [Host -> BOOLEAN]
           /\ IndexCovers' /\ HostEventsFollowIndex'
<1>1. \A h \in Host : hostToSessions'[h] = IF h \in HeldHost(s)
                                             THEN hostToSessions[h] \ {s}
                                             ELSE hostToSessions[h]
  BY DEF LeaveHosts, RemoveFromHostIndex, TypeOK
<1>2. hostToSessions' \in [Host -> SUBSET Session]
  BY DEF LeaveHosts, RemoveFromHostIndex, TypeOK
<1>3. hostUp' \in [Host -> BOOLEAN]
  BY DEF LeaveHosts, AnnounceHostsLost, TypeOK
<1>4. IndexCovers'
  <2>1. ASSUME NEW x \in Session, NEW h \in Host, ConnectedTo(x, h)'
        PROVE  x \in hostToSessions'[h]
    <3>1. x # s /\ sessions'[x] = sessions[x]
      BY <2>1 DEF ConnectedTo, TypeOK
    <3>2. x \in hostToSessions[h]
      BY <2>1, <3>1 DEF IndexCovers, ConnectedTo
    <3>3. QED
      BY <3>1, <3>2, <1>1
  <2>2. QED
    BY <2>1 DEF IndexCovers
<1>5. HostEventsFollowIndex'
  <2>1. ASSUME NEW h \in Host
        PROVE  hostUp'[h] <=> hostToSessions'[h] # {}
    <3>1. hostUp'[h] <=> hostUp[h] /\ ~(h \in HeldHost(s) /\ hostToSessions'[h] = {})
      BY DEF LeaveHosts, AnnounceHostsLost
    <3>2. QED
      BY <3>1, <1>1, <1>2 DEF HostEventsFollowIndex
  <2>2. QED
    BY <2>1 DEF HostEventsFollowIndex
<1>6. QED
  BY <1>2, <1>3, <1>4, <1>5

\* restart_session_transport gives up the host and the client; older tasks fall
\* behind the new generation.
LEMMA RestartTransportInv ==
    ASSUME ManagerInv, NEW s \in Session, RestartTransport(s)
    PROVE  ManagerInv'
<1> USE DEF ManagerInv, RestartTransport, BeginGeneration, Become, ForgetPaths,
            LoseHosts, HeldHost, Disconnected, SessionState
<1>0. /\ hostToSessions' \in [Host -> SUBSET Session]
      /\ hostUp' \in [Host -> BOOLEAN]
      /\ IndexCovers' /\ HostEventsFollowIndex'
  BY LeavingHosts, Disconnected.st # "Connected"
<1>1. TypeOK'
  <2>1. told' \in [Session -> Event]
    BY DEF TypeOK, Tell, Event
  <2>2. Disconnected \in [st : Status, client : Nat, host : Host \cup {NoHost},
                          attempt : 0 .. MaxReconnectAttempts]
    BY DEF Status
  <2>3. /\ sessions' \in [Session -> [st : Status, client : Nat,
                                     host : Host \cup {NoHost},
                                     attempt : 0 .. MaxReconnectAttempts]]
        /\ generation' \in [Session -> Nat]
    <3> HIDE DEF Disconnected
    <3>1. QED
      BY <2>2 DEF TypeOK
  <2>4. /\ lastNavigatedPath' \in [Session -> Path \cup {NoPath}]
        /\ daemonContexts' \in [Session -> SUBSET Session]
    BY DEF TypeOK
  <2>5. UNCHANGED <<registry, tasks, streams, retired>>
    OBVIOUS
  <2> HIDE DEF RestartTransport
  <2>6. QED
    BY <1>0, <2>1, <2>3, <2>4, <2>5 DEF TypeOK
<1>2. BindingsFlat'
  BY DEF BindingsFlat
<1>3. GenerationsOwned'
  BY DEF GenerationsOwned, TypeOK
<1>4. TasksInOrder'
  BY DEF TasksInOrder, TypeOK, IsCurrentGeneration
<1>5. RetiredGone'
  BY DEF RetiredGone, TypeOK
<1>6. LossPending'
  <2>1. ASSUME NEW x \in Session, x # s
        PROVE  /\ told'[x] = told[x] /\ sessions'[x] = sessions[x]
               /\ generation'[x] = generation[x]
    BY <2>1 DEF TypeOK, Tell
  <2>2. \A t \in tasks : t.session = s => t.generation # generation'[s]
    BY DEF TasksInOrder, TypeOK
  <2>3. sessions'[s].st = "Disconnected"
    BY DEF TypeOK
  <2>4. \A t \in tasks : t.session \in Session
    BY DEF TypeOK
  <2>5. tasks' = tasks
    OBVIOUS
  <2>6. LossPending
    OBVIOUS
  <2> HIDE DEF ManagerInv, RestartTransport, Disconnected, Become, BeginGeneration
  <2>7. QED
    BY <2>1, <2>2, <2>3, <2>4, <2>5, <2>6
       DEF LossPending, StillWanted, Tracked, IsCurrentGeneration
<1>7. IndexCovers' /\ HostEventsFollowIndex'
  BY <1>0
<1>8. HeldClientIsCurrent'
  BY DEF HeldClientIsCurrent, TypeOK
<1>9. LossReportedOnce'
  BY DEF LossReportedOnce, LossPending, Tell, TypeOK
<1>10. DaemonHoldsContexts'
  BY DEF DaemonHoldsContexts, TypeOK
<1>11. PathsHaveTransport'
  BY BoundLookups DEF PathsHaveTransport, TypeOK, CanonicalSession, BindingsFlat,
         FlatBindings, OneHop
<1>12. QED
  BY <1>1, <1>2, <1>3, <1>4, <1>5, <1>6, <1>7, <1>8, <1>9, <1>10, <1>11

\* Removing an owner takes its aliases, generation, host and dedup entries along.
LEMMA DeregisterOwnerInv ==
    ASSUME ManagerInv, NEW s \in Session, DeregisterOwner(s)
    PROVE  ManagerInv'
<1> USE DEF ManagerInv, DeregisterOwner, Become, ForgetPaths, LoseHosts, HeldHost, Absent, SessionState
<1>0. /\ hostToSessions' \in [Host -> SUBSET Session]
      /\ hostUp' \in [Host -> BOOLEAN]
      /\ IndexCovers' /\ HostEventsFollowIndex'
  BY LeavingHosts, Absent.st # "Connected"
<1>1. TypeOK'
  BY <1>0 DEF TypeOK, Tell, Event, Status, Registry, Remove, Removed, DirectAliases
<1>2. BindingsFlat'
  BY DEF BindingsFlat, Remove, Removed, DirectAliases
<1>3. GenerationsOwned'
  BY DEF GenerationsOwned, TypeOK
<1>4. TasksInOrder'
  BY DEF TasksInOrder, TypeOK, IsCurrentGeneration
<1>5. RetiredGone'
  BY DEF RetiredGone, TypeOK
<1>6. LossPending'
  BY DEF LossPending, TasksInOrder, TypeOK, Tell, StillWanted, Tracked,
         IsCurrentGeneration, RetiredGone
<1>7. IndexCovers' /\ HostEventsFollowIndex'
  BY <1>0
<1>8. HeldClientIsCurrent'
  BY DEF HeldClientIsCurrent, TypeOK
<1>9. LossReportedOnce'
  BY DEF LossReportedOnce, LossPending, Tell, TypeOK
<1>10. DaemonHoldsContexts'
  BY RemovingOwner DEF DaemonHoldsContexts, TypeOK, BindingsFlat, FlatBindings
<1>11. PathsHaveTransport'
  <2>1. FlatBindings(registry) /\ FlatBindings(registry')
    BY RemovingOwner DEF BindingsFlat, FlatBindings
  <2>2. ASSUME NEW x \in Session, lastNavigatedPath'[x] # NoPath
        PROVE  generation'[CanonicalSession(x)'] > 0
    <3>1. x \notin Removed(registry, s) /\ lastNavigatedPath[x] # NoPath
      BY <2>2
    <3>2. CanonicalSession(x)' = CanonicalSession(x)
      BY <3>1, <2>1, BoundLookups, RemovingOwner DEF CanonicalSession
    <3>3. CanonicalSession(x) # s /\ CanonicalSession(x) \in Session
      BY <3>1, <2>1, BoundLookups, RemovingOwner DEF CanonicalSession
    <3>4. QED
      BY <3>1, <3>2, <3>3 DEF PathsHaveTransport, TypeOK
  <2>3. QED
    BY <2>2 DEF PathsHaveTransport
<1>12. QED
  BY <1>1, <1>2, <1>3, <1>4, <1>5, <1>6, <1>7, <1>8, <1>9, <1>10, <1>11

\* A dedup entry is only written for a session whose transport is connected.
LEMMA NavigateInv ==
    ASSUME ManagerInv, NEW s \in Session, NEW p \in Path, NavigateToDirectory(s, p)
    PROVE  ManagerInv'
<1> USE DEF ManagerInv, NavigateToDirectory, StayOnHosts
<1>1. TypeOK'
  BY DEF TypeOK
<1>2. BindingsFlat'
  BY DEF BindingsFlat
<1>3. GenerationsOwned'
  BY DEF GenerationsOwned, TypeOK
<1>4. TasksInOrder'
  BY DEF TasksInOrder, TypeOK, IsCurrentGeneration
<1>5. RetiredGone'
  BY DEF RetiredGone, TypeOK
<1>6. LossPending'
  BY DEF LossPending, TasksInOrder, TypeOK, StillWanted, Tracked,
         IsCurrentGeneration, RetiredGone
<1>7. IndexCovers' /\ HostEventsFollowIndex'
  BY DEF IndexCovers, HostEventsFollowIndex, ConnectedTo, TypeOK
<1>8. HeldClientIsCurrent'
  BY DEF HeldClientIsCurrent, TypeOK
<1>9. LossReportedOnce'
  BY DEF LossReportedOnce, LossPending, TypeOK
<1>10. DaemonHoldsContexts'
  BY DEF DaemonHoldsContexts, TypeOK
<1>11. PathsHaveTransport'
  BY BoundLookups DEF PathsHaveTransport, TypeOK, CanonicalSession, HasClient, GenerationsOwned, BindingsFlat,
         FlatBindings
<1>12. QED
  BY <1>1, <1>2, <1>3, <1>4, <1>5, <1>6, <1>7, <1>8, <1>9, <1>10, <1>11

\* A task that moves on keeps its session, generation and attempt: whatever
\* TasksInOrder says of the tasks still holds.
LEMMA TasksMoveOn ==
    ASSUME NEW t \in tasks, NEW u, NEW moved, moved \subseteq (tasks \ {t}) \cup {u},
           u.session = t.session, u.generation = t.generation, u.attempt = t.attempt,
           \A x, y \in tasks :
               x.session = y.session /\ x.generation = y.generation => x = y
    PROVE  /\ \A x \in moved : \E y \in tasks :
                 /\ x.session = y.session /\ x.generation = y.generation
                 /\ x.attempt = y.attempt
           /\ \A x, y \in moved :
                 x.session = y.session /\ x.generation = y.generation => x = y
<1>1. \A x \in moved : x = u \/ (x \in tasks /\ x # t)
  OBVIOUS
<1>2. QED
  BY <1>1

\* The end of the reconnect delay moves or drops one task.
LEMMA DelayInv ==
    ASSUME ManagerInv, NEW t \in tasks, DelayElapses(t)
    PROVE  ManagerInv'
<1> USE DEF ManagerInv, DelayElapses, TaskStep, StayOnHosts, KeepPaths
<1>1. TypeOK'
  BY DEF TypeOK
<1>2. BindingsFlat'
  BY DEF BindingsFlat
<1>3. GenerationsOwned'
  BY DEF GenerationsOwned, TypeOK
<1>4. TasksInOrder'
  <2> DEFINE u == [t EXCEPT !.pc = "connect"]
  <2>1. /\ u.session = t.session /\ u.generation = t.generation
        /\ u.attempt = t.attempt /\ tasks' \subseteq (tasks \ {t}) \cup {u}
    BY DEF TypeOK
  <2>2. UNCHANGED <<sessions, generation, retired>>
    OBVIOUS
  <2> HIDE DEF u, DelayElapses, TaskStep
  <2>3. QED
    BY <2>1, <2>2, TasksMoveOn DEF TasksInOrder, IsCurrentGeneration
<1>5. RetiredGone'
  BY DEF RetiredGone, TypeOK
<1>6. LossPending'
  BY DEF LossPending, TasksInOrder, TypeOK, StillWanted, Tracked,
         IsCurrentGeneration, RetiredGone
<1>7. IndexCovers' /\ HostEventsFollowIndex'
  BY DEF IndexCovers, HostEventsFollowIndex, ConnectedTo, TypeOK
<1>8. HeldClientIsCurrent'
  BY DEF HeldClientIsCurrent, TypeOK
<1>9. LossReportedOnce'
  BY DEF LossReportedOnce, LossPending, TypeOK
<1>10. DaemonHoldsContexts'
  BY DEF DaemonHoldsContexts, TypeOK
<1>11. PathsHaveTransport'
  BY DEF PathsHaveTransport, TypeOK, CanonicalSession
<1>12. QED
  BY <1>1, <1>2, <1>3, <1>4, <1>5, <1>6, <1>7, <1>8, <1>9, <1>10, <1>11

\* A failure that is still to be handled moves one task.
LEMMA FailsInv ==
    ASSUME ManagerInv, NEW t \in tasks, ConnectOrHandshakeFails(t)
    PROVE  ManagerInv'
<1> USE DEF ManagerInv, ConnectOrHandshakeFails, TaskStep, StayOnHosts, KeepPaths
<1>1. TypeOK'
  BY DEF TypeOK
<1>2. BindingsFlat'
  BY DEF BindingsFlat
<1>3. GenerationsOwned'
  BY DEF GenerationsOwned, TypeOK
<1>4. TasksInOrder'
  <2> DEFINE u == [t EXCEPT !.pc = "failed"]
  <2>1. /\ u.session = t.session /\ u.generation = t.generation
        /\ u.attempt = t.attempt /\ tasks' \subseteq (tasks \ {t}) \cup {u}
    BY DEF TypeOK
  <2>2. UNCHANGED <<sessions, generation, retired>>
    OBVIOUS
  <2> HIDE DEF u, ConnectOrHandshakeFails, TaskStep
  <2>3. QED
    BY <2>1, <2>2, TasksMoveOn DEF TasksInOrder, IsCurrentGeneration
<1>5. RetiredGone'
  BY DEF RetiredGone, TypeOK
<1>6. LossPending'
  BY DEF LossPending, TasksInOrder, TypeOK, StillWanted, Tracked,
         IsCurrentGeneration, RetiredGone
<1>7. IndexCovers' /\ HostEventsFollowIndex'
  BY DEF IndexCovers, HostEventsFollowIndex, ConnectedTo, TypeOK
<1>8. HeldClientIsCurrent'
  BY DEF HeldClientIsCurrent, TypeOK
<1>9. LossReportedOnce'
  BY DEF LossReportedOnce, LossPending, TypeOK
<1>10. DaemonHoldsContexts'
  BY DEF DaemonHoldsContexts, TypeOK
<1>11. PathsHaveTransport'
  BY DEF PathsHaveTransport, TypeOK, CanonicalSession
<1>12. QED
  BY <1>1, <1>2, <1>3, <1>4, <1>5, <1>6, <1>7, <1>8, <1>9, <1>10, <1>11

\* A handshake answer that is still to be handled moves one task.
LEMMA HandshakeInv ==
    ASSUME ManagerInv, NEW t \in tasks, NEW h \in Host, HandshakeSucceeds(t, h)
    PROVE  ManagerInv'
<1> USE DEF ManagerInv, HandshakeSucceeds, StayOnHosts, KeepPaths
<1>1. TypeOK'
  BY DEF TypeOK
<1>2. BindingsFlat'
  BY DEF BindingsFlat
<1>3. GenerationsOwned'
  BY DEF GenerationsOwned, TypeOK
<1>4. TasksInOrder'
  <2> DEFINE u == [t EXCEPT !.pc = "reached", !.reached = h]
  <2>1. /\ u.session = t.session /\ u.generation = t.generation
        /\ u.attempt = t.attempt /\ tasks' \subseteq (tasks \ {t}) \cup {u}
    BY DEF TypeOK
  <2>2. UNCHANGED <<sessions, generation, retired>>
    OBVIOUS
  <2> HIDE DEF u
  <2>3. QED
    BY <2>1, <2>2, TasksMoveOn DEF TasksInOrder, IsCurrentGeneration
<1>5. RetiredGone'
  BY DEF RetiredGone, TypeOK
<1>6. LossPending'
  BY DEF LossPending, TasksInOrder, TypeOK, StillWanted, Tracked,
         IsCurrentGeneration, RetiredGone
<1>7. IndexCovers' /\ HostEventsFollowIndex'
  BY DEF IndexCovers, HostEventsFollowIndex, ConnectedTo, TypeOK
<1>8. HeldClientIsCurrent'
  BY DEF HeldClientIsCurrent, TypeOK
<1>9. LossReportedOnce'
  BY DEF LossReportedOnce, LossPending, TypeOK
<1>10. DaemonHoldsContexts'
  BY DEF DaemonHoldsContexts, TypeOK
<1>11. PathsHaveTransport'
  BY DEF PathsHaveTransport, TypeOK, CanonicalSession
<1>12. QED
  BY <1>1, <1>2, <1>3, <1>4, <1>5, <1>6, <1>7, <1>8, <1>9, <1>10, <1>11

\* A new transport installs the client of the current generation.
LEMMA TransportConnectsInv ==
    ASSUME ManagerInv, NEW t \in tasks, TransportConnects(t)
    PROVE  ManagerInv'
<1> DEFINE s == t.session
           g == t.generation
           u == [t EXCEPT !.pc = IF StillWanted(s, g) THEN "handshake" ELSE "failed"]
           state == IF StillWanted(s, g) THEN Initializing(g) ELSE sessions[s]
<1> USE DEF ManagerInv
<1>a. /\ s \in Owner /\ s \in Session /\ g \in Nat
      /\ u.session = s /\ u.generation = g /\ u.attempt = t.attempt
  BY DEF TypeOK
<1>b. /\ tasks' = (tasks \ {t}) \cup {u}
      /\ sessions' = [sessions EXCEPT ![s] = state]
      /\ UNCHANGED <<generation, registry, hostToSessions, hostUp,
                     lastNavigatedPath, told, retired>>
  BY DEF TransportConnects, TaskStep, Become, StayOnHosts, KeepPaths, TypeOK
<1>c. /\ state.st = "Connected" => state = sessions[s]
      /\ sessions[s].st = "Connected" => state = sessions[s]
      /\ state.st = "Reconnecting" => state = sessions[s]
      /\ state.st # "Absent" => sessions[s].st # "Absent"
  BY DEF Initializing, SessionState, StillWanted, Tracked, TasksInOrder
<1>d. /\ state.st \in {"Initializing", "Connected"} =>
             \/ state = sessions[s]
             \/ state.client = g /\ generation[s] = g /\ g > 0 /\ s \notin retired
      /\ s \in retired => state = sessions[s]
  BY DEF Initializing, SessionState, StillWanted, Tracked, IsCurrentGeneration,
         TasksInOrder, RetiredGone, Absent
<1>1. TypeOK'
  <2>1. u \in [session : Owner, generation : Nat, attempt : 0 .. MaxReconnectAttempts,
               lost : Host \cup {NoHost},
               pc : {"delay", "connect", "handshake", "reached", "failed"},
               reached : Host \cup {NoHost}]
    BY DEF TypeOK
  <2>2. state \in [st : Status, client : Nat, host : Host \cup {NoHost},
                   attempt : 0 .. MaxReconnectAttempts]
    BY <1>a DEF TypeOK, Initializing, SessionState, Status
  <2>3. /\ streams' \subseteq [session : Owner, generation : Nat]
        /\ daemonContexts' \in [Session -> SUBSET Session]
    BY <1>a DEF TransportConnects, Become, Stream, TypeOK
  <2> HIDE DEF u, state
  <2>4. QED
    BY <1>b, <2>1, <2>2, <2>3 DEF TypeOK
<1>2. BindingsFlat'
  BY <1>b DEF BindingsFlat
<1> HIDE DEF u, state
<1>3. GenerationsOwned'
  BY <1>a, <1>b, <1>d DEF GenerationsOwned, TypeOK
<1>4. TasksInOrder'
  <2>1. \A x \in Session : sessions'[x].st = "Connected" => sessions[x].st = "Connected"
    BY <1>a, <1>b, <1>c DEF TypeOK
  <2>2. \A x \in tasks : x.session \in Session
    BY DEF TypeOK
  <2>3. QED
    BY <1>a, <1>b, <2>1, <2>2, TasksMoveOn DEF TasksInOrder, IsCurrentGeneration
<1>5. RetiredGone'
  BY <1>a, <1>b, <1>d DEF RetiredGone, TypeOK
<1>6. LossPending'
  <2>1. \A x \in Session :
            /\ sessions'[x].st \in {"Connected", "Reconnecting"} =>
                  sessions[x].st \in {"Connected", "Reconnecting"}
            /\ sessions'[x].st # "Absent" => sessions[x].st # "Absent"
    BY <1>a, <1>b, <1>c DEF TypeOK
  <2>2. \A x \in tasks : x.session \in Session
    BY DEF TypeOK
  <2>3. QED
    BY <1>a, <1>b, <2>1, <2>2, TasksMoveOn
       DEF TasksInOrder, LossPending, StillWanted, Tracked, IsCurrentGeneration
<1>7. IndexCovers' /\ HostEventsFollowIndex'
  BY <1>a, <1>b, <1>c DEF IndexCovers, HostEventsFollowIndex, ConnectedTo, TypeOK
<1>8. HeldClientIsCurrent'
  BY <1>a, <1>b, <1>d DEF HeldClientIsCurrent, TypeOK
<1>9. LossReportedOnce'
  BY <1>b DEF LossReportedOnce
<1>10. DaemonHoldsContexts'
  <2>1. \A x \in Owner : sessions'[x].st = "Connected" =>
            daemonContexts'[x] = daemonContexts[x] /\ sessions[x].st = "Connected"
    BY <1>a, <1>b, <1>c
       DEF TransportConnects, Become, TypeOK, StillWanted, TasksInOrder
  <2>2. QED
    BY <1>b, <2>1 DEF DaemonHoldsContexts
<1>11. PathsHaveTransport'
  BY <1>b DEF PathsHaveTransport, CanonicalSession
<1>12. QED
  BY <1>1, <1>2, <1>3, <1>4, <1>5, <1>6, <1>7, <1>8, <1>9, <1>10, <1>11

\* Beginning a reconnect attempt, from whatever state of a session whose loss
\* is still to be reported.
LEMMA AttemptReconnectInv ==
    ASSUME ManagerInv, NEW s \in Owner, NEW n \in 1 .. MaxReconnectAttempts,
           NEW h \in Host \cup {NoHost}, NEW pending \in SUBSET tasks,
           AttemptReconnect(s, n, h, pending),
           s \notin retired, told[s] = "connected",
           UNCHANGED <<registry, told, retired>>
    PROVE  /\ sessions' \in [Session -> [st : Status, client : Nat,
                                        host : Host \cup {NoHost},
                                        attempt : 0 .. MaxReconnectAttempts]]
           /\ generation' \in [Session -> Nat]
           /\ tasks' \subseteq [session : Owner, generation : Nat,
                                attempt : 0 .. MaxReconnectAttempts,
                                lost : Host \cup {NoHost},
                                pc : {"delay", "connect", "handshake", "reached", "failed"},
                                reached : Host \cup {NoHost}]
           /\ daemonContexts' \in [Session -> SUBSET Session]
           /\ \A x \in Session : generation[x] > 0 => generation'[x] > 0
           /\ GenerationsOwned' /\ TasksInOrder' /\ RetiredGone' /\ LossPending'
           /\ HeldClientIsCurrent' /\ LossReportedOnce' /\ DaemonHoldsContexts'
<1> DEFINE state == Reconnecting(n, h)
           task  == Task(s, generation[s] + 1, n, h)
<1>1. s \in Session /\ generation[s] \in Nat
  BY DEF ManagerInv, TypeOK
<1>2. /\ sessions' = [sessions EXCEPT ![s] = state]
      /\ generation' = [generation EXCEPT ![s] = @ + 1]
      /\ tasks' = pending \cup {task}
      /\ daemonContexts' = [daemonContexts EXCEPT ![s] = {}]
      /\ UNCHANGED <<registry, told, retired>>
  BY DEF AttemptReconnect, Become, BeginGeneration
<1>3. /\ state \in [st : Status, client : Nat, host : Host \cup {NoHost},
                     attempt : 0 .. MaxReconnectAttempts]
      /\ state.st = "Reconnecting"
  BY DEF Reconnecting, SessionState, Status
<1>4. /\ task \in [session : Owner, generation : Nat,
                    attempt : 0 .. MaxReconnectAttempts,
                    lost : Host \cup {NoHost},
                    pc : {"delay", "connect", "handshake", "reached", "failed"},
                    reached : Host \cup {NoHost}]
      /\ task.session = s /\ task.generation = generation[s] + 1
  BY <1>1 DEF Task
<1>5. \A t \in tasks : /\ t.session \in Owner /\ t.generation \in Nat
                       /\ t.session = s => t.generation <= generation[s]
  BY DEF ManagerInv, TypeOK, TasksInOrder
<1> HIDE DEF state, task
<1>6. /\ sessions' \in [Session -> [st : Status, client : Nat,
                                    host : Host \cup {NoHost},
                                    attempt : 0 .. MaxReconnectAttempts]]
      /\ generation' \in [Session -> Nat]
      /\ daemonContexts' \in [Session -> SUBSET Session]
  BY <1>1, <1>2, <1>3 DEF ManagerInv, TypeOK
<1>7. tasks' \subseteq [session : Owner, generation : Nat,
                       attempt : 0 .. MaxReconnectAttempts,
                       lost : Host \cup {NoHost},
                       pc : {"delay", "connect", "handshake", "reached", "failed"},
                       reached : Host \cup {NoHost}]
  BY <1>2, <1>4 DEF ManagerInv, TypeOK
<1>8. \A x \in Session : /\ x # s => /\ sessions'[x] = sessions[x]
                                     /\ generation'[x] = generation[x]
                                     /\ daemonContexts'[x] = daemonContexts[x]
                         /\ x = s => /\ sessions'[x].st = "Reconnecting"
                                     /\ generation'[x] = generation[x] + 1
  BY <1>1, <1>2, <1>3 DEF ManagerInv, TypeOK
<1>9. \A x \in Session : generation[x] > 0 => generation'[x] > 0
  BY <1>8, <1>1
<1>10. GenerationsOwned'
  BY <1>8, <1>1 DEF ManagerInv, GenerationsOwned
<1>11. TasksInOrder'
  <2>1. \A t \in tasks' : t = task \/ t \in tasks
    BY <1>2
  <2>2. \A t \in tasks' : /\ t.generation > 0
                          /\ t.session \notin retired =>
                                t.generation <= generation'[t.session]
    BY <2>1, <1>1, <1>4, <1>5, <1>8 DEF ManagerInv, TasksInOrder
  <2>3. \A t, u \in tasks' :
            t.session = u.session /\ t.generation = u.generation => t = u
    BY <2>1, <1>1, <1>4, <1>5 DEF ManagerInv, TasksInOrder
  <2>4. \A t \in tasks' : generation'[t.session] = t.generation =>
            sessions'[t.session].st # "Connected"
    BY <2>1, <1>1, <1>4, <1>5, <1>8
       DEF ManagerInv, TasksInOrder, IsCurrentGeneration
  <2>5. QED
    BY <2>2, <2>3, <2>4, <1>2 DEF TasksInOrder, IsCurrentGeneration
<1>12. RetiredGone'
  BY <1>2, <1>8 DEF ManagerInv, TypeOK, RetiredGone
<1>13. LossPending'
  <2>1. \A t \in tasks' : t = task \/ t \in tasks
    BY <1>2
  <2>2. \A t \in tasks' : /\ t.attempt > 0 /\ sessions'[t.session].st # "Absent"
                          /\ generation'[t.session] = t.generation
                          => told[t.session] = "connected"
    BY <2>1, <1>1, <1>4, <1>5, <1>8
       DEF ManagerInv, LossPending, StillWanted, Tracked, IsCurrentGeneration
  <2>3. \A x \in Session : sessions'[x].st \in {"Connected", "Reconnecting"} =>
            told[x] = "connected"
    BY <1>8 DEF ManagerInv, LossPending
  <2>4. QED
    BY <2>2, <2>3, <1>2 DEF LossPending, StillWanted, Tracked, IsCurrentGeneration
<1>14. HeldClientIsCurrent' /\ LossReportedOnce'
  BY <1>2, <1>8 DEF ManagerInv, HeldClientIsCurrent, LossReportedOnce
<1>15. DaemonHoldsContexts'
  BY <1>2, <1>8 DEF ManagerInv, DaemonHoldsContexts
<1>16. QED
  BY <1>6, <1>7, <1>9, <1>10, <1>11, <1>12, <1>13, <1>14, <1>15

\* A session that gives up or drops its transport within its generation, the
\* index and the host events having been settled.
LEMMA StepDownInv ==
    ASSUME ManagerInv, NEW s \in Owner, NEW state \in {Disconnected, Absent},
           Become(s, state), s \in retired => state = Absent,
           state # Absent => sessions[s].st # "Absent",
           tasks' \subseteq tasks, streams' \subseteq streams,
           told' \in [Session -> Event], told'[s] # "spurious",
           \A x \in Session \ {s} : told'[x] = told[x],
           \/ state = Absent
           \/ told'[s] = told[s]
           \/ \A t \in tasks' : t.session = s => t.generation # generation[s],
           hostToSessions' \in [Host -> SUBSET Session], hostUp' \in [Host -> BOOLEAN],
           IndexCovers', HostEventsFollowIndex',
           UNCHANGED <<generation, registry, lastNavigatedPath, retired>>
    PROVE  ManagerInv'
<1>1. s \in Session
  OBVIOUS
<1>2. /\ state \in [st : Status, client : Nat, host : Host \cup {NoHost},
                     attempt : 0 .. MaxReconnectAttempts]
      /\ state.st \in {"Disconnected", "Absent"}
      /\ state.st = "Absent" <=> state = Absent
  BY DEF Disconnected, Absent, SessionState, Status
<1>3. /\ sessions' \in [Session -> [st : Status, client : Nat,
                                    host : Host \cup {NoHost},
                                    attempt : 0 .. MaxReconnectAttempts]]
      /\ daemonContexts' \in [Session -> SUBSET Session]
  BY <1>2 DEF ManagerInv, TypeOK, Become
<1>4. \A x \in Session : /\ x # s => /\ sessions'[x] = sessions[x]
                                     /\ daemonContexts'[x] = daemonContexts[x]
                         /\ x = s => sessions'[x] = state
  BY DEF ManagerInv, TypeOK, Become
<1>5. TypeOK'
  BY <1>3 DEF ManagerInv, TypeOK
<1>6. BindingsFlat' /\ PathsHaveTransport'
  BY DEF ManagerInv, BindingsFlat, PathsHaveTransport, CanonicalSession
<1>7. GenerationsOwned' /\ HeldClientIsCurrent'
  BY <1>2, <1>4 DEF ManagerInv, GenerationsOwned, HeldClientIsCurrent
<1>8. TasksInOrder'
  <2>1. \A t \in tasks : t.session \in Session
    BY DEF ManagerInv, TypeOK
  <2>2. QED
    BY <1>2, <1>4, <2>1 DEF ManagerInv, TasksInOrder, IsCurrentGeneration
<1>9. RetiredGone'
  BY <1>4 DEF ManagerInv, TypeOK, RetiredGone
<1>10. LossPending'
  <2>1. \A t \in tasks : t.session \in Session
    BY DEF ManagerInv, TypeOK
  <2>2. \A x \in Session : sessions'[x].st \in {"Connected", "Reconnecting"} =>
            told'[x] = "connected"
    BY <1>2, <1>4 DEF ManagerInv, LossPending
  <2>3. ASSUME NEW t \in tasks', t.attempt > 0, sessions'[t.session].st # "Absent",
               generation'[t.session] = t.generation
        PROVE  told'[t.session] = "connected"
    <3>1. CASE t.session # s
      BY <3>1, <2>1, <2>3, <1>4
         DEF ManagerInv, LossPending, StillWanted, Tracked, IsCurrentGeneration
    <3>2. CASE t.session = s /\ sessions[s].st # "Absent"
      BY <3>2, <2>3, <1>2, <1>4
         DEF ManagerInv, LossPending, StillWanted, Tracked, IsCurrentGeneration
    <3>3. CASE t.session = s /\ sessions[s].st = "Absent"
      BY <3>3, <2>3, <1>2, <1>4
    <3>4. QED
      BY <3>1, <3>2, <3>3
  <2>4. QED
    BY <2>2, <2>3 DEF LossPending, StillWanted, Tracked, IsCurrentGeneration
<1>11. LossReportedOnce'
  BY DEF ManagerInv, LossReportedOnce
<1>12. DaemonHoldsContexts'
  BY <1>2, <1>4 DEF ManagerInv, DaemonHoldsContexts
<1>13. QED
  BY <1>5, <1>6, <1>7, <1>8, <1>9, <1>10, <1>11, <1>12 DEF ManagerInv

\* A step that only takes tasks or streams away.
LEMMA UnchangedInv ==
    ASSUME ManagerInv, tasks' \subseteq tasks, streams' \subseteq streams,
           UNCHANGED <<sessions, generation, registry, hostToSessions,
                       lastNavigatedPath, told, hostUp, daemonContexts, retired>>
    PROVE  ManagerInv'
<1> USE DEF ManagerInv
<1>1. TypeOK' /\ BindingsFlat'
  BY DEF TypeOK, BindingsFlat
<1>2. GenerationsOwned' /\ TasksInOrder' /\ RetiredGone' /\ LossPending'
  BY DEF GenerationsOwned, TasksInOrder, RetiredGone, LossPending,
         IsCurrentGeneration, StillWanted, Tracked
<1>3. IndexCovers' /\ HostEventsFollowIndex' /\ HeldClientIsCurrent'
  BY DEF IndexCovers, HostEventsFollowIndex, HeldClientIsCurrent, ConnectedTo
<1>4. LossReportedOnce' /\ DaemonHoldsContexts' /\ PathsHaveTransport'
  BY DEF LossReportedOnce, DaemonHoldsContexts, PathsHaveTransport, CanonicalSession
<1>5. QED
  BY <1>1, <1>2, <1>3, <1>4

\* A reconnect attempt begins, the index and the host events settled and some
\* dedup entries forgotten.
LEMMA ReconnectsInv ==
    ASSUME ManagerInv, NEW s \in Owner, NEW n \in 1 .. MaxReconnectAttempts,
           NEW h \in Host \cup {NoHost}, NEW pending \in SUBSET tasks,
           AttemptReconnect(s, n, h, pending), s \notin retired, told[s] = "connected",
           \/ UNCHANGED lastNavigatedPath
           \/ \E gone \in SUBSET Session : ForgetPaths(gone),
           hostToSessions' \in [Host -> SUBSET Session], hostUp' \in [Host -> BOOLEAN],
           IndexCovers', HostEventsFollowIndex', streams' \subseteq streams,
           UNCHANGED <<registry, told, retired>>
    PROVE  ManagerInv'
<1>1. /\ lastNavigatedPath' \in [Session -> Path \cup {NoPath}]
      /\ \A x \in Session : lastNavigatedPath'[x] # NoPath => lastNavigatedPath[x] # NoPath
  BY DEF ManagerInv, TypeOK, ForgetPaths
<1>2. TypeOK'
  <2>1. registry' \in Registry /\ told' \in [Session -> Event] /\ retired' \subseteq Owner
    BY DEF ManagerInv, TypeOK
  <2>2. streams' \subseteq [session : Owner, generation : Nat]
    BY DEF ManagerInv, TypeOK
  <2>3. QED
    BY <1>1, <2>1, <2>2, AttemptReconnectInv DEF TypeOK
<1>3. BindingsFlat'
  BY DEF ManagerInv, BindingsFlat
<1>4. PathsHaveTransport'
  <2>1. \A x \in Session : CanonicalSession(x) \in Session
    BY BoundLookups DEF ManagerInv, BindingsFlat, FlatBindings, CanonicalSession
  <2>2. \A x \in Session : generation[x] > 0 => generation'[x] > 0
    BY AttemptReconnectInv
  <2>3. QED
    BY <1>1, <2>1, <2>2 DEF ManagerInv, PathsHaveTransport, CanonicalSession
<1>5. /\ GenerationsOwned' /\ TasksInOrder' /\ RetiredGone' /\ LossPending'
      /\ HeldClientIsCurrent' /\ LossReportedOnce' /\ DaemonHoldsContexts'
  BY AttemptReconnectInv
<1>6. QED
  BY <1>2, <1>3, <1>4, <1>5 DEF ManagerInv


\* The stream of a connection ends.
LEMMA StreamEndsInv ==
    ASSUME ManagerInv, NEW x \in streams, StreamEnds(x)
    PROVE  ManagerInv'
<1> DEFINE s == x.session
           g == x.generation
<1>1. s \in Owner /\ s \in Session
  BY DEF ManagerInv, TypeOK
<1>2. PICK exited \in BOOLEAN : MarkSessionDisconnected(s, g, exited, tasks, told)
  BY DEF StreamEnds
<1>3. streams' \subseteq streams /\ UNCHANGED <<registry, retired>>
  BY DEF StreamEnds
<1> HIDE DEF s, g
<1>4. CASE ~StillWanted(s, g)
  <2>1. UNCHANGED <<sessions, generation, registry, hostToSessions, lastNavigatedPath,
                    tasks, told, hostUp, daemonContexts, retired>>
    BY <1>2, <1>3, <1>4 DEF MarkSessionDisconnected, StayOnHosts, KeepPaths
  <2>2. QED
    BY <2>1, <1>3, UnchangedInv
<1>5. CASE StillWanted(s, g) /\ sessions[s].st # "Connected"
  <2>1. /\ Become(s, Disconnected) /\ tasks' = tasks /\ told' = told
        /\ UNCHANGED <<generation, hostToSessions, hostUp, lastNavigatedPath>>
    BY <1>2, <1>5 DEF MarkSessionDisconnected, StayOnHosts, KeepPaths
  <2>2. IndexCovers' /\ HostEventsFollowIndex'
    BY <2>1, <1>1, <1>5 DEF ManagerInv, TypeOK, IndexCovers,
       HostEventsFollowIndex, ConnectedTo, Become, Disconnected, SessionState
  <2>3. s \notin retired /\ sessions[s].st # "Absent"
    BY <1>5 DEF StillWanted, Tracked, ManagerInv, RetiredGone, Absent, SessionState
  <2>4. /\ told' \in [Session -> Event] /\ told'[s] # "spurious"
        /\ hostToSessions' \in [Host -> SUBSET Session] /\ hostUp' \in [Host -> BOOLEAN]
    BY <2>1, <1>1 DEF ManagerInv, TypeOK, LossReportedOnce
  <2>5. QED
    BY <2>1, <2>2, <2>3, <2>4, <1>1, <1>3, StepDownInv
<1>6. CASE StillWanted(s, g) /\ sessions[s].st = "Connected"
  <2>1. /\ s \notin retired /\ sessions[s].st # "Absent"
        /\ told[s] = "connected" /\ sessions[s].host \in Host \cup {NoHost}
    BY <1>1, <1>6 DEF StillWanted, Tracked, ManagerInv, RetiredGone, LossPending,
       TypeOK, Absent, SessionState
  <2>2. \A t \in tasks : t.session = s => t.generation # generation[s]
    BY <1>6 DEF ManagerInv, TasksInOrder, IsCurrentGeneration
  <2>3. CASE exited
    <3>1. /\ Become(s, Disconnected) /\ LeaveHosts(s, HeldHost(s)) /\ tasks' = tasks
          /\ told' = Tell(told, s, "disconnected")
          /\ UNCHANGED <<generation, lastNavigatedPath>>
      BY <1>2, <1>6, <2>3 DEF MarkSessionDisconnected, KeepPaths
    <3>2. /\ hostToSessions' \in [Host -> SUBSET Session] /\ hostUp' \in [Host -> BOOLEAN]
          /\ IndexCovers' /\ HostEventsFollowIndex'
      <4>1. sessions' = [sessions EXCEPT ![s] = Disconnected]
        BY <3>1 DEF Become
      <4>2. Disconnected.st # "Connected"
        BY DEF Disconnected, SessionState
      <4>3. QED
        BY <3>1, <4>1, <4>2, <1>1, LeavingHosts DEF ManagerInv
    <3>3. /\ told' \in [Session -> Event] /\ told'[s] # "spurious"
          /\ \A y \in Session \ {s} : told'[y] = told[y]
      BY <3>1, <2>1, <1>1 DEF ManagerInv, TypeOK, Tell, Event
    <3>4. QED
      BY <3>1, <3>2, <3>3, <2>1, <2>2, <1>1, <1>3, StepDownInv
  <2>4. CASE ~exited
    <3>1. /\ LeaveHosts(s, HeldHost(s)) /\ ForgetPaths({s}) /\ told' = told
          /\ AttemptReconnect(s, 1, sessions[s].host, tasks)
      BY <1>2, <1>6, <2>4 DEF MarkSessionDisconnected
    <3>2. /\ hostToSessions' \in [Host -> SUBSET Session] /\ hostUp' \in [Host -> BOOLEAN]
          /\ IndexCovers' /\ HostEventsFollowIndex'
      <4> DEFINE state == Reconnecting(1, sessions[s].host)
      <4>1. sessions' = [sessions EXCEPT ![s] = state]
        BY <3>1 DEF AttemptReconnect, Become
      <4>2. state.st # "Connected"
        BY DEF Reconnecting, SessionState
      <4> HIDE DEF state
      <4>3. QED
        BY <3>1, <4>1, <4>2, <1>1, LeavingHosts DEF ManagerInv
    <3>3. QED
      BY <3>1, <3>2, <2>1, <1>1, <1>3, ReconnectsInv
  <2>5. QED
    BY <2>3, <2>4
<1>7. QED
  BY <1>4, <1>5, <1>6

\* Stepping down from a state that is not Connected leaves the index alone.
LEMMA IndexUntouched ==
    ASSUME ManagerInv, NEW s \in Owner, NEW state, Become(s, state),
           sessions[s].st # "Connected", state.st # "Connected",
           UNCHANGED <<hostToSessions, hostUp>>
    PROVE  /\ IndexCovers' /\ HostEventsFollowIndex'
           /\ hostToSessions' \in [Host -> SUBSET Session] /\ hostUp' \in [Host -> BOOLEAN]
<1>1. \A x \in Session : /\ x # s => sessions'[x] = sessions[x]
                         /\ x = s => sessions'[x] = state
  BY DEF ManagerInv, TypeOK, Become
<1>2. QED
  BY <1>1 DEF ManagerInv, TypeOK, IndexCovers, HostEventsFollowIndex, ConnectedTo

\* The failure closure of a reconnect task.
LEMMA ReconnectFailedInv ==
    ASSUME ManagerInv, NEW t \in tasks, ReconnectFailed(t)
    PROVE  ManagerInv'
<1> DEFINE s == t.session
<1>1. /\ s \in Owner /\ s \in Session /\ t.attempt \in 0 .. MaxReconnectAttempts
      /\ t.lost \in Host \cup {NoHost} /\ t.attempt > 0
  BY DEF ManagerInv, TypeOK, ReconnectFailed
<1>2. UNCHANGED <<registry, streams, retired, hostToSessions, hostUp, lastNavigatedPath>>
  BY DEF ReconnectFailed, StayOnHosts, KeepPaths
<1>3. CASE ~StillWanted(s, t.generation)
  BY <1>2, <1>3, UnchangedInv DEF ReconnectFailed
<1>4. CASE StillWanted(s, t.generation)
  <2>1. /\ s \notin retired /\ sessions[s].st \notin {"Absent", "Connected"}
        /\ told[s] = "connected"
    BY <1>1, <1>4 DEF StillWanted, Tracked, ManagerInv, RetiredGone, LossPending,
       TasksInOrder, Absent, SessionState
  <2>2. CASE t.attempt < MaxReconnectAttempts
    <3>1. /\ AttemptReconnect(s, t.attempt + 1, t.lost, tasks \ {t})
          /\ told' = told
      BY <1>1, <1>4, <2>2 DEF ReconnectFailed, AttemptsLeft
    <3>2. t.attempt + 1 \in 1 .. MaxReconnectAttempts
      BY <1>1, <2>2
    <3> DEFINE state == Reconnecting(t.attempt + 1, t.lost)
    <3>3. Become(s, state) /\ state.st # "Connected"
      BY <3>1 DEF AttemptReconnect, Reconnecting, SessionState
    <3>4. /\ IndexCovers' /\ HostEventsFollowIndex'
          /\ hostToSessions' \in [Host -> SUBSET Session] /\ hostUp' \in [Host -> BOOLEAN]
      <4> HIDE DEF state
      <4>1. QED
        BY <3>3, <2>1, <1>1, <1>2, IndexUntouched
    <3>5. tasks \ {t} \in SUBSET tasks
      OBVIOUS
    <3> HIDE DEF s
    <3>6. QED
      BY <3>1, <3>2, <3>4, <3>5, <2>1, <1>1, <1>2, ReconnectsInv
  <2>3. CASE ~(t.attempt < MaxReconnectAttempts)
    <3>1. /\ Become(s, Disconnected) /\ tasks' = tasks \ {t}
          /\ told' = Tell(told, s, "disconnected") /\ UNCHANGED generation
      BY <1>1, <1>4, <2>3 DEF ReconnectFailed, AttemptsLeft
    <3>2. \A u \in tasks' : u.session = s => u.generation # generation[s]
      BY <1>4, <3>1 DEF StillWanted, IsCurrentGeneration, ManagerInv, TasksInOrder
    <3>3. /\ told' \in [Session -> Event] /\ told'[s] # "spurious"
          /\ \A y \in Session \ {s} : told'[y] = told[y]
      BY <3>1, <2>1, <1>1 DEF ManagerInv, TypeOK, Tell, Event
    <3>4. Disconnected.st # "Connected"
      BY DEF Disconnected, SessionState
    <3> HIDE DEF s
    <3>5. /\ IndexCovers' /\ HostEventsFollowIndex'
          /\ hostToSessions' \in [Host -> SUBSET Session] /\ hostUp' \in [Host -> BOOLEAN]
      BY <3>1, <3>4, <2>1, <1>1, <1>2, IndexUntouched
    <3>6. QED
      BY <3>1, <3>2, <3>3, <3>5, <2>1, <1>1, <1>2, StepDownInv
  <2>4. QED
    BY <2>2, <2>3
<1>5. QED
  BY <1>3, <1>4

\* The failure closure of connect_session.
LEMMA ConnectFailedInv ==
    ASSUME ManagerInv, NEW t \in tasks, ConnectFailed(t)
    PROVE  ManagerInv'
<1> DEFINE s == t.session
           g == t.generation
           view == IF IsCurrentGeneration(s, g) THEN Tell(told, s, "failed") ELSE told
<1>1. s \in Owner /\ s \in Session /\ t.attempt = 0
  BY DEF ManagerInv, TypeOK, ConnectFailed
<1>2. MarkSessionDisconnected(s, g, FALSE, tasks \ {t}, view)
  BY DEF ConnectFailed
<1>3. UNCHANGED <<registry, streams, retired>>
  BY DEF ConnectFailed
<1>4. /\ view \in [Session -> Event] /\ view[s] # "spurious"
      /\ \A y \in Session \ {s} : view[y] = told[y]
      /\ ~IsCurrentGeneration(s, g) => view = told
  BY <1>1 DEF ManagerInv, TypeOK, Tell, Event, LossReportedOnce
<1>5. IsCurrentGeneration(s, g) => sessions[s].st # "Connected"
  BY DEF ManagerInv, TasksInOrder
<1>6. IsCurrentGeneration(s, g) =>
          \A u \in tasks \ {t} : u.session = s => u.generation # generation[s]
  BY DEF ManagerInv, TasksInOrder, IsCurrentGeneration
<1> HIDE DEF s, g, view
<1>7. CASE ~IsCurrentGeneration(s, g)
  <2>1. /\ tasks' = tasks \ {t} /\ told' = told
        /\ UNCHANGED <<sessions, generation, hostToSessions, hostUp,
                       lastNavigatedPath, daemonContexts>>
    BY <1>2, <1>4, <1>7
       DEF MarkSessionDisconnected, StillWanted, StayOnHosts, KeepPaths
  <2>2. QED
    BY <2>1, <1>3, UnchangedInv
<1>8. CASE IsCurrentGeneration(s, g) /\ ~Tracked(s)
  <2>1. /\ tasks' = tasks \ {t} /\ told' = view
        /\ UNCHANGED <<sessions, generation, hostToSessions, hostUp,
                       lastNavigatedPath, daemonContexts>>
    BY <1>2, <1>8 DEF MarkSessionDisconnected, StillWanted, StayOnHosts, KeepPaths
  <2>2. sessions[s].st = "Absent"
    BY <1>8 DEF Tracked
  <2>3. TypeOK' /\ BindingsFlat' /\ PathsHaveTransport'
    BY <2>1, <1>3, <1>4
       DEF ManagerInv, TypeOK, BindingsFlat, PathsHaveTransport, CanonicalSession
  <2>4. GenerationsOwned' /\ TasksInOrder' /\ RetiredGone'
    BY <2>1, <1>3
       DEF ManagerInv, GenerationsOwned, TasksInOrder, RetiredGone, IsCurrentGeneration
  <2>5. LossPending'
    <3>1. \A u \in tasks : u.session \in Session
      BY DEF ManagerInv, TypeOK
    <3>2. QED
      BY <2>1, <2>2, <3>1, <1>4
         DEF ManagerInv, LossPending, StillWanted, Tracked, IsCurrentGeneration
  <2>6. IndexCovers' /\ HostEventsFollowIndex' /\ HeldClientIsCurrent'
    BY <2>1 DEF ManagerInv, IndexCovers, HostEventsFollowIndex,
       HeldClientIsCurrent, ConnectedTo
  <2>7. LossReportedOnce' /\ DaemonHoldsContexts'
    BY <2>1, <1>1, <1>3, <1>4 DEF ManagerInv, LossReportedOnce, DaemonHoldsContexts
  <2>8. QED
    BY <2>3, <2>4, <2>5, <2>6, <2>7 DEF ManagerInv
<1>9. CASE IsCurrentGeneration(s, g) /\ Tracked(s)
  <2>1. /\ Become(s, Disconnected) /\ tasks' = tasks \ {t} /\ told' = view
        /\ UNCHANGED <<generation, hostToSessions, hostUp, lastNavigatedPath>>
    BY <1>2, <1>5, <1>9 DEF MarkSessionDisconnected, StillWanted, StayOnHosts, KeepPaths
  <2>2. Disconnected.st # "Connected"
    BY DEF Disconnected, SessionState
  <2>3. s \notin retired /\ sessions[s].st # "Absent"
    BY <1>9 DEF Tracked, ManagerInv, RetiredGone, Absent, SessionState
  <2>4. /\ IndexCovers' /\ HostEventsFollowIndex'
        /\ hostToSessions' \in [Host -> SUBSET Session] /\ hostUp' \in [Host -> BOOLEAN]
    BY <2>1, <2>2, <1>1, <1>5, <1>9, IndexUntouched
  <2>5. QED
    BY <2>1, <2>3, <2>4, <1>1, <1>3, <1>4, <1>6, <1>9, StepDownInv
<1>10. QED
  BY <1>7, <1>8, <1>9

\* The success closure of a connect or reconnect task.
LEMMA MarkSessionConnectedInv ==
    ASSUME ManagerInv, NEW t \in tasks, MarkSessionConnected(t)
    PROVE  ManagerInv'
<1> DEFINE s == t.session
           g == t.generation
           h == t.reached
           state == Connected(sessions[s].client, h)
<1>1. s \in Owner /\ s \in Session /\ h \in Host \cup {NoHost} /\ g \in Nat /\ g > 0
  BY DEF ManagerInv, TypeOK, TasksInOrder
<1>2. /\ tasks' = tasks \ {t} /\ UNCHANGED <<generation, registry, streams, retired>>
      /\ UNCHANGED lastNavigatedPath
  BY DEF MarkSessionConnected, KeepPaths
<1>3. CASE ~IsCurrentGeneration(s, g)
  BY <1>2, <1>3, UnchangedInv DEF MarkSessionConnected, StayOnHosts, KeepPaths
<1>4. CASE IsCurrentGeneration(s, g) /\ sessions[s].st # "Initializing"
  <2>1. /\ Become(s, Absent) /\ told' = told
        /\ UNCHANGED <<hostToSessions, hostUp, lastNavigatedPath>>
    BY <1>4 DEF MarkSessionConnected, StayOnHosts, KeepPaths
  <2>2. Absent.st # "Connected"
    BY DEF Absent, SessionState
  <2>3. sessions[s].st # "Connected"
    BY <1>4 DEF ManagerInv, TasksInOrder
  <2>4. told' \in [Session -> Event] /\ told'[s] # "spurious"
    BY <2>1, <1>1 DEF ManagerInv, TypeOK, LossReportedOnce
  <2> HIDE DEF s, g
  <2>5. /\ IndexCovers' /\ HostEventsFollowIndex'
        /\ hostToSessions' \in [Host -> SUBSET Session] /\ hostUp' \in [Host -> BOOLEAN]
    BY <2>1, <2>2, <2>3, <1>1, IndexUntouched
  <2>6. QED
    BY <2>1, <2>4, <2>5, <1>1, <1>2, StepDownInv
<1>5. CASE IsCurrentGeneration(s, g) /\ sessions[s].st = "Initializing"
  <2>1. /\ sessions' = [sessions EXCEPT ![s] = state]
        /\ hostToSessions' = [hostToSessions EXCEPT ![h] = @ \cup {s}]
        /\ hostUp' = [hostUp EXCEPT ![h] = @ \/ hostToSessions[h] = {}]
        /\ told' = Tell(told, s, "connected")
        /\ daemonContexts' = [daemonContexts EXCEPT
              ![s] = SessionIdsForTransport(registry, s)]
    BY <1>5 DEF MarkSessionConnected
  <2>2. /\ state \in [st : Status, client : Nat, host : Host \cup {NoHost},
                       attempt : 0 .. MaxReconnectAttempts]
        /\ state.st = "Connected" /\ state.host = h /\ state.client = generation[s]
    BY <1>1, <1>5 DEF ManagerInv, TypeOK, HeldClientIsCurrent, Connected,
       SessionState, Status
  <2>3. s \notin retired /\ generation[s] = g
    BY <1>5 DEF ManagerInv, RetiredGone, Absent, SessionState, IsCurrentGeneration
  <2>4. /\ told' \in [Session -> Event] /\ told'[s] = "connected"
        /\ \A y \in Session \ {s} : told'[y] = told[y]
    BY <2>1, <1>1 DEF ManagerInv, TypeOK, Tell, Event, LossReportedOnce
  <2>5. \A u \in tasks' : u.session = s => u.generation # generation[s]
    BY <1>2, <2>3 DEF ManagerInv, TasksInOrder
  <2> HIDE DEF s, g, h, state
  <2>7. \A x \in Session : /\ x # s => /\ sessions'[x] = sessions[x]
                                       /\ daemonContexts'[x] = daemonContexts[x]
                           /\ x = s => /\ sessions'[x] = state
                                       /\ daemonContexts'[x] =
                                             SessionIdsForTransport(registry, s)
    BY <2>1 DEF ManagerInv, TypeOK
  <2>8. TypeOK'
    <3>1. SessionIdsForTransport(registry, s) \subseteq Session
      BY DEF SessionIdsForTransport
    <3>2. /\ sessions' \in [Session -> [st : Status, client : Nat,
                                        host : Host \cup {NoHost},
                                        attempt : 0 .. MaxReconnectAttempts]]
          /\ daemonContexts' \in [Session -> SUBSET Session]
      BY <2>1, <2>2, <3>1 DEF ManagerInv, TypeOK
    <3>3. /\ hostToSessions' \in [Host -> SUBSET Session]
          /\ hostUp' \in [Host -> BOOLEAN]
      BY <2>1, <1>1 DEF ManagerInv, TypeOK
    <3>4. QED
      BY <3>2, <3>3, <2>4, <1>2 DEF ManagerInv, TypeOK
  <2>9. BindingsFlat' /\ PathsHaveTransport'
    BY <1>2 DEF ManagerInv, BindingsFlat, PathsHaveTransport, CanonicalSession
  <2>10. GenerationsOwned' /\ HeldClientIsCurrent'
    BY <1>1, <1>2, <2>2, <2>3, <2>7 DEF ManagerInv, GenerationsOwned, HeldClientIsCurrent
  <2>11. TasksInOrder' /\ RetiredGone'
    <3>1. \A u \in tasks : u.session \in Session
      BY DEF ManagerInv, TypeOK
    <3>2. TasksInOrder'
      BY <1>2, <2>5, <2>7, <3>1 DEF ManagerInv, TasksInOrder, IsCurrentGeneration
    <3>3. RetiredGone'
      BY <1>2, <2>3, <2>7 DEF ManagerInv, TypeOK, RetiredGone
    <3>4. QED
      BY <3>2, <3>3
  <2>12. LossPending'
    <3>1. \A u \in tasks : u.session \in Session
      BY DEF ManagerInv, TypeOK
    <3>2. QED
      BY <1>2, <2>4, <2>7, <3>1
         DEF ManagerInv, LossPending, StillWanted, Tracked, IsCurrentGeneration
  <2>13. IndexCovers'
    <3>1. ASSUME NEW x \in Session, NEW k \in Host, ConnectedTo(x, k)'
          PROVE  x \in hostToSessions'[k]
      <4>1. x \in hostToSessions'[k] <=> x \in hostToSessions[k] \/ (k = h /\ x = s)
        BY <2>1 DEF ManagerInv, TypeOK
      <4>2. CASE x = s
        BY <4>1, <4>2, <3>1, <2>2, <2>7 DEF ConnectedTo
      <4>3. CASE x # s
        BY <4>1, <4>3, <3>1, <2>7 DEF ManagerInv, IndexCovers, ConnectedTo
      <4>4. QED
        BY <4>2, <4>3
    <3>2. QED
      BY <3>1 DEF IndexCovers
  <2>14. HostEventsFollowIndex'
    BY <2>1 DEF ManagerInv, TypeOK, HostEventsFollowIndex
  <2>15. LossReportedOnce' /\ DaemonHoldsContexts'
    BY <1>1, <1>2, <2>4, <2>7 DEF ManagerInv, LossReportedOnce, DaemonHoldsContexts
  <2>16. QED
    BY <2>8, <2>9, <2>10, <2>11, <2>12, <2>13, <2>14, <2>15 DEF ManagerInv
<1>6. QED
  BY <1>3, <1>4, <1>5

\* A step on the registry: what is left to show is about bindings, contexts and
\* dedup entries.
LEMMA RegistryStepInv ==
    ASSUME ManagerInv, registry' \in Registry, FlatBindings(registry'),
           lastNavigatedPath' \in [Session -> Path \cup {NoPath}],
           daemonContexts' \in [Session -> SUBSET Session],
           DaemonHoldsContexts', PathsHaveTransport',
           UNCHANGED <<sessions, generation, hostToSessions, tasks, streams,
                       told, hostUp, retired>>
    PROVE  ManagerInv'
<1> USE DEF ManagerInv
<1>1. TypeOK' /\ BindingsFlat'
  BY DEF TypeOK, BindingsFlat, FlatBindings
<1>2. GenerationsOwned' /\ TasksInOrder' /\ RetiredGone' /\ LossPending'
  BY DEF GenerationsOwned, TasksInOrder, RetiredGone, LossPending,
         IsCurrentGeneration, StillWanted, Tracked
<1>3. IndexCovers' /\ HostEventsFollowIndex' /\ HeldClientIsCurrent'
  BY DEF IndexCovers, HostEventsFollowIndex, HeldClientIsCurrent, ConnectedTo
<1>4. LossReportedOnce'
  BY DEF LossReportedOnce
<1>5. QED
  BY <1>1, <1>2, <1>3, <1>4

\* Removing an alias drops its context, also at the daemon of its transport.
LEMMA DeregisterAliasInv ==
    ASSUME ManagerInv, NEW s \in Session, DeregisterAlias(s)
    PROVE  ManagerInv'
<1> DEFINE o == registry.aliases[s]
<1>1. FlatBindings(registry) /\ o \in Owner /\ s \notin Owner
  BY DEF ManagerInv, BindingsFlat, FlatBindings, DeregisterAlias, IsAlias
<1>2. CanonicalSession(s) = o
  BY <1>1, BoundLookups DEF CanonicalSession, OneHop
<1>3. /\ registry' = Remove(registry, s) /\ Removed(registry, s) = {s}
      /\ lastNavigatedPath' = [x \in Session |->
             IF x \in {s} THEN NoPath ELSE lastNavigatedPath[x]]
      /\ UNCHANGED <<sessions, generation, hostToSessions, tasks, streams,
                     told, hostUp, retired>>
  BY DEF DeregisterAlias, ForgetPaths, Removed
<1>4. /\ registry' \in Registry
      /\ \A x \in Session \ {s} : /\ registry'.aliases[x] = registry.aliases[x]
                                  /\ registry'.contexts[x] = registry.contexts[x]
      /\ registry'.aliases[s] = None /\ registry'.contexts[s] = None
  BY <1>3 DEF Remove, Registry, ManagerInv, TypeOK
<1>5. FlatBindings(registry')
  BY <1>1, <1>4 DEF FlatBindings
<1>6. \A x \in Session \ {s} : OneHop(registry', x) = OneHop(registry, x)
  BY <1>4 DEF OneHop
<1>7. OneHop(registry', s) = s /\ OneHop(registry, s) = o
  BY <1>1, <1>4 DEF OneHop
<1> HIDE DEF o
<1>8. \A p \in Owner : SessionIdsForTransport(registry', p) =
          IF p = o THEN SessionIdsForTransport(registry, p) \ {s}
                   ELSE SessionIdsForTransport(registry, p)
  <2>1. \A p \in Owner :
           /\ SessionIdsForTransport(registry, p) =
                {x \in Session : registry.contexts[x] # None /\ OneHop(registry, x) = p}
           /\ SessionIdsForTransport(registry', p) =
                {x \in Session : registry'.contexts[x] # None /\ OneHop(registry', x) = p}
    BY <1>1, <1>5, BoundLookups
  <2>2. QED
    BY <2>1, <1>4, <1>6, <1>7
<1>9. /\ daemonContexts' \in [Session -> SUBSET Session]
      /\ \A p \in Owner : sessions[p].st = "Connected" =>
            daemonContexts'[p] = IF p = o THEN daemonContexts[p] \ {s}
                                          ELSE daemonContexts[p]
  BY <1>1, <1>2 DEF DeregisterAlias, HasClient, ManagerInv, TypeOK
<1>10. DaemonHoldsContexts'
  BY <1>3, <1>8, <1>9 DEF ManagerInv, DaemonHoldsContexts
<1>11. PathsHaveTransport'
  <2>1. \A x \in Session \ {s} : CanonicalSession(x)' = CanonicalSession(x)
    BY <1>1, <1>5, <1>6, BoundLookups DEF CanonicalSession
  <2>2. QED
    BY <2>1, <1>3 DEF ManagerInv, PathsHaveTransport
<1>12. lastNavigatedPath' \in [Session -> Path \cup {NoPath}]
  BY <1>3 DEF ManagerInv, TypeOK
<1>13. QED
  BY <1>3, <1>4, <1>5, <1>9, <1>10, <1>11, <1>12, RegistryStepInv

\* A registered context reaches the daemon of a connected transport.
LEMMA RegisterContextInv ==
    ASSUME ManagerInv, NEW s \in Session, NEW transport \in Owner, NEW info \in Context,
           RegisterContext(s, transport, info)
    PROVE  ManagerInv'
<1> DEFINE borrowed == IF OwnerContextEstablished(registry, s, transport)
                         THEN {transport} ELSE {}
           sent == {s} \cup borrowed
<1>1. FlatBindings(registry) /\ transport \in Session
  BY DEF ManagerInv, BindingsFlat, FlatBindings
<1>2. /\ CanonicalSessionId(registry, transport) = transport
      /\ CanonicalSession(transport) = transport
  BY <1>1, BoundLookups DEF CanonicalSession
<1>3. /\ registry' = Register(registry, s, transport, info)
      /\ daemonContexts' = IF sessions[transport].st = "Connected"
            THEN [daemonContexts EXCEPT ![transport] = @ \cup sent]
            ELSE daemonContexts
      /\ UNCHANGED <<sessions, generation, hostToSessions, lastNavigatedPath,
                     tasks, streams, told, hostUp, retired>>
      /\ s \in Owner => s = transport
      /\ s \notin Owner => registry.aliases[s] \in {None, transport}
  BY <1>2 DEF RegisterContext, ContextsToSend, StayOnHosts, KeepPaths
<1>4. /\ registry'.aliases = [registry.aliases EXCEPT ![s] =
                                 IF s = transport THEN None ELSE transport]
      /\ registry'.contexts = [x \in Session |->
                                 IF x \in sent THEN info ELSE registry.contexts[x]]
      /\ registry' \in Registry
  BY <1>1, <1>2, <1>3 DEF Register, Registry, ManagerInv, TypeOK
<1>5. /\ \A x \in Session \ {s} : OneHop(registry', x) = OneHop(registry, x)
      /\ OneHop(registry', s) = transport
      /\ OneHop(registry, s) \in {s, transport}
      /\ s \in Owner => OneHop(registry, s) = transport
      /\ OneHop(registry, transport) = transport
  BY <1>1, <1>3, <1>4 DEF OneHop, Registry, ManagerInv, TypeOK, FlatBindings
<1>6. FlatBindings(registry')
  BY <1>1, <1>3, <1>4 DEF FlatBindings, Registry, ManagerInv, TypeOK
<1>7. \A x \in Session : /\ x \in sent => registry'.contexts[x] # None
                         /\ x \notin sent => registry'.contexts[x] = registry.contexts[x]
  BY <1>4
<1>8. \A x \in sent : x = s \/ x = transport
  OBVIOUS
<1>9. sent \subseteq Session /\ s \in sent
  BY <1>1
<1> HIDE DEF sent, borrowed
<1>10. ASSUME NEW p \in Owner
       PROVE  SessionIdsForTransport(registry', p) =
                IF p = transport THEN SessionIdsForTransport(registry, p) \cup sent
                                 ELSE SessionIdsForTransport(registry, p)
  <2>1. /\ SessionIdsForTransport(registry, p) =
             {x \in Session : registry.contexts[x] # None /\ OneHop(registry, x) = p}
        /\ SessionIdsForTransport(registry', p) =
             {x \in Session : registry'.contexts[x] # None /\ OneHop(registry', x) = p}
    BY <1>1, <1>6, BoundLookups
  <2>2. ASSUME NEW x \in Session
        PROVE  (registry'.contexts[x] # None /\ OneHop(registry', x) = p) <=>
                 \/ registry.contexts[x] # None /\ OneHop(registry, x) = p
                 \/ p = transport /\ x \in sent
    <3>1. CASE x \in sent
      BY <3>1, <1>3, <1>5, <1>7, <1>8
    <3>2. CASE x \notin sent
      BY <3>2, <1>5, <1>7, <1>9
    <3>3. QED
      BY <3>1, <3>2
  <2>3. QED
    BY <2>1, <2>2, <1>9
<1>11. /\ daemonContexts' \in [Session -> SUBSET Session]
       /\ \A p \in Owner : sessions[p].st = "Connected" =>
            daemonContexts'[p] = IF p = transport THEN daemonContexts[p] \cup sent
                                                  ELSE daemonContexts[p]
  BY <1>1, <1>3, <1>9 DEF ManagerInv, TypeOK
<1>12. DaemonHoldsContexts'
  BY <1>3, <1>10, <1>11 DEF ManagerInv, DaemonHoldsContexts
<1>13. PathsHaveTransport'
  <2>1. \A x \in Session : /\ CanonicalSession(x) = OneHop(registry, x)
                           /\ CanonicalSession(x)' = OneHop(registry', x)
    BY <1>1, <1>6, BoundLookups DEF CanonicalSession
  <2>2. OneHop(registry, s) = transport \/ generation[OneHop(registry, s)] = 0
    BY <1>5 DEF ManagerInv, GenerationsOwned
  <2>3. QED
    BY <2>1, <2>2, <1>3, <1>5 DEF ManagerInv, PathsHaveTransport
<1>14. lastNavigatedPath' \in [Session -> Path \cup {NoPath}]
  BY <1>3 DEF ManagerInv, TypeOK
<1>15. QED
  BY <1>3, <1>4, <1>6, <1>11, <1>12, <1>13, <1>14, RegistryStepInv

\* One step of the manager preserves the invariant.
LEMMA NextInv ==
    ASSUME ManagerInv, [Next]_vars
    PROVE  ManagerInv'
<1>1. ASSUME Calls PROVE ManagerInv'
  <2>1. PICK s \in Session :
           \/ ConnectSession(s)
           \/ RestartTransport(s)
           \/ DeregisterAlias(s)
           \/ DeregisterOwner(s)
           \/ \E o \in Owner, c \in Context : RegisterContext(s, o, c)
           \/ \E p \in Path : NavigateToDirectory(s, p)
    BY <1>1 DEF Calls
  <2>2. QED
    BY <2>1, ConnectSessionInv, RestartTransportInv, DeregisterAliasInv,
       DeregisterOwnerInv, RegisterContextInv, NavigateInv
<1>2. ASSUME NEW t \in tasks, TaskRuns(t) PROVE ManagerInv'
  BY <1>2, DelayInv, TransportConnectsInv, FailsInv, HandshakeInv,
     MarkSessionConnectedInv, ConnectFailedInv, ReconnectFailedInv DEF TaskRuns
<1>3. ASSUME NEW x \in streams, StreamEnds(x) PROVE ManagerInv'
  BY <1>3, StreamEndsInv
<1>4. CASE UNCHANGED vars
  BY <1>4, UnchangedInv DEF vars
<1>5. QED
  BY <1>1, <1>2, <1>3, <1>4 DEF Next

-----------------------------------------------------------------------------
(* Safety *)

\* The inductive invariant: every race of restarts, reconnects, removals and
\* late closures keeps generations, tasks, bindings, index and events in step.
THEOREM ManagerInvariant ==
    Spec => []ManagerInv
<1>1. ManagerInv /\ [Next]_vars => ManagerInv'
  BY NextInv
<1>2. QED
  BY <1>1, InitInv, PTL DEF Spec

\* Type correctness; a reconnect chain ends after MAX_RECONNECT_ATTEMPTS.
THEOREM TypeCorrect ==
    Spec => []TypeOK
<1>1. ManagerInv => TypeOK
  BY DEF ManagerInv
<1>2. QED
  BY <1>1, ManagerInvariant, PTL

\* HostConnected and HostDisconnected bracket the time a host has sessions.
THEOREM HostEventsBracket ==
    Spec => []HostEventsFollowIndex
<1>1. ManagerInv => HostEventsFollowIndex
  BY DEF ManagerInv
<1>2. QED
  BY <1>1, ManagerInvariant, PTL

\* No superseded task installs its client.
THEOREM ClientsAreCurrent ==
    Spec => []HeldClientIsCurrent
<1>1. ManagerInv => HeldClientIsCurrent
  BY DEF ManagerInv
<1>2. QED
  BY <1>1, ManagerInvariant, PTL

\* SessionDisconnected never repeats for one SessionConnected.
THEOREM LossIsReportedOnce ==
    Spec => []LossReportedOnce
<1>1. ManagerInv => LossReportedOnce
  BY DEF ManagerInv
<1>2. QED
  BY <1>1, ManagerInvariant, PTL

\* The daemon of a connected session holds exactly the registered contexts.
THEOREM DaemonIsInStep ==
    Spec => []DaemonHoldsContexts
<1>1. ManagerInv => DaemonHoldsContexts
  BY DEF ManagerInv
<1>2. QED
  BY <1>1, ManagerInvariant, PTL

\* No navigation is muted by an entry of a removed owner.
THEOREM NoOrphanPaths ==
    Spec => []PathsHaveTransport
<1>1. ManagerInv => PathsHaveTransport
  BY DEF ManagerInv
<1>2. QED
  BY <1>1, ManagerInvariant, PTL

\* A closure posted for a deregistered session never brings it back.
THEOREM RetiredAreGone ==
    Spec => []RetiredStaysAbsent
<1>1. ManagerInv => RetiredStaysAbsent
  BY DEF ManagerInv, RetiredGone, RetiredStaysAbsent, Tracked, Absent, SessionState
<1>2. QED
  BY <1>1, ManagerInvariant, PTL

-----------------------------------------------------------------------------
(* How a step moves sessions on and off hosts *)

Stays ==
    /\ UNCHANGED hostToSessions
    /\ \A x \in Session, k \in Host : ConnectedTo(x, k)' <=> ConnectedTo(x, k)

Joins(s, h) ==
    /\ \A k \in Host : ~ConnectedTo(s, k)
    /\ hostToSessions' = [hostToSessions EXCEPT ![h] = @ \cup {s}]
    /\ \A x \in Session, k \in Host :
          ConnectedTo(x, k)' <=> ConnectedTo(x, k) \/ (x = s /\ k = h)

Parts(s, h) ==
    /\ ConnectedTo(s, h)
    /\ \A x \in Session, k \in Host :
          ConnectedTo(x, k)' <=> ConnectedTo(x, k) /\ ~(x = s /\ k = h)

Leaves(s, h) ==
    /\ Parts(s, h)
    /\ hostToSessions' = [hostToSessions EXCEPT ![h] = @ \ {s}]

Slips(s, h) ==
    /\ Parts(s, h)
    /\ sessions'[s] = Connecting
    /\ UNCHANGED hostToSessions

MembershipStep ==
    \/ Stays
    \/ \E s \in Session, h \in Host : Joins(s, h) \/ Leaves(s, h) \/ Slips(s, h)

\* A state that replaces one session's, neither of them Connected, moves nobody.
LEMMA NobodyMoves ==
    ASSUME TypeOK, NEW s \in Session, NEW state,
           sessions' = [sessions EXCEPT ![s] = state],
           sessions[s].st # "Connected", state.st # "Connected",
           UNCHANGED hostToSessions
    PROVE  MembershipStep
<1>1. \A x \in Session : sessions'[x] = IF x = s THEN state ELSE sessions[x]
  BY DEF TypeOK
<1>2. Stays
  BY <1>1 DEF Stays, ConnectedTo
<1>3. QED
  BY <1>2 DEF MembershipStep

\* A Connected session that becomes something else has parted with its host.
LEMMA OneParts ==
    ASSUME TypeOK, NEW s \in Session, NEW h \in Host, NEW state, ConnectedTo(s, h),
           sessions' = [sessions EXCEPT ![s] = state], state.st # "Connected"
    PROVE  Parts(s, h)
<1>1. \A x \in Session : sessions'[x] = IF x = s THEN state ELSE sessions[x]
  BY DEF TypeOK
<1>2. QED
  BY <1>1 DEF Parts, ConnectedTo

\* A session connected to something that is no host counts nowhere.
LEMMA NowhereConnected ==
    ASSUME TypeOK, NEW s \in Session, NEW state, \A h \in Host : ~ConnectedTo(s, h),
           sessions' = [sessions EXCEPT ![s] = state], state.st # "Connected",
           UNCHANGED hostToSessions
    PROVE  MembershipStep
<1>1. \A x \in Session : sessions'[x] = IF x = s THEN state ELSE sessions[x]
  BY DEF TypeOK
<1>2. Stays
  BY <1>1 DEF Stays, ConnectedTo
<1>3. QED
  BY <1>2 DEF MembershipStep

\* Whoever gives up the host it holds leaves the index of that host with it, or
\* had left it when it began to reconnect.
LEMMA LeavingMovesOne ==
    ASSUME TypeOK, ReconnectsLeft, NEW s \in Session, NEW state,
           LeaveHosts(s, HeldHost(s)),
           sessions' = [sessions EXCEPT ![s] = state], state.st # "Connected"
    PROVE  MembershipStep
<1>1. hostToSessions' = RemoveFromHostIndex(HeldHost(s), s)
      /\ hostToSessions \in [Host -> SUBSET Session]
  BY DEF LeaveHosts, TypeOK
<1>2. CASE \E h \in Host : ConnectedTo(s, h)
  <2>1. PICK h \in Host : ConnectedTo(s, h)
    BY <1>2
  <2>2. HeldHost(s) = {h}
    BY <2>1 DEF ConnectedTo, HeldHost
  <2>3. hostToSessions' = [hostToSessions EXCEPT ![h] = @ \ {s}]
    BY <1>1, <2>2 DEF RemoveFromHostIndex
  <2>4. Leaves(s, h)
    BY <2>1, <2>3, OneParts DEF Leaves
  <2>5. QED
    BY <2>4 DEF MembershipStep
<1>3. CASE \A h \in Host : ~ConnectedTo(s, h)
  <2>1. \A h \in Host : h \in HeldHost(s) => s \notin hostToSessions[h]
    BY <1>3 DEF HeldHost, ReconnectsLeft, ConnectedTo
  <2>2. hostToSessions' = hostToSessions
    BY <1>1, <2>1 DEF RemoveFromHostIndex
  <2>3. QED
    BY <1>3, <2>2, NowhereConnected
<1>4. QED
  BY <1>2, <1>3

\* mark_session_disconnected moves the session off its host or moves nobody.
LEMMA DisconnectedMoves ==
    ASSUME TypeOK, ReconnectsLeft, NEW s \in Session, NEW g, NEW exited,
           NEW pending, NEW view, MarkSessionDisconnected(s, g, exited, pending, view)
    PROVE  MembershipStep
<1>1. CASE UNCHANGED <<sessions, hostToSessions>>
  BY <1>1 DEF MembershipStep, Stays, ConnectedTo
<1>2. Disconnected.st # "Connected"
  BY DEF Disconnected, SessionState
<1>3. CASE /\ sessions[s].st # "Connected"
           /\ Become(s, Disconnected) /\ UNCHANGED hostToSessions
  BY <1>2, <1>3, NobodyMoves DEF Become
<1>4. CASE Become(s, Disconnected) /\ LeaveHosts(s, HeldHost(s))
  BY <1>2, <1>4, LeavingMovesOne DEF Become
<1>5. CASE /\ LeaveHosts(s, HeldHost(s))
           /\ AttemptReconnect(s, 1, sessions[s].host, pending)
  <2> DEFINE state == Reconnecting(1, sessions[s].host)
  <2>1. state.st # "Connected"
    BY DEF Reconnecting, SessionState
  <2>2. sessions' = [sessions EXCEPT ![s] = state]
    BY <1>5 DEF AttemptReconnect, Become
  <2> HIDE DEF state
  <2>3. QED
    BY <1>5, <2>1, <2>2, LeavingMovesOne
<1>6. QED
  BY <1>1, <1>3, <1>4, <1>5 DEF MarkSessionDisconnected, StayOnHosts

\* The success closure brings one session to one host, or moves nobody.
LEMMA ConnectedMoves ==
    ASSUME ManagerInv, NEW t \in tasks, MarkSessionConnected(t)
    PROVE  MembershipStep
<1> DEFINE s == t.session
           h == t.reached
           state == Connected(sessions[s].client, h)
<1>1. s \in Session /\ TypeOK
  BY DEF ManagerInv, TypeOK
<1>2. CASE UNCHANGED <<sessions, hostToSessions>>
  BY <1>2 DEF MembershipStep, Stays, ConnectedTo
<1>3. CASE /\ IsCurrentGeneration(s, t.generation)
           /\ Become(s, Absent) /\ UNCHANGED hostToSessions
  <2>1. sessions[s].st # "Connected" /\ Absent.st # "Connected"
    BY <1>3 DEF ManagerInv, TasksInOrder, Absent, SessionState
  <2> HIDE DEF s
  <2>2. QED
    BY <1>1, <1>3, <2>1, NobodyMoves DEF Become
<1>4. CASE /\ sessions[s].st = "Initializing"
           /\ sessions' = [sessions EXCEPT ![s] = state]
           /\ hostToSessions' = [hostToSessions EXCEPT ![h] = @ \cup {s}]
  <2>1. state.st = "Connected" /\ state.host = h
    BY DEF Connected, SessionState
  <2> HIDE DEF s, h, state
  <2>2. \A x \in Session : sessions'[x] = IF x = s THEN state ELSE sessions[x]
    BY <1>1, <1>4 DEF TypeOK
  <2>3. \A k \in Host : ~ConnectedTo(s, k)
    BY <1>4 DEF ConnectedTo
  <2>4. \A x \in Session, k \in Host :
           ConnectedTo(x, k)' <=> ConnectedTo(x, k) \/ (x = s /\ k = h)
    BY <2>1, <2>2, <2>3 DEF ConnectedTo
  <2>5. CASE h \in Host
    <3>1. Joins(s, h)
      BY <1>4, <2>3, <2>4 DEF Joins
    <3>2. QED
      BY <3>1, <2>5, <1>1 DEF MembershipStep
  <2>6. CASE h \notin Host
    <3>1. hostToSessions' = hostToSessions
      BY <1>1, <1>4, <2>6 DEF TypeOK
    <3>2. Stays
      BY <3>1, <2>4, <2>6 DEF Stays
    <3>3. QED
      BY <3>2 DEF MembershipStep
  <2>7. QED
    BY <2>5, <2>6
<1>5. QED
  BY <1>2, <1>3, <1>4 DEF MarkSessionConnected, StayOnHosts

\* A call moves nobody, takes a session off its host, or lets one slip away.
LEMMA CallsMove ==
    ASSUME ManagerInv, ReconnectsLeft, Calls
    PROVE  MembershipStep
<1>1. TypeOK
  BY DEF ManagerInv
<1>2. CASE UNCHANGED <<sessions, hostToSessions>>
  BY <1>2 DEF MembershipStep, Stays, ConnectedTo
<1>3. /\ Connecting.st # "Connected" /\ Disconnected.st # "Connected"
      /\ Absent.st # "Connected"
  BY DEF Connecting, Disconnected, Absent, SessionState
<1>4. ASSUME NEW s \in Session, ConnectSession(s) PROVE MembershipStep
  <2>1. /\ sessions' = [sessions EXCEPT ![s] = Connecting]
        /\ UNCHANGED hostToSessions
    BY <1>4 DEF ConnectSession, Become, StayOnHosts
  <2>2. CASE \E h \in Host : ConnectedTo(s, h)
    <3>1. PICK h \in Host : ConnectedTo(s, h)
      BY <2>2
    <3>2. sessions'[s] = Connecting
      BY <2>1, <1>1 DEF TypeOK
    <3>3. Slips(s, h)
      BY <1>1, <1>3, <2>1, <3>1, <3>2, OneParts DEF Slips
    <3>4. QED
      BY <3>3 DEF MembershipStep
  <2>3. CASE \A h \in Host : ~ConnectedTo(s, h)
    BY <1>1, <1>3, <2>1, <2>3, NowhereConnected
  <2>4. QED
    BY <2>2, <2>3
<1>5. ASSUME NEW s \in Session, RestartTransport(s) PROVE MembershipStep
  BY <1>1, <1>3, <1>5, LeavingMovesOne DEF RestartTransport, Become
<1>6. ASSUME NEW s \in Session, DeregisterOwner(s) PROVE MembershipStep
  BY <1>1, <1>3, <1>6, LeavingMovesOne DEF DeregisterOwner, Become
<1>7. QED
  BY <1>2, <1>4, <1>5, <1>6
     DEF Calls, DeregisterAlias, RegisterContext, NavigateToDirectory, StayOnHosts

\* A task moves nobody but by its last closure.
LEMMA TaskMoves ==
    ASSUME ManagerInv, ReconnectsLeft, NEW t \in tasks, TaskRuns(t)
    PROVE  MembershipStep
<1>1. TypeOK /\ t.session \in Session
  BY DEF ManagerInv, TypeOK
<1>2. CASE UNCHANGED <<sessions, hostToSessions>>
  BY <1>2 DEF MembershipStep, Stays, ConnectedTo
<1>3. StillWanted(t.session, t.generation) /\ t.pc # "reached"
         => sessions[t.session].st # "Connected"
  BY DEF StillWanted, ManagerInv, TasksInOrder
<1>4. CASE TransportConnects(t)
  <2> DEFINE state == Initializing(t.generation)
  <2>1. state.st # "Connected"
    BY DEF Initializing, SessionState
  <2>2. \/ UNCHANGED <<sessions, hostToSessions>>
        \/ /\ sessions' = [sessions EXCEPT ![t.session] = state]
           /\ sessions[t.session].st # "Connected" /\ UNCHANGED hostToSessions
    BY <1>3, <1>4 DEF TransportConnects, Become, StayOnHosts
  <2> HIDE DEF state
  <2>3. QED
    BY <1>1, <1>2, <2>1, <2>2, NobodyMoves
<1>5. CASE ReconnectFailed(t)
  <2>1. \/ UNCHANGED <<sessions, hostToSessions>>
        \/ \E state \in {Reconnecting(t.attempt + 1, t.lost), Disconnected} :
             /\ sessions' = [sessions EXCEPT ![t.session] = state]
             /\ sessions[t.session].st # "Connected" /\ UNCHANGED hostToSessions
    BY <1>3, <1>5 DEF ReconnectFailed, AttemptReconnect, Become, StayOnHosts
  <2>2. \A state \in {Reconnecting(t.attempt + 1, t.lost), Disconnected} :
           state.st # "Connected"
    BY DEF Reconnecting, Disconnected, SessionState
  <2>3. QED
    BY <1>1, <1>2, <2>1, <2>2, NobodyMoves
<1>6. CASE ConnectFailed(t)
  BY <1>1, <1>6, DisconnectedMoves DEF ConnectFailed
<1>7. CASE MarkSessionConnected(t)
  BY <1>7, ConnectedMoves
<1>8. QED
  BY <1>2, <1>4, <1>5, <1>6, <1>7
     DEF TaskRuns, DelayElapses, ConnectOrHandshakeFails, HandshakeSucceeds, StayOnHosts

\* Every step moves at most one session.
LEMMA NextMovesOne ==
    ASSUME ManagerInv, ReconnectsLeft, [Next]_vars
    PROVE  MembershipStep
<1>1. ASSUME NEW x \in streams, StreamEnds(x) PROVE MembershipStep
  <2>1. TypeOK /\ x.session \in Session
    BY DEF ManagerInv, TypeOK
  <2>2. QED
    BY <1>1, <2>1, DisconnectedMoves DEF StreamEnds
<1>2. CASE UNCHANGED vars
  BY <1>2 DEF vars, MembershipStep, Stays, ConnectedTo
<1>3. QED
  BY <1>1, <1>2, CallsMove, TaskMoves DEF Next

-----------------------------------------------------------------------------
(* Who reconnects has left *)

\* Steps that begin no reconnect and bring nobody to a host.
LEMMA QuietStep ==
    ASSUME ReconnectsLeft, TypeOK,
           \A s \in Session : \/ sessions'[s] = sessions[s]
                              \/ sessions'[s].st # "Reconnecting",
           \A t \in tasks' : \/ t.attempt = 0
                             \/ t.generation # generation'[t.session]
                             \/ /\ t.session \in Session
                                /\ generation'[t.session] = generation[t.session]
                                /\ \E u \in tasks : /\ u.session = t.session
                                                    /\ u.generation = t.generation
                                                    /\ u.attempt = t.attempt
                                                    /\ u.lost = t.lost,
           \A h \in Host : hostToSessions'[h] \subseteq hostToSessions[h]
    PROVE  ReconnectsLeft'
<1>1. ASSUME NEW t \in tasks', NEW h \in Host, t.attempt > 0, t.lost = h,
             t.generation = generation'[t.session]
      PROVE  t.session \notin hostToSessions'[h]
  <2>1. PICK u \in tasks : /\ u.session = t.session /\ u.generation = t.generation
                           /\ u.attempt = t.attempt /\ u.lost = t.lost
    BY <1>1
  <2>2. generation'[t.session] = generation[t.session]
    BY <1>1
  <2>3. u.session \notin hostToSessions[h]
    BY <1>1, <2>1, <2>2 DEF ReconnectsLeft, IsCurrentGeneration
  <2>4. QED
    BY <2>1, <2>3
<1>2. ASSUME NEW s \in Session, NEW h \in Host,
             sessions'[s].st = "Reconnecting", sessions'[s].host = h
      PROVE  s \notin hostToSessions'[h]
  BY <1>2 DEF ReconnectsLeft
<1>3. QED
  BY <1>1, <1>2 DEF ReconnectsLeft, IsCurrentGeneration

\* attempt_reconnect for a session that is off the host it lost.
LEMMA ReconnectStarts ==
    ASSUME ManagerInv, ReconnectsLeft, NEW s \in Session, NEW n, NEW lost, NEW pending,
           s \notin retired, AttemptReconnect(s, n, lost, pending), pending \subseteq tasks,
           \A h \in Host : hostToSessions'[h] \subseteq hostToSessions[h],
           \A h \in Host : lost = h => s \notin hostToSessions'[h]
    PROVE  ReconnectsLeft'
<1>1. TypeOK
  BY DEF ManagerInv
<1>2. \A x \in Session : x # s => /\ sessions'[x] = sessions[x]
                                  /\ generation'[x] = generation[x]
  BY <1>1 DEF AttemptReconnect, Become, BeginGeneration, TypeOK
<1>3. sessions'[s].host = lost
  BY <1>1 DEF AttemptReconnect, Become, Reconnecting, SessionState, TypeOK
<1>4. generation'[s] = generation[s] + 1 /\ generation[s] \in Nat
  BY <1>1 DEF AttemptReconnect, BeginGeneration, TypeOK
<1>5. ASSUME NEW x \in Session, NEW h \in Host,
             sessions'[x].st = "Reconnecting", sessions'[x].host = h
      PROVE  x \notin hostToSessions'[h]
  BY <1>2, <1>3, <1>5 DEF ReconnectsLeft
<1>6. ASSUME NEW t \in tasks', NEW h \in Host, t.attempt > 0, t.lost = h,
             t.generation = generation'[t.session]
      PROVE  t.session \notin hostToSessions'[h]
  <2>1. CASE t \in tasks
    <3>1. t.session \in Session /\ t.generation \in Nat
      BY <1>1, <2>1 DEF TypeOK
    <3>2. t.session # s
      <4>1. t.session = s => t.generation <= generation[s]
        BY <2>1 DEF ManagerInv, TasksInOrder
      <4>2. QED
        BY <4>1, <3>1, <1>4, <1>6
    <3>3. QED
      BY <1>2, <1>6, <2>1, <3>1, <3>2 DEF ReconnectsLeft, IsCurrentGeneration
  <2>2. CASE t \notin tasks
    <3>1. t = Task(s, generation[s] + 1, n, lost)
      BY <2>2 DEF AttemptReconnect
    <3>2. QED
      BY <3>1, <1>6 DEF Task
  <2>3. QED
    BY <2>1, <2>2
<1>7. QED
  BY <1>5, <1>6 DEF ReconnectsLeft, IsCurrentGeneration

\* Leaving hosts only takes entries away.
LEMMA LeavingShrinks ==
    ASSUME TypeOK, NEW s \in Session, NEW hosts, LeaveHosts(s, hosts)
    PROVE  \A h \in Host : /\ hostToSessions'[h] \subseteq hostToSessions[h]
                           /\ h \in hosts => s \notin hostToSessions'[h]
BY DEF LeaveHosts, RemoveFromHostIndex, TypeOK

\* mark_session_disconnected begins a reconnect only for a session that leaves
\* its host in that step.
LEMMA DisconnectedLeft ==
    ASSUME ManagerInv, ReconnectsLeft, NEW s \in Session, NEW g, NEW exited,
           NEW pending, NEW view, pending \subseteq tasks,
           MarkSessionDisconnected(s, g, exited, pending, view)
    PROVE  ReconnectsLeft'
<1>1. TypeOK
  BY DEF ManagerInv
<1>2. \A t \in tasks : t.session \in Session
  BY <1>1 DEF TypeOK
<1>3. CASE /\ UNCHANGED <<sessions, generation, hostToSessions>> /\ tasks' = pending
  BY <1>1, <1>2, <1>3, QuietStep
<1>4. CASE /\ Become(s, Disconnected) /\ UNCHANGED generation /\ tasks' = pending
           /\ UNCHANGED hostToSessions \/ LeaveHosts(s, HeldHost(s))
  <2>1. \A x \in Session : \/ sessions'[x] = sessions[x]
                           \/ sessions'[x].st # "Reconnecting"
    BY <1>1, <1>4 DEF Become, Disconnected, SessionState, TypeOK
  <2>2. \A h \in Host : hostToSessions'[h] \subseteq hostToSessions[h]
    BY <1>1, <1>4, LeavingShrinks
  <2>3. QED
    BY <1>1, <1>2, <1>4, <2>1, <2>2, QuietStep
<1>5. CASE /\ StillWanted(s, g) /\ sessions[s].st = "Connected"
           /\ LeaveHosts(s, HeldHost(s))
           /\ AttemptReconnect(s, 1, sessions[s].host, pending)
  <2>1. s \notin retired
    BY <1>5 DEF ManagerInv, RetiredGone, Absent, SessionState
  <2>2. HeldHost(s) = {sessions[s].host}
    BY <1>5 DEF HeldHost
  <2>3. /\ \A h \in Host : hostToSessions'[h] \subseteq hostToSessions[h]
        /\ \A h \in Host : sessions[s].host = h => s \notin hostToSessions'[h]
    BY <1>1, <1>5, <2>2, LeavingShrinks
  <2>4. QED
    BY <1>5, <2>1, <2>3, ReconnectStarts
<1>6. QED
  BY <1>3, <1>4, <1>5 DEF MarkSessionDisconnected, StayOnHosts

\* A session comes back to a host by its current task, the only one of its
\* generation.
LEMMA ConnectedLeft ==
    ASSUME ManagerInv, ReconnectsLeft, NEW t \in tasks, MarkSessionConnected(t)
    PROVE  ReconnectsLeft'
<1>1. TypeOK /\ t.session \in Session /\ tasks' = tasks \ {t} /\ UNCHANGED generation
  BY DEF ManagerInv, TypeOK, MarkSessionConnected
<1>2. \A u \in tasks : u.session \in Session
  BY <1>1 DEF TypeOK
<1>3. CASE UNCHANGED <<sessions, hostToSessions>>
  BY <1>1, <1>2, <1>3, QuietStep
<1>4. CASE Become(t.session, Absent) /\ UNCHANGED hostToSessions
  <2>1. \A x \in Session : \/ sessions'[x] = sessions[x]
                           \/ sessions'[x].st # "Reconnecting"
    BY <1>1, <1>4 DEF Become, Absent, SessionState, TypeOK
  <2>2. QED
    BY <1>1, <1>2, <1>4, <2>1, QuietStep
<1>5. CASE /\ IsCurrentGeneration(t.session, t.generation)
           /\ sessions' = [sessions EXCEPT
                 ![t.session] = Connected(sessions[t.session].client, t.reached)]
           /\ hostToSessions' = [hostToSessions EXCEPT ![t.reached] = @ \cup {t.session}]
  <2>1. /\ \A x \in Session : x # t.session => sessions'[x] = sessions[x]
        /\ sessions'[t.session].st = "Connected"
    BY <1>1, <1>5 DEF Connected, SessionState, TypeOK
  <2>2. \A h \in Host : hostToSessions'[h] \subseteq hostToSessions[h] \cup {t.session}
    BY <1>1, <1>5 DEF TypeOK
  <2>3. ASSUME NEW u \in tasks', IsCurrentGeneration(u.session, u.generation)
        PROVE  u.session # t.session
    BY <1>1, <1>5, <2>3 DEF ManagerInv, TasksInOrder, IsCurrentGeneration
  <2>4. ASSUME NEW u \in tasks', NEW h \in Host, u.attempt > 0, u.lost = h,
               u.generation = generation'[u.session]
        PROVE  u.session \notin hostToSessions'[h]
    BY <1>1, <2>2, <2>3, <2>4 DEF ReconnectsLeft, IsCurrentGeneration
  <2>5. ASSUME NEW x \in Session, NEW h \in Host,
               sessions'[x].st = "Reconnecting", sessions'[x].host = h
        PROVE  x \notin hostToSessions'[h]
    BY <2>1, <2>2, <2>5 DEF ReconnectsLeft
  <2>6. QED
    BY <2>4, <2>5 DEF ReconnectsLeft, IsCurrentGeneration
<1>6. QED
  BY <1>3, <1>4, <1>5 DEF MarkSessionConnected, StayOnHosts

\* The other steps of a task.
LEMMA TaskLeft ==
    ASSUME ManagerInv, ReconnectsLeft, NEW t \in tasks, TaskRuns(t)
    PROVE  ReconnectsLeft'
<1>1. TypeOK /\ t.session \in Session
  BY DEF ManagerInv, TypeOK
<1>2. \A u \in tasks : u.session \in Session
  BY <1>1 DEF TypeOK
<1> DEFINE Moved(u) == /\ t.session = u.session /\ t.generation = u.generation
                       /\ t.attempt = u.attempt /\ t.lost = u.lost
<1>a. \A pc, h : Moved([t EXCEPT !.pc = pc]) /\ Moved([t EXCEPT !.pc = pc, !.reached = h])
  <2>1. t \in [session : Owner, generation : Nat,
               attempt : 0 .. MaxReconnectAttempts, lost : Host \cup {NoHost},
               pc : {"delay", "connect", "handshake", "reached", "failed"},
               reached : Host \cup {NoHost}]
    BY <1>1 DEF TypeOK
  <2>2. QED
    BY <2>1
<1>b. ASSUME NEW u, Moved(u), tasks' \subseteq (tasks \ {t}) \cup {u}
      PROVE  \A v \in tasks' : \E w \in tasks :
                /\ w.session = v.session /\ w.generation = v.generation
                /\ w.attempt = v.attempt /\ w.lost = v.lost
  BY <1>b
<1>3. CASE \/ DelayElapses(t) \/ ConnectOrHandshakeFails(t)
           \/ \E h \in Host : HandshakeSucceeds(t, h)
  <2>0. \E u : Moved(u) /\ tasks' \subseteq (tasks \ {t}) \cup {u}
    <3> HIDE DEF Moved
    <3>1. QED
      BY <1>3, <1>a DEF DelayElapses, ConnectOrHandshakeFails, HandshakeSucceeds, TaskStep
  <2>1. /\ UNCHANGED <<sessions, generation, hostToSessions>>
        /\ \A v \in tasks' : \E u \in tasks :
              /\ u.session = v.session /\ u.generation = v.generation
              /\ u.attempt = v.attempt /\ u.lost = v.lost
    <3>1. UNCHANGED <<sessions, generation, hostToSessions>>
      BY <1>3 DEF DelayElapses, ConnectOrHandshakeFails, HandshakeSucceeds, StayOnHosts
    <3> HIDE DEF Moved
    <3>2. QED
      BY <3>1, <2>0, <1>b
  <2>2. \A v \in tasks' : v.session \in Session
    BY <1>2, <2>1
  <2>3. QED
    BY <1>1, <2>1, <2>2, QuietStep
<1>4. CASE TransportConnects(t)
  <2>0. \E u : Moved(u) /\ tasks' \subseteq (tasks \ {t}) \cup {u}
    <3> HIDE DEF Moved
    <3>1. QED
      BY <1>4, <1>a DEF TransportConnects, TaskStep
  <2>1. /\ UNCHANGED <<generation, hostToSessions>>
        /\ \A v \in tasks' : \E u \in tasks :
              /\ u.session = v.session /\ u.generation = v.generation
              /\ u.attempt = v.attempt /\ u.lost = v.lost
    <3>1. UNCHANGED <<generation, hostToSessions>>
      BY <1>4 DEF TransportConnects, StayOnHosts
    <3> HIDE DEF Moved
    <3>2. QED
      BY <3>1, <2>0, <1>b
  <2>2. \A v \in tasks' : v.session \in Session
    BY <1>2, <2>1
  <2>3. \A x \in Session : \/ sessions'[x] = sessions[x]
                           \/ sessions'[x].st # "Reconnecting"
    BY <1>1, <1>4 DEF TransportConnects, Become, Initializing, SessionState, TypeOK
  <2>4. QED
    BY <1>1, <2>1, <2>2, <2>3, QuietStep
<1>5. CASE ReconnectFailed(t)
  <2>1. UNCHANGED hostToSessions
    BY <1>5 DEF ReconnectFailed, StayOnHosts
  <2>2. CASE UNCHANGED <<sessions, generation>> /\ tasks' = tasks \ {t}
    BY <1>1, <1>2, <2>1, <2>2, QuietStep
  <2>3. CASE /\ StillWanted(t.session, t.generation)
             /\ AttemptReconnect(t.session, t.attempt + 1, t.lost, tasks \ {t})
    <3>1. t.session \notin retired
      BY <2>3 DEF StillWanted, Tracked, ManagerInv, RetiredGone, Absent, SessionState
    <3>2. \A h \in Host : t.lost = h => t.session \notin hostToSessions'[h]
      BY <1>5, <2>1, <2>3 DEF ReconnectFailed, StillWanted, ReconnectsLeft
    <3>3. tasks \ {t} \subseteq tasks
      OBVIOUS
    <3>4. QED
      BY <1>1, <2>1, <2>3, <3>1, <3>2, <3>3, ReconnectStarts
  <2>4. CASE Become(t.session, Disconnected) /\ UNCHANGED generation /\ tasks' = tasks \ {t}
    <3>1. \A x \in Session : \/ sessions'[x] = sessions[x]
                             \/ sessions'[x].st # "Reconnecting"
      BY <1>1, <2>4 DEF Become, Disconnected, SessionState, TypeOK
    <3>2. QED
      BY <1>1, <1>2, <2>1, <2>4, <3>1, QuietStep
  <2>5. QED
    BY <1>5, <2>2, <2>3, <2>4 DEF ReconnectFailed
<1>6. CASE ConnectFailed(t)
  <2>1. tasks \ {t} \subseteq tasks
    OBVIOUS
  <2>2. QED
    BY <1>1, <1>6, <2>1, DisconnectedLeft DEF ConnectFailed
<1>7. QED
  BY <1>3, <1>4, <1>5, <1>6, ConnectedLeft DEF TaskRuns

\* The calls: a new generation leaves every older task behind.
LEMMA CallsLeft ==
    ASSUME ManagerInv, ReconnectsLeft, Calls
    PROVE  ReconnectsLeft'
<1>1. TypeOK
  BY DEF ManagerInv
<1>2. \A u \in tasks : u.session \in Session /\ u.generation \in Nat /\ u.generation > 0
  BY DEF ManagerInv, TypeOK, TasksInOrder
<1>3. ASSUME NEW s \in Session, s \notin retired, NEW state, Become(s, state),
             BeginGeneration(s) \/ generation' = [generation EXCEPT ![s] = 0],
             state.st # "Reconnecting",
             \A h \in Host : hostToSessions'[h] \subseteq hostToSessions[h],
             \A t \in tasks' : t.attempt = 0 \/ t \in tasks
      PROVE  ReconnectsLeft'
  <2>1. \A x \in Session : \/ sessions'[x] = sessions[x]
                           \/ sessions'[x].st # "Reconnecting"
    BY <1>1, <1>3 DEF Become, TypeOK
  <2>2. /\ \A x \in Session : x # s => generation'[x] = generation[x]
        /\ generation[s] \in Nat /\ generation'[s] \in {0, generation[s] + 1}
    BY <1>1, <1>3 DEF BeginGeneration, TypeOK
  <2>3. \A t \in tasks : t.session = s => t.generation <= generation[s]
    BY <1>3 DEF ManagerInv, TasksInOrder
  <2>4. \A t \in tasks : t.session = s => t.generation # generation'[s]
    BY <1>2, <2>2, <2>3
  <2>5. QED
    BY <1>1, <1>2, <1>3, <2>1, <2>2, <2>4, QuietStep
<1>4. /\ Connecting.st # "Reconnecting" /\ Disconnected.st # "Reconnecting"
      /\ Absent.st # "Reconnecting"
  BY DEF Connecting, Disconnected, Absent, SessionState
<1>5. ASSUME NEW s \in Session, ConnectSession(s) PROVE ReconnectsLeft'
  BY <1>3, <1>4, <1>5 DEF ConnectSession, StayOnHosts, Task
<1>6. ASSUME NEW s \in Session, RestartTransport(s) PROVE ReconnectsLeft'
  BY <1>1, <1>3, <1>4, <1>6, LeavingShrinks DEF RestartTransport
<1>7. ASSUME NEW s \in Session, DeregisterOwner(s) PROVE ReconnectsLeft'
  <2>1. \A h \in Host : hostToSessions'[h] \subseteq hostToSessions[h]
    BY <1>1, <1>7, LeavingShrinks DEF DeregisterOwner
  <2>2. CASE s \in retired
    <3>1. \A x \in Session : \/ sessions'[x] = sessions[x]
                             \/ sessions'[x].st # "Reconnecting"
      BY <1>1, <1>4, <1>7 DEF DeregisterOwner, Become, TypeOK
    <3>2. generation' = generation /\ tasks' = tasks
      BY <1>1, <1>7, <2>2 DEF DeregisterOwner, ManagerInv, RetiredGone, TypeOK
    <3>3. QED
      BY <1>1, <1>2, <2>1, <3>1, <3>2, QuietStep
  <2>3. CASE s \notin retired
    BY <1>3, <1>4, <1>7, <2>1, <2>3 DEF DeregisterOwner
  <2>4. QED
    BY <2>2, <2>3
<1>8. CASE UNCHANGED <<sessions, generation, hostToSessions, tasks>>
  BY <1>1, <1>2, <1>8, QuietStep
<1>9. QED
  BY <1>5, <1>6, <1>7, <1>8
     DEF Calls, DeregisterAlias, RegisterContext, NavigateToDirectory, StayOnHosts

\* No step lets a reconnecting session stand in the index of the host it lost.
LEMMA ReconnectsLeftInv ==
    ASSUME ManagerInv, ReconnectsLeft, [Next]_vars
    PROVE  ReconnectsLeft'
<1>1. TypeOK
  BY DEF ManagerInv
<1>2. ASSUME NEW x \in streams, StreamEnds(x) PROVE ReconnectsLeft'
  <2>1. x.session \in Session
    BY <1>1 DEF TypeOK
  <2>2. QED
    BY <1>2, <2>1, DisconnectedLeft DEF StreamEnds
<1>3. CASE UNCHANGED vars
  <2>1. \A u \in tasks : u.session \in Session
    BY <1>1 DEF TypeOK
  <2>2. UNCHANGED <<sessions, generation, hostToSessions, tasks>>
    BY <1>3 DEF vars
  <2>3. QED
    BY <1>1, <2>1, <2>2, QuietStep
<1>4. QED
  BY <1>2, <1>3, CallsLeft, TaskLeft DEF Next

LEMMA ReconnectsHaveLeft ==
    Spec => []ReconnectsLeft
<1>1. Init => ReconnectsLeft
  BY DEF Init, ReconnectsLeft, Absent, SessionState
<1>2. QED
  BY <1>1, ReconnectsLeftInv, ManagerInvariant, PTL DEF Spec

-----------------------------------------------------------------------------
(* The index of hosts, and the promise about them *)

\* sessions_for_host finds every session connected to a host, and an entry goes
\* stale in one way only: connect_session replaces a Connected session.
THEOREM HostIndexIsExact ==
    Spec => HostIndexExact
<1>1. ASSUME ManagerInv, ManagerInv', ReconnectsLeft, [Next]_vars,
             NEW s \in Session, NEW h \in Host
      PROVE  /\ ConnectedTo(s, h)' => s \in hostToSessions'[h]
             /\ StaleEntry(s, h)' /\ ~StaleEntry(s, h) =>
                   ConnectedTo(s, h) /\ sessions'[s] = Connecting
  <2>1. ConnectedTo(s, h)' => s \in hostToSessions'[h]
    BY <1>1 DEF ManagerInv, IndexCovers
  <2>2. hostToSessions \in [Host -> SUBSET Session]
    BY <1>1 DEF ManagerInv, TypeOK
  <2>3. ASSUME StaleEntry(s, h)', ~StaleEntry(s, h)
        PROVE  ConnectedTo(s, h) /\ sessions'[s] = Connecting
    <3>1. s \in hostToSessions'[h] /\ ~ConnectedTo(s, h)'
      BY <2>3 DEF StaleEntry
    <3>2. s \in hostToSessions[h] => ConnectedTo(s, h)
      BY <2>3 DEF StaleEntry
    <3>3. CASE Stays
      BY <3>1, <3>2, <3>3 DEF Stays
    <3>4. ASSUME NEW x \in Session, NEW k \in Host, Joins(x, k)
          PROVE  FALSE
      <4>1. s \in hostToSessions[h]
        BY <2>2, <3>1, <3>4 DEF Joins
      <4>2. QED
        BY <3>1, <3>2, <3>4, <4>1 DEF Joins
    <3>5. ASSUME NEW x \in Session, NEW k \in Host, Leaves(x, k)
          PROVE  FALSE
      <4>1. s \in hostToSessions[h] /\ ~(s = x /\ h = k)
        BY <2>2, <3>1, <3>5 DEF Leaves
      <4>2. QED
        BY <3>1, <3>2, <3>5, <4>1 DEF Leaves, Parts
    <3>6. ASSUME NEW x \in Session, NEW k \in Host, Slips(x, k)
          PROVE  ConnectedTo(s, h) /\ sessions'[s] = Connecting
      BY <3>1, <3>2, <3>6 DEF Slips, Parts
    <3>7. MembershipStep
      BY <1>1, NextMovesOne
    <3>8. QED
      BY <3>3, <3>4, <3>5, <3>6, <3>7 DEF MembershipStep
  <2>4. QED
    BY <2>1, <2>3
<1>2. ManagerInv /\ ManagerInv' /\ ReconnectsLeft /\ [Next]_vars =>
        [\A s \in Session, h \in Host :
            /\ ConnectedTo(s, h)' => s \in hostToSessions'[h]
            /\ StaleEntry(s, h)' /\ ~StaleEntry(s, h) =>
                  ConnectedTo(s, h) /\ sessions'[s] = Connecting]_vars
  BY <1>1
<1>3. QED
  BY <1>2, ManagerInvariant, ReconnectsHaveLeft, PTL DEF Spec, HostIndexExact

Members == [h \in Host |-> {s \in Session : ConnectedTo(s, h)}]

\* The manager implements the promise about hosts: whatever a step does, at
\* most one session arrives at, departs from or slips away from one host, and
\* the host is announced or withdrawn in that very step.
THEOREM ImplementsHostPresence ==
    Spec => HostsArePresent
<1>1. Init => Presence!PresenceInit
  BY DEF Init, Presence!PresenceInit, ConnectedTo, Absent, SessionState
<1>2. ASSUME ManagerInv, ManagerInv', ReconnectsLeft, [Next]_vars
      PROVE  [Presence!PresenceNext]_(Presence!presenceVars)
  <2>1. /\ hostToSessions \in [Host -> SUBSET Session]
        /\ hostUp = [h \in Host |-> hostToSessions[h] # {}]
    BY <1>2 DEF ManagerInv, TypeOK, HostEventsFollowIndex
  <2>2. /\ hostToSessions' \in [Host -> SUBSET Session]
        /\ hostUp' = [h \in Host |-> hostToSessions'[h] # {}]
    BY <1>2 DEF ManagerInv, TypeOK, HostEventsFollowIndex
  <2>3. CASE Stays
    <3>1. \A k \in Host : Members'[k] = Members[k]
      BY <2>3 DEF Stays, Members
    <3>2. UNCHANGED <<Members, hostToSessions, hostUp>>
      BY <3>1, <2>1, <2>2, <2>3 DEF Stays, Members
    <3>3. QED
      BY <3>2 DEF Presence!presenceVars, Members
  <2>4. ASSUME NEW s \in Session, NEW h \in Host, Joins(s, h)
        PROVE  Presence!PresenceNext
    <3>1. \A k \in Host : Members'[k] = IF k = h THEN Members[k] \cup {s} ELSE Members[k]
      BY <2>4 DEF Joins, Members
    <3>2. Members' = [Members EXCEPT ![h] = @ \cup {s}]
      BY <3>1 DEF Members
    <3>3. hostUp' = [hostUp EXCEPT ![h] = TRUE]
      BY <2>1, <2>2, <2>4 DEF Joins
    <3>4. \A k \in Host : s \notin Members[k]
      BY <2>4 DEF Joins, Members
    <3>5. Presence!Arrive(s, h)
      BY <2>4, <3>2, <3>3, <3>4 DEF Presence!Arrive, Members, Joins
    <3>6. QED
      BY <3>5 DEF Presence!PresenceNext
  <2>5. ASSUME NEW s \in Session, NEW h \in Host, Parts(s, h)
        PROVE  s \in Members[h] /\ Members' = [Members EXCEPT ![h] = @ \ {s}]
    <3>1. \A k \in Host : Members'[k] = IF k = h THEN Members[k] \ {s} ELSE Members[k]
      BY <2>5 DEF Parts, Members
    <3>2. QED
      BY <2>5, <3>1 DEF Parts, Members
  <2>6. ASSUME NEW s \in Session, NEW h \in Host, Leaves(s, h)
        PROVE  Presence!PresenceNext
    <3>1. s \in hostToSessions[h]
      BY <1>2, <2>6 DEF Leaves, Parts, ManagerInv, IndexCovers
    <3>2. hostUp' = [hostUp EXCEPT ![h] = hostToSessions[h] # {s}]
      BY <2>1, <2>2, <2>6, <3>1 DEF Leaves
    <3>3. Parts(s, h)
      BY <2>6 DEF Leaves
    <3>4. Presence!Depart(s, h)
      BY <2>5, <2>6, <3>2, <3>3 DEF Presence!Depart, Members, Leaves
    <3>5. QED
      BY <3>4 DEF Presence!PresenceNext
  <2>7. ASSUME NEW s \in Session, NEW h \in Host, Slips(s, h)
        PROVE  Presence!PresenceNext
    <3>1. Parts(s, h) /\ UNCHANGED <<hostToSessions, hostUp>>
      BY <2>1, <2>2, <2>7 DEF Slips
    <3>2. Presence!SlipAway(s, h)
      BY <2>5, <3>1 DEF Presence!SlipAway, Members
    <3>3. QED
      BY <3>2 DEF Presence!PresenceNext
  <2>8. MembershipStep
    BY <1>2, NextMovesOne
  <2>9. QED
    BY <2>3, <2>4, <2>6, <2>7, <2>8 DEF MembershipStep
<1>3. QED
  BY <1>1, <1>2, ManagerInvariant, ReconnectsHaveLeft, PTL
     DEF Spec, HostsArePresent, Presence!PresenceSpec
=============================================================================
