------------------------ MODULE RemoteServerManager ------------------------
(***************************************************************************)
(* The client-side manager of SSH remote-server connections                *)
(* (crates/remote_server/src/manager.rs).  All handlers run on the main    *)
(* thread, one at a time: each is one action.  Between them, background    *)
(* tasks connect, shake hands and wait for the reconnect delay, and every  *)
(* established transport has an event stream that ends when it breaks.     *)
(* A task or stream reports back by posting a closure to the main thread,  *)
(* when its session may have been restarted, connected again or removed.   *)
(***************************************************************************)
EXTENDS Naturals, FiniteSets, SessionExecutionRegistry

CONSTANTS
    Owner,            \* sessions that own a transport; the rest are terminals
    Host,             \* identities a daemon may report in its handshake
    NoHost,
    Path,             \* working directories
    NoPath,
    MaxReconnectAttempts,  \* MAX_RECONNECT_ATTEMPTS
    MaxGeneration          \* bound: connections begun per owner in a behaviour

ASSUME ManagerAssumption ==
    /\ Owner \subseteq Session
    /\ None \notin Session /\ None \notin Context
    /\ NoHost \notin Host /\ NoPath \notin Path
    /\ MaxReconnectAttempts \in Nat \ {0}
    /\ MaxGeneration \in Nat

VARIABLES
    sessions,           \* RemoteSessionState of each session
    generation,         \* session_connection_generations; 0 = no entry
    registry,           \* session_execution_registry
    hostToSessions,     \* reverse index; {} = no entry
    lastNavigatedPath,  \* dedup of navigate_to_directory; NoPath = no entry
    tasks,              \* connect and reconnect tasks in flight
    streams,            \* event streams being drained
    \* what others have been told; no handler reads these
    told,               \* per owner: last lifecycle event emitted
    hostUp,             \* per host: HostConnected since last HostDisconnected
    daemonContexts,     \* per owner: contexts sent on its current connection
    retired             \* owners deregistered after a connection began

vars == <<sessions, generation, registry, hostToSessions, lastNavigatedPath,
          tasks, streams, told, hostUp, daemonContexts, retired>>

Status == {"Absent", "Connecting", "Initializing", "Connected",
           "Reconnecting", "Disconnected"}

\* client stands for the Arc<RemoteServerClient> held, named by the generation
\* whose task established it.
SessionState(st, client, host, attempt) ==
    [st |-> st, client |-> client, host |-> host, attempt |-> attempt]

Absent           == SessionState("Absent", 0, NoHost, 0)
Connecting       == SessionState("Connecting", 0, NoHost, 0)
Disconnected     == SessionState("Disconnected", 0, NoHost, 0)
Initializing(g)  == SessionState("Initializing", g, NoHost, 0)
Connected(g, h)  == SessionState("Connected", g, h, 0)
Reconnecting(n, h) == SessionState("Reconnecting", 0, h, n)

\* attempt = 0 is connect_session's task, attempt >= 1 attempt_reconnect's;
\* host is the host to report lost while reconnecting, then the one reached.
Task(s, g, attempt, lost) ==
    [session |-> s, generation |-> g, attempt |-> attempt, lost |-> lost,
     pc |-> IF attempt = 0 THEN "connect" ELSE "delay", reached |-> NoHost]

TaskStep(t, pc) == (tasks \ {t}) \cup {[t EXCEPT !.pc = pc]}

Stream(s, g) == [session |-> s, generation |-> g]

Event == {"none", "connecting", "failed", "connected", "disconnected",
          "deregistered", "spurious"}

\* A SessionDisconnected for a session not known to be connected is spurious.
Tell(view, s, event) ==
    [view EXCEPT ![s] =
        IF @ = "spurious" \/ (event = "disconnected" /\ @ # "connected")
          THEN "spurious" ELSE event]

-----------------------------------------------------------------------------
(* Lookups *)

Tracked(s) == sessions[s].st # "Absent"

\* Mutant: any task of the session up to the current one passes.
IsCurrentGenerationOrOlder(s, g) == g <= generation[s]

IsCurrentGeneration(s, g) == generation[s] = g

\* Mutants of StillWanted: the generation is not compared; a missing counter
\* passes and the session map is not consulted; only connected sessions count.
StillTracked(s, g)     == Tracked(s)
MissingIsWanted(s, g)  == generation[s] \in {0, g}
WantedIfConnected(s, g) == sessions[s].st = "Connected" /\ IsCurrentGeneration(s, g)

\* The check a posted closure makes before it acts on its session.
StillWanted(s, g) == Tracked(s) /\ IsCurrentGeneration(s, g)

CanonicalSession(s) == CanonicalSessionId(registry, s)

HasClient(s) == sessions[CanonicalSession(s)].st = "Connected"

IsPotentiallyActive(s) ==
    sessions[CanonicalSession(s)].st \notin {"Absent", "Disconnected"}

\* The host a session still reports as its own when it is torn down.
HeldHost(s) == IF sessions[s].st \in {"Connected", "Reconnecting"}
                 THEN {sessions[s].host} ELSE {}

RemoveFromHostIndex(hosts, s) ==
    [h \in Host |-> IF h \in hosts THEN hostToSessions[h] \ {s}
                                   ELSE hostToSessions[h]]

\* Mutants of AnnounceHostsLost: other sessions of the host are ignored; the
\* index is looked up before the session is taken off it.
AnnounceHostsAlways(hosts, index) ==
    [h \in Host |-> hostUp[h] /\ h \notin hosts]
AnnounceHostsEarly(hosts, index) ==
    [h \in Host |-> hostUp[h] /\ ~(h \in hosts /\ hostToSessions[h] = {})]

\* HostDisconnected goes out for those of hosts left without a session.
AnnounceHostsLost(hosts, index) ==
    [h \in Host |-> hostUp[h] /\ ~(h \in hosts /\ index[h] = {})]

\* Take s off the index and tell subscribers: the common tail of every path
\* on which a session gives up its host.
LeaveHosts(s, hosts) ==
    /\ hostToSessions' = RemoveFromHostIndex(hosts, s)
    /\ hostUp' = AnnounceHostsLost(hosts, RemoveFromHostIndex(hosts, s))

StayOnHosts == UNCHANGED <<hostToSessions, hostUp>>

\* Mutant: reported whether or not a host was held.
LoseHostsAlways(view, s, hosts) == Tell(view, s, "disconnected")

LoseHosts(view, s, hosts) == IF hosts = {} THEN view
                                           ELSE Tell(view, s, "disconnected")

ForgetPaths(gone) ==
    lastNavigatedPath' = [s \in Session |->
        IF s \in gone THEN NoPath ELSE lastNavigatedPath[s]]

KeepPaths == UNCHANGED lastNavigatedPath

\* Replacing or removing a state drops its client and kills its process.
Become(s, state) ==
    /\ sessions' = [sessions EXCEPT ![s] = state]
    /\ daemonContexts' = [daemonContexts EXCEPT ![s] = {}]

AttemptsLeft(attempt) == attempt < MaxReconnectAttempts

\* Mutant: the owner's context is registered but never sent.
ContextsToSendOwn(s, owner) == {s}

\* What registering a context sends over an established connection: the
\* session's own and, when it becomes the owner's too, the owner's.
ContextsToSend(s, owner) ==
    {s} \cup (IF OwnerContextEstablished(registry, s, owner) THEN {owner} ELSE {})

BeginGeneration(s) == generation' = [generation EXCEPT ![s] = @ + 1]

-----------------------------------------------------------------------------
Init ==
    /\ sessions = [s \in Session |-> Absent]
    /\ generation = [s \in Session |-> 0]
    /\ registry = EmptyRegistry
    /\ hostToSessions = [h \in Host |-> {}]
    /\ lastNavigatedPath = [s \in Session |-> NoPath]
    /\ tasks = {}
    /\ streams = {}
    /\ told = [s \in Session |-> "none"]
    /\ hostUp = [h \in Host |-> FALSE]
    /\ daemonContexts = [s \in Session |-> {}]
    /\ retired = {}
-----------------------------------------------------------------------------
(* Calls from the workspace and the terminals *)

\* connect_session.  Callers never connect an id they have deregistered, but may
\* connect over a Connected session: two preparation chains for one environment
\* overlap.  The host index and its subscribers are not told then.
ConnectSession(s) ==
    /\ s \in Owner \ retired
    /\ generation[s] < MaxGeneration
    /\ BeginGeneration(s)
    /\ Become(s, Connecting)
    /\ told' = Tell(told, s, "connecting")
    /\ tasks' = tasks \cup {Task(s, generation[s] + 1, 0, NoHost)}
    /\ StayOnHosts /\ KeepPaths
    /\ UNCHANGED <<registry, streams, retired>>

\* restart_session_transport: drop the transport, keep owner and aliases.
RestartTransport(s) ==
    /\ s \in Owner \ retired
    /\ generation[s] < MaxGeneration
    /\ BeginGeneration(s)
    /\ ForgetPaths(SessionIdsForTransport(registry, s))
    /\ LeaveHosts(s, HeldHost(s))
    /\ told' = LoseHosts(told, s, HeldHost(s))
    /\ Become(s, Disconnected)
    /\ UNCHANGED <<registry, tasks, streams, retired>>

\* deregister_session on a terminal alias: only its binding goes.
DeregisterAlias(s) ==
    /\ IsAlias(registry, s)
    /\ registry' = Remove(registry, s)
    /\ ForgetPaths({s})
    /\ daemonContexts' = IF HasClient(s)
          THEN [daemonContexts EXCEPT ![CanonicalSession(s)] = @ \ {s}]
          ELSE daemonContexts
    /\ UNCHANGED <<sessions, generation, hostToSessions, tasks, streams,
                   told, hostUp, retired>>

\* deregister_session on an owner: its aliases, its generation and its
\* transport go with it.
DeregisterOwner(s) ==
    /\ s \in Owner /\ ~IsAlias(registry, s)
    /\ registry' = Remove(registry, s)
    /\ ForgetPaths(Removed(registry, s))
    /\ generation' = [generation EXCEPT ![s] = 0]
    /\ Become(s, Absent)
    /\ LeaveHosts(s, HeldHost(s))
    /\ told' = Tell(LoseHosts(told, s, HeldHost(s)), s, "deregistered")
    /\ retired' = IF generation[s] > 0 THEN retired \cup {s} ELSE retired
    /\ UNCHANGED <<tasks, streams>>

\* register_session_execution_context, for a terminal bound to an owner or for
\* an owner that is itself a shell.  Bound to another session, the transport
\* must be active; a terminal keeps the owner it first bound to.
RegisterContext(s, transport, info) ==
    LET owner == CanonicalSession(transport)
    IN  /\ transport \in Owner
        /\ IF s \in Owner THEN s = transport /\ s \notin retired
                          ELSE registry.aliases[s] \in {None, transport}
        /\ owner # s => IsPotentiallyActive(owner)
        /\ registry' = Register(registry, s, owner, info)
        /\ daemonContexts' = IF sessions[owner].st = "Connected"
              THEN [daemonContexts EXCEPT ![owner] = @ \cup ContextsToSend(s, owner)]
              ELSE daemonContexts
        /\ UNCHANGED <<sessions, generation, tasks, streams, told, retired>>
        /\ StayOnHosts /\ KeepPaths

\* navigate_to_directory: the path is recorded when the request is sent and
\* stays recorded whatever the daemon answers.
NavigateToDirectory(s, path) ==
    /\ lastNavigatedPath[s] # path
    /\ HasClient(s)
    /\ lastNavigatedPath' = [lastNavigatedPath EXCEPT ![s] = path]
    /\ StayOnHosts
    /\ UNCHANGED <<sessions, generation, registry, tasks, streams, told,
                   daemonContexts, retired>>

-----------------------------------------------------------------------------
(* Closures posted by background tasks and streams *)

\* attempt_reconnect: a new generation, and a task that first waits.
AttemptReconnect(s, attempt, lost, pending) ==
    /\ BeginGeneration(s)
    /\ Become(s, Reconnecting(attempt, lost))
    /\ tasks' = pending \cup {Task(s, generation[s] + 1, attempt, lost)}

\* mark_session_disconnected, called by the stream's end or by a failed
\* connect.  exited: the child process has already exited.  pending and view
\* are the tasks left and what was told when it is called.  An auth context is
\* always there: connect_session sets it before anything can be Connected.
MarkSessionDisconnected(s, g, exited, pending, view) ==
    \/ /\ ~StillWanted(s, g)
       /\ tasks' = pending /\ told' = view
       /\ StayOnHosts /\ KeepPaths
       /\ UNCHANGED <<sessions, generation, daemonContexts>>
    \/ /\ StillWanted(s, g) /\ sessions[s].st # "Connected"
       /\ Become(s, Disconnected)
       /\ tasks' = pending /\ told' = view
       /\ StayOnHosts /\ KeepPaths
       /\ UNCHANGED generation
    \/ /\ StillWanted(s, g) /\ sessions[s].st = "Connected" /\ exited
       /\ Become(s, Disconnected)
       /\ LeaveHosts(s, HeldHost(s))
       /\ told' = Tell(view, s, "disconnected")
       /\ tasks' = pending
       /\ KeepPaths
       /\ UNCHANGED generation
    \/ /\ StillWanted(s, g) /\ sessions[s].st = "Connected" /\ ~exited
       /\ generation[s] < MaxGeneration
       /\ LeaveHosts(s, HeldHost(s))
       /\ ForgetPaths({s})
       /\ AttemptReconnect(s, 1, sessions[s].host, pending)
       /\ told' = view

\* The reader of an established transport reached its end.
StreamEnds(x) ==
    /\ x \in streams
    /\ streams' = streams \ {x}
    /\ \E exited \in BOOLEAN :
          MarkSessionDisconnected(x.session, x.generation, exited, tasks, told)
    /\ UNCHANGED <<registry, retired>>

\* RECONNECT_DELAY is over: give up if the session was replaced meanwhile.
DelayElapses(t) ==
    /\ t \in tasks /\ t.pc = "delay"
    /\ tasks' = IF StillWanted(t.session, t.generation)
                  THEN TaskStep(t, "connect") ELSE tasks \ {t}
    /\ StayOnHosts /\ KeepPaths
    /\ UNCHANGED <<sessions, generation, registry, streams, told,
                   daemonContexts, retired>>

\* transport.connect() returned; on the main thread the session becomes
\* Initializing and its stream is drained, unless it was replaced or removed.
TransportConnects(t) ==
    /\ t \in tasks /\ t.pc = "connect"
    /\ IF StillWanted(t.session, t.generation)
         THEN /\ Become(t.session, Initializing(t.generation))
              /\ streams' = streams \cup {Stream(t.session, t.generation)}
              /\ tasks' = TaskStep(t, "handshake")
         ELSE /\ tasks' = TaskStep(t, "failed")
              /\ UNCHANGED <<sessions, daemonContexts, streams>>
    /\ StayOnHosts /\ KeepPaths
    /\ UNCHANGED <<generation, registry, told, retired>>

\* transport.connect() or initialize() failed; the closure is yet to run.
ConnectOrHandshakeFails(t) ==
    /\ t \in tasks /\ t.pc \in {"connect", "handshake"}
    /\ tasks' = TaskStep(t, "failed")
    /\ StayOnHosts /\ KeepPaths
    /\ UNCHANGED <<sessions, generation, registry, streams, told,
                   daemonContexts, retired>>

\* initialize() was answered by the daemon of host; the closure is yet to run.
HandshakeSucceeds(t, host) ==
    /\ t \in tasks /\ t.pc = "handshake"
    /\ tasks' = (tasks \ {t}) \cup {[t EXCEPT !.pc = "reached", !.reached = host]}
    /\ StayOnHosts /\ KeepPaths
    /\ UNCHANGED <<sessions, generation, registry, streams, told,
                   daemonContexts, retired>>

\* mark_session_connected.  The state is taken out of the map before it is
\* looked at: anything but Initializing is dropped on the way.
MarkSessionConnected(t) ==
    /\ t \in tasks /\ t.pc = "reached"
    /\ tasks' = tasks \ {t}
    /\ LET s == t.session
           h == t.reached
       IN  \/ /\ ~IsCurrentGeneration(s, t.generation)
              /\ StayOnHosts /\ KeepPaths
              /\ UNCHANGED <<sessions, told, daemonContexts>>
           \/ /\ IsCurrentGeneration(s, t.generation)
              /\ sessions[s].st # "Initializing"
              /\ Become(s, Absent)
              /\ StayOnHosts /\ KeepPaths
              /\ UNCHANGED told
           \/ /\ IsCurrentGeneration(s, t.generation)
              /\ sessions[s].st = "Initializing"
              /\ sessions' = [sessions EXCEPT ![s] = Connected(@.client, h)]
              /\ hostToSessions' = [hostToSessions EXCEPT ![h] = @ \cup {s}]
              /\ hostUp' = [hostUp EXCEPT ![h] = @ \/ hostToSessions[h] = {}]
              /\ told' = Tell(told, s, "connected")
              /\ daemonContexts' = [daemonContexts EXCEPT
                    ![s] = SessionIdsForTransport(registry, s)]
              /\ KeepPaths
    /\ UNCHANGED <<generation, registry, streams, retired>>

\* The failure closure of connect_session: report, then mark disconnected.
ConnectFailed(t) ==
    /\ t \in tasks /\ t.pc = "failed" /\ t.attempt = 0
    /\ LET s == t.session
           view == IF IsCurrentGeneration(s, t.generation)
                     THEN Tell(told, s, "failed") ELSE told
       IN  MarkSessionDisconnected(s, t.generation, FALSE, tasks \ {t}, view)
    /\ UNCHANGED <<registry, streams, retired>>

\* The failure closure of a reconnect task, with handle_reconnect_failure:
\* try again, or report the session lost.
ReconnectFailed(t) ==
    /\ t \in tasks /\ t.pc = "failed" /\ t.attempt > 0
    /\ LET s == t.session
       IN  \/ /\ ~StillWanted(s, t.generation)
              /\ tasks' = tasks \ {t}
              /\ UNCHANGED <<sessions, generation, told, daemonContexts>>
           \/ /\ StillWanted(s, t.generation)
              /\ AttemptsLeft(t.attempt)
              /\ AttemptReconnect(s, t.attempt + 1, t.lost, tasks \ {t})
              /\ UNCHANGED told
           \/ /\ StillWanted(s, t.generation)
              /\ ~AttemptsLeft(t.attempt)
              /\ Become(s, Disconnected)
              /\ told' = Tell(told, s, "disconnected")
              /\ tasks' = tasks \ {t}
              /\ UNCHANGED generation
    /\ StayOnHosts /\ KeepPaths
    /\ UNCHANGED <<registry, streams, retired>>

-----------------------------------------------------------------------------
TaskRuns(t) ==
    \/ DelayElapses(t)
    \/ TransportConnects(t)
    \/ ConnectOrHandshakeFails(t)
    \/ \E h \in Host : HandshakeSucceeds(t, h)
    \/ MarkSessionConnected(t)
    \/ ConnectFailed(t)
    \/ ReconnectFailed(t)

Calls ==
    \E s \in Session :
        \/ ConnectSession(s)
        \/ RestartTransport(s)
        \/ DeregisterAlias(s)
        \/ DeregisterOwner(s)
        \/ \E o \in Owner, c \in Context : RegisterContext(s, o, c)
        \/ \E p \in Path : NavigateToDirectory(s, p)

Next ==
    \/ Calls
    \/ \E t \in tasks : TaskRuns(t)
    \/ \E x \in streams : StreamEnds(x)

Spec == Init /\ [][Next]_vars

\* A background task keeps running: the executor polls it, the delay is a
\* timer, and connect and initialize end by themselves or by their timeouts.
\* Nothing is assumed of callers or of when a stream ends.
FairSpec ==
    Spec /\ \A s \in Owner :
        WF_vars(\E t \in tasks : /\ t.session = s
                                /\ IsCurrentGeneration(s, t.generation)
                                /\ TaskRuns(t))

-----------------------------------------------------------------------------
(* Properties *)

Generations == 0 .. (MaxGeneration + MaxReconnectAttempts)

\* Type invariant.  It bounds a reconnect chain by MAX_RECONNECT_ATTEMPTS.
TypeOK ==
    /\ sessions \in [Session -> [st : Status, client : Nat,
                                 host : Host \cup {NoHost},
                                 attempt : 0 .. MaxReconnectAttempts]]
    /\ generation \in [Session -> Nat]
    /\ registry \in Registry
    /\ hostToSessions \in [Host -> SUBSET Session]
    /\ lastNavigatedPath \in [Session -> Path \cup {NoPath}]
    /\ tasks \subseteq [session : Owner, generation : Nat,
                        attempt : 0 .. MaxReconnectAttempts,
                        lost : Host \cup {NoHost},
                        pc : {"delay", "connect", "handshake", "reached", "failed"},
                        reached : Host \cup {NoHost}]
    /\ streams \subseteq [session : Owner, generation : Nat]
    /\ told \in [Session -> Event]
    /\ hostUp \in [Host -> BOOLEAN]
    /\ daemonContexts \in [Session -> SUBSET Session]
    /\ retired \subseteq Owner

ConnectedTo(s, h) == sessions[s].st = "Connected" /\ sessions[s].host = h

StaleEntry(s, h) == s \in hostToSessions[h] /\ ~ConnectedTo(s, h)

\* sessions_for_host finds every session connected to the host, and a session
\* leaves the index in the very step in which it leaves the host, through every
\* race of restarts, reconnects and removals.  There is one exception, which the
\* code does not handle: an entry goes stale when connect_session replaces a
\* Connected session, and in no other way.
HostIndexExact ==
    [][\A s \in Session, h \in Host :
          /\ ConnectedTo(s, h)' => s \in hostToSessions'[h]
          /\ StaleEntry(s, h)' /\ ~StaleEntry(s, h) =>
                ConnectedTo(s, h) /\ sessions'[s] = Connecting]_vars

\* HostConnected and HostDisconnected bracket the time a host has sessions.
HostEventsFollowIndex ==
    \A h \in Host : hostUp[h] <=> hostToSessions[h] # {}

\* The client a session hands out was established by its current generation:
\* no late closure of a superseded connect, handshake or reconnect installs
\* its own.
HeldClientIsCurrent ==
    \A s \in Session : sessions[s].st \in {"Initializing", "Connected"} =>
        sessions[s].client = generation[s]

\* SessionDisconnected reports only a connection that was announced and not
\* yet reported lost: never twice for one SessionConnected, although a restart,
\* a removal, the stream's end and an exhausted reconnect all report it.
LossReportedOnce == \A s \in Session : told[s] # "spurious"

\* While a session is connected its daemon holds exactly the execution contexts
\* registered for that transport: those bound before it connected, those bound
\* since, and again all of them after a reconnect.
DaemonHoldsContexts ==
    \A s \in Owner : sessions[s].st = "Connected" =>
        daemonContexts[s] = SessionIdsForTransport(registry, s)

\* A dedup entry belongs to a session that still has a transport owner: removing
\* an owner leaves no entry behind that would mute a later navigation.
PathsHaveTransport ==
    \A s \in Session : lastNavigatedPath[s] # NoPath =>
        generation[CanonicalSession(s)] > 0

\* A session once deregistered is never resurrected by a closure posted for it.
RetiredStaysAbsent == \A s \in retired : ~Tracked(s)

\* A session that a task is working on is eventually connected, given up or
\* removed: no path through connect, handshake and reconnect leaves it pending.
Settles ==
    \A s \in Owner :
        sessions[s].st \in {"Connecting", "Initializing", "Reconnecting"} ~>
        sessions[s].st \in {"Connected", "Disconnected", "Absent"}

\* The manager implements the promise about hosts, with the one way in which it
\* breaks it: a session connected over while Connected stays counted.
Presence == INSTANCE HostPresence WITH
    members   <- [h \in Host |-> {s \in Session : ConnectedTo(s, h)}],
    counted   <- hostToSessions,
    announced <- hostUp

HostsArePresent == Presence!PresenceSpec

-----------------------------------------------------------------------------
(* The inductive invariant behind the safety properties *)

\* Terminals bind to owners and owners to nobody: alias chains have one link.
BindingsFlat ==
    \A s \in Session : /\ registry.aliases[s] \in Owner \cup {None}
                       /\ s \in Owner => registry.aliases[s] = None

\* Generations only belong to owners, and a held client to a live one.
GenerationsOwned ==
    /\ \A s \in Session \ Owner : generation[s] = 0
    /\ \A s \in Session : sessions[s].st \in {"Initializing", "Connected"} =>
          generation[s] > 0

\* No task is ahead of its session; a generation has one task, which is gone
\* by the time its session is Connected.
TasksInOrder ==
    /\ \A t \in tasks : /\ t.generation > 0
                        /\ t.session \notin retired =>
                              t.generation <= generation[t.session]
    /\ \A t, u \in tasks :
          t.session = u.session /\ t.generation = u.generation => t = u
    /\ \A t \in tasks : IsCurrentGeneration(t.session, t.generation) =>
          sessions[t.session].st # "Connected"

RetiredGone ==
    \A s \in retired : generation[s] = 0 /\ sessions[s] = Absent

\* Whoever may yet report a session lost does so for one told connected.
LossPending ==
    /\ \A s \in Session : sessions[s].st \in {"Connected", "Reconnecting"} =>
          told[s] = "connected"
    /\ \A t \in tasks :
          t.attempt > 0 /\ StillWanted(t.session, t.generation) =>
              told[t.session] = "connected"

\* A connected session is in the index of its host.
IndexCovers ==
    \A s \in Session, h \in Host : ConnectedTo(s, h) => s \in hostToSessions[h]

ManagerInv ==
    /\ TypeOK
    /\ BindingsFlat
    /\ GenerationsOwned
    /\ TasksInOrder
    /\ RetiredGone
    /\ LossPending
    /\ IndexCovers
    /\ HostEventsFollowIndex
    /\ HeldClientIsCurrent
    /\ LossReportedOnce
    /\ DaemonHoldsContexts
    /\ PathsHaveTransport

\* A session that reconnects, and the task that does it, have left the host
\* they will report lost.
ReconnectsLeft ==
    /\ \A s \in Session, h \in Host :
          sessions[s].st = "Reconnecting" /\ sessions[s].host = h =>
              s \notin hostToSessions[h]
    /\ \A t \in tasks, h \in Host :
          /\ t.attempt > 0 /\ t.lost = h
          /\ IsCurrentGeneration(t.session, t.generation)
          => t.session \notin hostToSessions[h]
=============================================================================
