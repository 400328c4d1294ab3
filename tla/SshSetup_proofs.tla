---------------------------- MODULE SshSetup_proofs ----------------------------
(***************************************************************************)
(* Proofs about SshSetup.  A step of the composition is a step of the      *)
(* manager, so the manager's invariant holds; with it, the events the      *)
(* manager emits are those the controller is modelled against, and the     *)
(* answer a waiting setup needs has a task that will emit it.  What is     *)
(* proved of the controller alone then holds in the composition.           *)
(***************************************************************************)
EXTENDS SshSetup, RemoteServerManager_proofs

-----------------------------------------------------------------------------
(* The composition runs the manager *)

\* The steps by which the controller calls the manager, and those by which it
\* does not.
ConnectRequested(s) ==
    /\ ConnectSession(s)
    /\ \/ Pane!CheckInstalled(s)
       \/ Pane!ExpectsInstall(s) /\ Pane!InstallCompletes(s, TRUE)

PaneAlone(s) ==
    /\ UNCHANGED vars
    /\ \/ Pane!ShellStarts(s)
       \/ Pane!CheckIgnored(s)
       \/ Pane!CheckUnsupported(s)
       \/ Pane!CheckInstalls(s)
       \/ Pane!CheckAsks(s)
       \/ Pane!CheckGivesUp(s)
       \/ Pane!InstallClicked(s)
       \/ Pane!SkipClicked(s)
       \/ Pane!InstallCompletes(s, FALSE)
       \/ ~Pane!ExpectsInstall(s) /\ Pane!InstallCompletes(s, TRUE)
       \/ Pane!ShellDies(s)

LEMMA SetupActions ==
    ASSUME SetupNext
    PROVE  \/ \E s \in Owner : ConnectRequested(s) \/ PaneAlone(s) \/ ShellLeft(s)
           \/ ManagerStep
<1>1. ASSUME NEW s \in Owner, CheckAnswered(s)
      PROVE  ConnectRequested(s) \/ PaneAlone(s)
    BY <1>1 DEF CheckAnswered, ConnectRequested, PaneAlone
<1>2. ASSUME NEW s \in Owner, InstallAnswered(s)
      PROVE  ConnectRequested(s) \/ PaneAlone(s)
    BY <1>2 DEF InstallAnswered, ConnectRequested, PaneAlone
<1>3. ASSUME NEW s \in Owner, PaneStep(s) PROVE PaneAlone(s)
    BY <1>3 DEF PaneStep, PaneAlone
<1> QED BY <1>1, <1>2, <1>3 DEF SetupNext

LEMMA SetupStepsManager == SetupNext => [Next]_vars
<1>1. ASSUME NEW s \in Owner, ConnectRequested(s) PROVE Next
    BY <1>1, ManagerAssumption DEF ConnectRequested, Next, Calls
<1>2. ASSUME NEW s \in Owner, PaneAlone(s) PROVE UNCHANGED vars
    BY <1>2 DEF PaneAlone
<1>3. ASSUME NEW s \in Owner, ShellLeft(s) PROVE Next
    BY <1>3, ManagerAssumption DEF ShellLeft, Next, Calls
<1>4. ASSUME ManagerStep PROVE Next
    BY <1>4 DEF ManagerStep, TaskHeard, Next
<1> QED BY <1>1, <1>2, <1>3, <1>4, SetupActions

\* Every behaviour of the composition is a behaviour of the manager.
THEOREM SetupRunsManager == SetupSpec => Spec
<1>1. [SetupNext]_setupVars => [Next]_vars
    BY SetupStepsManager DEF setupVars, vars
<1> QED BY <1>1, PTL DEF SetupSpec, SetupInit, Spec

-----------------------------------------------------------------------------
(* What a closure of the manager tells *)

\* A connect that was told of stays told of, or its answer is told in this step.
AnswersAreEvents ==
    \A s \in Owner :
        /\ told'[s] = "connecting" => told[s] = "connecting"
        /\ told[s] = "connecting" /\ told'[s] # "connecting" =>
              FailureReported(s) \/ Arrives(s)

LEMMA ToldTypes ==
    ManagerInv => /\ told \in [Session -> Event]
                  /\ \A s \in Session : told[s] # "spurious"
                  /\ sessions \in [Session -> [st : Status, client : Nat,
                        host : Host \cup {NoHost}, attempt : 0 .. MaxReconnectAttempts]]
                  /\ \A t \in tasks : t.session \in Owner /\ t.attempt \in Nat
                  /\ \A x \in streams : x.session \in Owner
                  /\ Owner \subseteq Session
BY ManagerAssumption DEF ManagerInv, TypeOK, LossReportedOnce

\* A session told connected that is reported lost was not connecting.
LEMMA LossIsNoAnswer ==
    ASSUME ManagerInv, NEW u \in Owner, told[u] = "connected",
           told' = Tell(told, u, "disconnected")
    PROVE  AnswersAreEvents
BY ToldTypes DEF AnswersAreEvents, Tell

LEMMA ClosuresTell ==
    ASSUME ManagerInv,
           \/ \E t \in tasks : TaskRuns(t)
           \/ \E x \in streams : StreamEnds(x)
    PROVE  AnswersAreEvents
<1> USE ToldTypes
<1>1. ASSUME UNCHANGED told PROVE AnswersAreEvents
    BY <1>1 DEF AnswersAreEvents
<1>2. ASSUME NEW t \in tasks,
             \/ DelayElapses(t) \/ TransportConnects(t) \/ ConnectOrHandshakeFails(t)
             \/ \E h \in Host : HandshakeSucceeds(t, h)
      PROVE  UNCHANGED told
    BY <1>2 DEF DelayElapses, TransportConnects, ConnectOrHandshakeFails,
                HandshakeSucceeds
<1>3. ASSUME NEW t \in tasks, MarkSessionConnected(t) PROVE AnswersAreEvents
    <2> DEFINE u == t.session
    <2>1. CASE UNCHANGED told
        BY <1>1, <2>1
    <2>2. ASSUME /\ sessions[u].st = "Initializing"
                 /\ sessions' = [sessions EXCEPT ![u] = Connected(@.client, t.reached)]
                 /\ told' = Tell(told, u, "connected")
          PROVE  AnswersAreEvents
        <3>1. Arrives(u)
            BY <2>2 DEF Arrives, Connected, SessionState
        <3>2. \A s \in Owner \ {u} : told'[s] = told[s]
            BY <2>2 DEF Tell
        <3>3. told'[u] = "connected"
            BY <2>2 DEF Tell
        <3> QED BY <3>1, <3>2, <3>3 DEF AnswersAreEvents
    <2> QED BY <1>3, <2>1, <2>2 DEF MarkSessionConnected
<1>4. ASSUME NEW t \in tasks, ConnectFailed(t) PROVE AnswersAreEvents
    <2> DEFINE u == t.session
               view == IF IsCurrentGeneration(u, t.generation)
                         THEN Tell(told, u, "failed") ELSE told
    <2>1. MarkSessionDisconnected(u, t.generation, FALSE, tasks \ {t}, view)
        BY <1>4 DEF ConnectFailed
    <2>2. told' = view
        BY <2>1 DEF MarkSessionDisconnected
    <2>3. CASE told' = told
        BY <1>1, <2>3
    <2>4. CASE told' = Tell(told, u, "failed")
        <3>1. told'[u] = "failed" /\ \A s \in Owner \ {u} : told'[s] = told[s]
            BY <2>4 DEF Tell
        <3> QED BY <3>1 DEF AnswersAreEvents, FailureReported
    <2> QED BY <2>2, <2>3, <2>4
<1>5. ASSUME NEW t \in tasks, ReconnectFailed(t) PROVE AnswersAreEvents
    <2>1. CASE UNCHANGED told
        BY <1>1, <2>1
    <2>2. ASSUME StillWanted(t.session, t.generation), t.attempt > 0,
                 told' = Tell(told, t.session, "disconnected")
          PROVE  AnswersAreEvents
        BY <2>2, LossIsNoAnswer DEF ManagerInv, LossPending
    <2> QED BY <1>5, <2>1, <2>2 DEF ReconnectFailed
<1>6. ASSUME NEW x \in streams, StreamEnds(x) PROVE AnswersAreEvents
    <2>1. PICK exited \in BOOLEAN :
             MarkSessionDisconnected(x.session, x.generation, exited, tasks, told)
        BY <1>6 DEF StreamEnds
    <2>2. CASE UNCHANGED told
        BY <1>1, <2>2
    <2>3. ASSUME sessions[x.session].st = "Connected",
                 told' = Tell(told, x.session, "disconnected")
          PROVE  AnswersAreEvents
        BY <2>3, LossIsNoAnswer DEF ManagerInv, LossPending
    <2> QED BY <2>1, <2>2, <2>3 DEF MarkSessionDisconnected
<1> QED BY <1>2, <1>1, <1>3, <1>4, <1>5, <1>6 DEF TaskRuns

-----------------------------------------------------------------------------
(* The manager keeps to the controller's model *)

LEMMA SetupStepImplements ==
    ASSUME ManagerInv, [SetupNext]_setupVars
    PROVE  [Pane!ControllerNext]_(Pane!controllerVars)
<1>1. CASE UNCHANGED setupVars
    BY <1>1 DEF setupVars, vars, paneVars, Pane!controllerVars
<1>2. ASSUME NEW s \in Owner, ConnectRequested(s) PROVE Pane!ControllerNext
    <2>1. CASE Pane!CheckInstalled(s)
        BY <2>1 DEF Pane!ControllerNext, Pane!CheckCompletes
    <2>2. CASE Pane!InstallCompletes(s, TRUE)
        BY <2>2 DEF Pane!ControllerNext
    <2> QED BY <1>2, <2>1, <2>2 DEF ConnectRequested
<1>3. ASSUME NEW s \in Owner, PaneAlone(s) PROVE Pane!ControllerNext
    <2>1. CASE \/ Pane!CheckIgnored(s) \/ Pane!CheckUnsupported(s)
               \/ Pane!CheckInstalls(s) \/ Pane!CheckAsks(s) \/ Pane!CheckGivesUp(s)
        BY <2>1 DEF Pane!ControllerNext, Pane!CheckCompletes
    <2>2. CASE \E ok \in BOOLEAN : Pane!InstallCompletes(s, ok)
        BY <2>2 DEF Pane!ControllerNext
    <2>3. CASE \/ Pane!ShellStarts(s) \/ Pane!InstallClicked(s)
               \/ Pane!SkipClicked(s) \/ Pane!ShellDies(s)
        BY <2>3 DEF Pane!ControllerNext
    <2> QED BY <1>3, <2>1, <2>2, <2>3 DEF PaneAlone
<1>4. ASSUME NEW s \in Owner, ShellLeft(s) PROVE Pane!ControllerNext
    BY <1>4 DEF ShellLeft, Pane!ControllerNext
<1>5. ASSUME ManagerStep PROVE [Pane!ControllerNext]_(Pane!controllerVars)
    <2>1. Heard /\ AnswersAreEvents
        BY <1>5, ClosuresTell DEF ManagerStep, TaskHeard
    <2>2. ASSUME NEW s \in Owner,
                 \/ Pane!SessionConnected(s) \/ Pane!SessionReconnected(s)
                 \/ Pane!SessionConnectionFailed(s)
          PROVE  Pane!ControllerNext
        BY <2>2 DEF Pane!ControllerNext
    <2>3. ASSUME UNCHANGED paneVars,
                 \A s \in Owner : /\ ~FailureReported(s)
                                  /\ Arrives(s) => told[s] # "connecting"
          PROVE  UNCHANGED Pane!controllerVars
        <3>1. {s \in Owner : told'[s] = "connecting"}
                = {s \in Owner : told[s] = "connecting"}
            BY <2>1, <2>3 DEF AnswersAreEvents
        <3> QED BY <2>3, <3>1 DEF paneVars, Pane!controllerVars
    <2> QED BY <2>1, <2>2, <2>3 DEF Heard
<1> QED BY <1>1, <1>2, <1>3, <1>4, <1>5, SetupActions

\* The manager keeps to what the controller is modelled against: through every
\* race of connects, handshakes, reconnects and removals, a connect in flight
\* ends with one SessionConnected or SessionConnectionFailed, or with the exit
\* of its shell (mark_session_connected, connect_session, deregister_session).
THEOREM ManagerKeepsToController == SetupSpec => SetupImplements
<1>1. SetupInit => Pane!ControllerInit
    BY DEF SetupInit
<1>2. SetupSpec => []ManagerInv
    BY SetupRunsManager, ManagerInvariant, PTL
<1>3. ManagerInv /\ [SetupNext]_setupVars => [Pane!ControllerNext]_(Pane!controllerVars)
    BY SetupStepImplements
<1> QED BY <1>1, <1>2, <1>3, PTL DEF SetupSpec, SetupImplements, Pane!ControllerSpec

-----------------------------------------------------------------------------
(* The answer a waiting setup needs *)

\* What AnswerUnderWay says of the session the controller waits for.
Underway(s) ==
    \/ sessions[s].st = "Absent"
    \/ /\ told[s] = "connecting"
       /\ \E t \in tasks : /\ t.session = s /\ t.attempt = 0
                           /\ IsCurrentGeneration(s, t.generation)

LEMMA UnderwayIsEnough ==
    ASSUME state.st = "AwaitingConnect" =>
              state.session \in Owner /\ Underway(state.session)
    PROVE  AnswerUnderWay
BY DEF AnswerUnderWay, Underway

\* A closure that works on no task of s and does not touch s keeps it.
LEMMA OthersKeep ==
    ASSUME NEW s \in Owner, Underway(s),
           sessions'[s].st = sessions[s].st, told'[s] = told[s],
           generation'[s] = generation[s],
           \A t \in tasks : t.session = s /\ t.attempt = 0 =>
              \E u \in tasks' : /\ u.session = s /\ u.attempt = 0
                                /\ u.generation = t.generation
    PROVE  Underway(s)'
BY DEF Underway, IsCurrentGeneration

\* A task that moves on is still the task of its session and generation.
LEMMA MovesKeepTask ==
    ASSUME NEW T, NEW t \in tasks, NEW pc, NEW h,
           \A u \in tasks : u \in [session : Owner, generation : Nat,
                        attempt : 0 .. MaxReconnectAttempts,
                        lost : Host \cup {NoHost},
                        pc : {"delay", "connect", "handshake", "reached", "failed"},
                        reached : Host \cup {NoHost}],
           \/ T = TaskStep(t, pc)
           \/ T = (tasks \ {t}) \cup {[t EXCEPT !.pc = pc, !.reached = h]},
           NEW v \in tasks
    PROVE  \E u \in T : /\ u.session = v.session /\ u.attempt = v.attempt
                        /\ u.generation = v.generation
<1>1. CASE v # t
    BY <1>1 DEF TaskStep
<1>2. CASE v = t /\ T = TaskStep(t, pc)
    <2> DEFINE u == [t EXCEPT !.pc = pc]
    <2>1. u \in T /\ u.session = t.session /\ u.attempt = t.attempt
            /\ u.generation = t.generation
        BY <1>2 DEF TaskStep
    <2> QED BY <2>1, <1>2
<1>3. CASE v = t /\ T = (tasks \ {t}) \cup {[t EXCEPT !.pc = pc, !.reached = h]}
    <2> DEFINE u == [[t EXCEPT !.pc = pc] EXCEPT !.reached = h]
    <2>1. u \in T
        BY <1>3
    <2>2. u.session = t.session /\ u.attempt = t.attempt /\ u.generation = t.generation
        BY Zenon
    <2> QED BY <2>1, <2>2, <1>3
<1> QED BY <1>1, <1>2, <1>3

\* The answer of s alone is told in this step.
AnswerOf(s) ==
    /\ told[s] = "connecting"
    /\ FailureReported(s) \/ Arrives(s)
    /\ \A u \in Owner \ {s} : sessions'[u] = sessions[u] /\ told'[u] = told[u]

\* A removed session stays removed whatever is posted for it.
LEMMA AbsentStays ==
    ASSUME ManagerInv, NEW s \in Owner, sessions[s].st = "Absent",
           \/ \E t \in tasks : TaskRuns(t)
           \/ \E x \in streams : StreamEnds(x)
    PROVE  sessions'[s].st = "Absent"
<1> USE ToldTypes
<1>1. ~Tracked(s) /\ \A g : ~StillWanted(s, g)
    BY DEF Tracked, StillWanted
<1>2. ASSUME UNCHANGED sessions PROVE sessions'[s].st = "Absent"
    BY <1>2
<1>3. ASSUME NEW u \in Owner, NEW state0, Become(u, state0), u # s
      PROVE  sessions'[s].st = "Absent"
    BY <1>3 DEF Become
<1>4. ASSUME NEW u \in Owner, NEW g, NEW exited, NEW pending, NEW view,
             MarkSessionDisconnected(u, g, exited, pending, view)
      PROVE  sessions'[s].st = "Absent"
    BY <1>1, <1>2, <1>3, <1>4 DEF MarkSessionDisconnected, AttemptReconnect
<1>5. ASSUME NEW t \in tasks, DelayElapses(t) \/ ConnectOrHandshakeFails(t)
                \/ \E h \in Host : HandshakeSucceeds(t, h)
      PROVE  UNCHANGED sessions
    BY <1>5 DEF DelayElapses, ConnectOrHandshakeFails, HandshakeSucceeds
<1>6. ASSUME NEW t \in tasks, TransportConnects(t) PROVE sessions'[s].st = "Absent"
    BY <1>6, <1>1, <1>2, <1>3 DEF TransportConnects
<1>7. ASSUME NEW t \in tasks, MarkSessionConnected(t) PROVE sessions'[s].st = "Absent"
    <2>1. CASE UNCHANGED sessions
        BY <2>1
    <2>2. CASE Become(t.session, Absent)
        BY <2>2 DEF Become, Absent, SessionState
    <2>3. ASSUME sessions[t.session].st = "Initializing",
                 sessions' = [sessions EXCEPT
                    ![t.session] = Connected(@.client, t.reached)]
          PROVE  sessions'[s].st = "Absent"
        BY <2>3
    <2> QED BY <1>7, <2>1, <2>2, <2>3 DEF MarkSessionConnected
<1>8. ASSUME NEW t \in tasks, ConnectFailed(t) PROVE sessions'[s].st = "Absent"
    BY <1>8, <1>4 DEF ConnectFailed
<1>9. ASSUME NEW t \in tasks, ReconnectFailed(t) PROVE sessions'[s].st = "Absent"
    BY <1>9, <1>1, <1>2, <1>3 DEF ReconnectFailed, AttemptReconnect
<1>10. ASSUME NEW x \in streams, StreamEnds(x) PROVE sessions'[s].st = "Absent"
    BY <1>10, <1>4 DEF StreamEnds
<1> QED BY <1>2, <1>5, <1>6, <1>7, <1>8, <1>9, <1>10 DEF TaskRuns

LEMMA ClosuresKeepWaiting ==
    ASSUME ManagerInv, NEW s \in Owner, Underway(s),
           \/ \E t \in tasks : TaskRuns(t)
           \/ \E x \in streams : StreamEnds(x)
    PROVE  Underway(s)' \/ AnswerOf(s)
<1> USE ToldTypes
<1>1. CASE sessions[s].st = "Absent"
    BY <1>1, AbsentStays DEF Underway
<1> SUFFICES ASSUME sessions[s].st # "Absent", told[s] = "connecting",
                    NEW d \in tasks, d.session = s, d.attempt = 0,
                    IsCurrentGeneration(s, d.generation)
             PROVE  Underway(s)' \/ AnswerOf(s)
    BY <1>1 DEF Underway
\* d is the only task of the session's generation, so it is not Connected.
<1>2. /\ sessions[s].st # "Connected"
      /\ StillWanted(s, d.generation)
      /\ \A t \in tasks : t.session = s /\ IsCurrentGeneration(s, t.generation) => t = d
    BY DEF ManagerInv, TasksInOrder, StillWanted, Tracked, IsCurrentGeneration
<1>3. /\ generation \in [Session -> Nat]
      /\ \A u \in tasks : u \in [session : Owner, generation : Nat,
                        attempt : 0 .. MaxReconnectAttempts,
                        lost : Host \cup {NoHost},
                        pc : {"delay", "connect", "handshake", "reached", "failed"},
                        reached : Host \cup {NoHost}]
    BY DEF ManagerInv, TypeOK
<1>4. ASSUME told'[s] = "connecting", generation'[s] = generation[s],
             \E u \in tasks' : /\ u.session = s /\ u.attempt = 0
                               /\ u.generation = d.generation
      PROVE  Underway(s)'
    BY <1>4 DEF Underway, IsCurrentGeneration
<1>5. ASSUME NEW t \in tasks, NEW pc, tasks' = TaskStep(t, pc),
             UNCHANGED <<told, generation>>
      PROVE  Underway(s)'
    <2>1. \E u \in tasks' : /\ u.session = d.session /\ u.attempt = d.attempt
                            /\ u.generation = d.generation
        BY <1>3, <1>5, MovesKeepTask
    <2> QED BY <1>4, <1>5, <2>1
<1>6. ASSUME NEW t \in tasks, DelayElapses(t) PROVE Underway(s)'
    <2>1. CASE StillWanted(t.session, t.generation)
        BY <1>5, <1>6, <2>1 DEF DelayElapses
    <2>2. CASE ~StillWanted(t.session, t.generation)
        <3>1. t # d
            BY <1>2, <2>2
        <3> QED BY <1>4, <1>6, <2>2, <3>1 DEF DelayElapses
    <2> QED BY <2>1, <2>2
<1>7. ASSUME NEW t \in tasks, TransportConnects(t) \/ ConnectOrHandshakeFails(t)
      PROVE  Underway(s)'
    BY <1>5, <1>7 DEF TransportConnects, ConnectOrHandshakeFails
<1>8. ASSUME NEW t \in tasks, NEW h \in Host, HandshakeSucceeds(t, h)
      PROVE  Underway(s)'
    <2>1. /\ tasks' = (tasks \ {t}) \cup {[t EXCEPT !.pc = "reached", !.reached = h]}
          /\ UNCHANGED <<told, generation>>
        BY <1>8 DEF HandshakeSucceeds
    <2>2. \E u \in tasks' : /\ u.session = d.session /\ u.attempt = d.attempt
                            /\ u.generation = d.generation
        BY <1>3, <2>1, MovesKeepTask
    <2> QED BY <1>4, <2>1, <2>2
\* The closures that end a task: d's own answers, another's leaves d alone.
<1>9. ASSUME NEW t \in tasks, MarkSessionConnected(t)
      PROVE  Underway(s)' \/ AnswerOf(s)
    <2>1. CASE t = d
        <3>1. CASE sessions[s].st # "Initializing"
            BY <1>9, <2>1, <3>1 DEF MarkSessionConnected, Underway, Become, Absent,
                                    SessionState
        <3>2. CASE sessions[s].st = "Initializing"
            <4>1. sessions' = [sessions EXCEPT ![s] = Connected(@.client, t.reached)]
                  /\ told' = Tell(told, s, "connected")
                BY <1>9, <2>1, <3>2 DEF MarkSessionConnected
            <4>2. Arrives(s)
                BY <3>2, <4>1 DEF Arrives, Connected, SessionState
            <4> QED BY <4>1, <4>2 DEF AnswerOf, Tell
        <3> QED BY <3>1, <3>2
    <2>2. CASE t # d
        <3>1. d \in tasks' /\ generation' = generation
            BY <1>9, <2>2 DEF MarkSessionConnected
        <3>2. told'[s] = told[s]
            <4>1. CASE UNCHANGED told
                BY <4>1
            <4>2. CASE t.session # s /\ told' = Tell(told, t.session, "connected")
                BY <4>2 DEF Tell
            <4> QED BY <1>2, <1>9, <2>2, <4>1, <4>2 DEF MarkSessionConnected
        <3> QED BY <1>4, <3>1, <3>2
    <2> QED BY <2>1, <2>2
<1>10. ASSUME NEW t \in tasks, ConnectFailed(t)
       PROVE  Underway(s)' \/ AnswerOf(s)
    <2> DEFINE view == IF IsCurrentGeneration(t.session, t.generation)
                         THEN Tell(told, t.session, "failed") ELSE told
    <2>1. MarkSessionDisconnected(t.session, t.generation, FALSE, tasks \ {t}, view)
        BY <1>10 DEF ConnectFailed
    <2>2. CASE t = d
        <3>1. view = Tell(told, s, "failed")
            BY <2>2
        <3>2. Become(s, Disconnected) /\ told' = view
            BY <1>2, <2>1, <2>2 DEF MarkSessionDisconnected
        <3> QED BY <3>1, <3>2 DEF AnswerOf, FailureReported, Tell, Become
    <2>3. CASE t # d
        <3>1. ~IsCurrentGeneration(t.session, t.generation) \/ t.session # s
            BY <1>2, <2>3
        <3>2. view[s] = told[s]
            BY <3>1 DEF Tell
        <3>3. CASE t.session = s
            BY <1>4, <2>1, <2>3, <3>1, <3>2, <3>3
               DEF MarkSessionDisconnected, StillWanted
        <3>4. CASE t.session # s
            <4>1. CASE generation' = generation /\ tasks' = tasks \ {t} /\ told' = view
                BY <1>4, <2>3, <3>2, <4>1
            <4>2. CASE AttemptReconnect(t.session, 1, sessions[t.session].host, tasks \ {t})
                       /\ told' = view
                BY <1>4, <2>3, <3>2, <3>4, <4>2 DEF AttemptReconnect, BeginGeneration
            <4>3. CASE \E e \in {"disconnected"} : told' = Tell(view, t.session, e)
                            /\ generation' = generation /\ tasks' = tasks \ {t}
                BY <1>4, <2>3, <3>2, <3>4, <4>3 DEF Tell
            <4> QED BY <2>1, <4>1, <4>2, <4>3 DEF MarkSessionDisconnected
        <3> QED BY <3>3, <3>4
    <2> QED BY <2>2, <2>3
<1>11. ASSUME NEW t \in tasks, ReconnectFailed(t) PROVE Underway(s)'
    <2>1. t # d /\ (StillWanted(t.session, t.generation) => t.session # s)
        BY <1>2, <1>11 DEF ReconnectFailed, StillWanted
    <2>2. CASE ~StillWanted(t.session, t.generation)
        BY <1>4, <1>11, <2>1, <2>2 DEF ReconnectFailed
    <2>3. CASE AttemptReconnect(t.session, t.attempt + 1, t.lost, tasks \ {t})
               /\ UNCHANGED told /\ t.session # s
        BY <1>4, <2>1, <2>3 DEF AttemptReconnect, BeginGeneration
    <2>4. CASE told' = Tell(told, t.session, "disconnected") /\ tasks' = tasks \ {t}
               /\ UNCHANGED generation /\ t.session # s
        BY <1>4, <2>1, <2>4 DEF Tell
    <2> QED BY <1>11, <2>1, <2>2, <2>3, <2>4 DEF ReconnectFailed
<1>12. ASSUME NEW x \in streams, StreamEnds(x) PROVE Underway(s)'
    <2>1. PICK exited \in BOOLEAN :
             MarkSessionDisconnected(x.session, x.generation, exited, tasks, told)
        BY <1>12 DEF StreamEnds
    <2>2. CASE UNCHANGED <<tasks, told, generation>>
        BY <1>4, <2>2
    <2>3. CASE x.session # s /\ told' = Tell(told, x.session, "disconnected")
               /\ UNCHANGED <<tasks, generation>>
        BY <1>4, <2>3 DEF Tell
    <2>4. CASE x.session # s /\ UNCHANGED told
               /\ AttemptReconnect(x.session, 1, sessions[x.session].host, tasks)
        BY <1>4, <2>4 DEF AttemptReconnect, BeginGeneration
    <2> QED BY <1>2, <2>1, <2>2, <2>3, <2>4 DEF MarkSessionDisconnected
<1> QED BY <1>6, <1>7, <1>8, <1>9, <1>10, <1>11, <1>12 DEF TaskRuns

LEMMA ConnectRequestedWaits ==
    ASSUME ManagerInv, NEW s \in Owner, ConnectRequested(s)
    PROVE  AnswerUnderWay'
<1>1. state'.st = "AwaitingConnect" /\ state'.session = s
    <2>1. CASE Pane!CheckInstalled(s)
        BY <2>1 DEF Pane!CheckInstalled, Pane!AwaitingConnect, Pane!SshInitState
    <2>2. CASE Pane!ExpectsInstall(s) /\ Pane!InstallCompletes(s, TRUE)
        BY <2>2 DEF Pane!InstallCompletes, Pane!AwaitingConnect, Pane!SshInitState
    <2> QED BY <2>1, <2>2 DEF ConnectRequested
<1>2. /\ told' = Tell(told, s, "connecting")
      /\ tasks' = tasks \cup {Task(s, generation[s] + 1, 0, NoHost)}
      /\ generation' = [generation EXCEPT ![s] = @ + 1]
    BY DEF ConnectRequested, ConnectSession, BeginGeneration
<1>3. told'[s] = "connecting"
    BY <1>2, ToldTypes DEF Tell
<1>4. generation'[s] = generation[s] + 1
    BY <1>2, ToldTypes DEF ManagerInv, TypeOK
<1>5. /\ Task(s, generation[s] + 1, 0, NoHost).session = s
      /\ Task(s, generation[s] + 1, 0, NoHost).attempt = 0
      /\ Task(s, generation[s] + 1, 0, NoHost).generation = generation[s] + 1
    BY DEF Task
<1> QED BY <1>1, <1>2, <1>3, <1>4, <1>5 DEF AnswerUnderWay, IsCurrentGeneration

LEMMA PaneAloneWaits ==
    ASSUME AnswerUnderWay, NEW s \in Owner, PaneAlone(s)
    PROVE  AnswerUnderWay'
<1>1. state'.st = "AwaitingConnect" => state' = state
    <2> USE DEF Pane!SshInitState, Pane!Idle, Pane!TakesStash, Pane!AwaitingCheck,
                Pane!AwaitingUserChoice, Pane!AwaitingInstall
    <2>1. CASE Pane!ShellStarts(s)
        BY <2>1 DEF Pane!ShellStarts
    <2>2. CASE \/ Pane!CheckIgnored(s) \/ Pane!CheckUnsupported(s)
               \/ Pane!CheckInstalls(s) \/ Pane!CheckAsks(s) \/ Pane!CheckGivesUp(s)
        BY <2>2 DEF Pane!CheckIgnored, Pane!CheckUnsupported, Pane!CheckInstalls,
                    Pane!CheckAsks, Pane!CheckGivesUp
    <2>3. CASE Pane!InstallClicked(s) \/ Pane!SkipClicked(s)
        BY <2>3 DEF Pane!InstallClicked, Pane!SkipClicked
    <2>4. CASE Pane!InstallCompletes(s, FALSE)
        BY <2>4 DEF Pane!InstallCompletes
    <2>5. CASE ~Pane!ExpectsInstall(s) /\ Pane!InstallCompletes(s, TRUE)
        BY <2>5 DEF Pane!InstallCompletes
    <2>6. CASE Pane!ShellDies(s)
        BY <2>6 DEF Pane!ShellDies
    <2> QED BY <2>1, <2>2, <2>3, <2>4, <2>5, <2>6 DEF PaneAlone
<1>2. UNCHANGED <<sessions, told, tasks, generation>>
    BY DEF PaneAlone, vars
<1> QED BY <1>1, <1>2 DEF AnswerUnderWay, IsCurrentGeneration

LEMMA ShellLeftWaits ==
    ASSUME ManagerInv, AnswerUnderWay, NEW s \in Owner, ShellLeft(s)
    PROVE  AnswerUnderWay'
<1> USE ToldTypes
<1>1. state' = state
    BY DEF ShellLeft, Pane!ShellExits
<1>2. /\ Become(s, Absent) /\ tasks' = tasks
      /\ generation' = [generation EXCEPT ![s] = 0]
      /\ told' = Tell(LoseHosts(told, s, HeldHost(s)), s, "deregistered")
    BY DEF ShellLeft, DeregisterOwner
<1>3. SUFFICES ASSUME state.st = "AwaitingConnect", state.session \in Owner,
                      Underway(state.session)
               PROVE  Underway(state.session)'
    BY <1>1 DEF AnswerUnderWay, Underway
<1>4. CASE state.session = s
    BY <1>1, <1>2, <1>4 DEF Underway, Become, Absent, SessionState
<1>5. CASE state.session # s
    <2>1. /\ sessions'[state.session] = sessions[state.session]
          /\ generation'[state.session] = generation[state.session]
        BY <1>2, <1>5 DEF Become, ManagerInv, TypeOK
    <2>2. told'[state.session] = told[state.session]
        BY <1>2, <1>3, <1>5 DEF Tell, LoseHosts
    <2> QED BY <1>1, <1>2, <2>1, <2>2, <1>3 DEF Underway, IsCurrentGeneration
<1> QED BY <1>4, <1>5

LEMMA ManagerStepWaits ==
    ASSUME ManagerInv, AnswerUnderWay, ManagerStep
    PROVE  AnswerUnderWay'
<1>1. Heard /\ ((\E t \in tasks : TaskRuns(t)) \/ (\E x \in streams : StreamEnds(x)))
    BY DEF ManagerStep, TaskHeard
<1>2. ASSUME NEW u \in Owner, \/ Pane!SessionConnected(u)
                              \/ Pane!SessionConnectionFailed(u)
      PROVE  /\ state' = state \/ state'.st = "Idle"
             /\ state.st = "AwaitingConnect" /\ state.session = u => state'.st = "Idle"
    BY <1>2 DEF Pane!SessionConnected, Pane!SessionConnectionFailed,
        Pane!ConnectSettled, Pane!ExpectsConnect, Pane!TakesStash, Pane!Idle,
        Pane!SshInitState
<1>3. ASSUME NEW u \in Owner, Pane!SessionReconnected(u) PROVE state' = state
    BY <1>3 DEF Pane!SessionReconnected
<1>4. state' = state \/ state'.st = "Idle"
    BY <1>1, <1>2, <1>3 DEF Heard, paneVars
<1>5. SUFFICES ASSUME state'.st = "AwaitingConnect", state' = state
               PROVE  AnswerUnderWay'
    BY <1>4 DEF AnswerUnderWay
<1> DEFINE s == state.session
<1>6. s \in Owner /\ Underway(s)
    BY <1>5 DEF AnswerUnderWay, Underway
<1>7. ASSUME AnswerOf(s) PROVE FALSE
    <2>1. ASSUME NEW u \in Owner, Arrives(u) \/ FailureReported(u) PROVE u = s
        BY <1>7, <2>1 DEF AnswerOf, Arrives, FailureReported
    <2>2. ASSUME NEW u \in Owner, u = s,
                 Pane!SessionConnected(u) \/ Pane!SessionConnectionFailed(u)
          PROVE  FALSE
        BY <1>2, <1>5, <2>2
    <2> QED BY <1>1, <1>6, <1>7, <2>1, <2>2 DEF Heard, AnswerOf
<1>8. Underway(s)'
    <2>1. PICK v \in Owner : v = s
        BY <1>6
    <2>2. Underway(v)' \/ AnswerOf(v)
        BY <1>1, <1>6, <2>1, ClosuresKeepWaiting
    <2> QED BY <1>5, <1>7, <2>1, <2>2
<1> QED BY <1>5, <1>6, <1>8 DEF AnswerUnderWay, Underway

LEMMA SetupNextInv ==
    ASSUME SetupInv, [SetupNext]_setupVars
    PROVE  SetupInv'
<1>1. ManagerInv'
    <2>1. [Next]_vars
        BY SetupStepsManager DEF setupVars, vars
    <2> QED BY <2>1, NextInv DEF SetupInv
<1>2. CASE UNCHANGED setupVars
    BY <1>1, <1>2 DEF SetupInv, setupVars, vars, paneVars, AnswerUnderWay,
                      IsCurrentGeneration
<1>3. CASE SetupNext
    BY <1>1, <1>3, SetupActions, ConnectRequestedWaits, PaneAloneWaits, ShellLeftWaits,
        ManagerStepWaits DEF SetupInv
<1> QED BY <1>2, <1>3

\* A setup that waits for its connection never loses the task that owes it an
\* answer to a superseded connect, handshake or stream: only the removal of the
\* session leaves it without one (the generation checks of the closures that
\* connect_session posts, and mark_session_connected).
THEOREM AnswerIsOwed == SetupSpec => []AnswerOwed
<1>1. SetupInit => SetupInv
    BY InitInv DEF SetupInit, SetupInv, AnswerUnderWay, Pane!ControllerInit,
        Pane!Idle, Pane!SshInitState
<1>2. SetupInv => AnswerOwed
    BY DEF SetupInv, AnswerUnderWay, AnswerOwed
<1>3. SetupInv /\ [SetupNext]_setupVars => SetupInv'
    BY SetupNextInv
<1> QED BY <1>1, <1>2, <1>3, PTL DEF SetupSpec

-----------------------------------------------------------------------------
(* What is proved of the controller holds in the composition *)

Controller == INSTANCE SshInitController_proofs WITH
    Session   <- Owner,
    NoSession <- None,
    connects  <- {s \in Owner : told[s] = "connecting"}

\* Both instances are the controller, with the connects of the manager.
LEMMA SetupRunsController == SetupSpec => Controller!ControllerSpec
<1>1. Pane!ControllerInit => Controller!ControllerInit
    BY DEF Pane!ControllerInit, Controller!ControllerInit, Pane!Idle,
           Controller!Idle, Pane!SshInitState, Controller!SshInitState
<1>2. [Pane!ControllerNext]_(Pane!controllerVars)
        => [Controller!ControllerNext]_(Controller!controllerVars)
    BY DEF Pane!controllerVars, Controller!controllerVars, Pane!ControllerNext,
           Controller!ControllerNext, Pane!CheckCompletes,
           Controller!CheckCompletes, Pane!ShellStarts, Controller!ShellStarts,
           Pane!CheckIgnored, Controller!CheckIgnored, Pane!CheckUnsupported,
           Controller!CheckUnsupported, Pane!CheckInstalled,
           Controller!CheckInstalled, Pane!CheckInstalls, Controller!CheckInstalls,
           Pane!CheckAsks, Controller!CheckAsks, Pane!CheckGivesUp,
           Controller!CheckGivesUp, Pane!Click, Controller!Click,
           Pane!InstallClicked, Controller!InstallClicked, Pane!SkipClicked,
           Controller!SkipClicked, Pane!InstallCompletes,
           Controller!InstallCompletes, Pane!ConnectSettled,
           Controller!ConnectSettled, Pane!SessionConnected,
           Controller!SessionConnected, Pane!SessionConnectionFailed,
           Controller!SessionConnectionFailed, Pane!SessionReconnected,
           Controller!SessionReconnected, Pane!ShellExits, Controller!ShellExits,
           Pane!ShellDies, Controller!ShellDies, Pane!FlushStashedBootstrap,
           Controller!FlushStashedBootstrap, Pane!Bootstrapped,
           Controller!Bootstrapped, Pane!Unbootstrapped, Controller!Unbootstrapped,
           Pane!WritesNothing, Controller!WritesNothing, Pane!ExpectsCheck,
           Controller!ExpectsCheck, Pane!ExpectsInstall, Controller!ExpectsInstall,
           Pane!ExpectsConnect, Controller!ExpectsConnect, Pane!TakesStash,
           Controller!TakesStash, Pane!Idle, Controller!Idle, Pane!SshInitState,
           Controller!SshInitState, Pane!AwaitingCheck, Controller!AwaitingCheck,
           Pane!AwaitingUserChoice, Controller!AwaitingUserChoice,
           Pane!AwaitingInstall, Controller!AwaitingInstall, Pane!AwaitingConnect,
           Controller!AwaitingConnect
<1> QED BY <1>1, <1>2, ManagerKeepsToController, PTL
        DEF SetupImplements, Pane!ControllerSpec, Controller!ControllerSpec

\* With the answers of the manager, the controller's state is well formed and a
\* bootstrap written once.
THEOREM SetupWritesOnce == SetupSpec => []ControllerTypeOK
<1>1. Controller!ControllerSpec => []Controller!ControllerTypeOK
    BY Controller!ControllerTypeCorrect, ManagerAssumption DEF Controller!ControllerAssumption
<1>2. Controller!ControllerTypeOK => ControllerTypeOK
    BY DEF Controller!ControllerTypeOK, ControllerTypeOK, Pane!ControllerTypeOK
<1> QED BY <1>1, <1>2, SetupRunsController, PTL

\* A waiting shell loses its stash to a click through a dead shell's block only,
\* however the manager answers.
THEOREM SetupHoldsShells == SetupSpec => WaitingShellHeld
<1>1. Controller!ControllerSpec => Controller!WaitingShellHeld
    BY Controller!WaitingShellsAreHeld, ManagerAssumption DEF Controller!ControllerAssumption
<1> QED BY <1>1, SetupRunsController, PTL
        DEF WaitingShellHeld, Pane!WaitingShellHeld, Controller!WaitingShellHeld,
            Pane!controllerVars, Controller!controllerVars

\* A shell is bootstrapped after its own setup, unless it starts over the stash of
\* a dead ssh: no late event of the manager ends the setup of another session.
THEOREM SetupBootstrapsInOrder == SetupSpec => BootstrapAfterSetup
<1>1. Controller!ControllerSpec => Controller!BootstrapAfterSetup
    BY Controller!BootstrapsFollowSetup, ManagerAssumption DEF Controller!ControllerAssumption
<1> QED BY <1>1, SetupRunsController, PTL
        DEF BootstrapAfterSetup, Pane!BootstrapAfterSetup, Controller!BootstrapAfterSetup,
            Pane!controllerVars, Controller!controllerVars,
            Pane!Idle, Controller!Idle, Pane!SshInitState, Controller!SshInitState
=============================================================================
