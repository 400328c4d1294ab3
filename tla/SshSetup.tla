------------------------------ MODULE SshSetup ------------------------------
(***************************************************************************)
(* The bootstrap controller of a pane together with the connection manager *)
(* it calls and listens to.  Every ssh session of the pane owns its        *)
(* transport.  A connect the controller asks for is connect_session of the *)
(* manager, in the same step; SessionConnected and SessionConnectionFailed *)
(* reach the controller in the step that emits them, since the main thread *)
(* delivers events before it runs the next closure; leaving a shell        *)
(* deregisters its session.                                                *)
(***************************************************************************)
EXTENDS RemoteServerManager

VARIABLES state, blocks, checks, installs, shell, foreground, written

paneVars  == <<state, blocks, checks, installs, shell, foreground, written>>
setupVars == <<vars, paneVars>>

\* For the controller a connect is in flight until its answer is emitted.
Pane == INSTANCE SshInitController WITH
    Session   <- Owner,
    NoSession <- None,
    connects  <- {s \in Owner : told[s] = "connecting"}

SetupInit == Init /\ Pane!ControllerInit

-----------------------------------------------------------------------------
\* The answer to a check; connect_session_for_current_identity when the helper
\* is there.
CheckAnswered(s) ==
    \/ ConnectSession(s) /\ Pane!CheckInstalled(s)
    \/ /\ UNCHANGED vars
       /\ \/ Pane!CheckIgnored(s)
          \/ Pane!CheckUnsupported(s)
          \/ Pane!CheckInstalls(s)
          \/ Pane!CheckAsks(s)
          \/ Pane!CheckGivesUp(s)

\* The answer to an install; the same call when it succeeded and was awaited.
InstallAnswered(s) ==
    \/ /\ ConnectSession(s)
       /\ Pane!ExpectsInstall(s) /\ Pane!InstallCompletes(s, TRUE)
    \/ UNCHANGED vars /\ Pane!InstallCompletes(s, FALSE)
    \/ /\ UNCHANGED vars
       /\ ~Pane!ExpectsInstall(s) /\ Pane!InstallCompletes(s, TRUE)

\* What happens in the pane without the manager.
PaneStep(s) ==
    /\ UNCHANGED vars
    /\ \/ Pane!ShellStarts(s)
       \/ Pane!InstallClicked(s)
       \/ Pane!SkipClicked(s)
       \/ Pane!ShellDies(s)

\* ExitShell: deregister_terminal_session_if_unowned.
ShellLeft(s) == DeregisterOwner(s) /\ Pane!ShellExits(s)

Arrives(s) == sessions[s].st # "Connected" /\ sessions'[s].st = "Connected"

\* Mutant: a failure is passed on only while no process answers yet.
FailureWhileConnecting(s) ==
    sessions[s].st = "Connecting" /\ told[s] # "failed" /\ told'[s] = "failed"

FailureReported(s) == told[s] # "failed" /\ told'[s] = "failed"

\* Two of the events of a closure reach the controller.
Heard ==
    \/ \E s \in Owner :
          \/ Arrives(s) /\ told[s] = "connecting" /\ Pane!SessionConnected(s)
          \/ Arrives(s) /\ told[s] # "connecting" /\ Pane!SessionReconnected(s)
          \/ FailureReported(s) /\ Pane!SessionConnectionFailed(s)
    \/ /\ \A s \in Owner :
             /\ ~FailureReported(s)
             /\ Arrives(s) => told[s] # "connecting" /\ blocks = {}
       /\ UNCHANGED paneVars

TaskHeard(t) == TaskRuns(t) /\ Heard

ManagerStep ==
    \/ \E t \in tasks : TaskHeard(t)
    \/ \E x \in streams : StreamEnds(x) /\ Heard

SetupNext ==
    \/ \E s \in Owner :
          CheckAnswered(s) \/ InstallAnswered(s) \/ PaneStep(s) \/ ShellLeft(s)
    \/ ManagerStep

SetupSpec == SetupInit /\ [][SetupNext]_setupVars

\* Scripts on the remote host end by themselves or with their ssh, so a check
\* and an install are answered.  Nothing is assumed of users, of ssh or of the
\* manager.
FairSetupSpec ==
    /\ SetupSpec
    /\ \A s \in Owner : WF_setupVars(CheckAnswered(s)) /\ WF_setupVars(InstallAnswered(s))

-----------------------------------------------------------------------------
(* Properties *)

\* What SshInitController says of the controller holds with the manager's answers:
\* its state is well formed and a bootstrap written once ...
ControllerTypeOK == Pane!ControllerTypeOK

\* ... a waiting shell keeps its stash but for a click through a dead shell's
\* block ...
WaitingShellHeld == Pane!WaitingShellHeld

\* ... a shell is bootstrapped after its own setup unless it starts over the
\* stash of a dead ssh ...
BootstrapAfterSetup == Pane!BootstrapAfterSetup

\* ... and no setup stops at a check or an install.
ChecksSettle == Pane!ChecksSettle

\* The manager keeps to what the controller is modelled against: a connect is
\* answered once or ended by leaving the shell.
SetupImplements == Pane!ControllerSpec

\* A setup that waits for its connection has a task working on it, unless the
\* manager dropped the session silently: that is the only way an answer is lost.
AnswerOwed ==
    state.st = "AwaitingConnect" =>
        \/ sessions[state.session].st = "Absent"
        \/ \E t \in tasks : /\ t.session = state.session /\ t.attempt = 0
                            /\ IsCurrentGeneration(t.session, t.generation)

-----------------------------------------------------------------------------
(* The inductive invariant behind AnswerOwed *)

\* While the controller waits for s, s was told that it connects and nothing
\* since, and the task that owes the answer is of the current generation.
AnswerUnderWay ==
    state.st = "AwaitingConnect" =>
        /\ state.session \in Owner
        /\ \/ sessions[state.session].st = "Absent"
           \/ /\ told[state.session] = "connecting"
              /\ \E t \in tasks :
                    /\ t.session = state.session /\ t.attempt = 0
                    /\ IsCurrentGeneration(t.session, t.generation)

SetupInv == ManagerInv /\ AnswerUnderWay
=============================================================================
