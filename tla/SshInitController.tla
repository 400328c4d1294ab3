-------------------------- MODULE SshInitController --------------------------
(***************************************************************************)
(* The per-pane controller that holds back the bootstrap script of an ssh  *)
(* shell until the remote helper is checked, installed and connected       *)
(* (app/src/terminal/writeable_pty/environment_runtime_controller.rs).     *)
(* A remote shell announces itself and waits; the controller stashes its   *)
(* SessionInfo and writes the bootstrap to the PTY once, whatever becomes  *)
(* of the setup.  The stash outlives a shell whose ssh connection dies:    *)
(* a shell without bootstrap has no exit hook to report with.              *)
(***************************************************************************)
EXTENDS Naturals

CONSTANTS
    Session,        \* ssh sessions of the pane, each one remote shell
    NoSession       \* the local shell; no stash

ControllerAssumption == NoSession \notin Session

VARIABLES
    state,          \* SshInitState
    blocks,         \* sessions whose choice block is shown in the pane
    checks,         \* check_binary in flight
    installs,       \* install_binary in flight
    connects,       \* connect_session in flight, its answer not yet emitted
    shell,          \* what became of each remote shell
    foreground,     \* the shell that reads the PTY
    written         \* times the bootstrap of a session was written

controllerVars == <<state, blocks, checks, installs, connects, shell,
                    foreground, written>>

\* info is session_info.session_id, session the id the variant carries.
SshInitState(st, info, session) == [st |-> st, info |-> info, session |-> session]

Idle                  == SshInitState("Idle", NoSession, NoSession)
AwaitingCheck(i)      == SshInitState("AwaitingCheck", i, NoSession)
AwaitingUserChoice(i) == SshInitState("AwaitingUserChoice", i, NoSession)
AwaitingInstall(s, i) == SshInitState("AwaitingInstall", i, s)
AwaitingConnect(s, i) == SshInitState("AwaitingConnect", i, s)

-----------------------------------------------------------------------------
\* Mutant: the bootstrap is written, the stash is kept.
KeepsStash == state

\* std::mem::replace(&mut self.state, Idle) before the stash is written.
TakesStash == Idle

Unbootstrapped == {"waiting", "refused"}

\* The script in the PTY of a remote shell that has none yet runs there.
Bootstrapped(shells, reader) ==
    [s \in Session |-> IF s = reader /\ shells[s] \in Unbootstrapped
                         THEN "running" ELSE shells[s]]

\* flush_stashed_bootstrap: the script made for the shell type of i goes to
\* whoever reads the PTY.  Another shell runs it too, if it is of that type.
FlushStashedBootstrap(i, reader, shells) ==
    /\ written' = [written EXCEPT ![i] = @ + 1]
    /\ \/ shell' = Bootstrapped(shells, reader)
       \/ reader # i /\ shell' = shells

WritesNothing == UNCHANGED <<written, shell>>

\* Mutants of the comparisons that keep a late answer from the present stash.
ChecksAny(s)   == state.st = "AwaitingCheck"
ConnectsAny(s) == state.st = "AwaitingConnect"

ExpectsCheck(s)   == state.st = "AwaitingCheck" /\ state.info = s
ExpectsInstall(s) == state.st = "AwaitingInstall" /\ state.session = s
ExpectsConnect(s) == state.st = "AwaitingConnect" /\ state.session = s

-----------------------------------------------------------------------------
ControllerInit ==
    /\ state = Idle
    /\ blocks = {} /\ checks = {} /\ installs = {} /\ connects = {}
    /\ shell = [s \in Session |-> "new"]
    /\ foreground = NoSession
    /\ written = [s \in Session |-> 0]

\* on_ssh_init_shell_requested.  The ssh wrapper exists in local shells only.
\* A stash left from before goes to the PTY first, that is to the new shell,
\* which may be running before its own check; the setup begins all the same.
ShellStarts(s) ==
    /\ shell[s] = "new" /\ foreground = NoSession
    /\ foreground' = s
    /\ LET waiting == [shell EXCEPT ![s] = "waiting"]
       IN  IF state = Idle
             THEN shell' = waiting /\ UNCHANGED written
             ELSE FlushStashedBootstrap(state.info, s, waiting)
    /\ state' = AwaitingCheck(s)
    /\ checks' = checks \cup {s}
    /\ UNCHANGED <<blocks, installs, connects>>

\* on_binary_check_complete, for an answer the controller does not wait for.
CheckIgnored(s) ==
    /\ s \in checks /\ ~ExpectsCheck(s)
    /\ checks' = checks \ {s}
    /\ WritesNothing
    /\ UNCHANGED <<state, blocks, installs, connects, foreground>>

\* ... the preinstall check classified the host as unsupported: the stash is
\* dropped and the shell stays without bootstrap.
CheckUnsupported(s) ==
    /\ s \in checks /\ ExpectsCheck(s)
    /\ checks' = checks \ {s}
    /\ state' = Idle
    /\ shell' = IF shell[s] = "waiting" THEN [shell EXCEPT ![s] = "refused"] ELSE shell
    /\ UNCHANGED <<blocks, installs, connects, foreground, written>>

\* ... the helper is there.
CheckInstalled(s) ==
    /\ s \in checks /\ ExpectsCheck(s)
    /\ checks' = checks \ {s}
    /\ state' = AwaitingConnect(s, s)
    /\ connects' = connects \cup {s}
    /\ WritesNothing
    /\ UNCHANGED <<blocks, installs, foreground>>

\* ... it is out of date, or missing and to be installed without asking.
CheckInstalls(s) ==
    /\ s \in checks /\ ExpectsCheck(s)
    /\ checks' = checks \ {s}
    /\ state' = AwaitingInstall(s, s)
    /\ installs' = installs \cup {s}
    /\ WritesNothing
    /\ UNCHANGED <<blocks, connects, foreground>>

\* ... it is missing and the user is asked; the pane shows the choice block.
CheckAsks(s) ==
    /\ s \in checks /\ ExpectsCheck(s)
    /\ checks' = checks \ {s}
    /\ state' = AwaitingUserChoice(s)
    /\ blocks' = blocks \cup {s}
    /\ WritesNothing
    /\ UNCHANGED <<installs, connects, foreground>>

\* ... the check failed, or the helper is never to be installed.
CheckGivesUp(s) ==
    /\ s \in checks /\ ExpectsCheck(s)
    /\ checks' = checks \ {s}
    /\ state' = TakesStash
    /\ FlushStashedBootstrap(state.info, foreground, shell)
    /\ UNCHANGED <<blocks, installs, connects, foreground>>

\* A click removes its block and names its session, be its shell dead or not.
Click(b) == b \in blocks /\ blocks' = blocks \ {b}

\* handle_environment_runtime_install: the state is tested, the session is not.
InstallClicked(b) ==
    /\ Click(b)
    /\ IF state.st = "AwaitingUserChoice"
         THEN /\ state' = AwaitingInstall(b, state.info)
              /\ installs' = installs \cup {b}
         ELSE UNCHANGED <<state, installs>>
    /\ WritesNothing
    /\ UNCHANGED <<checks, connects, foreground>>

\* handle_environment_runtime_skip: the state is taken before it is tested.
SkipClicked(b) ==
    /\ Click(b)
    /\ IF state.st = "AwaitingUserChoice"
         THEN state' = TakesStash /\ FlushStashedBootstrap(state.info, foreground, shell)
         ELSE state' = Idle /\ WritesNothing
    /\ UNCHANGED <<checks, installs, connects, foreground>>

\* on_binary_install_complete.
InstallCompletes(s, ok) ==
    /\ s \in installs
    /\ installs' = installs \ {s}
    /\ \/ /\ ~ExpectsInstall(s)
          /\ WritesNothing /\ UNCHANGED <<state, connects>>
       \/ /\ ExpectsInstall(s) /\ ok
          /\ state' = AwaitingConnect(s, state.info)
          /\ connects' = connects \cup {s}
          /\ WritesNothing
       \/ /\ ExpectsInstall(s) /\ ~ok
          /\ state' = TakesStash
          /\ FlushStashedBootstrap(state.info, foreground, shell)
          /\ UNCHANGED connects
    /\ UNCHANGED <<blocks, checks, foreground>>

\* The connection of s is settled for the controller.
ConnectSettled(s) ==
    /\ s \in connects
    /\ connects' = connects \ {s}
    /\ IF ExpectsConnect(s)
         THEN state' = TakesStash /\ FlushStashedBootstrap(state.info, foreground, shell)
         ELSE UNCHANGED state /\ WritesNothing
    /\ UNCHANGED <<checks, installs, foreground>>

\* on_session_connected; the pane removes every choice block.
SessionConnected(s) == ConnectSettled(s) /\ blocks' = {}

\* on_session_connection_failed.
SessionConnectionFailed(s) == ConnectSettled(s) /\ UNCHANGED blocks

\* A session reconnects: the pane cannot tell it from a first connect.
SessionReconnected(s) ==
    /\ shell[s] \in {"running", "gone"} /\ s \notin connects
    /\ ~ExpectsConnect(s)
    /\ blocks # {} /\ blocks' = {}
    /\ WritesNothing
    /\ UNCHANGED <<state, checks, installs, connects, foreground>>

\* The user leaves a bootstrapped shell: its exit hook deregisters the session,
\* which ends a connect without an answer and removes its block.
ShellExits(s) ==
    /\ foreground = s /\ shell[s] = "running"
    /\ foreground' = NoSession
    /\ shell' = [shell EXCEPT ![s] = "gone"]
    /\ blocks' = blocks \ {s}
    /\ connects' = connects \ {s}
    /\ UNCHANGED <<state, checks, installs, written>>

\* The ssh connection dies under its shell, or a shell without bootstrap (and
\* so without exit hook) is left: nobody is told.
ShellDies(s) ==
    /\ s \in Session /\ foreground = s
    /\ foreground' = NoSession
    /\ shell' = [shell EXCEPT ![s] = "gone"]
    /\ UNCHANGED <<state, blocks, checks, installs, connects, written>>

-----------------------------------------------------------------------------
CheckCompletes(s) ==
    \/ CheckIgnored(s)
    \/ CheckUnsupported(s)
    \/ CheckInstalled(s)
    \/ CheckInstalls(s)
    \/ CheckAsks(s)
    \/ CheckGivesUp(s)

ControllerNext ==
    \E s \in Session :
        \/ ShellStarts(s)
        \/ CheckCompletes(s)
        \/ InstallClicked(s)
        \/ SkipClicked(s)
        \/ \E ok \in BOOLEAN : InstallCompletes(s, ok)
        \/ SessionConnected(s)
        \/ SessionConnectionFailed(s)
        \/ SessionReconnected(s)
        \/ ShellExits(s)
        \/ ShellDies(s)

ControllerSpec == ControllerInit /\ [][ControllerNext]_controllerVars

-----------------------------------------------------------------------------
(* Properties *)

\* Type invariant.  A bootstrap is written at most once per session.
ControllerTypeOK ==
    /\ state \in [st : {"Idle", "AwaitingCheck", "AwaitingUserChoice",
                        "AwaitingInstall", "AwaitingConnect"},
                  info : Session \cup {NoSession},
                  session : Session \cup {NoSession}]
    /\ blocks \subseteq Session /\ checks \subseteq Session
    /\ installs \subseteq Session /\ connects \subseteq Session
    /\ shell \in [Session -> {"new", "waiting", "refused", "running", "gone"}]
    /\ foreground \in Session \cup {NoSession}
    /\ written \in [Session -> 0 .. 1]

\* A remote shell that waits for its bootstrap keeps its stash through every
\* answer, click and new ssh, with one exception, which the code does not handle:
\* Skip takes the state before it is tested.  A shell loses its stash to a click
\* on the choice block of a dead shell, or on its own block after its choice was
\* made through a dead shell's.  (terminal/view.rs removes stale blocks "before
\* the user picks an option" when a session disappears, but a dead ssh is not
\* reported.)
WaitingShellHeld ==
    [][\A s \in Session :
          shell'[s] = "waiting" /\ state'.info # s =>
              \/ shell[s] = "waiting" /\ state.info # s
              \/ /\ state.st # "AwaitingUserChoice"
                 /\ \E b \in blocks : /\ blocks' = blocks \ {b}
                                      /\ \/ shell[b] = "gone"
                                         \/ /\ b = s /\ state.info = s
                                            /\ shell[state.session] = "gone"
      ]_controllerVars

\* A shell is bootstrapped only after its own check, install and connect: a late
\* answer for an earlier ssh of the pane never ends the present setup.  One case
\* is excepted, in which the code writes early: the shell starts while the stash
\* of a dead ssh is held (debug_assert!(matches!(self.state, SshInitState::Idle))
\* in on_ssh_init_shell_requested).
BootstrapAfterSetup ==
    [][\A s \in Session :
          shell[s] # "running" /\ shell'[s] = "running" =>
              \/ s \notin checks' \cup installs' \cup connects'
              \/ shell[s] = "new" /\ state # Idle]_controllerVars

\* The setup of a shell does not stop at a check or an install.
ChecksSettle ==
    state.st \in {"AwaitingCheck", "AwaitingInstall"} ~>
    state.st \in {"Idle", "AwaitingUserChoice", "AwaitingConnect"}

-----------------------------------------------------------------------------
(* The inductive invariant behind the safety properties *)

Alive(s) == shell[s] \in {"waiting", "refused", "running"}

\* The living remote shell, if any, is the one that reads the PTY.
OneForeground == \A s \in Session : Alive(s) <=> foreground = s

\* Nothing is known of a session before its shell starts.
NewIsUnknown ==
    \A s \in Session : shell[s] = "new" =>
        s \notin blocks \cup checks \cup installs \cup connects

\* A stash has not been written; its shell waits, is dead, or runs on the script
\* of an earlier one.
StashUnwritten ==
    /\ state.st = "Idle" <=> state = Idle
    /\ state # Idle => /\ state.info \in Session
                       /\ written[state.info] = 0
                       /\ shell[state.info] \in {"waiting", "running", "gone"}
    /\ \A s \in Session : shell[s] = "new" => written[s] = 0

\* While a shell lives, no other shell's bootstrap is held.
HeldIsForeground == foreground # NoSession => state.info \in {foreground, NoSession}

\* A check, install or connect in flight for the shell whose stash is held is
\* the one the controller waits for.
InFlightIsExpected ==
    \A s \in Session : state.info = s =>
        /\ s \in checks => ExpectsCheck(s)
        /\ s \in installs /\ Alive(s) => ExpectsInstall(s)
        /\ s \in connects /\ Alive(s) => ExpectsConnect(s)

\* The block of a living shell with a stash belongs to its present choice, unless
\* that choice was made through the block of a dead shell.
BlockIsExpected ==
    \A s \in blocks : Alive(s) /\ state.info = s =>
        \/ state.st = "AwaitingUserChoice"
        \/ /\ state.st \in {"AwaitingInstall", "AwaitingConnect"}
           /\ state.session \in Session /\ shell[state.session] = "gone"

ControllerInv ==
    /\ ControllerTypeOK
    /\ OneForeground
    /\ NewIsUnknown
    /\ StashUnwritten
    /\ HeldIsForeground
    /\ InFlightIsExpected
    /\ BlockIsExpected
=============================================================================
