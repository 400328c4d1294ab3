----------------------- MODULE SshInitController_proofs -----------------------
(***************************************************************************)
(* Proofs about SshInitController, for any set of sessions: type           *)
(* correctness with the one write of every bootstrap, the one case in      *)
(* which a shell is bootstrapped before its own setup, and the one kind of *)
(* click by which a waiting shell loses its stash.  One lemma per action   *)
(* of ControllerNext, one step per conjunct of ControllerInv.              *)
(***************************************************************************)
EXTENDS SshInitController, TLAPS

USE DEF ControllerAssumption, SshInitState, Idle, AwaitingCheck,
    AwaitingUserChoice, AwaitingInstall, AwaitingConnect

\* The controller starts Idle, with the local shell reading the PTY.
LEMMA ControllerInitInv ==
    ASSUME ControllerAssumption
    PROVE  ControllerInit => ControllerInv
BY DEF ControllerInit, ControllerInv, ControllerTypeOK, OneForeground,
    NewIsUnknown, StashUnwritten, HeldIsForeground, InFlightIsExpected,
    BlockIsExpected, Alive

\* A new ssh takes the controller over; a stash left from before belonged to a
\* dead shell, since the PTY was read by the local one.
LEMMA ShellStartsInv ==
    ASSUME ControllerAssumption, ControllerInv, NEW s \in Session, ShellStarts(s)
    PROVE  ControllerInv'
<1> USE DEF ControllerInv, ShellStarts, FlushStashedBootstrap, Bootstrapped,
      Unbootstrapped
<1>1. ControllerTypeOK'
    BY DEF ControllerTypeOK, StashUnwritten
<1>2. OneForeground'
    BY DEF ControllerTypeOK, OneForeground, Alive
<1>3. NewIsUnknown'
    BY DEF ControllerTypeOK, NewIsUnknown
<1>4. StashUnwritten'
    BY DEF ControllerTypeOK, StashUnwritten
<1>5. HeldIsForeground'
    BY DEF HeldIsForeground
<1>6. InFlightIsExpected'
    BY DEF ControllerTypeOK, OneForeground, NewIsUnknown, InFlightIsExpected, Alive, ExpectsCheck,
        ExpectsInstall, ExpectsConnect
<1>7. BlockIsExpected'
    BY DEF ControllerTypeOK, OneForeground, NewIsUnknown, BlockIsExpected, Alive
<1> QED BY <1>1, <1>2, <1>3, <1>4, <1>5, <1>6, <1>7

\* A late answer of a check changes nothing the invariant relates.
LEMMA CheckIgnoredInv ==
    ASSUME ControllerAssumption, ControllerInv, NEW s \in Session, CheckIgnored(s)
    PROVE  ControllerInv'
<1> USE DEF ControllerInv, CheckIgnored, WritesNothing, ExpectsCheck
<1>1. ControllerTypeOK'
    BY DEF ControllerTypeOK
<1>2. OneForeground'
    BY DEF OneForeground, Alive
<1>3. NewIsUnknown'
    BY DEF NewIsUnknown
<1>4. StashUnwritten'
    BY DEF StashUnwritten
<1>5. HeldIsForeground'
    BY DEF HeldIsForeground
<1>6. InFlightIsExpected'
    BY DEF InFlightIsExpected, Alive, ExpectsInstall, ExpectsConnect
<1>7. BlockIsExpected'
    BY DEF BlockIsExpected, Alive
<1> QED BY <1>1, <1>2, <1>3, <1>4, <1>5, <1>6, <1>7

\* The stash of an unsupported host is dropped together with its shell's wait.
LEMMA CheckUnsupportedInv ==
    ASSUME ControllerAssumption, ControllerInv, NEW s \in Session, CheckUnsupported(s)
    PROVE  ControllerInv'
<1> USE DEF ControllerInv, CheckUnsupported, ExpectsCheck
<1>1. ControllerTypeOK'
    BY DEF ControllerTypeOK
<1>2. OneForeground'
    BY DEF OneForeground, Alive
<1>3. NewIsUnknown'
    BY DEF NewIsUnknown
<1>4. StashUnwritten'
    BY DEF StashUnwritten
<1>5. HeldIsForeground'
    BY DEF HeldIsForeground
<1>6. InFlightIsExpected'
    BY DEF InFlightIsExpected, Alive, ExpectsInstall, ExpectsConnect
<1>7. BlockIsExpected'
    BY DEF ControllerTypeOK, BlockIsExpected, Alive
<1> QED BY <1>1, <1>2, <1>3, <1>4, <1>5, <1>6, <1>7

\* The check hands its stash to the connect of the same session.
LEMMA CheckInstalledInv ==
    ASSUME ControllerAssumption, ControllerInv, NEW s \in Session, CheckInstalled(s)
    PROVE  ControllerInv'
<1> USE DEF ControllerInv, CheckInstalled, WritesNothing, ExpectsCheck
<1>1. ControllerTypeOK'
    BY DEF ControllerTypeOK
<1>2. OneForeground'
    BY DEF OneForeground, Alive
<1>3. NewIsUnknown'
    BY DEF NewIsUnknown
<1>4. StashUnwritten'
    BY DEF StashUnwritten
<1>5. HeldIsForeground'
    BY DEF HeldIsForeground
<1>6. InFlightIsExpected'
    BY DEF InFlightIsExpected, Alive, ExpectsInstall, ExpectsConnect
<1>7. BlockIsExpected'
    BY DEF BlockIsExpected, Alive
<1> QED BY <1>1, <1>2, <1>3, <1>4, <1>5, <1>6, <1>7

\* The check hands its stash to the install of the same session.
LEMMA CheckInstallsInv ==
    ASSUME ControllerAssumption, ControllerInv, NEW s \in Session, CheckInstalls(s)
    PROVE  ControllerInv'
<1> USE DEF ControllerInv, CheckInstalls, WritesNothing, ExpectsCheck
<1>1. ControllerTypeOK'
    BY DEF ControllerTypeOK
<1>2. OneForeground'
    BY DEF OneForeground, Alive
<1>3. NewIsUnknown'
    BY DEF NewIsUnknown
<1>4. StashUnwritten'
    BY DEF StashUnwritten
<1>5. HeldIsForeground'
    BY DEF HeldIsForeground
<1>6. InFlightIsExpected'
    BY DEF InFlightIsExpected, Alive, ExpectsInstall, ExpectsConnect
<1>7. BlockIsExpected'
    BY DEF BlockIsExpected, Alive
<1> QED BY <1>1, <1>2, <1>3, <1>4, <1>5, <1>6, <1>7

\* The choice block of a living shell is shown with the state that answers it.
LEMMA CheckAsksInv ==
    ASSUME ControllerAssumption, ControllerInv, NEW s \in Session, CheckAsks(s)
    PROVE  ControllerInv'
<1> USE DEF ControllerInv, CheckAsks, WritesNothing, ExpectsCheck
<1>1. ControllerTypeOK'
    BY DEF ControllerTypeOK
<1>2. OneForeground'
    BY DEF OneForeground, Alive
<1>3. NewIsUnknown'
    BY DEF NewIsUnknown
<1>4. StashUnwritten'
    BY DEF StashUnwritten
<1>5. HeldIsForeground'
    BY DEF HeldIsForeground
<1>6. InFlightIsExpected'
    BY DEF InFlightIsExpected, Alive, ExpectsInstall, ExpectsConnect
<1>7. BlockIsExpected'
    BY DEF BlockIsExpected
<1> QED BY <1>1, <1>2, <1>3, <1>4, <1>5, <1>6, <1>7

\* A check that gives up writes the stash it waited with, and keeps none.
LEMMA CheckGivesUpInv ==
    ASSUME ControllerAssumption, ControllerInv, NEW s \in Session, CheckGivesUp(s)
    PROVE  ControllerInv'
<1> USE DEF ControllerInv, CheckGivesUp, FlushStashedBootstrap, Bootstrapped,
      Unbootstrapped, TakesStash, ExpectsCheck
<1>1. ControllerTypeOK'
    BY DEF ControllerTypeOK, StashUnwritten
<1>2. OneForeground'
    BY DEF OneForeground, Alive
<1>3. NewIsUnknown'
    BY DEF NewIsUnknown
<1>4. StashUnwritten'
    BY DEF StashUnwritten
<1>5. HeldIsForeground'
    BY DEF HeldIsForeground
<1>6. InFlightIsExpected'
    BY DEF OneForeground, InFlightIsExpected, Alive, ExpectsInstall,
        ExpectsConnect
<1>7. BlockIsExpected'
    BY DEF ControllerTypeOK, OneForeground, BlockIsExpected,
        Alive
<1> QED BY <1>1, <1>2, <1>3, <1>4, <1>5, <1>6, <1>7

\* An install is begun from the choice state only, in which a living shell is
\* the one whose stash is held.
LEMMA InstallClickedInv ==
    ASSUME ControllerAssumption, ControllerInv, NEW s \in Session, InstallClicked(s)
    PROVE  ControllerInv'
<1> USE DEF ControllerInv, InstallClicked, Click, WritesNothing
<1>1. ControllerTypeOK'
    BY DEF ControllerTypeOK
<1>2. OneForeground'
    BY DEF OneForeground, Alive
<1>3. NewIsUnknown'
    BY DEF NewIsUnknown
<1>4. StashUnwritten'
    BY DEF ControllerTypeOK, StashUnwritten
<1>5. HeldIsForeground'
    BY DEF HeldIsForeground
<1>6. InFlightIsExpected'
    BY DEF OneForeground, StashUnwritten, HeldIsForeground,
        InFlightIsExpected, Alive, ExpectsCheck, ExpectsInstall,
        ExpectsConnect
<1>7. BlockIsExpected'
    BY DEF ControllerTypeOK, OneForeground, NewIsUnknown, BlockIsExpected, Alive
<1> QED BY <1>1, <1>2, <1>3, <1>4, <1>5, <1>6, <1>7

\* Skip drops a stash without writing it only when the block clicked is stale.
LEMMA SkipClickedInv ==
    ASSUME ControllerAssumption, ControllerInv, NEW s \in Session, SkipClicked(s)
    PROVE  ControllerInv'
<1> USE DEF ControllerInv, SkipClicked, Click, WritesNothing,
      FlushStashedBootstrap, Bootstrapped, Unbootstrapped, TakesStash
<1>1. ControllerTypeOK'
    BY DEF ControllerTypeOK, StashUnwritten
<1>2. OneForeground'
    BY DEF ControllerTypeOK, OneForeground, Alive
<1>3. NewIsUnknown'
    BY DEF ControllerTypeOK, NewIsUnknown
<1>4. StashUnwritten'
    BY DEF ControllerTypeOK, StashUnwritten
<1>5. HeldIsForeground'
    BY DEF HeldIsForeground
<1>6. InFlightIsExpected'
    BY DEF ControllerTypeOK, OneForeground, InFlightIsExpected, Alive,
        ExpectsCheck, ExpectsInstall, ExpectsConnect
<1>7. BlockIsExpected'
    BY DEF ControllerTypeOK, OneForeground, NewIsUnknown, BlockIsExpected, Alive
<1> QED BY <1>1, <1>2, <1>3, <1>4, <1>5, <1>6, <1>7

\* An install hands its stash to the connect, or writes it.
LEMMA InstallCompletesInv ==
    ASSUME ControllerAssumption, ControllerInv, NEW s \in Session, NEW ok \in BOOLEAN,
           InstallCompletes(s, ok)
    PROVE  ControllerInv'
<1> USE DEF ControllerInv, InstallCompletes, WritesNothing,
      FlushStashedBootstrap, Bootstrapped, Unbootstrapped, TakesStash
<1>1. ControllerTypeOK'
    BY DEF ControllerTypeOK, StashUnwritten
<1>2. OneForeground'
    BY DEF ControllerTypeOK, OneForeground, Alive
<1>3. NewIsUnknown'
    BY DEF ControllerTypeOK, NewIsUnknown
<1>4. StashUnwritten'
    BY DEF ControllerTypeOK, StashUnwritten, ExpectsInstall
<1>5. HeldIsForeground'
    BY DEF ControllerTypeOK, HeldIsForeground
<1>6. InFlightIsExpected'
    BY DEF ControllerTypeOK, OneForeground, InFlightIsExpected, Alive,
        ExpectsCheck, ExpectsInstall, ExpectsConnect
<1>7. BlockIsExpected'
    BY DEF ControllerTypeOK, OneForeground, BlockIsExpected,
        Alive, ExpectsInstall
<1> QED BY <1>1, <1>2, <1>3, <1>4, <1>5, <1>6, <1>7

\* Both answers to a connect write the stash that waited for it.
LEMMA ConnectSettledInv ==
    ASSUME ControllerAssumption, ControllerInv, NEW s \in Session, blocks' \subseteq blocks,
           ConnectSettled(s)
    PROVE  ControllerInv'
<1> USE DEF ControllerInv, ConnectSettled, WritesNothing,
      FlushStashedBootstrap, Bootstrapped, Unbootstrapped, TakesStash
<1>1. ControllerTypeOK'
    BY DEF ControllerTypeOK, StashUnwritten
<1>2. OneForeground'
    BY DEF ControllerTypeOK, OneForeground, Alive
<1>3. NewIsUnknown'
    BY DEF ControllerTypeOK, NewIsUnknown
<1>4. StashUnwritten'
    BY DEF ControllerTypeOK, StashUnwritten
<1>5. HeldIsForeground'
    BY DEF HeldIsForeground
<1>6. InFlightIsExpected'
    BY DEF ControllerTypeOK, OneForeground, InFlightIsExpected, Alive,
        ExpectsCheck, ExpectsInstall, ExpectsConnect
<1>7. BlockIsExpected'
    BY DEF ControllerTypeOK, OneForeground, BlockIsExpected,
        Alive, ExpectsConnect
<1> QED BY <1>1, <1>2, <1>3, <1>4, <1>5, <1>6, <1>7

\* A reconnect removes blocks and nothing else.
LEMMA SessionReconnectedInv ==
    ASSUME ControllerAssumption, ControllerInv, NEW s \in Session, SessionReconnected(s)
    PROVE  ControllerInv'
<1> USE DEF ControllerInv, SessionReconnected, WritesNothing, ExpectsConnect
<1>1. ControllerTypeOK'
    BY DEF ControllerTypeOK
<1>2. OneForeground'
    BY DEF OneForeground, Alive
<1>3. NewIsUnknown'
    BY DEF NewIsUnknown, HeldIsForeground
<1>4. StashUnwritten'
    BY DEF StashUnwritten
<1>5. HeldIsForeground'
    BY DEF HeldIsForeground
<1>6. InFlightIsExpected'
    BY DEF InFlightIsExpected, Alive, ExpectsCheck, ExpectsInstall
<1>7. BlockIsExpected'
    BY DEF BlockIsExpected
<1> QED BY <1>1, <1>2, <1>3, <1>4, <1>5, <1>6, <1>7

\* Leaving a bootstrapped shell: the next PTY reader is the local shell.
LEMMA ShellExitsInv ==
    ASSUME ControllerAssumption, ControllerInv, NEW s \in Session, ShellExits(s)
    PROVE  ControllerInv'
<1> USE DEF ControllerInv, ShellExits
<1>1. ControllerTypeOK'
    BY DEF ControllerTypeOK
<1>2. OneForeground'
    BY DEF ControllerTypeOK, OneForeground, Alive
<1>3. NewIsUnknown'
    BY DEF NewIsUnknown
<1>4. StashUnwritten'
    BY DEF StashUnwritten
<1>5. HeldIsForeground'
    BY DEF HeldIsForeground
<1>6. InFlightIsExpected'
    BY DEF InFlightIsExpected, Alive, ExpectsCheck, ExpectsInstall,
        ExpectsConnect
<1>7. BlockIsExpected'
    BY DEF BlockIsExpected, Alive
<1> QED BY <1>1, <1>2, <1>3, <1>4, <1>5, <1>6, <1>7

\* A dead shell is no longer subject to the invariant; its stash stays.
LEMMA ShellDiesInv ==
    ASSUME ControllerAssumption, ControllerInv, NEW s \in Session, ShellDies(s)
    PROVE  ControllerInv'
<1> USE DEF ControllerInv, ShellDies
<1>1. ControllerTypeOK'
    BY DEF ControllerTypeOK
<1>2. OneForeground'
    BY DEF ControllerTypeOK, OneForeground, Alive
<1>3. NewIsUnknown'
    BY DEF NewIsUnknown
<1>4. StashUnwritten'
    BY DEF StashUnwritten
<1>5. HeldIsForeground'
    BY DEF HeldIsForeground
<1>6. InFlightIsExpected'
    BY DEF InFlightIsExpected, Alive, ExpectsCheck, ExpectsInstall,
        ExpectsConnect
<1>7. BlockIsExpected'
    BY DEF BlockIsExpected, Alive
<1> QED BY <1>1, <1>2, <1>3, <1>4, <1>5, <1>6, <1>7

\* Every step of the controller keeps the invariant.
LEMMA ControllerNextInv ==
    ASSUME ControllerAssumption, ControllerInv, [ControllerNext]_controllerVars
    PROVE  ControllerInv'
<1>1. CASE UNCHANGED controllerVars
    BY <1>1 DEF controllerVars, ControllerInv, ControllerTypeOK, OneForeground,
        NewIsUnknown, StashUnwritten, HeldIsForeground, InFlightIsExpected,
        BlockIsExpected, Alive, ExpectsCheck, ExpectsInstall, ExpectsConnect
<1>2. ASSUME NEW s \in Session, ShellStarts(s) PROVE ControllerInv'
    BY <1>2, ShellStartsInv
<1>3. ASSUME NEW s \in Session, CheckCompletes(s) PROVE ControllerInv'
    BY <1>3, CheckIgnoredInv, CheckUnsupportedInv, CheckInstalledInv,
        CheckInstallsInv, CheckAsksInv, CheckGivesUpInv DEF CheckCompletes
<1>4. ASSUME NEW s \in Session, InstallClicked(s) \/ SkipClicked(s)
      PROVE  ControllerInv'
    BY <1>4, InstallClickedInv, SkipClickedInv
<1>5. ASSUME NEW s \in Session, NEW ok \in BOOLEAN, InstallCompletes(s, ok)
      PROVE  ControllerInv'
    BY <1>5, InstallCompletesInv
<1>6. ASSUME NEW s \in Session, SessionConnected(s) PROVE ControllerInv'
    <2>1. ConnectSettled(s) /\ blocks' \subseteq blocks
        BY <1>6 DEF SessionConnected
    <2> QED BY <2>1, ConnectSettledInv
<1>7. ASSUME NEW s \in Session, SessionConnectionFailed(s) PROVE ControllerInv'
    <2>1. ConnectSettled(s) /\ blocks' \subseteq blocks
        BY <1>7 DEF SessionConnectionFailed
    <2> QED BY <2>1, ConnectSettledInv
<1>8. ASSUME NEW s \in Session,
             SessionReconnected(s) \/ ShellExits(s) \/ ShellDies(s)
      PROVE  ControllerInv'
    BY <1>8, SessionReconnectedInv, ShellExitsInv, ShellDiesInv
<1> QED BY <1>1, <1>2, <1>3, <1>4, <1>5, <1>6, <1>7, <1>8 DEF ControllerNext

\* The invariant holds in every reachable state, whatever is clicked.
THEOREM ControllerInvariant ==
    ASSUME ControllerAssumption
    PROVE  ControllerSpec => []ControllerInv
<1>1. ControllerInv /\ [ControllerNext]_controllerVars => ControllerInv'
    BY ControllerNextInv
<1> QED BY <1>1, ControllerInitInv, PTL DEF ControllerSpec

\* The controller's state is well formed, and no bootstrap is written twice
\* (flush_stashed_bootstrap on every path takes the stash out of the state).
THEOREM ControllerTypeCorrect ==
    ASSUME ControllerAssumption
    PROVE  ControllerSpec => []ControllerTypeOK
<1>1. ControllerInv => ControllerTypeOK
    BY DEF ControllerInv
<1> QED BY <1>1, ControllerInvariant, PTL

-----------------------------------------------------------------------------
(* When a shell is bootstrapped, and when it loses its stash *)

SetupDone(s) ==
    \/ s \notin checks' \cup installs' \cup connects'
    \/ shell[s] = "new" /\ state # Idle

\* The script of the stash that is held goes to its own shell or to the local
\* one; whatever that shell still had in flight was answered by this very step.
LEMMA FlushedAfterSetup ==
    ASSUME ControllerAssumption, ControllerInv, NEW s \in Session,
           shell[s] # "running", shell'[s] = "running", state # Idle,
           FlushStashedBootstrap(state.info, foreground, shell)
    PROVE  /\ shell[s] \in Unbootstrapped /\ state.info = s
           /\ s \in checks => ExpectsCheck(s)
           /\ s \in installs => ExpectsInstall(s)
           /\ s \in connects => ExpectsConnect(s)
<1>1. foreground = s /\ shell[s] \in Unbootstrapped
    BY DEF FlushStashedBootstrap, Bootstrapped
<1>2. state.info = s
    BY <1>1 DEF ControllerInv, HeldIsForeground, StashUnwritten
<1> QED
    BY <1>1, <1>2 DEF ControllerInv, InFlightIsExpected, Alive, Unbootstrapped

LEMMA BootstrapStep ==
    ASSUME ControllerAssumption, ControllerInv, [ControllerNext]_controllerVars,
           NEW s \in Session, shell[s] # "running", shell'[s] = "running"
    PROVE  SetupDone(s)
<1> USE DEF SetupDone
<1>1. ASSUME UNCHANGED shell PROVE SetupDone(s)
    BY <1>1
<1>2. ASSUME NEW r \in Session, ShellStarts(r) PROVE SetupDone(s)
    <2>1. s # r => s \notin checks \cup installs \cup connects
        BY <1>2 DEF ShellStarts, FlushStashedBootstrap, Bootstrapped, Unbootstrapped,
            ControllerInv, ControllerTypeOK, OneForeground, Alive
    <2>2. s = r => shell[s] = "new" /\ state # Idle
        BY <1>2 DEF ShellStarts, ControllerInv, ControllerTypeOK
    <2> QED BY <1>2, <2>1, <2>2 DEF ShellStarts
<1>3. ASSUME NEW r \in Session, CheckGivesUp(r) PROVE SetupDone(s)
    <2>1. /\ state # Idle /\ state.st = "AwaitingCheck" /\ state.info = r
          /\ FlushStashedBootstrap(state.info, foreground, shell)
          /\ checks' = checks \ {r} /\ UNCHANGED <<installs, connects>>
        BY <1>3 DEF CheckGivesUp, ExpectsCheck
    <2> QED BY <2>1, FlushedAfterSetup DEF ExpectsInstall, ExpectsConnect
<1>4. ASSUME NEW r \in Session, CheckUnsupported(r) PROVE SetupDone(s)
    BY <1>4 DEF CheckUnsupported, ControllerInv, ControllerTypeOK
<1>5. ASSUME NEW r \in Session, SkipClicked(r) PROVE SetupDone(s)
    <2>1. CASE state.st = "AwaitingUserChoice"
        <3>1. /\ state # Idle /\ UNCHANGED <<checks, installs, connects>>
              /\ FlushStashedBootstrap(state.info, foreground, shell)
            BY <1>5, <2>1 DEF SkipClicked
        <3> QED BY <2>1, <3>1, FlushedAfterSetup
                DEF ExpectsCheck, ExpectsInstall, ExpectsConnect
    <2>2. CASE state.st # "AwaitingUserChoice"
        BY <1>1, <1>5, <2>2 DEF SkipClicked, WritesNothing
    <2> QED BY <2>1, <2>2
<1>6. ASSUME NEW r \in Session, NEW ok \in BOOLEAN, InstallCompletes(r, ok)
      PROVE  SetupDone(s)
    <2>1. CASE WritesNothing
        BY <1>1, <2>1 DEF WritesNothing
    <2>2. CASE /\ ExpectsInstall(r) /\ UNCHANGED connects
               /\ FlushStashedBootstrap(state.info, foreground, shell)
        <3>1. /\ state # Idle /\ installs' = installs \ {r} /\ UNCHANGED checks
            BY <1>6, <2>2 DEF InstallCompletes, ExpectsInstall
        <3> QED BY <2>2, <3>1, FlushedAfterSetup
                DEF ExpectsCheck, ExpectsInstall, ExpectsConnect
    <2> QED BY <1>6, <2>1, <2>2 DEF InstallCompletes
<1>7. ASSUME NEW r \in Session, ConnectSettled(r) PROVE SetupDone(s)
    <2>1. CASE WritesNothing
        BY <1>1, <2>1 DEF WritesNothing
    <2>2. CASE /\ ExpectsConnect(r)
               /\ FlushStashedBootstrap(state.info, foreground, shell)
        <3>1. /\ state # Idle /\ connects' = connects \ {r}
              /\ UNCHANGED <<checks, installs>>
            BY <1>7, <2>2 DEF ConnectSettled, ExpectsConnect
        <3> QED BY <2>2, <3>1, FlushedAfterSetup
                DEF ExpectsCheck, ExpectsInstall, ExpectsConnect
    <2> QED BY <1>7, <2>1, <2>2 DEF ConnectSettled
<1>8. ASSUME NEW r \in Session,
             \/ CheckIgnored(r) \/ CheckInstalled(r) \/ CheckInstalls(r)
             \/ CheckAsks(r) \/ InstallClicked(r) \/ SessionReconnected(r)
      PROVE  SetupDone(s)
    BY <1>1, <1>8 DEF CheckIgnored, CheckInstalled, CheckInstalls, CheckAsks,
        InstallClicked, SessionReconnected, WritesNothing
<1>9. ASSUME NEW r \in Session, ShellExits(r) \/ ShellDies(r) PROVE SetupDone(s)
    BY <1>9 DEF ShellExits, ShellDies, ControllerInv, ControllerTypeOK
<1>10. CASE UNCHANGED controllerVars
    BY <1>1, <1>10 DEF controllerVars
<1> QED
    BY <1>2, <1>3, <1>4, <1>5, <1>6, <1>7, <1>8, <1>9, <1>10
       DEF ControllerNext, CheckCompletes, SessionConnected, SessionConnectionFailed

\* A late check, install or connect of an earlier ssh never ends the setup of
\* the present one (the session comparisons of the three answer handlers); only
\* a shell that starts over the stash of a dead ssh is bootstrapped early.
THEOREM BootstrapsFollowSetup ==
    ASSUME ControllerAssumption
    PROVE  ControllerSpec => BootstrapAfterSetup
<1>1. ControllerInv /\ [ControllerNext]_controllerVars =>
        [\A s \in Session :
            shell[s] # "running" /\ shell'[s] = "running" =>
                \/ s \notin checks' \cup installs' \cup connects'
                \/ shell[s] = "new" /\ state # Idle]_controllerVars
    BY BootstrapStep DEF SetupDone
<1> QED BY <1>1, ControllerInvariant, PTL DEF ControllerSpec, BootstrapAfterSetup

LostToClick(s) ==
    \/ shell[s] = "waiting" /\ state.info # s
    \/ /\ state.st # "AwaitingUserChoice"
       /\ \E b \in blocks : /\ blocks' = blocks \ {b}
                            /\ \/ shell[b] = "gone"
                               \/ /\ b = s /\ state.info = s
                                  /\ shell[state.session] = "gone"

LEMMA StashStep ==
    ASSUME ControllerAssumption, ControllerInv, [ControllerNext]_controllerVars,
           NEW s \in Session, shell'[s] = "waiting", state'.info # s
    PROVE  LostToClick(s)
<1> USE DEF LostToClick
<1>1. ASSUME state'.info = state.info, shell'[s] = "waiting" => shell[s] = "waiting"
      PROVE  LostToClick(s)
    BY <1>1
<1>2. ASSUME FlushStashedBootstrap(state.info, foreground, shell)
      PROVE  LostToClick(s)
    <2>1. shell[s] = "waiting"
        BY <1>2 DEF FlushStashedBootstrap, Bootstrapped
    <2>2. foreground = s
        BY <2>1 DEF ControllerInv, OneForeground, Alive
    <2>3. state.info # s
        BY <1>2, <2>1, <2>2 DEF FlushStashedBootstrap, Bootstrapped, Unbootstrapped
    <2> QED BY <2>1, <2>3
<1>3. ASSUME NEW r \in Session, ShellStarts(r) PROVE LostToClick(s)
    <2>1. s # r /\ shell[s] = "waiting"
        BY <1>3 DEF ShellStarts, FlushStashedBootstrap, Bootstrapped, ControllerInv,
            ControllerTypeOK
    <2> QED BY <1>3, <2>1 DEF ShellStarts, ControllerInv, OneForeground, Alive
<1>4. ASSUME NEW r \in Session, CheckUnsupported(r) PROVE LostToClick(s)
    BY <1>4 DEF CheckUnsupported, ExpectsCheck, ControllerInv, ControllerTypeOK
<1>5. ASSUME NEW b \in Session, SkipClicked(b) PROVE LostToClick(s)
    <2>1. CASE state.st = "AwaitingUserChoice"
        BY <1>2, <1>5, <2>1 DEF SkipClicked
    <2>2. CASE state.st # "AwaitingUserChoice" /\ state.info = s
        <3>1. /\ b \in blocks /\ blocks' = blocks \ {b} /\ shell[s] = "waiting"
            BY <1>5, <2>2 DEF SkipClicked, Click, WritesNothing
        <3>2. foreground = s
            BY <3>1 DEF ControllerInv, OneForeground, Alive
        <3>3. CASE b = s
            BY <2>2, <3>1, <3>3 DEF ControllerInv, BlockIsExpected, Alive
        <3>4. CASE b # s
            BY <2>2, <3>1, <3>2, <3>4 DEF ControllerInv, ControllerTypeOK,
                OneForeground, NewIsUnknown, Alive
        <3> QED BY <3>3, <3>4
    <2>3. CASE state.st # "AwaitingUserChoice" /\ state.info # s
        BY <1>5, <2>3 DEF SkipClicked, WritesNothing
    <2> QED BY <2>1, <2>2, <2>3
<1>6. ASSUME NEW r \in Session, NEW ok \in BOOLEAN, InstallCompletes(r, ok)
      PROVE  LostToClick(s)
    BY <1>1, <1>2, <1>6 DEF InstallCompletes, WritesNothing
<1>7. ASSUME NEW r \in Session, ConnectSettled(r) PROVE LostToClick(s)
    BY <1>1, <1>2, <1>7 DEF ConnectSettled, WritesNothing
<1>8. ASSUME NEW r \in Session, CheckGivesUp(r) PROVE LostToClick(s)
    BY <1>2, <1>8 DEF CheckGivesUp
<1>9. ASSUME NEW r \in Session,
             \/ CheckIgnored(r) \/ CheckInstalled(r) \/ CheckInstalls(r)
             \/ CheckAsks(r) \/ InstallClicked(r) \/ SessionReconnected(r)
      PROVE  LostToClick(s)
    BY <1>1, <1>9 DEF CheckIgnored, CheckInstalled, CheckInstalls, CheckAsks,
        InstallClicked, SessionReconnected, WritesNothing, ExpectsCheck
<1>10. ASSUME NEW r \in Session, ShellExits(r) \/ ShellDies(r) PROVE LostToClick(s)
    BY <1>1, <1>10 DEF ShellExits, ShellDies, ControllerInv, ControllerTypeOK
<1>11. CASE UNCHANGED controllerVars
    BY <1>1, <1>11 DEF controllerVars
<1> QED
    BY <1>3, <1>4, <1>5, <1>6, <1>7, <1>8, <1>9, <1>10, <1>11
       DEF ControllerNext, CheckCompletes, SessionConnected, SessionConnectionFailed

\* No answer, click or new ssh takes the stash of a waiting shell, but for Skip on
\* the block of a dead shell or after a choice made through one.
THEOREM WaitingShellsAreHeld ==
    ASSUME ControllerAssumption
    PROVE  ControllerSpec => WaitingShellHeld
<1>1. ControllerInv /\ [ControllerNext]_controllerVars =>
        [\A s \in Session :
            shell'[s] = "waiting" /\ state'.info # s =>
              \/ shell[s] = "waiting" /\ state.info # s
              \/ /\ state.st # "AwaitingUserChoice"
                 /\ \E b \in blocks : /\ blocks' = blocks \ {b}
                                      /\ \/ shell[b] = "gone"
                                         \/ /\ b = s /\ state.info = s
                                            /\ shell[state.session] = "gone"
        ]_controllerVars
    BY StashStep DEF LostToClick
<1> QED BY <1>1, ControllerInvariant, PTL DEF ControllerSpec, WaitingShellHeld
=============================================================================
