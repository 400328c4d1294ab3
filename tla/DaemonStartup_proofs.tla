------------------------ MODULE DaemonStartup_proofs ------------------------
(***************************************************************************)
(* Proofs about DaemonStartup, for any number of proxies and pid files.    *)
(***************************************************************************)
EXTENDS DaemonStartup, TLAPS

\* A proxy that has not spawned yet has no daemon.
FreshProxies ==
    \A p \in Proxy :
        proxy[p] \in {"new", "opened", "locked", "clearing"} => daemon[p] = "none"

\* Of one pid file at most one proxy holds the lock.
LocksExclude ==
    \A p, q \in Locking : p # q => fd[p] # fd[q]

\* While no proxy missed a daemon, one is alive or being started.
OneAtMost ==
    unseen = {} => \A p, q \in Alive \cup Starting : p = q

\* From its bind on the socket is the daemon's, from its write on the pid is.
FilesLeadToIt ==
    unseen = {} => \A d \in Proxy :
        /\ daemon[d] \in {"bound", "serving", "expired"} => sock = d
        /\ daemon[d] \in {"serving", "expired", "unlinked"} => pid = d /\ file # 0

StartupInv ==
    /\ StartupTypeOK
    /\ FreshProxies
    /\ LocksExclude
    /\ OneAtMost
    /\ FilesLeadToIt

-----------------------------------------------------------------------------
LEMMA InitEstablishes == Init => StartupInv
  BY StartupAssumption DEF Init, StartupInv, StartupTypeOK, FreshProxies,
     LocksExclude, OneAtMost, FilesLeadToIt, Alive, Starting, Locking, At

LEMMA OpenKeeps ==
    ASSUME NEW p \in Proxy, StartupInv, Open(p)
    PROVE  StartupInv'
<1>1. StartupTypeOK'
  BY StartupAssumption DEF StartupInv, StartupTypeOK, Open, Goes, fileVars
<1>2. FreshProxies'
  BY DEF StartupInv, FreshProxies, Open, At, Goes
<1>3. LocksExclude'
  BY DEF StartupInv, LocksExclude, Open, At, Goes, StartupTypeOK, Locking,
     Starting
<1>4. OneAtMost'
  BY DEF StartupInv, OneAtMost, Open, Goes, Alive, Starting
<1>5. FilesLeadToIt'
  BY DEF StartupInv, FilesLeadToIt, Open, fileVars
<1>6. QED
  BY <1>1, <1>2, <1>3, <1>4, <1>5 DEF StartupInv

LEMMA LockKeeps ==
    ASSUME NEW p \in Proxy, StartupInv, Lock(p)
    PROVE  StartupInv'
<1>1. StartupTypeOK'
  BY DEF StartupInv, StartupTypeOK, Lock, Goes, fileVars
<1>2. FreshProxies'
  BY DEF StartupInv, FreshProxies, Lock, At, Goes
<1>3. LocksExclude'
  BY DEF StartupInv, LocksExclude, Lock, At, Goes, Locking, Starting
<1>4. OneAtMost'
  BY DEF StartupInv, OneAtMost, Lock, Goes, Alive, Starting
<1>5. FilesLeadToIt'
  BY DEF StartupInv, FilesLeadToIt, Lock, fileVars
<1>6. QED
  BY <1>1, <1>2, <1>3, <1>4, <1>5 DEF StartupInv

LEMMA ReuseKeeps ==
    ASSUME NEW p \in Proxy, StartupInv, Reuse(p)
    PROVE  StartupInv'
<1>1. StartupTypeOK'
  BY DEF StartupInv, StartupTypeOK, Reuse, Goes, fileVars
<1>2. FreshProxies'
  BY DEF StartupInv, FreshProxies, Reuse, Goes
<1>3. LocksExclude'
  BY DEF StartupInv, LocksExclude, Reuse, At, Goes, Locking, Starting
<1>4. OneAtMost'
  BY DEF StartupInv, OneAtMost, Reuse, Goes, Alive, Starting
<1>5. FilesLeadToIt'
  BY DEF StartupInv, FilesLeadToIt, Reuse, fileVars
<1>6. QED
  BY <1>1, <1>2, <1>3, <1>4, <1>5 DEF StartupInv

LEMMA StartOneKeeps ==
    ASSUME NEW p \in Proxy, StartupInv, StartOne(p)
    PROVE  StartupInv'
<1>1. StartupTypeOK'
  BY DEF StartupInv, StartupTypeOK, StartOne, Goes, fileVars
<1>2. FreshProxies'
  BY DEF StartupInv, FreshProxies, StartOne, At, Goes
<1>3. LocksExclude'
  BY DEF StartupInv, LocksExclude, StartOne, At, Goes, Locking, Starting
<1>4. OneAtMost'
  BY DEF StartupInv, OneAtMost, StartOne, Goes, Alive, Starting
<1>5. FilesLeadToIt'
  BY DEF StartupInv, FilesLeadToIt, StartOne, fileVars
<1>6. QED
  BY <1>1, <1>2, <1>3, <1>4, <1>5 DEF StartupInv

LEMMA SpawnKeeps ==
    ASSUME NEW p \in Proxy, StartupInv, Spawn(p)
    PROVE  StartupInv'
<1>1. StartupTypeOK'
  BY DEF StartupInv, StartupTypeOK, Spawn, Goes, Moves, fileVars
<1>2. FreshProxies'
  BY DEF StartupInv, FreshProxies, Spawn, Goes, Moves, StartupTypeOK
<1>3. LocksExclude'
  BY DEF StartupInv, LocksExclude, Spawn, At, Goes, StartupTypeOK, Locking,
     Starting
<1>4. OneAtMost'
  BY DEF StartupInv, OneAtMost, Spawn, At, Goes, Moves, StartupTypeOK, Alive,
     Starting
<1>5. FilesLeadToIt'
  BY DEF StartupInv, FilesLeadToIt, Spawn, At, Moves, StartupTypeOK, OneAtMost,
     Alive, Starting, FreshProxies
<1>6. QED
  BY <1>1, <1>2, <1>3, <1>4, <1>5 DEF StartupInv

LEMMA SocketAppearsKeeps ==
    ASSUME NEW p \in Proxy, StartupInv, SocketAppears(p)
    PROVE  StartupInv'
<1>1. StartupTypeOK'
  BY DEF StartupInv, StartupTypeOK, SocketAppears, Goes, fileVars
<1>2. FreshProxies'
  BY DEF StartupInv, FreshProxies, SocketAppears, Goes
<1>3. LocksExclude'
  BY DEF StartupInv, LocksExclude, SocketAppears, At, Goes, Locking, Starting
<1>4. OneAtMost'
  BY DEF StartupInv, OneAtMost, SocketAppears, Goes, Alive, Starting
<1>5. FilesLeadToIt'
  BY DEF StartupInv, FilesLeadToIt, SocketAppears, fileVars
<1>6. QED
  BY <1>1, <1>2, <1>3, <1>4, <1>5 DEF StartupInv

LEMMA WaitTimesOutKeeps ==
    ASSUME NEW p \in Proxy, StartupInv, WaitTimesOut(p)
    PROVE  StartupInv'
<1>1. StartupTypeOK'
  BY DEF StartupInv, StartupTypeOK, WaitTimesOut, Goes, fileVars
<1>2. FreshProxies'
  BY DEF StartupInv, FreshProxies, WaitTimesOut, Goes
<1>3. LocksExclude'
  BY DEF StartupInv, LocksExclude, WaitTimesOut, At, Goes, Locking, Starting
<1>4. OneAtMost'
  BY DEF StartupInv, OneAtMost, WaitTimesOut, Goes, Alive, Starting
<1>5. FilesLeadToIt'
  BY DEF StartupInv, FilesLeadToIt, WaitTimesOut, fileVars
<1>6. QED
  BY <1>1, <1>2, <1>3, <1>4, <1>5 DEF StartupInv

LEMMA ConnectKeeps ==
    ASSUME NEW p \in Proxy, StartupInv, Connect(p)
    PROVE  StartupInv'
<1>1. StartupTypeOK'
  BY DEF StartupInv, StartupTypeOK, Connect, Goes, fileVars
<1>2. FreshProxies'
  BY DEF StartupInv, FreshProxies, Connect, Goes, StartupTypeOK
<1>3. LocksExclude'
  BY DEF StartupInv, LocksExclude, Connect, At, Goes, StartupTypeOK, Locking,
     Starting
<1>4. OneAtMost'
  BY DEF StartupInv, OneAtMost, Connect, Goes, StartupTypeOK, Alive, Starting
<1>5. FilesLeadToIt'
  BY DEF StartupInv, FilesLeadToIt, Connect, fileVars
<1>6. QED
  BY <1>1, <1>2, <1>3, <1>4, <1>5 DEF StartupInv

LEMMA ProxyEndsKeeps ==
    ASSUME NEW p \in Proxy, StartupInv, ProxyEnds(p)
    PROVE  StartupInv'
<1>1. StartupTypeOK'
  BY DEF StartupInv, StartupTypeOK, ProxyEnds, Goes, fileVars
<1>2. FreshProxies'
  BY DEF StartupInv, FreshProxies, ProxyEnds, Goes
<1>3. LocksExclude'
  BY DEF StartupInv, LocksExclude, ProxyEnds, Goes, Locking, Starting, At
<1>4. OneAtMost'
  BY DEF StartupInv, OneAtMost, ProxyEnds, Goes, Alive, Starting
<1>5. FilesLeadToIt'
  BY DEF StartupInv, FilesLeadToIt, ProxyEnds, fileVars
<1>6. QED
  BY <1>1, <1>2, <1>3, <1>4, <1>5 DEF StartupInv

LEMMA ClearSocketKeeps ==
    ASSUME NEW d \in Proxy, StartupInv, ClearSocket(d)
    PROVE  StartupInv'
<1>1. StartupTypeOK'
  BY DEF StartupInv, StartupTypeOK, ClearSocket, Moves, procVars, fileVars
<1>2. FreshProxies'
  BY DEF StartupInv, FreshProxies, ClearSocket, Moves, procVars
<1>3. LocksExclude'
  BY DEF StartupInv, LocksExclude, ClearSocket, procVars, Locking, Starting, At
<1>4. OneAtMost'
  BY DEF StartupInv, OneAtMost, ClearSocket, Moves, procVars, Alive, Starting
<1>5. FilesLeadToIt'
  BY DEF StartupInv, FilesLeadToIt, ClearSocket, Moves, OneAtMost, Alive
<1>6. QED
  BY <1>1, <1>2, <1>3, <1>4, <1>5 DEF StartupInv

LEMMA BindKeeps ==
    ASSUME NEW d \in Proxy, StartupInv, Bind(d)
    PROVE  StartupInv'
<1>1. StartupTypeOK'
  BY DEF StartupInv, StartupTypeOK, Bind, Moves, procVars, fileVars
<1>2. FreshProxies'
  BY DEF StartupInv, FreshProxies, Bind, Moves, procVars, StartupTypeOK
<1>3. LocksExclude'
  BY DEF StartupInv, LocksExclude, Bind, procVars, Locking, Starting, At
<1>4. OneAtMost'
  BY DEF StartupInv, OneAtMost, Bind, Moves, procVars, StartupTypeOK, Alive,
     Starting
<1>5. FilesLeadToIt'
  BY DEF StartupInv, FilesLeadToIt, Bind, Moves, StartupTypeOK, OneAtMost,
     Alive
<1>6. QED
  BY <1>1, <1>2, <1>3, <1>4, <1>5 DEF StartupInv

LEMMA WritePidKeeps ==
    ASSUME NEW d \in Proxy, StartupInv, WritePid(d)
    PROVE  StartupInv'
<1>1. StartupTypeOK'
  BY StartupAssumption DEF StartupInv, StartupTypeOK, WritePid, Moves, procVars
<1>2. FreshProxies'
  BY DEF StartupInv, FreshProxies, WritePid, Moves, procVars
<1>3. LocksExclude'
  BY DEF StartupInv, LocksExclude, WritePid, procVars, Locking, Starting, At
<1>4. OneAtMost'
  BY DEF StartupInv, OneAtMost, WritePid, Moves, procVars, Alive, Starting
<1>5. FilesLeadToIt'
  BY DEF StartupInv, FilesLeadToIt, WritePid, Moves, StartupTypeOK, OneAtMost,
     Alive
<1>6. QED
  BY <1>1, <1>2, <1>3, <1>4, <1>5 DEF StartupInv

LEMMA RegisterKeeps ==
    ASSUME NEW p \in Proxy, StartupInv, Register(p)
    PROVE  StartupInv'
<1>1. StartupTypeOK'
  BY DEF StartupInv, StartupTypeOK, Register, Goes, fileVars
<1>2. FreshProxies'
  BY DEF StartupInv, FreshProxies, Register, Goes
<1>3. LocksExclude'
  BY DEF StartupInv, LocksExclude, Register, At, Goes, Locking, Starting
<1>4. OneAtMost'
  BY DEF StartupInv, OneAtMost, Register, Goes, Alive, Starting
<1>5. FilesLeadToIt'
  BY DEF StartupInv, FilesLeadToIt, Register, fileVars
<1>6. QED
  BY <1>1, <1>2, <1>3, <1>4, <1>5 DEF StartupInv

LEMMA GraceExpiresKeeps ==
    ASSUME NEW d \in Proxy, StartupInv, GraceExpires(d)
    PROVE  StartupInv'
<1>1. StartupTypeOK'
  BY DEF StartupInv, StartupTypeOK, GraceExpires, Moves, procVars, fileVars
<1>2. FreshProxies'
  BY DEF StartupInv, FreshProxies, GraceExpires, Moves, procVars
<1>3. LocksExclude'
  BY DEF StartupInv, LocksExclude, GraceExpires, At, procVars, Locking,
     Starting
<1>4. OneAtMost'
  BY DEF StartupInv, OneAtMost, GraceExpires, Moves, procVars, Alive, Starting
<1>5. FilesLeadToIt'
  BY DEF StartupInv, FilesLeadToIt, GraceExpires, Moves, fileVars
<1>6. QED
  BY <1>1, <1>2, <1>3, <1>4, <1>5 DEF StartupInv

LEMMA RemoveSocketKeeps ==
    ASSUME NEW d \in Proxy, StartupInv, RemoveSocket(d)
    PROVE  StartupInv'
<1>1. StartupTypeOK'
  BY DEF StartupInv, StartupTypeOK, RemoveSocket, Moves, procVars, fileVars
<1>2. FreshProxies'
  BY DEF StartupInv, FreshProxies, RemoveSocket, Moves, procVars
<1>3. LocksExclude'
  BY DEF StartupInv, LocksExclude, RemoveSocket, procVars, Locking, Starting,
     At
<1>4. OneAtMost'
  BY DEF StartupInv, OneAtMost, RemoveSocket, Moves, procVars, Alive, Starting
<1>5. FilesLeadToIt'
  BY DEF StartupInv, FilesLeadToIt, RemoveSocket, Moves, fileVars,
     StartupTypeOK
<1>6. QED
  BY <1>1, <1>2, <1>3, <1>4, <1>5 DEF StartupInv

LEMMA RemovePidKeeps ==
    ASSUME NEW d \in Proxy, StartupInv, RemovePid(d)
    PROVE  StartupInv'
<1>1. StartupTypeOK'
  BY StartupAssumption DEF StartupInv, StartupTypeOK, RemovePid, Moves,
     procVars
<1>2. FreshProxies'
  BY DEF StartupInv, FreshProxies, RemovePid, Moves, procVars
<1>3. LocksExclude'
  BY DEF StartupInv, LocksExclude, RemovePid, procVars, Locking, Starting, At
<1>4. OneAtMost'
  BY DEF StartupInv, OneAtMost, RemovePid, Moves, procVars, Alive, Starting
<1>5. FilesLeadToIt'
  BY DEF StartupInv, FilesLeadToIt, RemovePid, Moves, StartupTypeOK
<1>6. QED
  BY <1>1, <1>2, <1>3, <1>4, <1>5 DEF StartupInv

LEMMA CrashKeeps ==
    ASSUME NEW d \in Proxy, StartupInv, Crash(d)
    PROVE  StartupInv'
<1>1. StartupTypeOK'
  BY DEF StartupInv, StartupTypeOK, Crash, Moves, procVars, fileVars
<1>2. FreshProxies'
  BY DEF StartupInv, FreshProxies, Crash, Moves, procVars, Alive
<1>3. LocksExclude'
  BY DEF StartupInv, LocksExclude, Crash, procVars, Locking, Starting, At
<1>4. OneAtMost'
  BY DEF StartupInv, OneAtMost, Crash, Moves, procVars, Alive, Starting
<1>5. FilesLeadToIt'
  BY DEF StartupInv, FilesLeadToIt, Crash, Moves, fileVars
<1>6. QED
  BY <1>1, <1>2, <1>3, <1>4, <1>5 DEF StartupInv

-----------------------------------------------------------------------------
LEMMA StutterKeeps == StartupInv /\ UNCHANGED vars => StartupInv'
  BY DEF StartupInv, StartupTypeOK, FreshProxies, LocksExclude, OneAtMost,
     FilesLeadToIt, Alive, Starting, Locking, At, vars, procVars, fileVars

LEMMA NextKeeps == StartupInv /\ [Next]_vars => StartupInv'
<1> SUFFICES ASSUME StartupInv, [Next]_vars
             PROVE  StartupInv'
  OBVIOUS
<1>1. CASE UNCHANGED vars
  BY <1>1, StutterKeeps
<1>2. CASE Next
  <2> PICK p \in Proxy :
        \/ Open(p) \/ ProxyStep(p) \/ ProxyEnds(p) \/ Register(p)
        \/ DaemonStep(p) \/ GraceExpires(p) \/ Crash(p)
    BY <1>2 DEF Next
  <2>1. CASE ProxyStep(p)
    BY <2>1, LockKeeps, ReuseKeeps, StartOneKeeps, SpawnKeeps,
       SocketAppearsKeeps, WaitTimesOutKeeps, ConnectKeeps DEF ProxyStep
  <2>2. CASE DaemonStep(p)
    BY <2>2, ClearSocketKeeps, BindKeeps, WritePidKeeps, RemoveSocketKeeps,
       RemovePidKeeps DEF DaemonStep
  <2>3. QED
    BY <2>1, <2>2, OpenKeeps, ProxyEndsKeeps, RegisterKeeps, GraceExpiresKeeps,
       CrashKeeps
<1>3. QED
  BY <1>1, <1>2

LEMMA StartupInvariant == Spec => []StartupInv
<1>1. QED
  BY InitEstablishes, NextKeeps, PTL DEF Spec

\* Type correctness; a pid is in a file.
THEOREM TypesHold == Spec => []StartupTypeOK
<1>1. StartupInv => StartupTypeOK
  BY DEF StartupInv
<1>2. QED
  BY <1>1, StartupInvariant, PTL

\* Only a proxy that looks for the daemon misses one.
LEMMA MissIsStart ==
    ASSUME NEW p \in Proxy, Next, unseen = {}, p \in unseen'
    PROVE  StartOne(p)
<1>1. PICK q \in Proxy :
        \/ Open(q) \/ ProxyStep(q) \/ ProxyEnds(q) \/ Register(q)
        \/ DaemonStep(q) \/ GraceExpires(q) \/ Crash(q)
  BY DEF Next
<1>2. CASE StartOne(q)
  BY <1>2 DEF StartOne
<1>3. CASE ~StartOne(q)
  BY <1>1, <1>3 DEF Open, ProxyStep, Lock, Reuse, Spawn, SocketAppears,
     WaitTimesOut, Connect, ProxyEnds, Register, DaemonStep, ClearSocket, Bind,
     WritePid, RemoveSocket, RemovePid, GraceExpires, Crash
<1>4. QED
  BY <1>2, <1>3

\* The first to miss a daemon locked another file, or the daemon had yet to write
\* its pid while its proxy held the lock no more.
THEOREM FirstMiss == Spec => MissesOnlyInWindows
<1> DEFINE Window(p) ==
        \A q \in Alive \cup Starting :
           \/ fd[q] # fd[p]
           \/ q \notin Starting /\ daemon[q] \in {"spawned", "cleared", "bound"}
<1>1. ASSUME StartupInv, Next, NEW p \in Proxy, unseen = {}, p \in unseen'
      PROVE  Window(p)
  <2>1. At(p, "locked") /\ ~DaemonRunning
    BY <1>1, MissIsStart DEF StartOne
  <2>2. ASSUME NEW q \in Starting
        PROVE  fd[q] # fd[p]
    <3>1. p # q /\ p \in Locking /\ q \in Locking
      BY <2>1 DEF Starting, Locking, At
    <3>2. QED
      BY <1>1, <3>1 DEF StartupInv, LocksExclude
  <2>3. ASSUME NEW q \in Alive
        PROVE  daemon[q] \in {"spawned", "cleared", "bound"}
    <3>1. daemon[q] \notin {"serving", "expired", "unlinked"}
      BY <1>1, <2>1, StartupAssumption DEF StartupInv, FilesLeadToIt, DaemonRunning, Alive
    <3>2. QED
      BY <1>1, <3>1 DEF StartupInv, StartupTypeOK, Alive
  <2>4. QED
    BY <2>2, <2>3
<1>2. StartupInv /\ [Next]_vars =>
        [\A p \in Proxy : unseen = {} /\ p \in unseen' => Window(p)]_vars
  BY <1>1
<1>3. QED
  BY <1>2, StartupInvariant, PTL DEF Spec, MissesOnlyInWindows
=============================================================================
