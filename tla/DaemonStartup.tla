--------------------------- MODULE DaemonStartup ---------------------------
(***************************************************************************)
(* How the proxies of one host and identity agree on one daemon            *)
(* (app/src/remote_server/unix/proxy.rs, unix/mod.rs).  They share a       *)
(* directory with a pid file, which a proxy locks while it looks for the   *)
(* daemon or starts one, and a socket file.  A daemon takes no lock: it    *)
(* binds the socket, writes its pid and removes both when it exits.  Locks *)
(* are on the inode, so a pid file that is unlinked and created again is   *)
(* another lock.  The daemon a proxy spawns goes by the name of the proxy. *)
(***************************************************************************)
EXTENDS Naturals

CONSTANTS Proxy,    \* runs of the proxy command
          None,
          MaxFiles  \* bound on the pid files created

ASSUME StartupAssumption == None \notin Proxy /\ MaxFiles \in Nat

VARIABLES
    proxy,    \* how far each proxy is
    fd,       \* the pid file it opened
    link,     \* the daemon its socket is connected to
    daemon,   \* how far the daemon it spawned is
    file,     \* the pid file of the directory, or 0
    files,    \* pid files created so far
    pid,      \* the daemon whose pid the file of the directory holds
    sock,     \* the daemon that bound the socket file, or None without a file
    unseen    \* daemons whose proxy missed another that was there or under way

procVars == <<proxy, fd, link>>
fileVars == <<file, files, pid>>
vars     == <<procVars, daemon, fileVars, sock, unseen>>

Init ==
    /\ proxy = [p \in Proxy |-> "new"]
    /\ fd = [p \in Proxy |-> 0]
    /\ link = [p \in Proxy |-> None]
    /\ daemon = [p \in Proxy |-> "none"]
    /\ file = 0
    /\ files = 0
    /\ pid = None
    /\ sock = None
    /\ unseen = {}

At(p, st)    == proxy[p] = st
Goes(p, st)  == proxy' = [proxy EXCEPT ![p] = st]
Moves(d, st) == daemon' = [daemon EXCEPT ![d] = st]

Over     == {p \in Proxy : proxy[p] \in {"failed", "ended"}}
Starting == {p \in Proxy : proxy[p] \in {"clearing", "waiting"}}
Locking  == {p \in Proxy : At(p, "locked")} \cup Starting
Alive    == {d \in Proxy : daemon[d] \notin {"none", "dead"}}
\* A daemon listens from bind until its process ends.
Listening == {d \in Alive : daemon[d] \notin {"spawned", "cleared"}}

-----------------------------------------------------------------------------
\* The proxy.

\* OpenOptions::create: the lock file exists from here on.
Open(p) ==
    /\ At(p, "new")
    /\ Goes(p, "opened")
    /\ \/ /\ file # 0
          /\ fd' = [fd EXCEPT ![p] = file]
          /\ UNCHANGED fileVars
       \/ /\ file = 0
          /\ files < MaxFiles
          /\ files' = files + 1
          /\ file' = files + 1
          /\ pid' = None
          /\ fd' = [fd EXCEPT ![p] = files + 1]
    /\ UNCHANGED <<link, daemon, sock, unseen>>

\* Mutant: nobody waits for the lock.
LockAtOnce(p) ==
    /\ At(p, "opened")
    /\ Goes(p, "locked")
    /\ UNCHANGED <<fd, link, daemon, fileVars, sock, unseen>>

\* flock_wait(LOCK_EX) on the file it opened, be it unlinked by now.
Lock(p) ==
    /\ At(p, "opened")
    /\ \A q \in Locking : fd[q] # fd[p]
    /\ Goes(p, "locked")
    /\ UNCHANGED <<fd, link, daemon, fileVars, sock, unseen>>

\* check_daemon_running reads the path, not the file that is locked.  kill(pid, 0)
\* also finds a dead daemon that the proxy it is a child of has not reaped.
DaemonRunning ==
    /\ file # 0
    /\ pid # None
    /\ pid \in Alive \/ pid \notin Over

Reuse(p) ==
    /\ At(p, "locked")
    /\ DaemonRunning
    /\ Goes(p, "ready")
    /\ UNCHANGED <<fd, link, daemon, fileVars, sock, unseen>>

StartOne(p) ==
    /\ At(p, "locked")
    /\ ~DaemonRunning
    /\ Goes(p, "clearing")
    /\ unseen' = IF Alive # {} \/ Starting # {} THEN unseen \cup {p} ELSE unseen
    /\ UNCHANGED <<fd, link, daemon, fileVars, sock>>

\* The stale socket goes, then the daemon is spawned, or cannot be.
Spawn(p) ==
    /\ At(p, "clearing")
    /\ sock' = None
    /\ \/ Goes(p, "waiting") /\ Moves(p, "spawned")
       \/ Goes(p, "failed") /\ UNCHANGED daemon
    /\ UNCHANGED <<fd, link, fileVars, unseen>>

\* wait_for_socket: any socket will do.  The lock is released either way.
SocketAppears(p) ==
    /\ At(p, "waiting")
    /\ sock # None
    /\ Goes(p, "ready")
    /\ UNCHANGED <<fd, link, daemon, fileVars, sock, unseen>>

WaitTimesOut(p) ==
    /\ At(p, "waiting")
    /\ sock = None
    /\ Goes(p, "failed")
    /\ UNCHANGED <<fd, link, daemon, fileVars, sock, unseen>>

\* bridge_stdio_to_socket: the kernel accepts for whoever listens.
Connect(p) ==
    /\ At(p, "ready")
    /\ IF sock \in Listening
       THEN Goes(p, "connected") /\ link' = [link EXCEPT ![p] = sock]
       ELSE Goes(p, "failed") /\ UNCHANGED link
    /\ UNCHANGED <<fd, daemon, fileVars, sock, unseen>>

\* The session ends, an error or a signal; locks go with the process.
ProxyEnds(p) ==
    /\ proxy[p] \notin {"new", "failed", "ended"}
    /\ Goes(p, "ended")
    /\ UNCHANGED <<fd, link, daemon, fileVars, sock, unseen>>

-----------------------------------------------------------------------------
\* run_daemon.

\* It removes whatever socket file is there.
ClearSocket(d) ==
    /\ daemon[d] = "spawned"
    /\ Moves(d, "cleared")
    /\ sock' = None
    /\ UNCHANGED <<procVars, fileVars, unseen>>

Bind(d) ==
    /\ daemon[d] = "cleared"
    /\ IF sock = None
       THEN Moves(d, "bound") /\ sock' = d
       ELSE Moves(d, "dead") /\ UNCHANGED sock
    /\ UNCHANGED <<procVars, fileVars, unseen>>

\* fs::write: it creates the file only if the path has none.
WritePid(d) ==
    /\ daemon[d] = "bound"
    /\ Moves(d, "serving")
    /\ pid' = d
    /\ IF file # 0 THEN UNCHANGED <<file, files>>
       ELSE /\ files < MaxFiles
            /\ files' = files + 1
            /\ file' = files + 1
    /\ UNCHANGED <<procVars, sock, unseen>>

\* register_connection.
Register(p) ==
    /\ At(p, "connected")
    /\ daemon[link[p]] \in {"serving", "expired"}
    /\ Goes(p, "bridged")
    /\ UNCHANGED <<fd, link, daemon, fileVars, sock, unseen>>

\* The grace timer expires with nobody registered; its callback ends the app,
\* whoever came in between.
GraceExpires(d) ==
    /\ daemon[d] = "serving"
    /\ \A p \in Proxy : ~(At(p, "bridged") /\ link[p] = d)
    /\ Moves(d, "expired")
    /\ UNCHANGED <<procVars, fileVars, sock, unseen>>

\* It removes the socket file and the pid file, be they of another daemon.
RemoveSocket(d) ==
    /\ daemon[d] = "expired"
    /\ Moves(d, "unlinked")
    /\ sock' = None
    /\ UNCHANGED <<procVars, fileVars, unseen>>

RemovePid(d) ==
    /\ daemon[d] = "unlinked"
    /\ Moves(d, "dead")
    /\ file' = 0
    /\ pid' = None
    /\ UNCHANGED <<procVars, files, sock, unseen>>

\* A crash leaves the files.
Crash(d) ==
    /\ d \in Alive
    /\ Moves(d, "dead")
    /\ UNCHANGED <<procVars, fileVars, sock, unseen>>

-----------------------------------------------------------------------------
ProxyStep(p) ==
    \/ Lock(p) \/ Reuse(p) \/ StartOne(p) \/ Spawn(p)
    \/ SocketAppears(p) \/ WaitTimesOut(p) \/ Connect(p)

DaemonStep(d) ==
    ClearSocket(d) \/ Bind(d) \/ WritePid(d) \/ RemoveSocket(d) \/ RemovePid(d)

Next == \E p \in Proxy :
    \/ Open(p) \/ ProxyStep(p) \/ ProxyEnds(p) \/ Register(p)
    \/ DaemonStep(p) \/ GraceExpires(p) \/ Crash(p)

Spec == Init /\ [][Next]_vars

-----------------------------------------------------------------------------
\* Properties.

\* Types; a pid is in a file.
StartupTypeOK ==
    /\ proxy \in [Proxy -> {"new", "opened", "locked", "clearing", "waiting",
                            "ready", "connected", "bridged", "failed", "ended"}]
    /\ fd \in [Proxy -> 0..MaxFiles]
    /\ link \in [Proxy -> Proxy \cup {None}]
    /\ daemon \in [Proxy -> {"none", "spawned", "cleared", "bound", "serving",
                             "expired", "unlinked", "dead"}]
    /\ file \in 0..MaxFiles
    /\ files \in file..MaxFiles
    /\ pid \in Proxy \cup {None}
    /\ file = 0 => pid = None
    /\ sock \in Proxy \cup {None}
    /\ unseen \subseteq Proxy

\* proxy.rs: "If two tabs SSH in at the same time ... only one will succeed in
\* forking a daemon".  Of the proxies that still run at most one has forked a daemon
\* that lives.
OneForks == \A p, q \in Alive \ Over : p = q

\* The first proxy to miss a daemon had locked another pid file than the proxy
\* that started that daemon, an older one being unlinked in between; or the
\* daemon had yet to write its pid, and its proxy held the lock no more.
MissesOnlyInWindows ==
    [][\A p \in Proxy : unseen = {} /\ p \in unseen' =>
          \A q \in Alive \cup Starting :
             \/ fd[q] # fd[p]
             \/ q \notin Starting /\ daemon[q] \in {"spawned", "cleared", "bound"}]_vars
=============================================================================
