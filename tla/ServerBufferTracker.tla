------------------------ MODULE ServerBufferTracker ------------------------
(***************************************************************************)
(* The daemon's table of open buffers, for one path: which connection may  *)
(* write it, who waits for it to load, and the saves and conflict          *)
(* resolutions in order, of which the active one alone is with the file    *)
(* system.  Each action gives the effect on the tables; the answers are    *)
(* ServerModel's.                                                          *)
(***************************************************************************)
EXTENDS Naturals

CONSTANTS Conn,      \* connection ids
          Request,   \* request ids
          NoConn,
          NoRequest,
          MaxOpens   \* bound on the file ids given to the path

ASSUME TrackerAssumption ==
    NoConn \notin Conn /\ NoRequest \notin Request /\ MaxOpens \in Nat

VARIABLES
    file,       \* open_buffers, buffer_handles: the file id of the path, or 0
    opens,      \* file ids given out so far
    loaded,     \* the text of the buffer is there
    owner,      \* writer_connections
    waiters,    \* pending_open_requests
    active,     \* mutation_queues: the active mutation
    queued,     \* the mutations that wait
    ahead,      \* what was in the queue when each of them came
    saving      \* saves the file system has not reported on: file id, request

mutationVars == <<active, queued, ahead>>
trackerVars  == <<file, opens, loaded, owner, waiters, mutationVars, saving>>

TrackerInit ==
    /\ file = 0
    /\ opens = 0
    /\ loaded = FALSE
    /\ owner = NoConn
    /\ waiters = {}
    /\ active = NoRequest
    /\ queued = {}
    /\ ahead = [r \in Request |-> {}]
    /\ saving = {}

-----------------------------------------------------------------------------
\* The path leaves the tables: the next open gets a file id of its own.
Forget ==
    /\ file' = 0
    /\ loaded' = FALSE
    /\ owner' = NoConn
    /\ waiters' = {}
    /\ active' = NoRequest
    /\ queued' = {}

\* Mutant: a buffer without a writer goes away whatever it still has to save.
CleanupAtOnce(ws, a, q) == Forget

\* cleanup_orphaned_if_idle: nobody may write, ws wait, a is active and q queued.
CleanupIfIdle(ws, a, q) ==
    IF a = NoRequest
    THEN Forget
    ELSE /\ owner' = NoConn
         /\ waiters' = ws
         /\ active' = a
         /\ queued' = q
         /\ UNCHANGED <<file, loaded>>

-----------------------------------------------------------------------------
\* handle_open_buffer.  The lease goes to the first that asks, and stays.
MayOpen(c) == owner \in {NoConn, c}

OpenNew(c, r) ==
    /\ file = 0
    /\ opens < MaxOpens
    /\ opens' = opens + 1
    /\ file' = opens + 1
    /\ owner' = c
    /\ waiters' = {r}
    /\ UNCHANGED <<loaded, mutationVars, saving>>

OpenAgain(c, r) ==
    /\ file # 0
    /\ MayOpen(c)
    /\ owner' = c
    /\ waiters' = IF loaded THEN waiters ELSE waiters \cup {r}
    /\ UNCHANGED <<file, opens, loaded, mutationVars, saving>>

\* BufferLoaded: all that wait are answered.
Load ==
    /\ file # 0
    /\ ~loaded
    /\ loaded' = TRUE
    /\ waiters' = {}
    /\ UNCHANGED <<file, opens, owner, mutationVars, saving>>

\* FailedToLoad: fail_open_buffer and gbm.remove.
LoadFails ==
    /\ file # 0
    /\ ~loaded
    /\ Forget
    /\ UNCHANGED <<opens, ahead, saving>>

\* close_buffer: the owner lets go.
Close(c) ==
    /\ file # 0
    /\ owner = c
    /\ CleanupIfIdle(waiters, active, queued)
    /\ UNCHANGED <<opens, ahead, saving>>

\* remove_connection, for the requests that c made: the active mutation stays.
RemoveConnection(c, made) ==
    LET ws == waiters \ made
        q  == queued \ made IN
    /\ IF owner = c
       THEN CleanupIfIdle(ws, active, q)
       ELSE /\ waiters' = ws
            /\ queued' = q
            /\ UNCHANGED <<file, loaded, owner, active>>
    /\ UNCHANGED <<opens, ahead, saving>>

-----------------------------------------------------------------------------
\* start_active_buffer_mutation: nothing is left to start, or r is started
\* while the file system works on busy, and q waits behind it.
StartNothing(busy) ==
    /\ saving' = busy
    /\ IF owner = NoConn
       THEN CleanupIfIdle(waiters, NoRequest, {})
       ELSE /\ active' = NoRequest
            /\ queued' = {}
            /\ UNCHANGED <<file, loaded, owner, waiters>>

Start(r, q, busy) ==
    /\ saving' = busy \cup {[file |-> file, id |-> r]}
    /\ active' = r
    /\ queued' = q
    /\ UNCHANGED <<file, loaded, owner, waiters>>

\* require_writer, for handle_save_buffer and handle_resolve_conflict.
MayWrite(c) == file # 0 /\ owner = c

\* Mutant: the first mutation of the queue is not started.
EnqueueUnstarted(r) ==
    /\ active = NoRequest
    /\ active' = r
    /\ UNCHANGED <<file, opens, loaded, owner, waiters, queued, ahead, saving>>

\* enqueue_mutation: r becomes active and is started, or cannot be started.
EnqueueFirst(r) ==
    /\ active = NoRequest
    /\ Start(r, {}, saving)
    /\ UNCHANGED <<opens, ahead>>

EnqueueFails ==
    /\ active = NoRequest
    /\ StartNothing(saving)
    /\ UNCHANGED <<opens, ahead>>

EnqueueNext(r) ==
    /\ active # NoRequest
    /\ queued' = queued \cup {r}
    /\ ahead' = [ahead EXCEPT ![r] = queued]
    /\ UNCHANGED <<file, opens, loaded, owner, waiters, active, saving>>

\* The first in the queue, some number of them.
Fronts == {F \in SUBSET queued : \A r \in F : ahead[r] \cap queued \subseteq F}

\* Mutant: the active mutation is answered and the next is not started.
CompleteOnly(s, failed) ==
    /\ s \in saving
    /\ s.file = file
    /\ active # NoRequest
    /\ failed = {}
    /\ \/ queued = {} /\ active' = NoRequest /\ UNCHANGED queued
       \/ \E r \in queued : active' = r /\ queued' = queued \ {r}
    /\ saving' = saving \ {s}
    /\ UNCHANGED <<file, opens, loaded, owner, waiters, ahead>>

\* FileSaved, FailedToSave: complete_active_buffer_mutation.  The mutations in
\* failed, at the front, cannot be started; the one behind them is active.
Complete(s, failed) ==
    LET rest == queued \ failed IN
    /\ s \in saving
    /\ s.file = file
    /\ active # NoRequest
    /\ failed \in Fronts
    /\ \/ rest = {} /\ StartNothing(saving \ {s})
       \/ \E r \in rest : /\ ahead[r] \cap rest = {}
                          /\ Start(r, rest \ {r}, saving \ {s})
    /\ UNCHANGED <<opens, ahead>>

\* A report on a file id the tables no longer know.
ReportIgnored(s) ==
    /\ s \in saving
    /\ s.file # file \/ active = NoRequest
    /\ saving' = saving \ {s}
    /\ UNCHANGED <<file, opens, loaded, owner, waiters, mutationVars>>

-----------------------------------------------------------------------------
TrackerTypeOK ==
    /\ file \in 0..MaxOpens
    /\ opens \in 0..MaxOpens
    /\ loaded \in BOOLEAN
    /\ owner \in Conn \cup {NoConn}
    /\ waiters \subseteq Request
    /\ active \in Request \cup {NoRequest}
    /\ queued \subseteq Request
    /\ ahead \in [Request -> SUBSET Request]
    /\ saving \subseteq [file : 1..MaxOpens, id : Request]
=============================================================================
