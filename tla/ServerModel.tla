---------------------------- MODULE ServerModel ----------------------------
(***************************************************************************)
(* The daemon: the connections of the proxies with their reader and writer *)
(* tasks, the requests it works on, the buffers it holds for them, and the *)
(* grace timer that ends it when nobody is connected.  Closures run on the *)
(* main thread one at a time; tasks and futures run beside it, and what    *)
(* they report is handled later.                                           *)
(***************************************************************************)
EXTENDS ServerBufferTracker

CONSTANT Kind   \* what each request asks for

Kinds == {"work", "file", "open", "save"}

ASSUME KindAssumption == Kind \in [Request -> Kinds]

VARIABLES
    conn,        \* the phase of each connection, "new" before and "gone" after
    reader,      \* its reader task
    writer,      \* its writer loop
    heard,       \* the first message each connection was sent that is no error
    req,         \* each request: its connection and what became of it
    in_progress, \* in_progress of each connection
    replies,     \* answers sent to each request
    grace,       \* the grace timer whose handle the model holds
    stray,       \* the callback of an expired timer waits, its handle is gone
    app          \* the process

connVars == <<conn, reader, writer>>
sendVars == <<heard, replies>>
reqVars  == <<req, in_progress>>
appVars  == <<grace, stray, app>>
vars == <<trackerVars, connVars, sendVars, reqVars, appVars>>

Registered == {c \in Conn : conn[c] \in {"awaiting", "ready"}}
Made(c)    == {r \in Request : req[r].conn = c}

Init ==
    /\ TrackerInit
    /\ conn = [c \in Conn |-> "new"]
    /\ reader = [c \in Conn |-> "none"]
    /\ writer = [c \in Conn |-> "none"]
    /\ heard = [c \in Conn |-> "nothing"]
    /\ req = [r \in Request |-> [st |-> "unused", conn |-> NoConn]]
    /\ in_progress = [c \in Conn |-> {}]
    /\ replies = [r \in Request |-> 0]
    /\ grace = "armed"
    /\ stray = FALSE
    /\ app = "running"

Alive == app # "terminated"

-----------------------------------------------------------------------------
\* Helpers: state of a request, answers, the timer.

Becomes(r, st) == req' = [req EXCEPT ![r].st = st]

\* What an open becomes that the tracker drops without an answer.
Left(r) == IF r \in waiters \ waiters' THEN [req[r] EXCEPT !.st = "forgotten"]
           ELSE req[r]

\* send_server_message of an error or an answer to the connections in to.
Hear(to) == heard' = [c \in Conn |-> IF c \in to /\ heard[c] = "nothing"
                                    THEN "error" ELSE heard[c]]

\* Mutant: answers go to connections past their handshake only.
AnswerReady(S) ==
    LET told == {r \in S : req'[r].conn \in Conn /\ conn[req'[r].conn] = "ready"} IN
    /\ replies' = [r \in Request |-> IF r \in told THEN replies[r] + 1
                                     ELSE replies[r]]
    /\ Hear({req'[r].conn : r \in told})

\* The requests in S are answered on the connections that are still registered;
\* the others are not told.  An open that leaves the tracker gets no answer.
Answer(S) ==
    LET told == {r \in S : req'[r].conn \in Registered} IN
    /\ replies' = [r \in Request |-> IF r \in told THEN replies[r] + 1
                                     ELSE replies[r]]
    /\ Hear({req'[r].conn : r \in told})

\* Taking the handle aborts the timer, unless it expired before.
TakeTimer == stray' = (stray \/ grace = "expired")

StartGraceTimer == TakeTimer /\ grace' = "armed"

-----------------------------------------------------------------------------
\* Connections.

\* Mutant: the timer keeps running.
RegisterKeepsTimer(c) ==
    /\ Alive
    /\ conn[c] = "new"
    /\ conn' = [conn EXCEPT ![c] = "awaiting"]
    /\ reader' = [reader EXCEPT ![c] = "running"]
    /\ writer' = [writer EXCEPT ![c] = "running"]
    /\ UNCHANGED <<trackerVars, sendVars, reqVars, appVars>>

\* The task of an accepted connection: register_connection, then its reader task
\* is spawned and its writer loop begins.
Register(c) ==
    /\ Alive
    /\ conn[c] = "new"
    /\ conn' = [conn EXCEPT ![c] = "awaiting"]
    /\ reader' = [reader EXCEPT ![c] = "running"]
    /\ writer' = [writer EXCEPT ![c] = "running"]
    /\ TakeTimer
    /\ grace' = "none"
    /\ UNCHANGED <<trackerVars, sendVars, reqVars, app>>

\* ConnectionState goes: every request it still tracks is aborted.  Opens that
\* leave the tracker are forgotten.
AbortAll(c) ==
    /\ req' = [r \in Request |->
                 IF r \in in_progress[c] /\ req[r].st = "running"
                 THEN [req[r] EXCEPT !.st = "aborted"]
                 ELSE Left(r)]
    /\ in_progress' = [in_progress EXCEPT ![c] = {}]

\* Mutant: the lease and the queue of the connection are left behind.
DropConnectionOnly(c) ==
    IF c \in Registered
    THEN /\ conn' = [conn EXCEPT ![c] = "gone"]
         /\ UNCHANGED <<app, trackerVars>>
         /\ AbortAll(c)
         /\ IF Registered = {c} THEN StartGraceTimer ELSE UNCHANGED <<grace, stray>>
    ELSE UNCHANGED <<conn, trackerVars, reqVars, appVars>>

\* Mutant: the requests of the connection run on.
DropWithoutAborts(c) ==
    IF c \in Registered
    THEN /\ conn' = [conn EXCEPT ![c] = "gone"]
         /\ in_progress' = [in_progress EXCEPT ![c] = {}]
         /\ RemoveConnection(c, Made(c))
         /\ IF Registered = {c} THEN StartGraceTimer ELSE UNCHANGED <<grace, stray>>
         /\ UNCHANGED <<app, req>>
    ELSE UNCHANGED <<conn, trackerVars, reqVars, appVars>>

\* Mutant: no timer is started.
DropWithoutTimer(c) ==
    IF c \in Registered
    THEN /\ conn' = [conn EXCEPT ![c] = "gone"]
         /\ RemoveConnection(c, Made(c))
         /\ AbortAll(c)
         /\ UNCHANGED appVars
    ELSE UNCHANGED <<conn, trackerVars, reqVars, appVars>>

\* deregister_connection, by whichever of the two tasks comes first.
Deregister(c) ==
    IF c \in Registered
    THEN /\ conn' = [conn EXCEPT ![c] = "gone"]
         /\ RemoveConnection(c, Made(c))
         /\ AbortAll(c)
         /\ IF Registered = {c} THEN StartGraceTimer ELSE UNCHANGED <<grace, stray>>
         /\ UNCHANGED app
    ELSE UNCHANGED <<conn, trackerVars, reqVars, appVars>>

\* End of the stream or a fatal read error: the reader deregisters.
ReaderEnds(c) ==
    /\ Alive
    /\ reader[c] = "running"
    /\ reader' = [reader EXCEPT ![c] = "ended"]
    /\ Deregister(c)
    /\ UNCHANGED <<writer, sendVars>>

\* A write or a flush fails, be it because the message is too large.  The loop
\* has no other end: the handler holds a sender of the channel it drains.
WriterEnds(c) ==
    /\ Alive
    /\ writer[c] = "running"
    /\ heard[c] # "nothing"
    /\ writer' = [writer EXCEPT ![c] = "ended"]
    /\ Deregister(c)
    /\ UNCHANGED <<reader, sendVars>>

-----------------------------------------------------------------------------
\* handle_message: the reader hands messages over one at a time.

Hears(c) == Alive /\ reader[c] = "running"

\* handle_initialize, of the right revision.
Initialize(c) ==
    /\ Hears(c)
    /\ conn[c] = "awaiting"
    /\ conn' = [conn EXCEPT ![c] = "ready"]
    /\ heard' = [heard EXCEPT ![c] = IF @ = "push" THEN @ ELSE "hello"]
    /\ UNCHANGED <<trackerVars, reader, writer, replies, reqVars, appVars>>

\* An Initialize of another revision, or a second one: an error, no more.
InitializeRejected(c) ==
    /\ Hears(c)
    /\ c \in Registered
    /\ Hear({c})
    /\ UNCHANGED <<trackerVars, connVars, replies, reqVars, appVars>>

\* The client numbers its requests afresh: no id comes twice.
Arrives(c, r, st) ==
    /\ Hears(c)
    /\ req[r].st = "unused"
    /\ req' = [req EXCEPT ![r] = [st |-> st, conn |-> c]]
    /\ UNCHANGED <<connVars, appVars>>

\* A business message before Initialize gets an error.
RequestRefused(c, r) ==
    /\ conn[c] = "awaiting"
    /\ Arrives(c, r, "done")
    /\ Answer({r})
    /\ UNCHANGED <<trackerVars, in_progress>>

\* The writer loop has deregistered the connection the reader still serves.
RequestIgnored(c, r) ==
    /\ conn[c] = "gone"
    /\ Arrives(c, r, "ignored")
    /\ UNCHANGED <<trackerVars, in_progress, sendVars>>

\* HandlerOutcome::Sync: a handler that has its answer, or fails, at once.
AnswerSync(c, r) ==
    /\ conn[c] = "ready"
    /\ Kind[r] \in {"work", "file"}
    /\ Arrives(c, r, "done")
    /\ Answer({r})
    /\ UNCHANGED <<trackerVars, in_progress>>

\* spawn_request_handler and register_in_progress_request.
StartWork(c, r) ==
    /\ conn[c] = "ready"
    /\ Kind[r] = "work"
    /\ Arrives(c, r, "running")
    /\ in_progress' = [in_progress EXCEPT ![c] = @ \cup {r}]
    /\ UNCHANGED <<trackerVars, sendVars>>

\* handle_write_file, handle_delete_file: pending_file_ops, no handle.
StartFileOp(c, r) ==
    /\ conn[c] = "ready"
    /\ Kind[r] = "file"
    /\ Arrives(c, r, "fileop")
    /\ UNCHANGED <<trackerVars, in_progress, sendVars>>

OpenBuffer(c, r) ==
    /\ conn[c] = "ready"
    /\ Kind[r] = "open"
    /\ \/ /\ OpenNew(c, r) \/ (OpenAgain(c, r) /\ ~loaded)
          /\ Arrives(c, r, "opening")
          /\ UNCHANGED sendVars
       \/ /\ OpenAgain(c, r) /\ loaded
          /\ Arrives(c, r, "done")
          /\ Answer({r})
       \/ /\ file # 0 /\ ~MayOpen(c)
          /\ Arrives(c, r, "done")
          /\ Answer({r})
          /\ UNCHANGED trackerVars
    /\ UNCHANGED in_progress

SaveBuffer(c, r) ==
    /\ conn[c] = "ready"
    /\ Kind[r] = "save"
    /\ \/ /\ MayWrite(c)
          /\ EnqueueFirst(r) \/ EnqueueNext(r)
          /\ Arrives(c, r, "saving")
          /\ UNCHANGED sendVars
       \/ /\ MayWrite(c)
          /\ EnqueueFails
          /\ Arrives(c, r, "done")
          /\ Answer({r})
       \/ /\ ~MayWrite(c)
          /\ Arrives(c, r, "done")
          /\ Answer({r})
          /\ UNCHANGED trackerVars
    /\ UNCHANGED in_progress

CloseBuffer(c) ==
    /\ Hears(c)
    /\ conn[c] = "ready"
    /\ Close(c)
    /\ req' = [r \in Request |-> Left(r)]
    /\ UNCHANGED <<connVars, sendVars, in_progress, appVars>>

\* handle_abort.  A handle whose future resolved before cannot stop it.
Abort(c, r) ==
    /\ Hears(c)
    /\ conn[c] = "ready"
    /\ r \in in_progress[c]
    /\ in_progress' = [in_progress EXCEPT ![c] = @ \ {r}]
    /\ IF req[r].st = "running" THEN Becomes(r, "aborted") ELSE UNCHANGED req
    /\ UNCHANGED <<trackerVars, connVars, sendVars, appVars>>

-----------------------------------------------------------------------------
\* What requests wait for.

FutureResolves(r) ==
    /\ Alive
    /\ req[r].st = "running"
    /\ Becomes(r, "resolved")
    /\ UNCHANGED <<trackerVars, connVars, sendVars, in_progress, appVars>>

\* on_resolve: remove_in_progress_request, then the answer.
Respond(r) ==
    /\ Alive
    /\ req[r].st = "resolved"
    /\ Becomes(r, "done")
    /\ in_progress' = [in_progress EXCEPT ![req[r].conn] = @ \ {r}]
    /\ Answer({r})
    /\ UNCHANGED <<trackerVars, connVars, appVars>>

FileOpReported(r) ==
    /\ Alive
    /\ req[r].st = "fileop"
    /\ Becomes(r, "done")
    /\ Answer({r})
    /\ UNCHANGED <<trackerVars, connVars, in_progress, appVars>>

Finish(S) ==
    /\ req' = [r \in Request |-> IF r \in S THEN [req[r] EXCEPT !.st = "done"]
                                 ELSE Left(r)]
    /\ Answer(S)
    /\ UNCHANGED <<connVars, in_progress, appVars>>

BufferLoaded == Alive /\ Load /\ Finish(waiters)

Mutations == queued \cup ({active} \ {NoRequest})

FailedToLoad == Alive /\ LoadFails /\ Finish(waiters \cup Mutations)

\* The active mutation is answered, and those that cannot be started after it.
SaveReported ==
    \E s \in saving, failed \in SUBSET queued :
        /\ Alive
        /\ Complete(s, failed)
        /\ Finish({active} \cup failed)

LateReport ==
    /\ Alive
    /\ \E s \in saving : ReportIgnored(s)
    /\ UNCHANGED <<connVars, sendVars, reqVars, appVars>>

-----------------------------------------------------------------------------
\* Events of the daemon itself.

Push(to) == heard' = [c \in Conn |-> IF c \in to /\ heard[c] # "hello"
                                    THEN "push" ELSE heard[c]]

\* Mutant: a broadcast goes to every connection that is registered.
BroadcastToAll ==
    /\ Alive
    /\ Registered # {}
    /\ Push(Registered)
    /\ UNCHANGED <<trackerVars, connVars, replies, reqVars, appVars>>

\* A repository changed: every connection past its handshake is told.
Broadcast ==
    LET to == {c \in Conn : conn[c] = "ready"} IN
    /\ Alive
    /\ to # {}
    /\ Push(to)
    /\ UNCHANGED <<trackerVars, connVars, replies, reqVars, appVars>>

\* The timer's future resolves beside the main thread, which runs the callback
\* later; the callback posts the Terminate event, taken after what came before.
TimerExpires ==
    /\ Alive
    /\ grace = "armed"
    /\ grace' = "expired"
    /\ UNCHANGED <<trackerVars, connVars, sendVars, reqVars, stray, app>>

TimerCallback ==
    /\ app = "running"
    /\ \/ grace = "expired" /\ grace' = "spent" /\ UNCHANGED stray
       \/ stray /\ stray' = FALSE /\ UNCHANGED grace
    /\ app' = "terminating"
    /\ UNCHANGED <<trackerVars, connVars, sendVars, reqVars>>

Terminate ==
    /\ app = "terminating"
    /\ app' = "terminated"
    /\ UNCHANGED <<trackerVars, connVars, sendVars, reqVars, grace, stray>>

-----------------------------------------------------------------------------
Message(c) ==
    \/ Initialize(c) \/ InitializeRejected(c) \/ CloseBuffer(c)
    \/ \E r \in Request :
         \/ RequestRefused(c, r) \/ RequestIgnored(c, r)
         \/ AnswerSync(c, r) \/ StartWork(c, r) \/ StartFileOp(c, r)
         \/ OpenBuffer(c, r) \/ SaveBuffer(c, r) \/ Abort(c, r)

Loads  == BufferLoaded \/ FailedToLoad
Saves  == SaveReported \/ LateReport

Next ==
    \/ \E c \in Conn :
         Register(c) \/ ReaderEnds(c) \/ WriterEnds(c) \/ Message(c)
    \/ \E r \in Request : FutureResolves(r) \/ Respond(r) \/ FileOpReported(r)
    \/ Loads \/ Saves \/ Broadcast
    \/ TimerExpires \/ TimerCallback \/ Terminate

\* The main thread runs what is queued, tasks and the file system report, the
\* timer expires; proxies may do anything or nothing.
Fairness ==
    /\ \A r \in Request :
         WF_vars(FutureResolves(r)) /\ WF_vars(Respond(r)) /\ WF_vars(FileOpReported(r))
    /\ WF_vars(Loads) /\ WF_vars(Saves)
    /\ WF_vars(TimerExpires) /\ WF_vars(TimerCallback) /\ WF_vars(Terminate)

Spec     == Init /\ [][Next]_vars
FairSpec == Spec /\ Fairness

-----------------------------------------------------------------------------
\* Properties.

ReqState == {"unused", "running", "resolved", "aborted", "fileop", "opening",
             "saving", "forgotten", "ignored", "done"}

ServerTypeOK ==
    /\ TrackerTypeOK
    /\ conn \in [Conn -> {"new", "awaiting", "ready", "gone"}]
    /\ reader \in [Conn -> {"none", "running", "ended"}]
    /\ writer \in [Conn -> {"none", "running", "ended"}]
    /\ heard \in [Conn -> {"nothing", "error", "hello", "push"}]
    /\ req \in [Request -> [st : ReqState, conn : Conn \cup {NoConn}]]
    /\ in_progress \in [Conn -> SUBSET Request]
    /\ replies \in [Request -> Nat]
    /\ grace \in {"none", "armed", "expired", "spent"}
    /\ stray \in BOOLEAN
    /\ app \in {"running", "terminating", "terminated"}

At(r) == IF req[r].conn \in Conn THEN conn[req[r].conn] ELSE "new"

\* Nothing but errors goes out on a connection before its InitializeResponse: no
\* push, and no work for its requests (validate_connection_message, 901-919;
\* send_server_message, 1180-1183).
HandshakeFirst ==
    /\ \A c \in Conn : heard[c] # "push"
    /\ \A r \in Request :
         req[r].st \notin {"unused", "done", "ignored"} => heard[req[r].conn] = "hello"

\* A running future can be aborted as long as it runs, by its connection alone:
\* in_progress of a ready connection has it, and goes with the connection
\* ("no business request can outlive its handshake", 486-487).
RunningIsTracked ==
    /\ \A r \in Request :
         req[r].st = "running" => At(r) = "ready" /\ r \in in_progress[req[r].conn]
    /\ \A c \in Conn : \A r \in in_progress[c] :
         conn[c] = "ready" /\ req[r].conn = c /\ req[r].st \in {"running", "resolved"}

\* A request is answered once, on the connection that made it, or that
\* connection was gone when its answer was due.  An open that CloseBuffer drops
\* with the buffer is never answered, on a live connection either.
AnsweredOnce ==
    \A r \in Request :
        /\ replies[r] <= 1
        /\ replies[r] = 1 => req[r].st = "done"
        /\ req[r].st = "done" /\ At(r) \in {"awaiting", "ready"} => replies[r] = 1

\* What a connection that is still there waits for is in the tables of the
\* tracker, also when the file changed hands or the buffer failed to load.
OwedIsHeld ==
    \A r \in Request : At(r) = "ready" =>
        /\ req[r].st = "opening" => r \in waiters
        /\ req[r].st = "saving"  => r \in Mutations

\* The writer of a buffer is connected, and a buffer is kept only for a writer
\* or for mutations under way: none outlives both, however its owner left.
BuffersHaveReason ==
    /\ owner # NoConn => file # 0 /\ conn[owner] = "ready"
    /\ file # 0 => owner # NoConn \/ active # NoRequest
    /\ file = 0 => waiters = {}
    /\ file = 0 \/ active = NoRequest => Mutations = {}

\* The active mutation, and nothing else of the buffer, is with the file system:
\* so the next report on the file is the report on it.
ActiveIsSaving ==
    {s.id : s \in {t \in saving : t.file = file}} = {active} \ {NoRequest}

\* The model holds a timer exactly while nobody is connected.
TimerWhileIdle == grace = "none" <=> Registered # {}

\* A daemon that stays without connections ends.
IdleDaemonEnds == <>[](Registered = {}) => <>(app = "terminated")

\* Every request comes to its end or its connection does.
RequestsEnd ==
    \A r \in Request :
        req[r].st \in {"running", "resolved", "fileop", "opening", "saving"}
            ~> \/ req[r].st \in {"done", "aborted", "forgotten"}
               \/ At(r) = "gone" \/ app = "terminated"
=============================================================================
