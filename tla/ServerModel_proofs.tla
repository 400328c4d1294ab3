------------------------- MODULE ServerModel_proofs -------------------------
(***************************************************************************)
(* Proofs about ServerModel, for any number of connections, requests and   *)
(* file ids.                                                               *)
(***************************************************************************)
EXTENDS ServerModel, TLAPS

\* The mutations of the present file id: the active one alone is with the file
\* system.  File ids are given out in order, so a new one has no report pending.
SavesInOrder ==
    /\ file <= opens
    /\ \A s \in saving : s.file <= opens
    /\ \A s \in saving : s.file = file => s.id = active
    /\ active # NoRequest => [file |-> file, id |-> active] \in saving

\* What the tables say of one another.
TableShape ==
    /\ active \notin queued
    /\ file = 0 => waiters = {} /\ owner = NoConn /\ active = NoRequest
    /\ file # 0 => owner # NoConn \/ active # NoRequest
    /\ active = NoRequest => queued = {}

TrackerInv == TrackerTypeOK /\ SavesInOrder /\ TableShape

\* A connection is served once it is registered, and is ready after its
\* InitializeResponse.
ConnectionsInOrder ==
    \A c \in Conn :
        /\ conn[c] = "new" => reader[c] = "none" /\ writer[c] = "none"
        /\ conn[c] = "ready" => heard[c] = "hello"

\* A request belongs to a connection that was registered, and is worked on if
\* that connection was ready.
RequestsInOrder ==
    \A r \in Request : req[r].st # "unused" =>
        /\ req[r].conn \in Conn
        /\ conn[req[r].conn] # "new"
        /\ \/ req[r].st \in {"done", "ignored"}
           \/ conn[req[r].conn] \in {"ready", "gone"}

\* The tables of the tracker hold requests that are in that state.
TablesInOrder ==
    /\ \A r \in waiters : req[r].st = "opening"
    /\ \A r \in Mutations : req[r].st = "saving"

\* The writer of the buffer is connected.
WriterConnected == owner # NoConn => conn[owner] = "ready"

ServerInv ==
    /\ ServerTypeOK
    /\ TrackerInv
    /\ ConnectionsInOrder
    /\ RequestsInOrder
    /\ TablesInOrder
    /\ HandshakeFirst
    /\ RunningIsTracked
    /\ AnsweredOnce
    /\ OwedIsHeld
    /\ WriterConnected
    /\ TimerWhileIdle

-----------------------------------------------------------------------------
\* The tracker.

LEMMA OpenNewKeeps ==
    ASSUME NEW c \in Conn, NEW r \in Request, TrackerInv, OpenNew(c, r)
    PROVE  TrackerInv'
<1>1. TrackerTypeOK'
  BY TrackerAssumption DEF TrackerInv, TrackerTypeOK, OpenNew, mutationVars
<1>2. SavesInOrder'
  BY DEF TrackerInv, SavesInOrder, OpenNew, mutationVars, TrackerTypeOK
<1>3. TableShape'
  BY TrackerAssumption DEF TrackerInv, TableShape, OpenNew, mutationVars,
     TrackerTypeOK
<1>4. QED
  BY <1>1, <1>2, <1>3 DEF TrackerInv

LEMMA OpenAgainKeeps ==
    ASSUME NEW c \in Conn, NEW r \in Request, TrackerInv, OpenAgain(c, r)
    PROVE  TrackerInv'
<1>1. TrackerTypeOK'
  BY DEF TrackerInv, TrackerTypeOK, OpenAgain, mutationVars
<1>2. SavesInOrder'
  BY DEF TrackerInv, SavesInOrder, OpenAgain, mutationVars
<1>3. TableShape'
  BY DEF TrackerInv, TableShape, OpenAgain, MayOpen, mutationVars
<1>4. QED
  BY <1>1, <1>2, <1>3 DEF TrackerInv

LEMMA LoadKeeps ==
    ASSUME TrackerInv, Load
    PROVE  TrackerInv'
<1>1. TrackerTypeOK'
  BY DEF TrackerInv, TrackerTypeOK, Load, mutationVars
<1>2. SavesInOrder'
  BY DEF TrackerInv, SavesInOrder, Load, mutationVars
<1>3. TableShape'
  BY DEF TrackerInv, TableShape, Load, mutationVars
<1>4. QED
  BY <1>1, <1>2, <1>3 DEF TrackerInv

LEMMA LoadFailsKeeps ==
    ASSUME TrackerInv, LoadFails
    PROVE  TrackerInv'
<1>1. TrackerTypeOK'
  <2>1. loaded' \in BOOLEAN
    BY DEF TrackerInv, TrackerTypeOK, LoadFails, Forget
  <2>2. QED
    BY <2>1, TrackerAssumption DEF TrackerInv, TrackerTypeOK, LoadFails, Forget
<1>2. SavesInOrder'
  BY DEF TrackerInv, SavesInOrder, LoadFails, Forget, TrackerTypeOK
<1>3. TableShape'
  BY DEF TableShape, LoadFails, Forget
<1>4. QED
  BY <1>1, <1>2, <1>3 DEF TrackerInv

LEMMA CloseKeeps ==
    ASSUME NEW c \in Conn, TrackerInv, Close(c)
    PROVE  TrackerInv'
<1>1. TrackerTypeOK'
  <2>1. loaded' \in BOOLEAN
    BY DEF TrackerInv, TrackerTypeOK, Close, Forget, CleanupIfIdle
  <2>2. QED
    BY <2>1, TrackerAssumption DEF TrackerInv, TrackerTypeOK, Close, Forget, CleanupIfIdle
<1>2. SavesInOrder'
  BY DEF TrackerInv, SavesInOrder, Close, CleanupIfIdle, Forget, TrackerTypeOK
<1>3. TableShape'
  BY DEF TrackerInv, TableShape, Close, CleanupIfIdle, Forget
<1>4. QED
  BY <1>1, <1>2, <1>3 DEF TrackerInv

LEMMA RemoveConnectionKeeps ==
    ASSUME NEW c \in Conn, NEW made, TrackerInv, RemoveConnection(c, made)
    PROVE  TrackerInv'
<1>1. TrackerTypeOK'
  <2>1. loaded' \in BOOLEAN
    BY DEF TrackerInv, TrackerTypeOK, RemoveConnection, CleanupIfIdle, Forget
  <2>2. QED
    BY <2>1, TrackerAssumption DEF TrackerInv, TrackerTypeOK, RemoveConnection,
       CleanupIfIdle, Forget
<1>2. SavesInOrder'
  BY DEF TrackerInv, SavesInOrder, RemoveConnection, CleanupIfIdle, Forget,
     TrackerTypeOK
<1>3. TableShape'
  BY DEF TrackerInv, TableShape, RemoveConnection, CleanupIfIdle, Forget
<1>4. QED
  BY <1>1, <1>2, <1>3 DEF TrackerInv

LEMMA EnqueueFirstKeeps ==
    ASSUME NEW r \in Request, TrackerInv, EnqueueFirst(r), file # 0, owner # NoConn
    PROVE  TrackerInv'
<1>1. TrackerTypeOK'
  BY DEF TrackerInv, TrackerTypeOK, EnqueueFirst, Start
<1>2. SavesInOrder'
  BY TrackerAssumption DEF TrackerInv, SavesInOrder, EnqueueFirst, Start,
     TrackerTypeOK
<1>3. TableShape'
  BY DEF TableShape, EnqueueFirst, Start
<1>4. QED
  BY <1>1, <1>2, <1>3 DEF TrackerInv

LEMMA EnqueueFailsKeeps ==
    ASSUME TrackerInv, EnqueueFails, file # 0, owner # NoConn
    PROVE  TrackerInv'
<1>1. TrackerTypeOK'
  BY DEF TrackerInv, TrackerTypeOK, EnqueueFails, StartNothing
<1>2. SavesInOrder'
  BY DEF TrackerInv, SavesInOrder, EnqueueFails, StartNothing
<1>3. TableShape'
  BY DEF TableShape, EnqueueFails, StartNothing
<1>4. QED
  BY <1>1, <1>2, <1>3 DEF TrackerInv

LEMMA EnqueueNextKeeps ==
    ASSUME NEW r \in Request, TrackerInv, EnqueueNext(r), file # 0, r # active
    PROVE  TrackerInv'
<1>1. TrackerTypeOK'
  BY DEF TrackerInv, TrackerTypeOK, EnqueueNext
<1>2. SavesInOrder'
  BY DEF TrackerInv, SavesInOrder, EnqueueNext
<1>3. TableShape'
  BY DEF TrackerInv, TableShape, EnqueueNext
<1>4. QED
  BY <1>1, <1>2, <1>3 DEF TrackerInv

LEMMA CompleteKeeps ==
    ASSUME NEW s, NEW failed, TrackerInv, Complete(s, failed)
    PROVE  TrackerInv'
<1>1. TrackerTypeOK'
  <2>1. loaded' \in BOOLEAN
    BY DEF TrackerInv, TrackerTypeOK, Complete, StartNothing, Start,
       CleanupIfIdle, Forget
  <2>2. saving' \subseteq [file : 1..MaxOpens, id : Request]
    BY TrackerAssumption DEF TrackerInv, TrackerTypeOK, Complete, StartNothing,
       Start
  <2>3. QED
    BY <2>1, <2>2, TrackerAssumption DEF TrackerInv, TrackerTypeOK, Complete,
       StartNothing, Start, CleanupIfIdle, Forget
<1>2. SavesInOrder'
  BY DEF TrackerInv, SavesInOrder, Complete, StartNothing, Start,
     CleanupIfIdle, Forget, TrackerTypeOK
<1>3. TableShape'
  BY TrackerAssumption DEF TrackerInv, TableShape, Complete, StartNothing,
     Start, CleanupIfIdle, Forget, TrackerTypeOK
<1>4. QED
  BY <1>1, <1>2, <1>3 DEF TrackerInv

LEMMA ReportIgnoredKeeps ==
    ASSUME NEW s, TrackerInv, ReportIgnored(s)
    PROVE  TrackerInv'
<1>1. TrackerTypeOK'
  BY DEF TrackerInv, TrackerTypeOK, ReportIgnored, mutationVars
<1>2. SavesInOrder'
  BY DEF TrackerInv, SavesInOrder, ReportIgnored, mutationVars
<1>3. TableShape'
  BY DEF TrackerInv, TableShape, ReportIgnored, mutationVars
<1>4. QED
  BY <1>1, <1>2, <1>3 DEF TrackerInv

-----------------------------------------------------------------------------
\* The connections and their requests.

LEMMA AnswerHears ==
    ASSUME ServerTypeOK, NEW S, Answer(S), NEW c \in Conn
    PROVE  /\ heard[c] # "nothing" => heard'[c] = heard[c]
           /\ heard'[c] = "push" => heard[c] = "push"
  BY DEF ServerTypeOK, Answer, Hear

LEMMA AnswerCounts ==
    ASSUME NEW S, Answer(S), NEW q \in Request
    PROVE  replies'[q] = IF q \in S /\ req'[q].conn \in Registered
                         THEN replies[q] + 1 ELSE replies[q]
  BY DEF Answer

\* Requests are answered in the step in which they become done.
LEMMA AnswersOnce ==
    ASSUME NEW S \in SUBSET Request, ServerTypeOK, AnsweredOnce, Answer(S),
           UNCHANGED conn,
           \A q \in S : req[q].st # "done" /\ req'[q].st = "done",
           \A q \in Request : req'[q].st # "unused" => req'[q].conn \in Conn,
           \A q \in Request \ S :
               /\ req'[q].st = "done" <=> req[q].st = "done"
               /\ req'[q].conn = req[q].conn
    PROVE  AnsweredOnce'
<1> SUFFICES ASSUME NEW q \in Request
             PROVE  /\ replies'[q] <= 1
                    /\ replies'[q] = 1 => req'[q].st = "done"
                    /\ req'[q].st = "done" /\ At(q)' \in {"awaiting", "ready"} =>
                          replies'[q] = 1
  BY DEF AnsweredOnce
<1>1. CASE q \in S
  <2>1. replies[q] \in Nat /\ replies[q] <= 1 /\ replies[q] # 1
    BY <1>1 DEF ServerTypeOK, AnsweredOnce
  <2>2. At(q)' \in {"awaiting", "ready"} <=> req'[q].conn \in Registered
    BY <1>1 DEF At, Registered
  <2>3. QED
    BY <1>1, <2>1, <2>2, AnswerCounts
<1>2. CASE q \notin S
  <2>1. replies'[q] = replies[q] /\ At(q)' = At(q)
    BY <1>2, AnswerCounts DEF At
  <2>2. QED
    BY <1>2, <2>1 DEF AnsweredOnce
<1>3. QED
  BY <1>1, <1>2

LEMMA RegisterPreserves ==
    ASSUME NEW c \in Conn, ServerInv, Register(c)
    PROVE  ServerInv'
<1>1. TrackerInv'
  BY DEF ServerInv, TrackerInv, SavesInOrder, TableShape, TrackerTypeOK,
     Register, trackerVars, mutationVars
<1>2. ServerTypeOK'
  BY <1>1 DEF ServerInv, ServerTypeOK, TrackerInv, Register, TakeTimer,
     sendVars, reqVars
<1>3. ConnectionsInOrder'
  BY DEF ServerInv, ConnectionsInOrder, Register, sendVars, ServerTypeOK
<1>4. RequestsInOrder'
  BY DEF ServerInv, RequestsInOrder, Register, reqVars
<1>5. TablesInOrder'
  BY DEF ServerInv, TablesInOrder, Register, trackerVars, reqVars,
     mutationVars, Mutations
<1>6. HandshakeFirst'
  BY DEF ServerInv, HandshakeFirst, Register, sendVars, reqVars
<1>7. RunningIsTracked'
  BY DEF ServerInv, RunningIsTracked, Register, reqVars, At
<1>8. AnsweredOnce'
  BY DEF ServerInv, AnsweredOnce, Register, sendVars, reqVars, At,
     RequestsInOrder
<1>9. OwedIsHeld'
  BY DEF ServerInv, OwedIsHeld, Register, trackerVars, reqVars, mutationVars,
     At, Mutations
<1>10. WriterConnected'
  BY DEF ServerInv, WriterConnected, Register, trackerVars
<1>11. TimerWhileIdle'
  BY DEF ServerInv, TimerWhileIdle, Register, Registered, ServerTypeOK
<1>12. QED
  BY <1>1, <1>2, <1>3, <1>4, <1>5, <1>6, <1>7, <1>8, <1>9, <1>10, <1>11 DEF
     ServerInv

LEMMA DeregisterPreserves ==
    ASSUME NEW c \in Conn, ServerInv, Deregister(c), UNCHANGED sendVars,
           reader' \in [Conn -> {"none", "running", "ended"}],
           writer' \in [Conn -> {"none", "running", "ended"}],
           \A d \in Conn : conn[d] = "new" => reader'[d] = "none" /\ writer'[d] = "none"
    PROVE  ServerInv'
<1>1. TrackerInv'
  BY RemoveConnectionKeeps DEF ServerInv, Deregister, trackerVars,
     mutationVars, TrackerInv, SavesInOrder, TableShape, TrackerTypeOK
<1>2. ServerTypeOK'
  <2>1. CASE c \notin Registered
    BY <1>1, <2>1 DEF ServerInv, ServerTypeOK, TrackerInv, Deregister, sendVars,
       reqVars, appVars
  <2>2. CASE c \in Registered
    <3>1. req' \in [Request -> [st : ReqState, conn : Conn \cup {NoConn}]]
      BY <2>2 DEF ServerInv, ServerTypeOK, Deregister, AbortAll, Left, ReqState
    <3>2. /\ conn' \in [Conn -> {"new", "awaiting", "ready", "gone"}]
          /\ in_progress' \in [Conn -> SUBSET Request]
      BY <2>2 DEF ServerInv, ServerTypeOK, Deregister, AbortAll
    <3>3. grace' \in {"none", "armed", "expired", "spent"} /\ app' = app
      BY <2>2 DEF ServerInv, ServerTypeOK, Deregister, StartGraceTimer
    <3>4. stray' \in BOOLEAN
      BY <2>2 DEF ServerInv, ServerTypeOK, Deregister, StartGraceTimer, TakeTimer
    <3>5. QED
      BY <1>1, <3>1, <3>2, <3>3, <3>4 DEF ServerInv, ServerTypeOK, TrackerInv,
         sendVars
  <2>3. QED
    BY <2>1, <2>2
<1>3. ConnectionsInOrder'
  BY DEF ServerInv, ConnectionsInOrder, Deregister, sendVars, ServerTypeOK
<1>4. RequestsInOrder'
  BY DEF ServerInv, RequestsInOrder, Deregister, sendVars, Registered,
     AbortAll, StartGraceTimer, trackerVars, reqVars, appVars, CleanupIfIdle,
     Left, TakeTimer, mutationVars, ServerTypeOK, ConnectionsInOrder,
     TablesInOrder
<1>5. TablesInOrder'
  BY DEF ServerInv, TablesInOrder, Deregister, RemoveConnection, AbortAll,
     trackerVars, reqVars, CleanupIfIdle, Left, mutationVars, Forget,
     TrackerTypeOK, TrackerInv, Mutations
<1>6. HandshakeFirst'
  BY TrackerAssumption DEF ServerInv, HandshakeFirst, Deregister, sendVars,
     Registered, RemoveConnection, AbortAll, reqVars, Left, Forget,
     ServerTypeOK, ConnectionsInOrder, TablesInOrder, Mutations
<1>7. RunningIsTracked'
  <2>1. CASE c \notin Registered
    BY <2>1 DEF ServerInv, RunningIsTracked, Deregister, At, reqVars
  <2>2. CASE c \in Registered
    <3>1. \A q \in Request : req'[q].conn = req[q].conn
      BY <2>2 DEF ServerInv, ServerTypeOK, Deregister, AbortAll, Left
    <3>2. \A q \in Request : req[q].st = "resolved" => req'[q].st = "resolved"
      BY <2>2 DEF ServerInv, ServerTypeOK, Deregister, AbortAll, Left,
         TablesInOrder
    <3>3. \A q \in Request : q \notin in_progress[c] /\ req[q].st = "running" =>
            req'[q].st = "running"
      BY <2>2 DEF ServerInv, ServerTypeOK, Deregister, AbortAll, Left,
         TablesInOrder
    <3>4. \A q \in Request : req'[q].st = "running" =>
            req[q].st = "running" /\ q \notin in_progress[c]
      BY <2>2 DEF ServerInv, ServerTypeOK, Deregister, AbortAll, Left
    <3>5. /\ conn' = [conn EXCEPT ![c] = "gone"]
          /\ in_progress' = [in_progress EXCEPT ![c] = {}]
      BY <2>2 DEF Deregister, AbortAll
    <3>6. QED
      BY <3>1, <3>2, <3>3, <3>4, <3>5 DEF ServerInv, ServerTypeOK,
         RunningIsTracked, At
  <2>3. QED
    BY <2>1, <2>2
<1>8. AnsweredOnce'
  BY DEF ServerInv, AnsweredOnce, Deregister, sendVars, AbortAll, trackerVars,
     reqVars, Left, At, ServerTypeOK, TablesInOrder
<1>9. OwedIsHeld'
  BY DEF ServerInv, OwedIsHeld, Deregister, RemoveConnection, Made, AbortAll,
     trackerVars, reqVars, CleanupIfIdle, Left, mutationVars, At, Mutations,
     ServerTypeOK, TrackerInv, TableShape
<1>10. WriterConnected'
  BY DEF ServerInv, WriterConnected, Deregister, RemoveConnection, trackerVars,
     CleanupIfIdle, Forget, ServerTypeOK, TrackerTypeOK
<1>11. TimerWhileIdle'
  BY DEF ServerInv, TimerWhileIdle, Deregister, Registered, StartGraceTimer,
     appVars, ServerTypeOK
<1>12. QED
  BY <1>1, <1>2, <1>3, <1>4, <1>5, <1>6, <1>7, <1>8, <1>9, <1>10, <1>11 DEF
     ServerInv

LEMMA InitializePreserves ==
    ASSUME NEW c \in Conn, ServerInv, Initialize(c)
    PROVE  ServerInv'
<1>1. TrackerInv'
  BY DEF ServerInv, TrackerInv, SavesInOrder, TableShape, TrackerTypeOK,
     Initialize, trackerVars, mutationVars
<1>2. ServerTypeOK'
  BY <1>1 DEF ServerInv, ServerTypeOK, TrackerInv, Initialize, reqVars, appVars
<1>3. ConnectionsInOrder'
  BY DEF ServerInv, ConnectionsInOrder, Initialize, ServerTypeOK,
     HandshakeFirst
<1>4. RequestsInOrder'
  BY DEF ServerInv, RequestsInOrder, Initialize, reqVars
<1>5. TablesInOrder'
  BY DEF ServerInv, TablesInOrder, Initialize, trackerVars, reqVars,
     mutationVars, Mutations
<1>6. HandshakeFirst'
  BY DEF ServerInv, HandshakeFirst, Initialize, reqVars
<1>7. RunningIsTracked'
  BY DEF ServerInv, RunningIsTracked, Initialize, reqVars, At
<1>8. AnsweredOnce'
  BY DEF ServerInv, AnsweredOnce, Initialize, reqVars, At
<1>9. OwedIsHeld'
  BY DEF ServerInv, OwedIsHeld, Initialize, trackerVars, reqVars, mutationVars,
     At, Mutations, RequestsInOrder
<1>10. WriterConnected'
  BY DEF ServerInv, WriterConnected, Initialize, trackerVars
<1>11. TimerWhileIdle'
  BY DEF ServerInv, TimerWhileIdle, Initialize, appVars, Registered
<1>12. QED
  BY <1>1, <1>2, <1>3, <1>4, <1>5, <1>6, <1>7, <1>8, <1>9, <1>10, <1>11 DEF
     ServerInv

LEMMA InitializeRejectedPreserves ==
    ASSUME NEW c \in Conn, ServerInv, InitializeRejected(c)
    PROVE  ServerInv'
<1>1. TrackerInv'
  BY DEF ServerInv, TrackerInv, SavesInOrder, TableShape, TrackerTypeOK,
     InitializeRejected, trackerVars, mutationVars
<1>2. ServerTypeOK'
  BY <1>1 DEF ServerInv, ServerTypeOK, TrackerInv, InitializeRejected, Hear,
     connVars, reqVars, appVars
<1>3. ConnectionsInOrder'
  BY DEF ServerInv, ConnectionsInOrder, InitializeRejected, Hear, connVars
<1>4. RequestsInOrder'
  BY DEF ServerInv, RequestsInOrder, InitializeRejected, connVars, reqVars
<1>5. TablesInOrder'
  BY DEF ServerInv, TablesInOrder, InitializeRejected, trackerVars, reqVars,
     mutationVars, Mutations
<1>6. HandshakeFirst'
  BY DEF ServerInv, HandshakeFirst, InitializeRejected, Hear, reqVars,
     RequestsInOrder
<1>7. RunningIsTracked'
  BY DEF ServerInv, RunningIsTracked, InitializeRejected, connVars, reqVars, At
<1>8. AnsweredOnce'
  BY DEF ServerInv, AnsweredOnce, InitializeRejected, connVars, reqVars, At
<1>9. OwedIsHeld'
  BY DEF ServerInv, OwedIsHeld, InitializeRejected, trackerVars, connVars,
     reqVars, mutationVars, At, Mutations
<1>10. WriterConnected'
  BY DEF ServerInv, WriterConnected, InitializeRejected, trackerVars, connVars
<1>11. TimerWhileIdle'
  BY DEF ServerInv, TimerWhileIdle, InitializeRejected, Registered, connVars,
     appVars
<1>12. QED
  BY <1>1, <1>2, <1>3, <1>4, <1>5, <1>6, <1>7, <1>8, <1>9, <1>10, <1>11 DEF
     ServerInv

LEMMA AnswerAtOncePreserves ==
    ASSUME NEW c \in Conn, NEW r \in Request, ServerInv, c \in Registered,
           Arrives(c, r, "done"), Answer({r}),
           UNCHANGED <<trackerVars, in_progress>>
    PROVE  ServerInv'
<1>1. TrackerInv'
  BY DEF ServerInv, TrackerInv, SavesInOrder, TableShape, TrackerTypeOK,
     trackerVars, mutationVars
<1>2. ServerTypeOK'
  BY <1>1 DEF ServerInv, ServerTypeOK, TrackerInv, ReqState, Arrives, Answer,
     connVars, appVars, Hear
<1>3. ConnectionsInOrder'
  BY DEF ServerInv, ConnectionsInOrder, Arrives, Answer, connVars, Hear
<1>4. RequestsInOrder'
  BY DEF ServerInv, RequestsInOrder, Registered, Arrives, connVars
<1>5. TablesInOrder'
  BY DEF ServerInv, TablesInOrder, Arrives, trackerVars, mutationVars,
     Mutations
<1>6. HandshakeFirst'
  BY DEF ServerInv, HandshakeFirst, Arrives, Answer, Hear, RequestsInOrder
<1>7. RunningIsTracked'
  BY DEF ServerInv, RunningIsTracked, Arrives, connVars, At
<1>8. AnsweredOnce'
  <2> DEFINE S == {r}
  <2>1. S \in SUBSET Request /\ Answer(S) /\ UNCHANGED conn
    BY DEF Arrives, connVars, ServerInv, TrackerInv, TrackerTypeOK, Mutations
  <2>2. \A q \in S : req[q].st # "done" /\ req'[q].st = "done"
    BY DEF Arrives, ServerInv, ServerTypeOK, TablesInOrder, Mutations,
       TrackerInv, TrackerTypeOK
  <2>3. \A q \in Request : req'[q].st # "unused" => req'[q].conn \in Conn
    BY DEF Arrives, ServerInv, ServerTypeOK, RequestsInOrder
  <2>4. \A q \in Request \ S :
          /\ req'[q].st = "done" <=> req[q].st = "done"
          /\ req'[q].conn = req[q].conn
    BY DEF Arrives, ServerInv, ServerTypeOK, TablesInOrder
  <2>5. QED
    BY <2>1, <2>2, <2>3, <2>4, AnswersOnce DEF ServerInv
<1>9. OwedIsHeld'
  BY DEF ServerInv, OwedIsHeld, Arrives, trackerVars, connVars, mutationVars,
     At, Mutations
<1>10. WriterConnected'
  BY DEF ServerInv, WriterConnected, Arrives, trackerVars, connVars
<1>11. TimerWhileIdle'
  BY DEF ServerInv, TimerWhileIdle, Registered, Arrives, connVars, appVars
<1>12. QED
  BY <1>1, <1>2, <1>3, <1>4, <1>5, <1>6, <1>7, <1>8, <1>9, <1>10, <1>11 DEF
     ServerInv

LEMMA RequestIgnoredPreserves ==
    ASSUME NEW c \in Conn, NEW r \in Request, ServerInv, RequestIgnored(c, r)
    PROVE  ServerInv'
<1>1. TrackerInv'
  BY DEF ServerInv, TrackerInv, SavesInOrder, TableShape, TrackerTypeOK,
     RequestIgnored, trackerVars, mutationVars
<1>2. ServerTypeOK'
  BY <1>1 DEF ServerInv, ServerTypeOK, TrackerInv, ReqState, RequestIgnored,
     Arrives, sendVars, connVars, appVars
<1>3. ConnectionsInOrder'
  BY DEF ServerInv, ConnectionsInOrder, RequestIgnored, Arrives, sendVars,
     connVars
<1>4. RequestsInOrder'
  BY DEF ServerInv, RequestsInOrder, RequestIgnored, Arrives, connVars
<1>5. TablesInOrder'
  BY DEF ServerInv, TablesInOrder, RequestIgnored, Arrives, trackerVars,
     mutationVars, Mutations
<1>6. HandshakeFirst'
  BY DEF ServerInv, HandshakeFirst, RequestIgnored, Arrives, sendVars
<1>7. RunningIsTracked'
  BY DEF ServerInv, RunningIsTracked, RequestIgnored, Arrives, connVars, At
<1>8. AnsweredOnce'
  BY DEF ServerInv, AnsweredOnce, RequestIgnored, Arrives, sendVars, connVars,
     At
<1>9. OwedIsHeld'
  BY DEF ServerInv, OwedIsHeld, RequestIgnored, Arrives, trackerVars, connVars,
     mutationVars, At, Mutations
<1>10. WriterConnected'
  BY DEF ServerInv, WriterConnected, RequestIgnored, Arrives, trackerVars,
     connVars
<1>11. TimerWhileIdle'
  BY DEF ServerInv, TimerWhileIdle, RequestIgnored, Arrives, connVars, appVars,
     Registered
<1>12. QED
  BY <1>1, <1>2, <1>3, <1>4, <1>5, <1>6, <1>7, <1>8, <1>9, <1>10, <1>11 DEF
     ServerInv

LEMMA StartWorkPreserves ==
    ASSUME NEW c \in Conn, NEW r \in Request, ServerInv, StartWork(c, r)
    PROVE  ServerInv'
<1>1. TrackerInv'
  BY DEF ServerInv, TrackerInv, SavesInOrder, TableShape, TrackerTypeOK,
     StartWork, trackerVars, mutationVars
<1>2. ServerTypeOK'
  BY <1>1 DEF ServerInv, ServerTypeOK, TrackerInv, ReqState, StartWork,
     Arrives, sendVars, connVars, appVars
<1>3. ConnectionsInOrder'
  BY DEF ServerInv, ConnectionsInOrder, StartWork, Arrives, sendVars, connVars
<1>4. RequestsInOrder'
  BY DEF ServerInv, RequestsInOrder, StartWork, Arrives, connVars
<1>5. TablesInOrder'
  BY DEF ServerInv, TablesInOrder, StartWork, Arrives, trackerVars,
     mutationVars, Mutations
<1>6. HandshakeFirst'
  BY DEF ServerInv, HandshakeFirst, StartWork, Arrives, sendVars,
     ConnectionsInOrder
<1>7. RunningIsTracked'
  BY DEF ServerInv, RunningIsTracked, StartWork, Arrives, connVars, At,
     ServerTypeOK
<1>8. AnsweredOnce'
  BY DEF ServerInv, AnsweredOnce, StartWork, Arrives, sendVars, connVars, At
<1>9. OwedIsHeld'
  BY DEF ServerInv, OwedIsHeld, StartWork, Arrives, trackerVars, connVars,
     mutationVars, At, Mutations
<1>10. WriterConnected'
  BY DEF ServerInv, WriterConnected, StartWork, Arrives, trackerVars, connVars
<1>11. TimerWhileIdle'
  BY DEF ServerInv, TimerWhileIdle, StartWork, Arrives, connVars, appVars,
     Registered
<1>12. QED
  BY <1>1, <1>2, <1>3, <1>4, <1>5, <1>6, <1>7, <1>8, <1>9, <1>10, <1>11 DEF
     ServerInv

LEMMA StartFileOpPreserves ==
    ASSUME NEW c \in Conn, NEW r \in Request, ServerInv, StartFileOp(c, r)
    PROVE  ServerInv'
<1>1. TrackerInv'
  BY DEF ServerInv, TrackerInv, SavesInOrder, TableShape, TrackerTypeOK,
     StartFileOp, trackerVars, mutationVars
<1>2. ServerTypeOK'
  BY <1>1 DEF ServerInv, ServerTypeOK, TrackerInv, ReqState, StartFileOp,
     Arrives, sendVars, connVars, appVars
<1>3. ConnectionsInOrder'
  BY DEF ServerInv, ConnectionsInOrder, StartFileOp, Arrives, sendVars,
     connVars
<1>4. RequestsInOrder'
  BY DEF ServerInv, RequestsInOrder, StartFileOp, Arrives, connVars
<1>5. TablesInOrder'
  BY DEF ServerInv, TablesInOrder, StartFileOp, Arrives, trackerVars,
     mutationVars, Mutations
<1>6. HandshakeFirst'
  BY DEF ServerInv, HandshakeFirst, StartFileOp, Arrives, sendVars,
     ConnectionsInOrder
<1>7. RunningIsTracked'
  BY DEF ServerInv, RunningIsTracked, StartFileOp, Arrives, connVars, At
<1>8. AnsweredOnce'
  BY DEF ServerInv, AnsweredOnce, StartFileOp, Arrives, sendVars, connVars, At
<1>9. OwedIsHeld'
  BY DEF ServerInv, OwedIsHeld, StartFileOp, Arrives, trackerVars, connVars,
     mutationVars, At, Mutations
<1>10. WriterConnected'
  BY DEF ServerInv, WriterConnected, StartFileOp, Arrives, trackerVars,
     connVars
<1>11. TimerWhileIdle'
  BY DEF ServerInv, TimerWhileIdle, StartFileOp, Arrives, connVars, appVars,
     Registered
<1>12. QED
  BY <1>1, <1>2, <1>3, <1>4, <1>5, <1>6, <1>7, <1>8, <1>9, <1>10, <1>11 DEF
     ServerInv

LEMMA OpenWaitsPreserves ==
    ASSUME NEW c \in Conn, NEW r \in Request, ServerInv, conn[c] = "ready",
           OpenNew(c, r) \/ (OpenAgain(c, r) /\ ~loaded),
           Arrives(c, r, "opening"), UNCHANGED <<sendVars, in_progress>>
    PROVE  ServerInv'
<1>1. TrackerInv'
  BY OpenNewKeeps, OpenAgainKeeps DEF ServerInv
<1>2. ServerTypeOK'
  BY <1>1 DEF ServerInv, ServerTypeOK, TrackerInv, ReqState, Arrives, sendVars,
     connVars, appVars
<1>3. ConnectionsInOrder'
  BY DEF ServerInv, ConnectionsInOrder, Arrives, sendVars, connVars
<1>4. RequestsInOrder'
  BY DEF ServerInv, RequestsInOrder, Arrives, connVars
<1>5. TablesInOrder'
  BY DEF ServerInv, TablesInOrder, OpenNew, OpenAgain, Arrives, mutationVars,
     ServerTypeOK, Mutations
<1>6. HandshakeFirst'
  BY DEF ServerInv, HandshakeFirst, Arrives, sendVars, ConnectionsInOrder
<1>7. RunningIsTracked'
  BY DEF ServerInv, RunningIsTracked, Arrives, connVars, At
<1>8. AnsweredOnce'
  BY DEF ServerInv, AnsweredOnce, Arrives, sendVars, connVars, At
<1>9. OwedIsHeld'
  BY DEF ServerInv, OwedIsHeld, OpenNew, OpenAgain, Arrives, mutationVars,
     connVars, At, Mutations, TrackerInv, TableShape
<1>10. WriterConnected'
  BY DEF ServerInv, WriterConnected, OpenNew, OpenAgain, Arrives, connVars
<1>11. TimerWhileIdle'
  BY DEF ServerInv, TimerWhileIdle, Arrives, connVars, appVars, Registered
<1>12. QED
  BY <1>1, <1>2, <1>3, <1>4, <1>5, <1>6, <1>7, <1>8, <1>9, <1>10, <1>11 DEF
     ServerInv

LEMMA OpenLoadedPreserves ==
    ASSUME NEW c \in Conn, NEW r \in Request, ServerInv, conn[c] = "ready",
           OpenAgain(c, r), loaded, Arrives(c, r, "done"), Answer({r}),
           UNCHANGED in_progress
    PROVE  ServerInv'
<1>1. TrackerInv'
  BY OpenAgainKeeps DEF ServerInv
<1>2. ServerTypeOK'
  BY <1>1 DEF ServerInv, ServerTypeOK, TrackerInv, ReqState, Arrives, Answer,
     connVars, appVars, Hear
<1>3. ConnectionsInOrder'
  BY DEF ServerInv, ConnectionsInOrder, Arrives, Answer, connVars, Hear
<1>4. RequestsInOrder'
  BY DEF ServerInv, RequestsInOrder, Arrives, connVars
<1>5. TablesInOrder'
  BY DEF ServerInv, TablesInOrder, OpenAgain, Arrives, mutationVars, Mutations
<1>6. HandshakeFirst'
  BY DEF ServerInv, HandshakeFirst, Arrives, Answer, Hear, RequestsInOrder
<1>7. RunningIsTracked'
  BY DEF ServerInv, RunningIsTracked, Arrives, connVars, At
<1>8. AnsweredOnce'
  <2> DEFINE S == {r}
  <2>1. S \in SUBSET Request /\ Answer(S) /\ UNCHANGED conn
    BY DEF Arrives, connVars, ServerInv, TrackerInv, TrackerTypeOK, Mutations
  <2>2. \A q \in S : req[q].st # "done" /\ req'[q].st = "done"
    BY DEF Arrives, ServerInv, ServerTypeOK, TablesInOrder, Mutations,
       TrackerInv, TrackerTypeOK
  <2>3. \A q \in Request : req'[q].st # "unused" => req'[q].conn \in Conn
    BY DEF Arrives, ServerInv, ServerTypeOK, RequestsInOrder
  <2>4. \A q \in Request \ S :
          /\ req'[q].st = "done" <=> req[q].st = "done"
          /\ req'[q].conn = req[q].conn
    BY DEF Arrives, ServerInv, ServerTypeOK, TablesInOrder
  <2>5. QED
    BY <2>1, <2>2, <2>3, <2>4, AnswersOnce DEF ServerInv
<1>9. OwedIsHeld'
  BY DEF ServerInv, OwedIsHeld, OpenAgain, Arrives, mutationVars, connVars, At,
     Mutations
<1>10. WriterConnected'
  BY DEF ServerInv, WriterConnected, OpenAgain, Arrives, connVars
<1>11. TimerWhileIdle'
  BY DEF ServerInv, TimerWhileIdle, Arrives, connVars, appVars, Registered
<1>12. QED
  BY <1>1, <1>2, <1>3, <1>4, <1>5, <1>6, <1>7, <1>8, <1>9, <1>10, <1>11 DEF
     ServerInv

LEMMA SaveStartsPreserves ==
    ASSUME NEW c \in Conn, NEW r \in Request, ServerInv, conn[c] = "ready",
           MayWrite(c), EnqueueFirst(r), Arrives(c, r, "saving"),
           UNCHANGED <<sendVars, in_progress>>
    PROVE  ServerInv'
<1>1. TrackerInv'
  BY TrackerAssumption, EnqueueFirstKeeps DEF ServerInv, MayWrite
<1>2. ServerTypeOK'
  BY <1>1 DEF ServerInv, ServerTypeOK, TrackerInv, ReqState, Arrives, sendVars,
     connVars, appVars
<1>3. ConnectionsInOrder'
  BY DEF ServerInv, ConnectionsInOrder, Arrives, sendVars, connVars
<1>4. RequestsInOrder'
  BY DEF ServerInv, RequestsInOrder, Arrives, connVars
<1>5. TablesInOrder'
  BY DEF ServerInv, TablesInOrder, EnqueueFirst, Arrives, Start, ServerTypeOK,
     Mutations
<1>6. HandshakeFirst'
  BY DEF ServerInv, HandshakeFirst, Arrives, sendVars, ConnectionsInOrder
<1>7. RunningIsTracked'
  BY DEF ServerInv, RunningIsTracked, Arrives, connVars, At
<1>8. AnsweredOnce'
  BY DEF ServerInv, AnsweredOnce, Arrives, sendVars, connVars, At
<1>9. OwedIsHeld'
  BY TrackerAssumption DEF ServerInv, OwedIsHeld, EnqueueFirst, Arrives, Start,
     connVars, At, Mutations, TrackerInv, TableShape
<1>10. WriterConnected'
  BY DEF ServerInv, WriterConnected, EnqueueFirst, Arrives, Start, connVars
<1>11. TimerWhileIdle'
  BY DEF ServerInv, TimerWhileIdle, Arrives, connVars, appVars, Registered
<1>12. QED
  BY <1>1, <1>2, <1>3, <1>4, <1>5, <1>6, <1>7, <1>8, <1>9, <1>10, <1>11 DEF
     ServerInv

LEMMA SaveQueuesPreserves ==
    ASSUME NEW c \in Conn, NEW r \in Request, ServerInv, conn[c] = "ready",
           MayWrite(c), EnqueueNext(r), Arrives(c, r, "saving"),
           UNCHANGED <<sendVars, in_progress>>
    PROVE  ServerInv'
<1>1. TrackerInv'
  BY TrackerAssumption, EnqueueNextKeeps DEF ServerInv, MayWrite, Arrives,
     TablesInOrder, Mutations
<1>2. ServerTypeOK'
  BY <1>1 DEF ServerInv, ServerTypeOK, TrackerInv, ReqState, Arrives, sendVars,
     connVars, appVars
<1>3. ConnectionsInOrder'
  BY DEF ServerInv, ConnectionsInOrder, Arrives, sendVars, connVars
<1>4. RequestsInOrder'
  BY DEF ServerInv, RequestsInOrder, Arrives, connVars
<1>5. TablesInOrder'
  BY DEF ServerInv, TablesInOrder, EnqueueNext, Arrives, ServerTypeOK,
     Mutations
<1>6. HandshakeFirst'
  BY DEF ServerInv, HandshakeFirst, Arrives, sendVars, ConnectionsInOrder
<1>7. RunningIsTracked'
  BY DEF ServerInv, RunningIsTracked, Arrives, connVars, At
<1>8. AnsweredOnce'
  BY DEF ServerInv, AnsweredOnce, Arrives, sendVars, connVars, At
<1>9. OwedIsHeld'
  BY DEF ServerInv, OwedIsHeld, EnqueueNext, Arrives, connVars, At, Mutations
<1>10. WriterConnected'
  BY DEF ServerInv, WriterConnected, EnqueueNext, Arrives, connVars
<1>11. TimerWhileIdle'
  BY DEF ServerInv, TimerWhileIdle, Arrives, connVars, appVars, Registered
<1>12. QED
  BY <1>1, <1>2, <1>3, <1>4, <1>5, <1>6, <1>7, <1>8, <1>9, <1>10, <1>11 DEF
     ServerInv

LEMMA SaveFailsPreserves ==
    ASSUME NEW c \in Conn, NEW r \in Request, ServerInv, conn[c] = "ready",
           MayWrite(c), EnqueueFails, Arrives(c, r, "done"), Answer({r}),
           UNCHANGED in_progress
    PROVE  ServerInv'
<1>1. TrackerInv'
  BY TrackerAssumption, EnqueueFailsKeeps DEF ServerInv, MayWrite
<1>2. ServerTypeOK'
  BY <1>1 DEF ServerInv, ServerTypeOK, TrackerInv, ReqState, Arrives, Answer,
     connVars, appVars, Hear
<1>3. ConnectionsInOrder'
  BY DEF ServerInv, ConnectionsInOrder, Arrives, Answer, connVars, Hear
<1>4. RequestsInOrder'
  BY DEF ServerInv, RequestsInOrder, Arrives, connVars
<1>5. TablesInOrder'
  BY DEF ServerInv, TablesInOrder, EnqueueFails, Arrives, StartNothing,
     CleanupIfIdle, Forget, Mutations
<1>6. HandshakeFirst'
  BY DEF ServerInv, HandshakeFirst, Arrives, Answer, Hear, RequestsInOrder
<1>7. RunningIsTracked'
  BY DEF ServerInv, RunningIsTracked, Arrives, connVars, At
<1>8. AnsweredOnce'
  <2> DEFINE S == {r}
  <2>1. S \in SUBSET Request /\ Answer(S) /\ UNCHANGED conn
    BY DEF Arrives, connVars, ServerInv, TrackerInv, TrackerTypeOK, Mutations
  <2>2. \A q \in S : req[q].st # "done" /\ req'[q].st = "done"
    BY DEF Arrives, ServerInv, ServerTypeOK, TablesInOrder, Mutations,
       TrackerInv, TrackerTypeOK
  <2>3. \A q \in Request : req'[q].st # "unused" => req'[q].conn \in Conn
    BY DEF Arrives, ServerInv, ServerTypeOK, RequestsInOrder
  <2>4. \A q \in Request \ S :
          /\ req'[q].st = "done" <=> req[q].st = "done"
          /\ req'[q].conn = req[q].conn
    BY DEF Arrives, ServerInv, ServerTypeOK, TablesInOrder
  <2>5. QED
    BY <2>1, <2>2, <2>3, <2>4, AnswersOnce DEF ServerInv
<1>9. OwedIsHeld'
  BY DEF ServerInv, OwedIsHeld, EnqueueFails, Arrives, StartNothing, connVars,
     At, Mutations, TrackerInv, TableShape
<1>10. WriterConnected'
  BY DEF ServerInv, WriterConnected, EnqueueFails, Arrives, StartNothing,
     connVars, CleanupIfIdle, Forget
<1>11. TimerWhileIdle'
  BY DEF ServerInv, TimerWhileIdle, Arrives, connVars, appVars, Registered
<1>12. QED
  BY <1>1, <1>2, <1>3, <1>4, <1>5, <1>6, <1>7, <1>8, <1>9, <1>10, <1>11 DEF
     ServerInv

LEMMA CloseBufferPreserves ==
    ASSUME NEW c \in Conn, ServerInv, CloseBuffer(c)
    PROVE  ServerInv'
<1>1. TrackerInv'
  BY CloseKeeps DEF ServerInv, CloseBuffer
<1>2. ServerTypeOK'
  BY <1>1 DEF ServerInv, ServerTypeOK, TrackerInv, ReqState, CloseBuffer, Left,
     connVars, sendVars, appVars
<1>3. ConnectionsInOrder'
  BY DEF ServerInv, ConnectionsInOrder, CloseBuffer, connVars, sendVars
<1>4. RequestsInOrder'
  BY DEF ServerInv, RequestsInOrder, CloseBuffer, Left, connVars, TablesInOrder
<1>5. TablesInOrder'
  BY DEF ServerInv, TablesInOrder, CloseBuffer, Close, Left, CleanupIfIdle,
     Forget, TrackerTypeOK, TrackerInv, Mutations
<1>6. HandshakeFirst'
  BY DEF ServerInv, HandshakeFirst, CloseBuffer, Left, sendVars, TablesInOrder
<1>7. RunningIsTracked'
  BY DEF ServerInv, RunningIsTracked, CloseBuffer, Left, connVars, At,
     ServerTypeOK, TablesInOrder
<1>8. AnsweredOnce'
  BY DEF ServerInv, AnsweredOnce, CloseBuffer, Left, connVars, sendVars, At,
     TablesInOrder
<1>9. OwedIsHeld'
  BY DEF ServerInv, OwedIsHeld, CloseBuffer, Close, Left, connVars,
     CleanupIfIdle, At, Mutations, TrackerInv, TableShape
<1>10. WriterConnected'
  BY DEF ServerInv, WriterConnected, CloseBuffer, Close, CleanupIfIdle, Forget
<1>11. TimerWhileIdle'
  BY DEF ServerInv, TimerWhileIdle, CloseBuffer, connVars, appVars, Registered
<1>12. QED
  BY <1>1, <1>2, <1>3, <1>4, <1>5, <1>6, <1>7, <1>8, <1>9, <1>10, <1>11 DEF
     ServerInv

LEMMA AbortPreserves ==
    ASSUME NEW c \in Conn, NEW r \in Request, ServerInv, Abort(c, r)
    PROVE  ServerInv'
<1>1. TrackerInv'
  BY DEF ServerInv, TrackerInv, SavesInOrder, TableShape, TrackerTypeOK, Abort,
     trackerVars, mutationVars
<1>2. ServerTypeOK'
  BY <1>1 DEF ServerInv, ServerTypeOK, TrackerInv, ReqState, Abort, Becomes,
     connVars, sendVars, appVars, Alive
<1>3. ConnectionsInOrder'
  BY DEF ServerInv, ConnectionsInOrder, Abort, connVars, sendVars
<1>4. RequestsInOrder'
  <2>1. CASE req[r].st = "running"
    BY <2>1 DEF ServerInv, Abort, Becomes, ServerTypeOK, RequestsInOrder, trackerVars,
       mutationVars, connVars, sendVars
  <2>2. CASE req[r].st # "running"
    BY <2>2 DEF ServerInv, Abort, ServerTypeOK, RequestsInOrder, trackerVars,
       mutationVars, connVars, sendVars
  <2>3. QED
    BY <2>1, <2>2
<1>5. TablesInOrder'
  <2>1. req[r].st \in {"running", "resolved"}
    BY DEF ServerInv, Abort, RunningIsTracked
  <2>2. \A q \in Request \ {r} : req'[q] = req[q]
    BY DEF ServerInv, ServerTypeOK, Abort, Becomes
  <2>3. waiters \subseteq Request /\ Mutations \subseteq Request
    BY DEF ServerInv, TrackerInv, TrackerTypeOK, Mutations
  <2>4. waiters' = waiters /\ Mutations' = Mutations
    BY DEF Abort, trackerVars, mutationVars, Mutations
  <2>5. QED
    BY <2>1, <2>2, <2>3, <2>4 DEF ServerInv, TablesInOrder
<1>6. HandshakeFirst'
  <2>1. CASE req[r].st = "running"
    BY <2>1 DEF ServerInv, Abort, Becomes, ServerTypeOK, HandshakeFirst, trackerVars,
       mutationVars, connVars, sendVars
  <2>2. CASE req[r].st # "running"
    BY <2>2 DEF ServerInv, Abort, ServerTypeOK, HandshakeFirst, trackerVars,
       mutationVars, connVars, sendVars
  <2>3. QED
    BY <2>1, <2>2
<1>7. RunningIsTracked'
  BY DEF ServerInv, RunningIsTracked, Abort, Becomes, connVars, At,
     ServerTypeOK
<1>8. AnsweredOnce'
  <2>1. CASE req[r].st = "running"
    BY <2>1 DEF ServerInv, Abort, Becomes, ServerTypeOK, AnsweredOnce, At, trackerVars,
       mutationVars, connVars, sendVars
  <2>2. CASE req[r].st # "running"
    BY <2>2 DEF ServerInv, Abort, ServerTypeOK, AnsweredOnce, At, trackerVars,
       mutationVars, connVars, sendVars
  <2>3. QED
    BY <2>1, <2>2
<1>9. OwedIsHeld'
  BY DEF ServerInv, OwedIsHeld, Abort, Becomes, trackerVars, connVars,
     mutationVars, At, Mutations, ServerTypeOK, TrackerInv, TableShape
<1>10. WriterConnected'
  BY DEF ServerInv, WriterConnected, Abort, trackerVars, connVars
<1>11. TimerWhileIdle'
  BY DEF ServerInv, TimerWhileIdle, Abort, connVars, appVars, Registered
<1>12. QED
  BY <1>1, <1>2, <1>3, <1>4, <1>5, <1>6, <1>7, <1>8, <1>9, <1>10, <1>11 DEF
     ServerInv

LEMMA FutureResolvesPreserves ==
    ASSUME NEW r \in Request, ServerInv, FutureResolves(r)
    PROVE  ServerInv'
<1>1. TrackerInv'
  BY DEF ServerInv, TrackerInv, SavesInOrder, TableShape, TrackerTypeOK,
     FutureResolves, trackerVars, mutationVars
<1>2. ServerTypeOK'
  BY <1>1 DEF ServerInv, ServerTypeOK, TrackerInv, ReqState, FutureResolves,
     Becomes, connVars, sendVars, appVars
<1>3. ConnectionsInOrder'
  BY DEF ServerInv, ConnectionsInOrder, FutureResolves, connVars, sendVars
<1>4. RequestsInOrder'
  BY DEF ServerInv, RequestsInOrder, FutureResolves, Becomes, connVars
<1>5. TablesInOrder'
  BY DEF ServerInv, TablesInOrder, FutureResolves, Becomes, trackerVars,
     mutationVars, Mutations
<1>6. HandshakeFirst'
  BY DEF ServerInv, HandshakeFirst, FutureResolves, Becomes, sendVars
<1>7. RunningIsTracked'
  BY DEF ServerInv, RunningIsTracked, FutureResolves, Becomes, connVars, At
<1>8. AnsweredOnce'
  BY DEF ServerInv, AnsweredOnce, FutureResolves, Becomes, connVars, sendVars,
     At
<1>9. OwedIsHeld'
  BY DEF ServerInv, OwedIsHeld, FutureResolves, Becomes, trackerVars, connVars,
     mutationVars, At, Mutations
<1>10. WriterConnected'
  BY DEF ServerInv, WriterConnected, FutureResolves, trackerVars, connVars
<1>11. TimerWhileIdle'
  BY DEF ServerInv, TimerWhileIdle, FutureResolves, connVars, appVars,
     Registered
<1>12. QED
  BY <1>1, <1>2, <1>3, <1>4, <1>5, <1>6, <1>7, <1>8, <1>9, <1>10, <1>11 DEF
     ServerInv

LEMMA RespondPreserves ==
    ASSUME NEW r \in Request, ServerInv, Respond(r)
    PROVE  ServerInv'
<1>1. TrackerInv'
  BY DEF ServerInv, TrackerInv, SavesInOrder, TableShape, TrackerTypeOK,
     Respond, trackerVars, mutationVars
<1>2. ServerTypeOK'
  <2>1. req' \in [Request -> [st : ReqState, conn : Conn \cup {NoConn}]]
    BY DEF ServerInv, ServerTypeOK, Respond, Becomes, ReqState
  <2>2. in_progress' \in [Conn -> SUBSET Request]
    BY DEF ServerInv, ServerTypeOK, Respond
  <2>3. /\ heard' \in [Conn -> {"nothing", "error", "hello", "push"}]
        /\ replies' \in [Request -> Nat]
    BY DEF ServerInv, ServerTypeOK, Respond, Answer, Hear
  <2>4. QED
    BY <1>1, <2>1, <2>2, <2>3 DEF ServerInv, ServerTypeOK, TrackerInv, Respond,
       connVars, appVars
<1>3. ConnectionsInOrder'
  BY DEF ServerInv, ConnectionsInOrder, Respond, Answer, connVars, Hear
<1>4. RequestsInOrder'
  BY DEF ServerInv, RequestsInOrder, Respond, Becomes, connVars
<1>5. TablesInOrder'
  BY DEF ServerInv, TablesInOrder, Respond, Becomes, trackerVars, mutationVars,
     Mutations
<1>6. HandshakeFirst'
  BY DEF ServerInv, HandshakeFirst, Respond, Becomes, Answer, Hear,
     RequestsInOrder
<1>7. RunningIsTracked'
  BY DEF ServerInv, RunningIsTracked, Respond, Becomes, connVars, At,
     ServerTypeOK
<1>8. AnsweredOnce'
  <2> DEFINE S == {r}
  <2>1. S \in SUBSET Request /\ Answer(S) /\ UNCHANGED conn
    BY DEF Respond, Becomes, connVars, ServerInv, TrackerInv, TrackerTypeOK, Mutations
  <2>2. \A q \in S : req[q].st # "done" /\ req'[q].st = "done"
    BY DEF Respond, Becomes, ServerInv, ServerTypeOK, TablesInOrder, Mutations,
       TrackerInv, TrackerTypeOK
  <2>3. \A q \in Request : req'[q].st # "unused" => req'[q].conn \in Conn
    BY DEF Respond, Becomes, ServerInv, ServerTypeOK, RequestsInOrder
  <2>4. \A q \in Request \ S :
          /\ req'[q].st = "done" <=> req[q].st = "done"
          /\ req'[q].conn = req[q].conn
    BY DEF Respond, Becomes, ServerInv, ServerTypeOK, TablesInOrder
  <2>5. QED
    BY <2>1, <2>2, <2>3, <2>4, AnswersOnce DEF ServerInv
<1>9. OwedIsHeld'
  BY DEF ServerInv, OwedIsHeld, Respond, Becomes, trackerVars, connVars,
     mutationVars, At, Mutations
<1>10. WriterConnected'
  BY DEF ServerInv, WriterConnected, Respond, trackerVars, connVars
<1>11. TimerWhileIdle'
  BY DEF ServerInv, TimerWhileIdle, Respond, connVars, appVars, Registered
<1>12. QED
  BY <1>1, <1>2, <1>3, <1>4, <1>5, <1>6, <1>7, <1>8, <1>9, <1>10, <1>11 DEF
     ServerInv

LEMMA FileOpReportedPreserves ==
    ASSUME NEW r \in Request, ServerInv, FileOpReported(r)
    PROVE  ServerInv'
<1>1. TrackerInv'
  BY DEF ServerInv, TrackerInv, SavesInOrder, TableShape, TrackerTypeOK,
     FileOpReported, trackerVars, mutationVars
<1>2. ServerTypeOK'
  BY <1>1 DEF ServerInv, ServerTypeOK, TrackerInv, ReqState, FileOpReported,
     Becomes, Answer, connVars, appVars, Hear
<1>3. ConnectionsInOrder'
  BY DEF ServerInv, ConnectionsInOrder, FileOpReported, Answer, connVars, Hear
<1>4. RequestsInOrder'
  BY DEF ServerInv, RequestsInOrder, FileOpReported, Becomes, connVars
<1>5. TablesInOrder'
  BY DEF ServerInv, TablesInOrder, FileOpReported, Becomes, trackerVars,
     mutationVars, Mutations
<1>6. HandshakeFirst'
  BY DEF ServerInv, HandshakeFirst, FileOpReported, Becomes, Answer, Hear,
     RequestsInOrder
<1>7. RunningIsTracked'
  BY DEF ServerInv, RunningIsTracked, FileOpReported, Becomes, connVars, At
<1>8. AnsweredOnce'
  <2> DEFINE S == {r}
  <2>1. S \in SUBSET Request /\ Answer(S) /\ UNCHANGED conn
    BY DEF FileOpReported, Becomes, connVars, ServerInv, TrackerInv, TrackerTypeOK, Mutations
  <2>2. \A q \in S : req[q].st # "done" /\ req'[q].st = "done"
    BY DEF FileOpReported, Becomes, ServerInv, ServerTypeOK, TablesInOrder, Mutations,
       TrackerInv, TrackerTypeOK
  <2>3. \A q \in Request : req'[q].st # "unused" => req'[q].conn \in Conn
    BY DEF FileOpReported, Becomes, ServerInv, ServerTypeOK, RequestsInOrder
  <2>4. \A q \in Request \ S :
          /\ req'[q].st = "done" <=> req[q].st = "done"
          /\ req'[q].conn = req[q].conn
    BY DEF FileOpReported, Becomes, ServerInv, ServerTypeOK, TablesInOrder
  <2>5. QED
    BY <2>1, <2>2, <2>3, <2>4, AnswersOnce DEF ServerInv
<1>9. OwedIsHeld'
  BY DEF ServerInv, OwedIsHeld, FileOpReported, Becomes, trackerVars, connVars,
     mutationVars, At, Mutations
<1>10. WriterConnected'
  BY DEF ServerInv, WriterConnected, FileOpReported, trackerVars, connVars
<1>11. TimerWhileIdle'
  BY DEF ServerInv, TimerWhileIdle, FileOpReported, connVars, appVars,
     Registered
<1>12. QED
  BY <1>1, <1>2, <1>3, <1>4, <1>5, <1>6, <1>7, <1>8, <1>9, <1>10, <1>11 DEF
     ServerInv

LEMMA BufferLoadedPreserves ==
    ASSUME ServerInv, BufferLoaded
    PROVE  ServerInv'
<1>1. TrackerInv'
  BY LoadKeeps DEF ServerInv, BufferLoaded
<1>2. ServerTypeOK'
  BY <1>1 DEF ServerInv, ServerTypeOK, TrackerInv, ReqState, BufferLoaded,
     Finish, Left, Answer, connVars, appVars, Hear
<1>3. ConnectionsInOrder'
  BY TrackerAssumption DEF ServerInv, ConnectionsInOrder, BufferLoaded, Alive,
     Load, Finish, mutationVars, Left, Answer, connVars, appVars, Registered,
     Hear, ServerTypeOK
<1>4. RequestsInOrder'
  BY DEF ServerInv, RequestsInOrder, BufferLoaded, Finish, Left, connVars,
     TablesInOrder
<1>5. TablesInOrder'
  BY DEF ServerInv, TablesInOrder, BufferLoaded, Load, Finish, mutationVars,
     Left, TrackerTypeOK, TrackerInv, Mutations
<1>6. HandshakeFirst'
  BY DEF ServerInv, HandshakeFirst, BufferLoaded, Finish, Left, Answer, Hear,
     RequestsInOrder
<1>7. RunningIsTracked'
  BY DEF ServerInv, RunningIsTracked, BufferLoaded, Finish, Left, connVars, At,
     ServerTypeOK, TablesInOrder
<1>8. AnsweredOnce'
  <2> DEFINE S == waiters
  <2>1. S \in SUBSET Request /\ Answer(S) /\ UNCHANGED conn
    BY DEF BufferLoaded, Finish, Left, connVars, ServerInv, TrackerInv, TrackerTypeOK, Mutations
  <2>2. \A q \in S : req[q].st # "done" /\ req'[q].st = "done"
    BY DEF BufferLoaded, Finish, Left, ServerInv, ServerTypeOK, TablesInOrder, Mutations,
       TrackerInv, TrackerTypeOK
  <2>3. \A q \in Request : req'[q].st # "unused" => req'[q].conn \in Conn
    <3>1. \A q \in Request : req'[q].conn = req[q].conn
      BY DEF BufferLoaded, Finish, Left, ServerInv, ServerTypeOK
    <3>2. \A q \in Request : req'[q].st # "unused" => req[q].st # "unused"
      BY DEF BufferLoaded, Finish, Left, ServerInv, ServerTypeOK, TablesInOrder,
         TrackerInv, TrackerTypeOK, Mutations
    <3>3. QED
      BY <3>1, <3>2 DEF ServerInv, RequestsInOrder
  <2>4. \A q \in Request \ S :
          /\ req'[q].st = "done" <=> req[q].st = "done"
          /\ req'[q].conn = req[q].conn
    BY DEF BufferLoaded, Finish, Left, ServerInv, ServerTypeOK, TablesInOrder
  <2>5. QED
    BY <2>1, <2>2, <2>3, <2>4, AnswersOnce DEF ServerInv
<1>9. OwedIsHeld'
  BY DEF ServerInv, OwedIsHeld, BufferLoaded, Load, Finish, mutationVars, Left,
     connVars, At, Mutations
<1>10. WriterConnected'
  BY DEF ServerInv, WriterConnected, BufferLoaded, Load, Finish, connVars
<1>11. TimerWhileIdle'
  BY DEF ServerInv, TimerWhileIdle, BufferLoaded, Finish, connVars, appVars,
     Registered
<1>12. QED
  BY <1>1, <1>2, <1>3, <1>4, <1>5, <1>6, <1>7, <1>8, <1>9, <1>10, <1>11 DEF
     ServerInv

LEMMA FailedToLoadPreserves ==
    ASSUME ServerInv, FailedToLoad
    PROVE  ServerInv'
<1>1. TrackerInv'
  BY LoadFailsKeeps DEF ServerInv, FailedToLoad
<1>2. ServerTypeOK'
  BY <1>1 DEF ServerInv, ServerTypeOK, TrackerInv, ReqState, FailedToLoad,
     Finish, Left, Answer, connVars, appVars, Hear
<1>3. ConnectionsInOrder'
  BY TrackerAssumption DEF ServerInv, ConnectionsInOrder, FailedToLoad, Alive,
     LoadFails, Finish, Mutations, Forget, Left, Answer, connVars, appVars,
     Registered, Hear, ServerTypeOK
<1>4. RequestsInOrder'
  BY DEF ServerInv, RequestsInOrder, FailedToLoad, Finish, Left, connVars,
     TablesInOrder
<1>5. TablesInOrder'
  BY DEF ServerInv, TablesInOrder, FailedToLoad, LoadFails, Mutations, Forget
<1>6. HandshakeFirst'
  BY DEF ServerInv, HandshakeFirst, FailedToLoad, Finish, Left, Answer, Hear,
     RequestsInOrder
<1>7. RunningIsTracked'
  BY DEF ServerInv, RunningIsTracked, FailedToLoad, Finish, Left, connVars, At,
     ServerTypeOK, TablesInOrder
<1>8. AnsweredOnce'
  <2> DEFINE S == waiters \cup Mutations
  <2>1. S \in SUBSET Request /\ Answer(S) /\ UNCHANGED conn
    BY DEF FailedToLoad, Finish, Left, connVars, ServerInv, TrackerInv, TrackerTypeOK, Mutations
  <2>2. \A q \in S : req[q].st # "done" /\ req'[q].st = "done"
    BY DEF FailedToLoad, Finish, Left, ServerInv, ServerTypeOK, TablesInOrder, Mutations,
       TrackerInv, TrackerTypeOK
  <2>3. \A q \in Request : req'[q].st # "unused" => req'[q].conn \in Conn
    <3>1. \A q \in Request : req'[q].conn = req[q].conn
      BY DEF FailedToLoad, Finish, Left, ServerInv, ServerTypeOK
    <3>2. \A q \in Request : req'[q].st # "unused" => req[q].st # "unused"
      BY DEF FailedToLoad, Finish, Left, ServerInv, ServerTypeOK, TablesInOrder,
         TrackerInv, TrackerTypeOK, Mutations
    <3>3. QED
      BY <3>1, <3>2 DEF ServerInv, RequestsInOrder
  <2>4. \A q \in Request \ S :
          /\ req'[q].st = "done" <=> req[q].st = "done"
          /\ req'[q].conn = req[q].conn
    BY DEF FailedToLoad, Finish, Left, ServerInv, ServerTypeOK, TablesInOrder
  <2>5. QED
    BY <2>1, <2>2, <2>3, <2>4, AnswersOnce DEF ServerInv
<1>9. OwedIsHeld'
  BY DEF ServerInv, OwedIsHeld, FailedToLoad, Finish, Left, connVars, At
<1>10. WriterConnected'
  BY DEF ServerInv, WriterConnected, FailedToLoad, LoadFails, Forget
<1>11. TimerWhileIdle'
  BY DEF ServerInv, TimerWhileIdle, FailedToLoad, Finish, connVars, appVars,
     Registered
<1>12. QED
  BY <1>1, <1>2, <1>3, <1>4, <1>5, <1>6, <1>7, <1>8, <1>9, <1>10, <1>11 DEF
     ServerInv

LEMMA SaveReportedPreserves ==
    ASSUME ServerInv, SaveReported
    PROVE  ServerInv'
<1>1. TrackerInv'
  BY CompleteKeeps DEF ServerInv, SaveReported
<1>2. ServerTypeOK'
  BY <1>1 DEF ServerInv, ServerTypeOK, TrackerInv, ReqState, SaveReported,
     Finish, Left, Answer, connVars, appVars, Hear
<1>3. ConnectionsInOrder'
  BY AnswerHears DEF ServerInv, ConnectionsInOrder, SaveReported, Finish,
     connVars
<1>4. RequestsInOrder'
  BY DEF ServerInv, RequestsInOrder, SaveReported, Complete, Finish, Left,
     connVars, TablesInOrder, Mutations
<1>5. TablesInOrder'
  BY DEF ServerInv, TablesInOrder, SaveReported, Complete, Finish,
     StartNothing, Start, Left, CleanupIfIdle, Forget, TrackerTypeOK,
     TrackerInv, TableShape, Mutations
<1>6. HandshakeFirst'
  BY DEF ServerInv, HandshakeFirst, SaveReported, Finish, Left, Answer, Hear,
     RequestsInOrder, TablesInOrder
<1>7. RunningIsTracked'
  BY DEF ServerInv, RunningIsTracked, SaveReported, Complete, Finish, Left,
     connVars, At, ServerTypeOK, TablesInOrder, Mutations
<1>8. AnsweredOnce'
  <2>1. PICK s \in saving, failed \in SUBSET queued :
          Complete(s, failed) /\ Finish({active} \cup failed)
    BY DEF SaveReported
  <2> DEFINE S == {active} \cup failed
  <2>2. S \subseteq Mutations /\ Mutations \subseteq Request
    BY <2>1 DEF Complete, Mutations, ServerInv, TrackerInv, TrackerTypeOK
  <2>3. S \in SUBSET Request /\ Answer(S) /\ UNCHANGED conn
    BY <2>1, <2>2 DEF Finish, connVars
  <2>4. \A q \in S : req[q].st = "saving" /\ req'[q].st = "done"
    BY <2>1, <2>2 DEF Finish, ServerInv, ServerTypeOK, TablesInOrder
  <2>5. \A q \in Request \ S : req'[q] = Left(q)
    BY <2>1 DEF Finish
  <2>6. \A q \in Request : req'[q].conn = req[q].conn
    BY <2>1 DEF Finish, Left, ServerInv, ServerTypeOK
  <2>7. \A q \in Request \ S : req'[q].st = "done" <=> req[q].st = "done"
    BY <2>5 DEF Left, ServerInv, ServerTypeOK, TablesInOrder
  <2>8. \A q \in Request : req'[q].st # "unused" => req[q].st # "unused"
    BY <2>4, <2>5 DEF Left, ServerInv, ServerTypeOK, TablesInOrder
  <2>9. \A q \in Request : req'[q].st # "unused" => req'[q].conn \in Conn
    BY <2>6, <2>8 DEF ServerInv, RequestsInOrder
  <2> HIDE DEF S
  <2>10. QED
    BY <2>3, <2>4, <2>6, <2>7, <2>9, AnswersOnce DEF ServerInv
<1>9. OwedIsHeld'
  BY TrackerAssumption DEF ServerInv, OwedIsHeld, SaveReported, Complete,
     Finish, Start, Left, connVars, At, Mutations
<1>10. WriterConnected'
  BY DEF ServerInv, WriterConnected, SaveReported, Complete, Finish,
     StartNothing, Start, connVars, CleanupIfIdle, Forget
<1>11. TimerWhileIdle'
  BY DEF ServerInv, TimerWhileIdle, SaveReported, Finish, connVars, appVars,
     Registered
<1>12. QED
  BY <1>1, <1>2, <1>3, <1>4, <1>5, <1>6, <1>7, <1>8, <1>9, <1>10, <1>11 DEF
     ServerInv

LEMMA LateReportPreserves ==
    ASSUME ServerInv, LateReport
    PROVE  ServerInv'
<1>1. TrackerInv'
  BY ReportIgnoredKeeps DEF ServerInv, LateReport
<1>2. ServerTypeOK'
  BY <1>1 DEF ServerInv, ServerTypeOK, TrackerInv, LateReport, connVars,
     sendVars, reqVars, appVars
<1>3. ConnectionsInOrder'
  BY DEF ServerInv, ConnectionsInOrder, LateReport, connVars, sendVars
<1>4. RequestsInOrder'
  BY DEF ServerInv, RequestsInOrder, LateReport, connVars, reqVars
<1>5. TablesInOrder'
  BY DEF ServerInv, TablesInOrder, LateReport, ReportIgnored, reqVars,
     mutationVars, Mutations
<1>6. HandshakeFirst'
  BY DEF ServerInv, HandshakeFirst, LateReport, sendVars, reqVars
<1>7. RunningIsTracked'
  BY DEF ServerInv, RunningIsTracked, LateReport, connVars, reqVars, At
<1>8. AnsweredOnce'
  BY DEF ServerInv, AnsweredOnce, LateReport, connVars, sendVars, reqVars, At
<1>9. OwedIsHeld'
  BY DEF ServerInv, OwedIsHeld, LateReport, ReportIgnored, connVars, reqVars,
     mutationVars, At, Mutations
<1>10. WriterConnected'
  BY DEF ServerInv, WriterConnected, LateReport, ReportIgnored, connVars
<1>11. TimerWhileIdle'
  BY DEF ServerInv, TimerWhileIdle, LateReport, connVars, appVars, Registered
<1>12. QED
  BY <1>1, <1>2, <1>3, <1>4, <1>5, <1>6, <1>7, <1>8, <1>9, <1>10, <1>11 DEF
     ServerInv

LEMMA BroadcastPreserves ==
    ASSUME ServerInv, Broadcast
    PROVE  ServerInv'
<1>1. TrackerInv'
  BY DEF ServerInv, TrackerInv, SavesInOrder, TableShape, TrackerTypeOK,
     Broadcast, trackerVars, mutationVars
<1>2. ServerTypeOK'
  BY <1>1 DEF ServerInv, ServerTypeOK, TrackerInv, Broadcast, Push, connVars,
     reqVars, appVars
<1>3. ConnectionsInOrder'
  BY DEF ServerInv, ConnectionsInOrder, Broadcast, Push, connVars
<1>4. RequestsInOrder'
  BY DEF ServerInv, RequestsInOrder, Broadcast, connVars, reqVars
<1>5. TablesInOrder'
  BY DEF ServerInv, TablesInOrder, Broadcast, trackerVars, reqVars,
     mutationVars, Mutations
<1>6. HandshakeFirst'
  BY DEF ServerInv, HandshakeFirst, Broadcast, Push, reqVars,
     ConnectionsInOrder, RequestsInOrder
<1>7. RunningIsTracked'
  BY DEF ServerInv, RunningIsTracked, Broadcast, connVars, reqVars, At
<1>8. AnsweredOnce'
  BY DEF ServerInv, AnsweredOnce, Broadcast, connVars, reqVars, At
<1>9. OwedIsHeld'
  BY DEF ServerInv, OwedIsHeld, Broadcast, trackerVars, connVars, reqVars,
     mutationVars, At, Mutations
<1>10. WriterConnected'
  BY DEF ServerInv, WriterConnected, Broadcast, trackerVars, connVars
<1>11. TimerWhileIdle'
  BY DEF ServerInv, TimerWhileIdle, Broadcast, connVars, appVars, Registered
<1>12. QED
  BY <1>1, <1>2, <1>3, <1>4, <1>5, <1>6, <1>7, <1>8, <1>9, <1>10, <1>11 DEF
     ServerInv

LEMMA TimerExpiresPreserves ==
    ASSUME ServerInv, TimerExpires
    PROVE  ServerInv'
<1>1. TrackerInv'
  BY DEF ServerInv, TrackerInv, SavesInOrder, TableShape, TrackerTypeOK,
     TimerExpires, trackerVars, mutationVars
<1>2. ServerTypeOK'
  BY <1>1 DEF ServerInv, ServerTypeOK, TrackerInv, TimerExpires, connVars,
     sendVars, reqVars
<1>3. ConnectionsInOrder'
  BY DEF ServerInv, ConnectionsInOrder, TimerExpires, connVars, sendVars
<1>4. RequestsInOrder'
  BY DEF ServerInv, RequestsInOrder, TimerExpires, connVars, reqVars
<1>5. TablesInOrder'
  BY DEF ServerInv, TablesInOrder, TimerExpires, trackerVars, reqVars,
     mutationVars, Mutations
<1>6. HandshakeFirst'
  BY DEF ServerInv, HandshakeFirst, TimerExpires, sendVars, reqVars
<1>7. RunningIsTracked'
  BY DEF ServerInv, RunningIsTracked, TimerExpires, connVars, reqVars, At
<1>8. AnsweredOnce'
  BY DEF ServerInv, AnsweredOnce, TimerExpires, connVars, sendVars, reqVars, At
<1>9. OwedIsHeld'
  BY DEF ServerInv, OwedIsHeld, TimerExpires, trackerVars, connVars, reqVars,
     mutationVars, At, Mutations
<1>10. WriterConnected'
  BY DEF ServerInv, WriterConnected, TimerExpires, trackerVars, connVars
<1>11. TimerWhileIdle'
  BY DEF ServerInv, TimerWhileIdle, TimerExpires, connVars, Registered
<1>12. QED
  BY <1>1, <1>2, <1>3, <1>4, <1>5, <1>6, <1>7, <1>8, <1>9, <1>10, <1>11 DEF
     ServerInv

LEMMA TimerCallbackPreserves ==
    ASSUME ServerInv, TimerCallback
    PROVE  ServerInv'
<1>1. TrackerInv'
  BY DEF ServerInv, TrackerInv, SavesInOrder, TableShape, TrackerTypeOK,
     TimerCallback, trackerVars, mutationVars
<1>2. ServerTypeOK'
  BY <1>1 DEF ServerInv, ServerTypeOK, TrackerInv, ReqState, TimerCallback,
     trackerVars, connVars, sendVars, reqVars
<1>3. ConnectionsInOrder'
  BY DEF ServerInv, ConnectionsInOrder, TimerCallback, connVars, sendVars
<1>4. RequestsInOrder'
  BY DEF ServerInv, RequestsInOrder, TimerCallback, connVars, reqVars
<1>5. TablesInOrder'
  BY DEF ServerInv, TablesInOrder, TimerCallback, trackerVars, reqVars,
     mutationVars, Mutations
<1>6. HandshakeFirst'
  BY DEF ServerInv, HandshakeFirst, TimerCallback, sendVars, reqVars
<1>7. RunningIsTracked'
  BY DEF ServerInv, RunningIsTracked, TimerCallback, connVars, reqVars, At
<1>8. AnsweredOnce'
  BY DEF ServerInv, AnsweredOnce, TimerCallback, connVars, sendVars, reqVars,
     At
<1>9. OwedIsHeld'
  BY DEF ServerInv, OwedIsHeld, TimerCallback, trackerVars, connVars, reqVars,
     mutationVars, At, Mutations
<1>10. WriterConnected'
  BY DEF ServerInv, WriterConnected, TimerCallback, trackerVars, connVars
<1>11. TimerWhileIdle'
  BY DEF ServerInv, TimerWhileIdle, TimerCallback, connVars, Registered
<1>12. QED
  BY <1>1, <1>2, <1>3, <1>4, <1>5, <1>6, <1>7, <1>8, <1>9, <1>10, <1>11 DEF
     ServerInv

LEMMA TerminatePreserves ==
    ASSUME ServerInv, Terminate
    PROVE  ServerInv'
<1>1. TrackerInv'
  BY DEF ServerInv, TrackerInv, SavesInOrder, TableShape, TrackerTypeOK,
     Terminate, trackerVars, mutationVars
<1>2. ServerTypeOK'
  BY <1>1 DEF ServerInv, ServerTypeOK, TrackerInv, Terminate, connVars,
     sendVars, reqVars
<1>3. ConnectionsInOrder'
  BY DEF ServerInv, ConnectionsInOrder, Terminate, connVars, sendVars
<1>4. RequestsInOrder'
  BY DEF ServerInv, RequestsInOrder, Terminate, connVars, reqVars
<1>5. TablesInOrder'
  BY DEF ServerInv, TablesInOrder, Terminate, trackerVars, reqVars,
     mutationVars, Mutations
<1>6. HandshakeFirst'
  BY DEF ServerInv, HandshakeFirst, Terminate, sendVars, reqVars
<1>7. RunningIsTracked'
  BY DEF ServerInv, RunningIsTracked, Terminate, connVars, reqVars, At
<1>8. AnsweredOnce'
  BY DEF ServerInv, AnsweredOnce, Terminate, connVars, sendVars, reqVars, At
<1>9. OwedIsHeld'
  BY DEF ServerInv, OwedIsHeld, Terminate, trackerVars, connVars, reqVars,
     mutationVars, At, Mutations
<1>10. WriterConnected'
  BY DEF ServerInv, WriterConnected, Terminate, trackerVars, connVars
<1>11. TimerWhileIdle'
  BY DEF ServerInv, TimerWhileIdle, Terminate, connVars, Registered
<1>12. QED
  BY <1>1, <1>2, <1>3, <1>4, <1>5, <1>6, <1>7, <1>8, <1>9, <1>10, <1>11 DEF
     ServerInv

-----------------------------------------------------------------------------
\* The steps together.

LEMMA InitEstablishes == Init => ServerInv
<1> SUFFICES ASSUME Init
             PROVE  ServerInv
  OBVIOUS
<1>1. TrackerTypeOK
  <2>1. loaded \in BOOLEAN
    BY DEF Init, TrackerInit
  <2>2. QED
    BY <2>1, TrackerAssumption DEF Init, TrackerInit, TrackerTypeOK
<1>2. TrackerInv
  BY <1>1, TrackerAssumption DEF Init, TrackerInit, TrackerInv, SavesInOrder,
     TableShape
<1>3. ServerTypeOK
  BY <1>1 DEF Init, ServerTypeOK, ReqState
<1>4. /\ ConnectionsInOrder /\ RequestsInOrder /\ TablesInOrder
      /\ HandshakeFirst /\ RunningIsTracked /\ AnsweredOnce
      /\ OwedIsHeld /\ WriterConnected /\ TimerWhileIdle
  BY DEF Init, TrackerInit, ConnectionsInOrder, RequestsInOrder, TablesInOrder,
     HandshakeFirst, RunningIsTracked, AnsweredOnce, OwedIsHeld,
     WriterConnected, TimerWhileIdle, Mutations, Registered
<1>5. QED
  BY <1>2, <1>3, <1>4 DEF ServerInv

LEMMA ReaderEndsPreserves ==
    ASSUME NEW c \in Conn, ServerInv, ReaderEnds(c)
    PROVE  ServerInv'
<1>1. /\ reader' \in [Conn -> {"none", "running", "ended"}]
      /\ writer' \in [Conn -> {"none", "running", "ended"}]
      /\ \A d \in Conn : conn[d] = "new" => reader'[d] = "none" /\ writer'[d] = "none"
  BY DEF ServerInv, ServerTypeOK, ConnectionsInOrder, ReaderEnds
<1>2. QED
  BY <1>1, DeregisterPreserves DEF ReaderEnds

LEMMA WriterEndsPreserves ==
    ASSUME NEW c \in Conn, ServerInv, WriterEnds(c)
    PROVE  ServerInv'
<1>1. /\ reader' \in [Conn -> {"none", "running", "ended"}]
      /\ writer' \in [Conn -> {"none", "running", "ended"}]
      /\ \A d \in Conn : conn[d] = "new" => reader'[d] = "none" /\ writer'[d] = "none"
  BY DEF ServerInv, ServerTypeOK, ConnectionsInOrder, WriterEnds
<1>2. QED
  BY <1>1, DeregisterPreserves DEF WriterEnds

LEMMA OpenBufferPreserves ==
    ASSUME NEW c \in Conn, NEW r \in Request, ServerInv, OpenBuffer(c, r)
    PROVE  ServerInv'
<1>1. conn[c] = "ready" /\ c \in Registered /\ UNCHANGED in_progress
  BY DEF OpenBuffer, Registered
<1>2. CASE /\ OpenNew(c, r) \/ (OpenAgain(c, r) /\ ~loaded)
           /\ Arrives(c, r, "opening")
           /\ UNCHANGED sendVars
  BY <1>1, <1>2, OpenWaitsPreserves
<1>3. CASE OpenAgain(c, r) /\ loaded /\ Arrives(c, r, "done") /\ Answer({r})
  BY <1>1, <1>3, OpenLoadedPreserves
<1>4. CASE Arrives(c, r, "done") /\ Answer({r}) /\ UNCHANGED trackerVars
  BY <1>1, <1>4, AnswerAtOncePreserves
<1>5. QED
  BY <1>2, <1>3, <1>4 DEF OpenBuffer

LEMMA SaveBufferPreserves ==
    ASSUME NEW c \in Conn, NEW r \in Request, ServerInv, SaveBuffer(c, r)
    PROVE  ServerInv'
<1>1. conn[c] = "ready" /\ c \in Registered /\ UNCHANGED in_progress
  BY DEF SaveBuffer, Registered
<1>2. CASE /\ MayWrite(c)
           /\ EnqueueFirst(r) \/ EnqueueNext(r)
           /\ Arrives(c, r, "saving")
           /\ UNCHANGED sendVars
  BY <1>1, <1>2, SaveStartsPreserves, SaveQueuesPreserves
<1>3. CASE MayWrite(c) /\ EnqueueFails /\ Arrives(c, r, "done") /\ Answer({r})
  BY <1>1, <1>3, SaveFailsPreserves
<1>4. CASE Arrives(c, r, "done") /\ Answer({r}) /\ UNCHANGED trackerVars
  BY <1>1, <1>4, AnswerAtOncePreserves
<1>5. QED
  BY <1>2, <1>3, <1>4 DEF SaveBuffer

LEMMA MessagePreserves ==
    ASSUME NEW c \in Conn, ServerInv, Message(c)
    PROVE  ServerInv'
<1>1. ASSUME NEW r \in Request, RequestRefused(c, r) \/ AnswerSync(c, r)
      PROVE  ServerInv'
  <2>1. /\ c \in Registered
        /\ Arrives(c, r, "done")
        /\ Answer({r})
        /\ UNCHANGED <<trackerVars, in_progress>>
    BY <1>1 DEF RequestRefused, AnswerSync, Registered
  <2>2. QED
    BY <2>1, AnswerAtOncePreserves
<1>2. QED
  BY <1>1, InitializePreserves, InitializeRejectedPreserves,
     CloseBufferPreserves, RequestIgnoredPreserves, StartWorkPreserves,
     StartFileOpPreserves, OpenBufferPreserves, SaveBufferPreserves,
     AbortPreserves DEF Message

LEMMA StutterPreserves == ServerInv /\ UNCHANGED vars => ServerInv'
<1> SUFFICES ASSUME ServerInv, UNCHANGED vars
             PROVE  ServerInv'
  OBVIOUS
<1>1. TrackerInv'
  BY DEF ServerInv, TrackerInv, TrackerTypeOK, SavesInOrder, TableShape, vars,
     trackerVars, mutationVars
<1>2. ServerTypeOK'
  BY <1>1 DEF ServerInv, ServerTypeOK, TrackerInv, vars, connVars, sendVars,
     reqVars, appVars
<1>3. (ConnectionsInOrder /\ RequestsInOrder /\ TablesInOrder /\ HandshakeFirst)'
  BY DEF ServerInv, ConnectionsInOrder, RequestsInOrder, TablesInOrder,
     HandshakeFirst, Mutations, vars, trackerVars, mutationVars, connVars,
     sendVars, reqVars
<1>4. (RunningIsTracked /\ AnsweredOnce /\ OwedIsHeld)'
  BY DEF ServerInv, RunningIsTracked, AnsweredOnce, OwedIsHeld, At, Mutations,
     vars, trackerVars, mutationVars, connVars, sendVars, reqVars
<1>5. (WriterConnected /\ TimerWhileIdle)'
  BY DEF ServerInv, WriterConnected, TimerWhileIdle, Registered, vars,
     trackerVars, connVars, appVars
<1>6. QED
  BY <1>1, <1>2, <1>3, <1>4, <1>5 DEF ServerInv

LEMMA NextPreserves == ServerInv /\ [Next]_vars => ServerInv'
<1> SUFFICES ASSUME ServerInv, [Next]_vars
             PROVE  ServerInv'
  OBVIOUS
<1>1. CASE UNCHANGED vars
  BY <1>1, StutterPreserves
<1>2. CASE \E c \in Conn :
             Register(c) \/ ReaderEnds(c) \/ WriterEnds(c) \/ Message(c)
  BY <1>2, RegisterPreserves, ReaderEndsPreserves, WriterEndsPreserves,
     MessagePreserves
<1>3. CASE \E r \in Request :
             FutureResolves(r) \/ Respond(r) \/ FileOpReported(r)
  BY <1>3, FutureResolvesPreserves, RespondPreserves, FileOpReportedPreserves
<1>4. CASE Loads \/ Saves
  BY <1>4, BufferLoadedPreserves, FailedToLoadPreserves, SaveReportedPreserves,
     LateReportPreserves DEF Loads, Saves
<1>5. CASE Broadcast \/ TimerExpires \/ TimerCallback \/ Terminate
  BY <1>5, BroadcastPreserves, TimerExpiresPreserves, TimerCallbackPreserves,
     TerminatePreserves
<1>6. QED
  BY <1>1, <1>2, <1>3, <1>4, <1>5 DEF Next

LEMMA ServerInvariant == Spec => []ServerInv
<1>1. QED
  BY InitEstablishes, NextPreserves, PTL DEF Spec

-----------------------------------------------------------------------------
\* Type correctness of the daemon, its tables included.
THEOREM TypesHold == Spec => []ServerTypeOK
<1>1. ServerInv => ServerTypeOK
  BY DEF ServerInv
<1>2. QED
  BY <1>1, ServerInvariant, PTL

\* No push and no work for a request before the InitializeResponse.
THEOREM HandshakeComesFirst == Spec => []HandshakeFirst
<1>1. ServerInv => HandshakeFirst
  BY DEF ServerInv
<1>2. QED
  BY <1>1, ServerInvariant, PTL

\* No future runs for a connection that cannot abort it, be it gone.
THEOREM RunningCanBeAborted == Spec => []RunningIsTracked
<1>1. ServerInv => RunningIsTracked
  BY DEF ServerInv
<1>2. QED
  BY <1>1, ServerInvariant, PTL

\* Answers are neither repeated nor lost while their connection is there.
THEOREM RequestsAreAnsweredOnce == Spec => []AnsweredOnce
<1>1. ServerInv => AnsweredOnce
  BY DEF ServerInv
<1>2. QED
  BY <1>1, ServerInvariant, PTL

\* What a live connection is owed stays in the tracker's tables, whoever opens,
\* closes, leaves or takes the lease.
THEOREM OwedStaysHeld == Spec => []OwedIsHeld
<1>1. ServerInv => OwedIsHeld
  BY DEF ServerInv
<1>2. QED
  BY <1>1, ServerInvariant, PTL

\* A buffer is kept for a connected writer or for mutations under way only.
THEOREM NoBufferLeaks == Spec => []BuffersHaveReason
<1>1. ServerInv => BuffersHaveReason
  BY TrackerAssumption DEF ServerInv, TrackerInv, TableShape, WriterConnected,
     BuffersHaveReason, Mutations
<1>2. QED
  BY <1>1, ServerInvariant, PTL

\* The file system has the active mutation of a buffer and no other.
THEOREM OneSaveAtATime == Spec => []ActiveIsSaving
<1>1. ASSUME ServerInv
      PROVE  ActiveIsSaving
  <2>1. \A s \in {t \in saving : t.file = file} :
          s.id = active /\ active # NoRequest
    BY <1>1, TrackerAssumption DEF ServerInv, TrackerInv, TrackerTypeOK,
       SavesInOrder
  <2>2. active # NoRequest =>
          \E s \in {t \in saving : t.file = file} : s.id = active
    BY <1>1 DEF ServerInv, TrackerInv, SavesInOrder
  <2>3. QED
    BY <2>1, <2>2 DEF ActiveIsSaving
<1>2. QED
  BY <1>1, ServerInvariant, PTL

\* The model holds the grace timer exactly while nobody is connected, whichever of
\* the two tasks of the last connection took it off.
THEOREM TimerIsHeldWhileIdle == Spec => []TimerWhileIdle
<1>1. ServerInv => TimerWhileIdle
  BY DEF ServerInv
<1>2. QED
  BY <1>1, ServerInvariant, PTL
=============================================================================
