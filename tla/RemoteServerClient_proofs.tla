--------------------- MODULE RemoteServerClient_proofs ---------------------
(***************************************************************************)
(* Proofs about RemoteServerClient, for any set of requests.               *)
(***************************************************************************)
EXTENDS RemoteServerClient, SequenceTheorems, TLAPS

\* The flag is set in the step in which the reader task begins to leave.
FlagIsReaders == disconnected <=> reader \in {"clearing", "stopped"}

\* While the reader task sends an answer on, it alone holds that sender.
ResolvesItsOwn ==
    reader = "resolving" =>
        /\ down # <<>>
        /\ Head(down).kind # "push"
        /\ Head(down).id \notin pending
        /\ slot[Head(down).id] = "open"
        /\ call[Head(down).id] # "idle"

IdleIsOpen == \A r \in Request : call[r] = "idle" => slot[r] = "open"

\* The sender of a call that can still be answered is in the table, or with the
\* reader task.
SendersAreHeld ==
    \A r \in Request :
        slot[r] = "open" /\ call[r] \in {"inserted", "checked", "waiting", "unsent"} =>
            r \in pending \/ (reader = "resolving" /\ Head(down).id = r)

\* The clear of the reader task has yet to visit every call that passed the flag.
ClearCatchesUp ==
    reader \in {"clearing", "stopped"} =>
        \A r \in pending :
            call[r] \in {"checked", "waiting"} =>
                reader = "clearing" /\ r \in clearing["reader"]

\* A call that found the connection dead visits its own entry.
RefusedClears ==
    \A r \in pending : call[r] = "refused" => r \in clearing[r]

ClientInv ==
    /\ ClientTypeOK
    /\ FlagIsReaders
    /\ ResolvesItsOwn
    /\ PendingAreAwaited
    /\ IdleIsOpen
    /\ SendersAreHeld
    /\ ClearCatchesUp
    /\ RefusedClears

-----------------------------------------------------------------------------
LEMMA HeadIsAnswer ==
    ASSUME ClientTypeOK, down # <<>>, Head(down).kind # "push"
    PROVE  Head(down).id \in Request /\ Head(down).kind \in {"answer", "garbled"}
<1>1. Head(down) \in DownMessage
  BY DEF ClientTypeOK
<1>2. QED
  BY <1>1 DEF DownMessage

LEMMA HeadIsUp ==
    ASSUME ClientTypeOK, outbound # <<>>
    PROVE  Head(outbound) \in UpMessage /\ Head(outbound).id \in Request
<1>1. Head(outbound) \in UpMessage
  BY DEF ClientTypeOK
<1>2. QED
  BY <1>1 DEF UpMessage

LEMMA InsertKeeps ==
    ASSUME NEW r \in Request, ClientInv, Insert(r)
    PROVE  ClientInv'
<1>1. ClientTypeOK'
  BY ClientAssumption DEF ClientInv, ClientTypeOK, Insert, Goes, remoteVars,
     Task, Inside, SendersAreHeld, IdleIsOpen, Done, UpMessage, DownMessage
<1>2. FlagIsReaders'
  BY DEF ClientInv, FlagIsReaders, Insert
<1>3. ResolvesItsOwn'
  BY DEF ClientInv, ResolvesItsOwn, Insert, Goes, remoteVars
<1>4. PendingAreAwaited'
  BY DEF ClientInv, PendingAreAwaited, Insert, Goes, ClientTypeOK, Inside
<1>5. IdleIsOpen'
  BY DEF ClientInv, IdleIsOpen, Insert, Goes
<1>6. SendersAreHeld'
  BY DEF ClientInv, SendersAreHeld, Insert, Goes, remoteVars
<1>7. ClearCatchesUp'
  BY DEF ClientInv, ClearCatchesUp, Insert, Goes
<1>8. RefusedClears'
  BY DEF ClientInv, RefusedClears, Insert, Goes
<1>9. QED
  BY <1>1, <1>2, <1>3, <1>4, <1>5, <1>6, <1>7, <1>8 DEF ClientInv

LEMMA CheckFlagKeeps ==
    ASSUME NEW r \in Request, ClientInv, CheckFlag(r)
    PROVE  ClientInv'
<1>1. ClientTypeOK'
  <2>1. call' \in [Request -> {"idle"} \cup Inside \cup Done]
    BY DEF ClientInv, ClientTypeOK, CheckFlag, Goes, Inside
  <2>2. clearing' \in [Task -> SUBSET Request]
    BY DEF ClientInv, ClientTypeOK, CheckFlag, Task
  <2>3. QED
    BY <2>1, <2>2 DEF ClientInv, ClientTypeOK, CheckFlag, remoteVars
<1>2. FlagIsReaders'
  BY DEF ClientInv, FlagIsReaders, CheckFlag
<1>3. ResolvesItsOwn'
  BY HeadIsAnswer, HeadIsUp, ClientAssumption DEF ClientInv, ClientTypeOK,
     CheckFlag, Goes, callVars, remoteVars, Task, Inside, ResolvesItsOwn,
     PendingAreAwaited, SendersAreHeld, ClearCatchesUp, FlagIsReaders,
     IdleIsOpen, RefusedClears
<1>4. PendingAreAwaited'
  <2>1. call'[r] \in Inside /\ \A q \in Request \ {r} : call'[q] = call[q]
    BY DEF ClientInv, ClientTypeOK, CheckFlag, Goes, Inside
  <2>2. QED
    BY <2>1 DEF ClientInv, ClientTypeOK, CheckFlag, PendingAreAwaited
<1>5. IdleIsOpen'
  BY DEF ClientInv, IdleIsOpen, CheckFlag, Goes, ClientTypeOK
<1>6. SendersAreHeld'
  BY DEF ClientInv, SendersAreHeld, CheckFlag, Goes, remoteVars, ClientTypeOK
<1>7. ClearCatchesUp'
  BY ClientAssumption DEF ClientInv, ClearCatchesUp, CheckFlag, Goes,
     ClientTypeOK, Task, Inside, FlagIsReaders
<1>8. RefusedClears'
  BY ClientAssumption DEF ClientInv, RefusedClears, CheckFlag, Goes,
     ClientTypeOK, Task, Inside, PendingAreAwaited
<1>9. QED
  BY <1>1, <1>2, <1>3, <1>4, <1>5, <1>6, <1>7, <1>8 DEF ClientInv

LEMMA RefuseKeeps ==
    ASSUME NEW r \in Request, ClientInv, Refuse(r)
    PROVE  ClientInv'
<1>1. ClientTypeOK'
  BY DEF ClientInv, ClientTypeOK, Refuse, Goes, remoteVars, Inside, Done,
     UpMessage, DownMessage
<1>2. FlagIsReaders'
  BY DEF ClientInv, FlagIsReaders, Refuse
<1>3. ResolvesItsOwn'
  BY DEF ClientInv, ResolvesItsOwn, Refuse, Goes, remoteVars
<1>4. PendingAreAwaited'
  BY ClientAssumption DEF ClientInv, PendingAreAwaited, Refuse, Goes,
     ClientTypeOK, Task, Inside, ClearCatchesUp, RefusedClears
<1>5. IdleIsOpen'
  BY DEF ClientInv, IdleIsOpen, Refuse, Goes
<1>6. SendersAreHeld'
  BY DEF ClientInv, SendersAreHeld, Refuse, Goes, remoteVars
<1>7. ClearCatchesUp'
  BY DEF ClientInv, ClearCatchesUp, Refuse, Goes
<1>8. RefusedClears'
  BY DEF ClientInv, RefusedClears, Refuse, Goes
<1>9. QED
  BY <1>1, <1>2, <1>3, <1>4, <1>5, <1>6, <1>7, <1>8 DEF ClientInv

LEMMA EnqueueKeeps ==
    ASSUME NEW r \in Request, ClientInv, Enqueue(r)
    PROVE  ClientInv'
<1>1. ClientTypeOK'
  <2>1. call' \in [Request -> {"idle"} \cup Inside \cup Done]
    BY DEF ClientInv, ClientTypeOK, Enqueue, Goes, Inside
  <2>2. [kind |-> "request", id |-> r] \in UpMessage
    BY DEF UpMessage
  <2>3. outbound' \in Seq(UpMessage)
    <3>1. outbound' \in {outbound, Append(outbound, [kind |-> "request", id |-> r])}
      BY DEF Enqueue
    <3>2. outbound \in Seq(UpMessage)
      BY DEF ClientInv, ClientTypeOK
    <3>3. QED
      BY <2>2, <3>1, <3>2
  <2>4. QED
    BY <2>1, <2>3 DEF ClientInv, ClientTypeOK, Enqueue, remoteVars
<1>2. FlagIsReaders'
  BY DEF ClientInv, FlagIsReaders, Enqueue
<1>3. ResolvesItsOwn'
  BY HeadIsAnswer, HeadIsUp, ClientAssumption DEF ClientInv, ClientTypeOK,
     Enqueue, Goes, callVars, remoteVars, Task, Inside, ResolvesItsOwn,
     PendingAreAwaited, SendersAreHeld, ClearCatchesUp, FlagIsReaders,
     IdleIsOpen, RefusedClears
<1>4. PendingAreAwaited'
  BY DEF ClientInv, PendingAreAwaited, Enqueue, Goes, ClientTypeOK, Inside
<1>5. IdleIsOpen'
  BY DEF ClientInv, IdleIsOpen, Enqueue, Goes, ClientTypeOK
<1>6. SendersAreHeld'
  BY DEF ClientInv, SendersAreHeld, Enqueue, Goes, remoteVars, ClientTypeOK
<1>7. ClearCatchesUp'
  BY DEF ClientInv, ClearCatchesUp, Enqueue, Goes, ClientTypeOK
<1>8. RefusedClears'
  BY DEF ClientInv, RefusedClears, Enqueue, Goes, ClientTypeOK
<1>9. QED
  BY <1>1, <1>2, <1>3, <1>4, <1>5, <1>6, <1>7, <1>8 DEF ClientInv

LEMMA SendFailedKeeps ==
    ASSUME NEW r \in Request, ClientInv, SendFailed(r)
    PROVE  ClientInv'
<1>1. ClientTypeOK'
  BY DEF ClientInv, ClientTypeOK, SendFailed, Goes, DropEntry, remoteVars,
     Inside, Done, UpMessage, DownMessage
<1>2. FlagIsReaders'
  BY DEF ClientInv, FlagIsReaders, SendFailed
<1>3. ResolvesItsOwn'
  BY DEF ClientInv, ResolvesItsOwn, SendFailed, Goes, DropEntry, remoteVars
<1>4. PendingAreAwaited'
  BY DEF ClientInv, PendingAreAwaited, SendFailed, Goes, DropEntry
<1>5. IdleIsOpen'
  BY DEF ClientInv, IdleIsOpen, SendFailed, Goes, DropEntry
<1>6. SendersAreHeld'
  BY DEF ClientInv, SendersAreHeld, SendFailed, Goes, DropEntry, remoteVars,
     ClientTypeOK
<1>7. ClearCatchesUp'
  BY DEF ClientInv, ClearCatchesUp, SendFailed, Goes, DropEntry
<1>8. RefusedClears'
  BY DEF ClientInv, RefusedClears, SendFailed, Goes, DropEntry
<1>9. QED
  BY <1>1, <1>2, <1>3, <1>4, <1>5, <1>6, <1>7, <1>8 DEF ClientInv

LEMMA CollectKeeps ==
    ASSUME NEW r \in Request, ClientInv, Collect(r)
    PROVE  ClientInv'
<1>1. ClientTypeOK'
  BY DEF ClientInv, ClientTypeOK, Collect, Goes, remoteVars, Inside, Done,
     UpMessage, DownMessage
<1>2. FlagIsReaders'
  BY DEF ClientInv, FlagIsReaders, Collect
<1>3. ResolvesItsOwn'
  BY DEF ClientInv, ResolvesItsOwn, Collect, Goes, remoteVars
<1>4. PendingAreAwaited'
  BY DEF ClientInv, PendingAreAwaited, Collect, Goes, ClientTypeOK
<1>5. IdleIsOpen'
  BY DEF ClientInv, IdleIsOpen, Collect, Goes, ClientTypeOK
<1>6. SendersAreHeld'
  BY DEF ClientInv, SendersAreHeld, Collect, Goes, remoteVars
<1>7. ClearCatchesUp'
  BY DEF ClientInv, ClearCatchesUp, Collect, Goes
<1>8. RefusedClears'
  BY DEF ClientInv, RefusedClears, Collect, Goes, ClientTypeOK
<1>9. QED
  BY <1>1, <1>2, <1>3, <1>4, <1>5, <1>6, <1>7, <1>8 DEF ClientInv

LEMMA TimerFiresKeeps ==
    ASSUME NEW r \in Request, ClientInv, TimerFires(r)
    PROVE  ClientInv'
<1>1. ClientTypeOK'
  BY DEF ClientInv, ClientTypeOK, TimerFires, Goes, remoteVars, Inside, Done,
     UpMessage, DownMessage
<1>2. FlagIsReaders'
  BY DEF ClientInv, FlagIsReaders, TimerFires
<1>3. ResolvesItsOwn'
  BY DEF ClientInv, ResolvesItsOwn, TimerFires, Goes, remoteVars
<1>4. PendingAreAwaited'
  BY DEF ClientInv, PendingAreAwaited, TimerFires, Goes, ClientTypeOK, Inside
<1>5. IdleIsOpen'
  BY DEF ClientInv, IdleIsOpen, TimerFires, Goes
<1>6. SendersAreHeld'
  BY DEF ClientInv, SendersAreHeld, TimerFires, Goes, remoteVars
<1>7. ClearCatchesUp'
  BY DEF ClientInv, ClearCatchesUp, TimerFires, Goes
<1>8. RefusedClears'
  BY DEF ClientInv, RefusedClears, TimerFires, Goes
<1>9. QED
  BY <1>1, <1>2, <1>3, <1>4, <1>5, <1>6, <1>7, <1>8 DEF ClientInv

LEMMA TimeOutKeeps ==
    ASSUME NEW r \in Request, ClientInv, TimeOut(r)
    PROVE  ClientInv'
<1>1. ClientTypeOK'
  <2>1. call' \in [Request -> {"idle"} \cup Inside \cup Done]
    BY DEF ClientInv, ClientTypeOK, TimeOut, Goes, Done
  <2>2. [kind |-> "abort", id |-> r] \in UpMessage
    BY DEF UpMessage
  <2>3. outbound' \in Seq(UpMessage)
    BY <2>2 DEF ClientInv, ClientTypeOK, TimeOut
  <2>4. /\ pending' \subseteq Request
        /\ slot' \in [Request -> {"open", "answer", "garbled", "dropped"}]
        /\ \A q \in pending' : slot'[q] = "open"
    BY DEF ClientInv, ClientTypeOK, TimeOut, DropEntry
  <2>5. QED
    BY <2>1, <2>3, <2>4 DEF ClientInv, ClientTypeOK, TimeOut, remoteVars
<1>2. FlagIsReaders'
  BY DEF ClientInv, FlagIsReaders, TimeOut
<1>3. ResolvesItsOwn'
  BY DEF ClientInv, ResolvesItsOwn, TimeOut, Goes, DropEntry, remoteVars
<1>4. PendingAreAwaited'
  BY DEF ClientInv, PendingAreAwaited, TimeOut, Goes, DropEntry
<1>5. IdleIsOpen'
  BY DEF ClientInv, IdleIsOpen, TimeOut, Goes, DropEntry
<1>6. SendersAreHeld'
  BY DEF ClientInv, SendersAreHeld, TimeOut, Goes, DropEntry, remoteVars
<1>7. ClearCatchesUp'
  BY DEF ClientInv, ClearCatchesUp, TimeOut, Goes, DropEntry
<1>8. RefusedClears'
  BY DEF ClientInv, RefusedClears, TimeOut, Goes, DropEntry
<1>9. QED
  BY <1>1, <1>2, <1>3, <1>4, <1>5, <1>6, <1>7, <1>8 DEF ClientInv

LEMMA ClearVisitsKeeps ==
    ASSUME NEW t \in Task, ClientInv, ClearVisits(t)
    PROVE  ClientInv'
<1>1. ClientTypeOK'
  BY DEF ClientInv, ClientTypeOK, ClearVisits, DropEntry, remoteVars
<1>2. FlagIsReaders'
  BY DEF ClientInv, FlagIsReaders, ClearVisits
<1>3. ResolvesItsOwn'
  BY DEF ClientInv, ResolvesItsOwn, ClearVisits, DropEntry, remoteVars
<1>4. PendingAreAwaited'
  BY DEF ClientInv, PendingAreAwaited, ClearVisits, DropEntry
<1>5. IdleIsOpen'
  <2>1. PICK q \in Request : DropEntry(q) /\ call' = call
    BY DEF ClientInv, ClientTypeOK, ClearVisits
  <2>2. q \in pending => call[q] # "idle"
    BY DEF ClientInv, PendingAreAwaited, Inside
  <2>3. QED
    BY <2>1, <2>2 DEF ClientInv, ClientTypeOK, IdleIsOpen, DropEntry
<1>6. SendersAreHeld'
  BY DEF ClientInv, SendersAreHeld, ClearVisits, DropEntry, remoteVars,
     ClientTypeOK
<1>7. ClearCatchesUp'
  BY DEF ClientInv, ClearCatchesUp, ClearVisits, DropEntry
<1>8. RefusedClears'
  BY DEF ClientInv, RefusedClears, ClearVisits, DropEntry
<1>9. QED
  BY <1>1, <1>2, <1>3, <1>4, <1>5, <1>6, <1>7, <1>8 DEF ClientInv

LEMMA ReleaseKeeps ==
    ASSUME ClientInv, Release
    PROVE  ClientInv'
<1>1. ClientTypeOK'
  BY HeadIsAnswer, HeadIsUp, ClientAssumption DEF ClientInv, ClientTypeOK,
     Release, callVars, callVars, remoteVars, Task, Inside, ResolvesItsOwn,
     PendingAreAwaited, SendersAreHeld, ClearCatchesUp, FlagIsReaders,
     IdleIsOpen, RefusedClears, Done, UpMessage, DownMessage
<1>2. FlagIsReaders'
  BY DEF ClientInv, FlagIsReaders, Release
<1>3. ResolvesItsOwn'
  BY DEF ClientInv, ResolvesItsOwn, Release, remoteVars
<1>4. PendingAreAwaited'
  BY DEF ClientInv, PendingAreAwaited, Release
<1>5. IdleIsOpen'
  BY DEF ClientInv, IdleIsOpen, Release
<1>6. SendersAreHeld'
  BY DEF ClientInv, SendersAreHeld, Release, remoteVars
<1>7. ClearCatchesUp'
  BY DEF ClientInv, ClearCatchesUp, Release
<1>8. RefusedClears'
  BY DEF ClientInv, RefusedClears, Release
<1>9. QED
  BY <1>1, <1>2, <1>3, <1>4, <1>5, <1>6, <1>7, <1>8 DEF ClientInv

LEMMA WriteOneKeeps ==
    ASSUME ClientInv, WriteOne
    PROVE  ClientInv'
<1>1. ClientTypeOK'
  BY HeadIsUp DEF ClientInv, ClientTypeOK, WriteOne
<1>2. FlagIsReaders'
  BY DEF ClientInv, FlagIsReaders, WriteOne
<1>3. ResolvesItsOwn'
  BY DEF ClientInv, ResolvesItsOwn, WriteOne
<1>4. PendingAreAwaited'
  BY DEF ClientInv, PendingAreAwaited, WriteOne
<1>5. IdleIsOpen'
  BY DEF ClientInv, IdleIsOpen, WriteOne
<1>6. SendersAreHeld'
  BY DEF ClientInv, SendersAreHeld, WriteOne
<1>7. ClearCatchesUp'
  BY DEF ClientInv, ClearCatchesUp, WriteOne
<1>8. RefusedClears'
  BY DEF ClientInv, RefusedClears, WriteOne
<1>9. QED
  BY <1>1, <1>2, <1>3, <1>4, <1>5, <1>6, <1>7, <1>8 DEF ClientInv

LEMMA WriteTooLargeKeeps ==
    ASSUME ClientInv, WriteTooLarge
    PROVE  ClientInv'
<1>1. ClientTypeOK'
  BY DEF ClientInv, ClientTypeOK, WriteTooLarge, DropEntry, remoteVars
<1>2. FlagIsReaders'
  BY DEF ClientInv, FlagIsReaders, WriteTooLarge
<1>3. ResolvesItsOwn'
  BY DEF ClientInv, ResolvesItsOwn, WriteTooLarge, DropEntry, remoteVars
<1>4. PendingAreAwaited'
  BY DEF ClientInv, PendingAreAwaited, WriteTooLarge, DropEntry
<1>5. IdleIsOpen'
  BY HeadIsAnswer, HeadIsUp, ClientAssumption DEF ClientInv, ClientTypeOK,
     WriteTooLarge, DropEntry, callVars, remoteVars, Task, Inside, IdleIsOpen,
     ResolvesItsOwn, PendingAreAwaited, SendersAreHeld, ClearCatchesUp,
     FlagIsReaders, RefusedClears
<1>6. SendersAreHeld'
  BY DEF ClientInv, SendersAreHeld, WriteTooLarge, DropEntry, remoteVars,
     ClientTypeOK
<1>7. ClearCatchesUp'
  BY DEF ClientInv, ClearCatchesUp, WriteTooLarge, DropEntry
<1>8. RefusedClears'
  BY DEF ClientInv, RefusedClears, WriteTooLarge, DropEntry
<1>9. QED
  BY <1>1, <1>2, <1>3, <1>4, <1>5, <1>6, <1>7, <1>8 DEF ClientInv

LEMMA WriteFailsKeeps ==
    ASSUME ClientInv, WriteFails
    PROVE  ClientInv'
<1>1. ClientTypeOK'
  BY ClientAssumption DEF ClientInv, ClientTypeOK, WriteFails, remoteVars,
     Task, Inside, Done, UpMessage, DownMessage
<1>2. FlagIsReaders'
  BY DEF ClientInv, FlagIsReaders, WriteFails
<1>3. ResolvesItsOwn'
  BY DEF ClientInv, ResolvesItsOwn, WriteFails, remoteVars
<1>4. PendingAreAwaited'
  BY DEF ClientInv, PendingAreAwaited, WriteFails
<1>5. IdleIsOpen'
  BY DEF ClientInv, IdleIsOpen, WriteFails
<1>6. SendersAreHeld'
  BY DEF ClientInv, SendersAreHeld, WriteFails, remoteVars
<1>7. ClearCatchesUp'
  BY DEF ClientInv, ClearCatchesUp, WriteFails
<1>8. RefusedClears'
  BY DEF ClientInv, RefusedClears, WriteFails, ClientTypeOK
<1>9. QED
  BY <1>1, <1>2, <1>3, <1>4, <1>5, <1>6, <1>7, <1>8 DEF ClientInv

LEMMA WriterStopsKeeps ==
    ASSUME ClientInv, WriterStops
    PROVE  ClientInv'
<1>1. ClientTypeOK'
  BY DEF ClientInv, ClientTypeOK, WriterStops, remoteVars
<1>2. FlagIsReaders'
  BY DEF ClientInv, FlagIsReaders, WriterStops
<1>3. ResolvesItsOwn'
  BY DEF ClientInv, ResolvesItsOwn, WriterStops, remoteVars
<1>4. PendingAreAwaited'
  BY DEF ClientInv, PendingAreAwaited, WriterStops
<1>5. IdleIsOpen'
  BY DEF ClientInv, IdleIsOpen, WriterStops
<1>6. SendersAreHeld'
  BY DEF ClientInv, SendersAreHeld, WriterStops, remoteVars
<1>7. ClearCatchesUp'
  BY DEF ClientInv, ClearCatchesUp, WriterStops
<1>8. RefusedClears'
  BY DEF ClientInv, RefusedClears, WriterStops
<1>9. QED
  BY <1>1, <1>2, <1>3, <1>4, <1>5, <1>6, <1>7, <1>8 DEF ClientInv

LEMMA ReadPushKeeps ==
    ASSUME ClientInv, ReadPush
    PROVE  ClientInv'
<1>1. ClientTypeOK'
  BY DEF ClientInv, ClientTypeOK, ReadPush
<1>2. FlagIsReaders'
  BY DEF ClientInv, FlagIsReaders, ReadPush
<1>3. ResolvesItsOwn'
  BY DEF ClientInv, ResolvesItsOwn, ReadPush
<1>4. PendingAreAwaited'
  BY DEF ClientInv, PendingAreAwaited, ReadPush
<1>5. IdleIsOpen'
  BY DEF ClientInv, IdleIsOpen, ReadPush
<1>6. SendersAreHeld'
  BY DEF ClientInv, SendersAreHeld, ReadPush
<1>7. ClearCatchesUp'
  BY DEF ClientInv, ClearCatchesUp, ReadPush
<1>8. RefusedClears'
  BY DEF ClientInv, RefusedClears, ReadPush
<1>9. QED
  BY <1>1, <1>2, <1>3, <1>4, <1>5, <1>6, <1>7, <1>8 DEF ClientInv

LEMMA ReadAnswerKeeps ==
    ASSUME ClientInv, ReadAnswer
    PROVE  ClientInv'
<1>1. ClientTypeOK'
  BY DEF ClientInv, ClientTypeOK, ReadAnswer, remoteVars
<1>2. FlagIsReaders'
  BY DEF ClientInv, FlagIsReaders, ReadAnswer
<1>3. ResolvesItsOwn'
  BY HeadIsAnswer, HeadIsUp, ClientAssumption DEF ClientInv, ClientTypeOK,
     ReadAnswer, callVars, remoteVars, Task, Inside, ResolvesItsOwn,
     PendingAreAwaited, SendersAreHeld, ClearCatchesUp, FlagIsReaders,
     IdleIsOpen, RefusedClears
<1>4. PendingAreAwaited'
  BY DEF ClientInv, PendingAreAwaited, ReadAnswer
<1>5. IdleIsOpen'
  BY DEF ClientInv, IdleIsOpen, ReadAnswer
<1>6. SendersAreHeld'
  BY DEF ClientInv, SendersAreHeld, ReadAnswer, remoteVars
<1>7. ClearCatchesUp'
  BY DEF ClientInv, ClearCatchesUp, ReadAnswer
<1>8. RefusedClears'
  BY DEF ClientInv, RefusedClears, ReadAnswer
<1>9. QED
  BY <1>1, <1>2, <1>3, <1>4, <1>5, <1>6, <1>7, <1>8 DEF ClientInv

LEMMA ResolveKeeps ==
    ASSUME ClientInv, Resolve
    PROVE  ClientInv'
<1>1. ClientTypeOK'
  BY HeadIsAnswer, ClientAssumption DEF ClientInv, ClientTypeOK, Resolve, Task,
     Inside, ResolvesItsOwn, PendingAreAwaited, Done, UpMessage, DownMessage
<1>2. FlagIsReaders'
  BY DEF ClientInv, FlagIsReaders, Resolve
<1>3. ResolvesItsOwn'
  BY DEF ClientInv, ResolvesItsOwn, Resolve
<1>4. PendingAreAwaited'
  BY DEF ClientInv, PendingAreAwaited, Resolve
<1>5. IdleIsOpen'
  BY HeadIsAnswer, ClientAssumption DEF ClientInv, IdleIsOpen, Resolve,
     ClientTypeOK, Task, Inside, ResolvesItsOwn, PendingAreAwaited
<1>6. SendersAreHeld'
  BY HeadIsAnswer, ClientAssumption DEF ClientInv, SendersAreHeld, Resolve,
     ClientTypeOK, Task, Inside, ResolvesItsOwn, PendingAreAwaited
<1>7. ClearCatchesUp'
  BY DEF ClientInv, ClearCatchesUp, Resolve
<1>8. RefusedClears'
  BY DEF ClientInv, RefusedClears, Resolve
<1>9. QED
  BY <1>1, <1>2, <1>3, <1>4, <1>5, <1>6, <1>7, <1>8 DEF ClientInv

LEMMA ReadUnexpectedKeeps ==
    ASSUME ClientInv, ReadUnexpected
    PROVE  ClientInv'
<1>1. ClientTypeOK'
  BY DEF ClientInv, ClientTypeOK, ReadUnexpected
<1>2. FlagIsReaders'
  BY DEF ClientInv, FlagIsReaders, ReadUnexpected
<1>3. ResolvesItsOwn'
  BY DEF ClientInv, ResolvesItsOwn, ReadUnexpected
<1>4. PendingAreAwaited'
  BY DEF ClientInv, PendingAreAwaited, ReadUnexpected
<1>5. IdleIsOpen'
  BY DEF ClientInv, IdleIsOpen, ReadUnexpected
<1>6. SendersAreHeld'
  BY DEF ClientInv, SendersAreHeld, ReadUnexpected
<1>7. ClearCatchesUp'
  BY DEF ClientInv, ClearCatchesUp, ReadUnexpected
<1>8. RefusedClears'
  BY DEF ClientInv, RefusedClears, ReadUnexpected
<1>9. QED
  BY <1>1, <1>2, <1>3, <1>4, <1>5, <1>6, <1>7, <1>8 DEF ClientInv

LEMMA LeaveLoopKeeps ==
    ASSUME ClientInv, LeaveLoop
    PROVE  ClientInv'
<1>1. ClientTypeOK'
  BY ClientAssumption DEF ClientInv, ClientTypeOK, LeaveLoop, remoteVars, Task,
     Inside, Done, UpMessage, DownMessage
<1>2. FlagIsReaders'
  BY DEF ClientInv, FlagIsReaders, LeaveLoop
<1>3. ResolvesItsOwn'
  BY DEF ClientInv, ResolvesItsOwn, LeaveLoop, remoteVars
<1>4. PendingAreAwaited'
  BY DEF ClientInv, PendingAreAwaited, LeaveLoop
<1>5. IdleIsOpen'
  BY DEF ClientInv, IdleIsOpen, LeaveLoop
<1>6. SendersAreHeld'
  BY DEF ClientInv, SendersAreHeld, LeaveLoop, remoteVars
<1>7. ClearCatchesUp'
  BY ClientAssumption DEF ClientInv, ClearCatchesUp, LeaveLoop, ClientTypeOK,
     Task, Inside
<1>8. RefusedClears'
  BY DEF ClientInv, RefusedClears, LeaveLoop, ClientTypeOK
<1>9. QED
  BY <1>1, <1>2, <1>3, <1>4, <1>5, <1>6, <1>7, <1>8 DEF ClientInv

LEMMA AnnounceLossKeeps ==
    ASSUME ClientInv, AnnounceLoss
    PROVE  ClientInv'
<1>1. ClientTypeOK'
  BY DEF ClientInv, ClientTypeOK, AnnounceLoss, remoteVars
<1>2. FlagIsReaders'
  BY DEF ClientInv, FlagIsReaders, AnnounceLoss
<1>3. ResolvesItsOwn'
  BY DEF ClientInv, ResolvesItsOwn, AnnounceLoss, remoteVars
<1>4. PendingAreAwaited'
  BY DEF ClientInv, PendingAreAwaited, AnnounceLoss
<1>5. IdleIsOpen'
  BY DEF ClientInv, IdleIsOpen, AnnounceLoss
<1>6. SendersAreHeld'
  BY DEF ClientInv, SendersAreHeld, AnnounceLoss, remoteVars
<1>7. ClearCatchesUp'
  BY DEF ClientInv, ClearCatchesUp, AnnounceLoss
<1>8. RefusedClears'
  BY DEF ClientInv, RefusedClears, AnnounceLoss
<1>9. QED
  BY <1>1, <1>2, <1>3, <1>4, <1>5, <1>6, <1>7, <1>8 DEF ClientInv

LEMMA ServerAnswersKeeps ==
    ASSUME NEW r \in Request, ClientInv, ServerAnswers(r)
    PROVE  ClientInv'
<1>1. ClientTypeOK'
  BY DEF ClientInv, ClientTypeOK, ServerAnswers, callVars, Inside, Done,
     UpMessage, DownMessage
<1>2. FlagIsReaders'
  BY DEF ClientInv, FlagIsReaders, ServerAnswers
<1>3. ResolvesItsOwn'
  BY DEF ClientInv, ResolvesItsOwn, ServerAnswers, callVars
<1>4. PendingAreAwaited'
  BY DEF ClientInv, PendingAreAwaited, ServerAnswers, callVars
<1>5. IdleIsOpen'
  BY DEF ClientInv, IdleIsOpen, ServerAnswers, callVars
<1>6. SendersAreHeld'
  BY ClientAssumption DEF ClientInv, SendersAreHeld, ServerAnswers, callVars,
     ClientTypeOK, Task, Inside, ResolvesItsOwn, PendingAreAwaited
<1>7. ClearCatchesUp'
  BY DEF ClientInv, ClearCatchesUp, ServerAnswers, callVars
<1>8. RefusedClears'
  BY DEF ClientInv, RefusedClears, ServerAnswers, callVars
<1>9. QED
  BY <1>1, <1>2, <1>3, <1>4, <1>5, <1>6, <1>7, <1>8 DEF ClientInv

LEMMA ServerPushesKeeps ==
    ASSUME ClientInv, ServerPushes
    PROVE  ClientInv'
<1>1. ClientTypeOK'
  BY DEF ClientInv, ClientTypeOK, ServerPushes, callVars, Inside, Done,
     UpMessage, DownMessage
<1>2. FlagIsReaders'
  BY DEF ClientInv, FlagIsReaders, ServerPushes
<1>3. ResolvesItsOwn'
  BY DEF ClientInv, ResolvesItsOwn, ServerPushes, callVars
<1>4. PendingAreAwaited'
  BY DEF ClientInv, PendingAreAwaited, ServerPushes, callVars
<1>5. IdleIsOpen'
  BY DEF ClientInv, IdleIsOpen, ServerPushes, callVars
<1>6. SendersAreHeld'
  BY ClientAssumption DEF ClientInv, SendersAreHeld, ServerPushes, callVars,
     ClientTypeOK, Task, Inside, ResolvesItsOwn, PendingAreAwaited
<1>7. ClearCatchesUp'
  BY DEF ClientInv, ClearCatchesUp, ServerPushes, callVars
<1>8. RefusedClears'
  BY DEF ClientInv, RefusedClears, ServerPushes, callVars
<1>9. QED
  BY <1>1, <1>2, <1>3, <1>4, <1>5, <1>6, <1>7, <1>8 DEF ClientInv

LEMMA ServerEndsKeeps ==
    ASSUME ClientInv, ServerEnds
    PROVE  ClientInv'
<1>1. ClientTypeOK'
  BY DEF ClientInv, ClientTypeOK, ServerEnds, callVars
<1>2. FlagIsReaders'
  BY DEF ClientInv, FlagIsReaders, ServerEnds
<1>3. ResolvesItsOwn'
  BY DEF ClientInv, ResolvesItsOwn, ServerEnds, callVars
<1>4. PendingAreAwaited'
  BY DEF ClientInv, PendingAreAwaited, ServerEnds, callVars
<1>5. IdleIsOpen'
  BY DEF ClientInv, IdleIsOpen, ServerEnds, callVars
<1>6. SendersAreHeld'
  BY DEF ClientInv, SendersAreHeld, ServerEnds, callVars
<1>7. ClearCatchesUp'
  BY DEF ClientInv, ClearCatchesUp, ServerEnds, callVars
<1>8. RefusedClears'
  BY DEF ClientInv, RefusedClears, ServerEnds, callVars
<1>9. QED
  BY <1>1, <1>2, <1>3, <1>4, <1>5, <1>6, <1>7, <1>8 DEF ClientInv

LEMMA InitEstablishes ==
    Init => ClientInv
<1> SUFFICES ASSUME Init PROVE ClientInv
  OBVIOUS
<1>1. ClientTypeOK
  <2>1. /\ outbound \in Seq(UpMessage)
        /\ down \in Seq(DownMessage)
        /\ events \in Seq({"push", "disconnected"})
    BY DEF Init
  <2>2. /\ call \in [Request -> {"idle"} \cup Inside \cup Done]
        /\ clearing \in [Task -> SUBSET Request]
    BY DEF Init
  <2>3. QED
    BY <2>1, <2>2 DEF Init, ClientTypeOK
<1>2. QED
  BY <1>1 DEF Init, ClientInv, FlagIsReaders, ResolvesItsOwn, PendingAreAwaited,
     IdleIsOpen, SendersAreHeld, ClearCatchesUp, RefusedClears

LEMMA StutterKeeps ==
    ASSUME ClientInv, UNCHANGED vars
    PROVE  ClientInv'
BY DEF ClientInv, ClientTypeOK, FlagIsReaders, ResolvesItsOwn, PendingAreAwaited,
   IdleIsOpen, SendersAreHeld, ClearCatchesUp, RefusedClears, vars

LEMMA StepKeeps ==
    ClientInv /\ [Next]_vars => ClientInv'
<1> SUFFICES ASSUME ClientInv, [Next]_vars PROVE ClientInv'
  OBVIOUS
<1>1. CASE UNCHANGED vars
  BY <1>1, StutterKeeps
<1>2. ASSUME NEW r \in Request, Insert(r) \/ TimerFires(r) \/ ServerAnswers(r)
      PROVE  ClientInv'
  BY <1>2, InsertKeeps, TimerFiresKeeps, ServerAnswersKeeps
<1>3. ASSUME NEW r \in Request, CallStep(r)
      PROVE  ClientInv'
  BY <1>3, CheckFlagKeeps, RefuseKeeps, EnqueueKeeps, SendFailedKeeps,
     CollectKeeps, TimeOutKeeps DEF CallStep
<1>4. ASSUME NEW t \in Task, ClearVisits(t)
      PROVE  ClientInv'
  BY <1>4, ClearVisitsKeeps
<1>5. ASSUME WriterStep
      PROVE  ClientInv'
  BY <1>5, WriteOneKeeps, WriteTooLargeKeeps, WriteFailsKeeps, WriterStopsKeeps
     DEF WriterStep
<1>6. ASSUME ReaderStep \/ LeaveLoop
      PROVE  ClientInv'
  BY <1>6, ReadPushKeeps, ReadAnswerKeeps, ResolveKeeps, ReadUnexpectedKeeps,
     LeaveLoopKeeps, AnnounceLossKeeps DEF ReaderStep, StreamEnds
<1>7. ASSUME Release \/ ServerPushes \/ ServerEnds
      PROVE  ClientInv'
  BY <1>7, ReleaseKeeps, ServerPushesKeeps, ServerEndsKeeps
<1>8. QED
  BY <1>1, <1>2, <1>3, <1>4, <1>5, <1>6, <1>7 DEF Next

LEMMA ClientInvariant ==
    Spec => []ClientInv
<1>1. QED
  BY InitEstablishes, StepKeeps, PTL DEF Spec

-----------------------------------------------------------------------------
\* The types of the client; a sender in the table was never used.
THEOREM TypesHold == Spec => []ClientTypeOK
<1>1. ClientInv => ClientTypeOK
  BY DEF ClientInv
<1>2. QED
  BY <1>1, ClientInvariant, PTL

\* No call waits on a connection whose loss was announced (reader_task).
THEOREM NobodyWaits == Spec => []NobodyWaitsOnTheDead
<1>1. ClientInv => NobodyWaitsOnTheDead
  BY DEF ClientInv, SendersAreHeld, ClearCatchesUp, NobodyWaitsOnTheDead, Open,
     Announced
<1>2. QED
  BY <1>1, ClientInvariant, PTL

\* The table holds no sender of a call that returned (send_request).
THEOREM TableIsAwaited == Spec => []PendingAreAwaited
<1>1. ClientInv => PendingAreAwaited
  BY DEF ClientInv
<1>2. QED
  BY <1>1, ClientInvariant, PTL

-----------------------------------------------------------------------------
\* The promise: how the steps of the client move the status of the calls.

Statuses == [r \in Request |-> Status(r)]

Spared(q) == call'[q] = call[q] /\ slot'[q] = slot[q]

LEMMA OthersStay ==
    ASSUME NEW r \in Request, \A q \in Request \ {r} : Spared(q)
    PROVE  Statuses' = [Statuses EXCEPT ![r] = Status(r)']
<1>1. ASSUME NEW q \in Request \ {r}
      PROVE  Status(q)' = Status(q)
  BY <1>1 DEF Status, Spared
<1>2. QED
  BY <1>1 DEF Statuses

LEMMA NothingMoves ==
    ASSUME UNCHANGED <<call, slot>>, Announced' = Announced
    PROVE  UNCHANGED Promise!promiseVars
<1>1. ASSUME NEW r \in Request
      PROVE  Status(r)' = Status(r)
  BY <1>1 DEF Status
<1>2. QED
  BY <1>1 DEF Promise!promiseVars

\* What one call may do, as the promise has it.
Allowed(old, new) ==
    \/ new = old
    \/ old = "idle"    /\ new = "open" /\ ~Announced
    \/ old = "idle"    /\ new \in {"settled", "failed"}
    \/ old = "open"    /\ new \in {"settled", "failed"}
    \/ old = "settled" /\ new \in {"answered", "failed"}

LEMMA AllowedMove ==
    ASSUME NEW r \in Request, \A q \in Request \ {r} : Spared(q),
           Allowed(Status(r), Status(r)'), Announced' = Announced
    PROVE  [Promise!PromiseNext]_(Promise!promiseVars)
<1>1. /\ Statuses' = [Statuses EXCEPT ![r] = Status(r)']
      /\ Statuses[r] = Status(r)
  BY OthersStay DEF Statuses
<1>2. CASE Status(r)' = Status(r)
  <2>1. Statuses' = Statuses
    BY <1>1, <1>2 DEF Statuses
  <2>2. QED
    BY <2>1 DEF Statuses, Promise!promiseVars
<1>3. CASE Status(r)' # Status(r)
  <2>1. \/ Promise!Opens(r) \/ Promise!Refused(r) \/ Promise!Settles(r)
        \/ Promise!Ends(r) \/ Promise!GivesUp(r)
    BY <1>1, <1>3 DEF Allowed, Statuses, Promise!Opens, Promise!Refused,
       Promise!Settles, Promise!Ends, Promise!GivesUp, Promise!Moves
  <2>2. QED
    BY <2>1 DEF Promise!PromiseNext
<1>4. QED
  BY <1>2, <1>3

LEMMA InsertRefines ==
    ASSUME NEW r \in Request, ClientInv, Insert(r)
    PROVE  [Promise!PromiseNext]_(Promise!promiseVars)
<1>1. \A q \in Request \ {r} : Spared(q)
  BY DEF ClientInv, ClientTypeOK, Insert, Goes, Spared
<1>2. Announced' = Announced
  BY DEF Insert, remoteVars, Announced
<1>3. Allowed(Status(r), Status(r)')
  BY DEF ClientInv, ClientTypeOK, FlagIsReaders, Insert, Goes, Allowed,
     Status, Announced, Inside, Done
<1>4. QED
  BY <1>1, <1>2, <1>3, AllowedMove

LEMMA CheckFlagRefines ==
    ASSUME NEW r \in Request, ClientInv, CheckFlag(r)
    PROVE  [Promise!PromiseNext]_(Promise!promiseVars)
<1>1. \A q \in Request \ {r} : Spared(q)
  BY DEF ClientInv, ClientTypeOK, CheckFlag, Goes, Spared
<1>2. Announced' = Announced
  BY DEF CheckFlag, remoteVars, Announced
<1>3. Allowed(Status(r), Status(r)')
  BY DEF ClientInv, ClientTypeOK, FlagIsReaders, CheckFlag, Goes, Allowed,
     Status, Announced, Inside, Done
<1>4. QED
  BY <1>1, <1>2, <1>3, AllowedMove

LEMMA RefuseRefines ==
    ASSUME NEW r \in Request, ClientInv, Refuse(r)
    PROVE  [Promise!PromiseNext]_(Promise!promiseVars)
<1>1. \A q \in Request \ {r} : Spared(q)
  BY DEF ClientInv, ClientTypeOK, Refuse, Goes, Spared
<1>2. Announced' = Announced
  BY DEF Refuse, remoteVars, Announced
<1>3. Allowed(Status(r), Status(r)')
  BY DEF ClientInv, ClientTypeOK, FlagIsReaders, Refuse, Goes, Allowed,
     Status, Announced, Inside, Done
<1>4. QED
  BY <1>1, <1>2, <1>3, AllowedMove

LEMMA EnqueueRefines ==
    ASSUME NEW r \in Request, ClientInv, Enqueue(r)
    PROVE  [Promise!PromiseNext]_(Promise!promiseVars)
<1>1. \A q \in Request \ {r} : Spared(q)
  BY DEF ClientInv, ClientTypeOK, Enqueue, Goes, Spared
<1>2. Announced' = Announced
  BY DEF Enqueue, remoteVars, Announced
<1>3. Allowed(Status(r), Status(r)')
  BY DEF ClientInv, ClientTypeOK, FlagIsReaders, Enqueue, Goes, Allowed,
     Status, Announced, Inside, Done
<1>4. QED
  BY <1>1, <1>2, <1>3, AllowedMove

LEMMA SendFailedRefines ==
    ASSUME NEW r \in Request, ClientInv, SendFailed(r)
    PROVE  [Promise!PromiseNext]_(Promise!promiseVars)
<1>1. \A q \in Request \ {r} : Spared(q)
  BY DEF ClientInv, ClientTypeOK, SendFailed, Goes, DropEntry, Spared
<1>2. Announced' = Announced
  BY DEF SendFailed, remoteVars, Announced
<1>3. Allowed(Status(r), Status(r)')
  BY DEF ClientInv, ClientTypeOK, FlagIsReaders, SendFailed, Goes, DropEntry, Allowed,
     Status, Announced, Inside, Done
<1>4. QED
  BY <1>1, <1>2, <1>3, AllowedMove

LEMMA CollectRefines ==
    ASSUME NEW r \in Request, ClientInv, Collect(r)
    PROVE  [Promise!PromiseNext]_(Promise!promiseVars)
<1>1. \A q \in Request \ {r} : Spared(q)
  BY DEF ClientInv, ClientTypeOK, Collect, Goes, Spared
<1>2. Announced' = Announced
  BY DEF Collect, remoteVars, Announced
<1>3. Allowed(Status(r), Status(r)')
  BY DEF ClientInv, ClientTypeOK, FlagIsReaders, Collect, Goes, Allowed,
     Status, Announced, Inside, Done
<1>4. QED
  BY <1>1, <1>2, <1>3, AllowedMove

LEMMA TimerFiresRefines ==
    ASSUME NEW r \in Request, ClientInv, TimerFires(r)
    PROVE  [Promise!PromiseNext]_(Promise!promiseVars)
<1>1. \A q \in Request \ {r} : Spared(q)
  BY DEF ClientInv, ClientTypeOK, TimerFires, Goes, Spared
<1>2. Announced' = Announced
  BY DEF TimerFires, remoteVars, Announced
<1>3. Allowed(Status(r), Status(r)')
  BY DEF ClientInv, ClientTypeOK, FlagIsReaders, TimerFires, Goes, Allowed,
     Status, Announced, Inside, Done
<1>4. QED
  BY <1>1, <1>2, <1>3, AllowedMove

LEMMA TimeOutRefines ==
    ASSUME NEW r \in Request, ClientInv, TimeOut(r)
    PROVE  [Promise!PromiseNext]_(Promise!promiseVars)
<1>1. \A q \in Request \ {r} : Spared(q)
  BY DEF ClientInv, ClientTypeOK, TimeOut, Goes, DropEntry, Spared
<1>2. Announced' = Announced
  BY DEF TimeOut, remoteVars, Announced
<1>3. Allowed(Status(r), Status(r)')
  BY DEF ClientInv, ClientTypeOK, FlagIsReaders, TimeOut, Goes, DropEntry, Allowed,
     Status, Announced, Inside, Done
<1>4. QED
  BY <1>1, <1>2, <1>3, AllowedMove

LEMMA DropRefines ==
    ASSUME NEW r \in Request, ClientInv, DropEntry(r), call' = call,
           Announced' = Announced
    PROVE  [Promise!PromiseNext]_(Promise!promiseVars)
<1>1. \A q \in Request \ {r} : Spared(q)
  BY DEF ClientInv, ClientTypeOK, DropEntry, Spared
<1>2. Allowed(Status(r), Status(r)')
  BY DEF ClientInv, ClientTypeOK, DropEntry, Allowed, Status
<1>3. QED
  BY <1>1, <1>2, AllowedMove

LEMMA ResolveRefines ==
    ASSUME ClientInv, Resolve
    PROVE  [Promise!PromiseNext]_(Promise!promiseVars)
<1>1. PICK r \in Request :
         r = Head(down).id /\ Head(down).kind \in {"answer", "garbled"} /\ slot[r] = "open"
  BY HeadIsAnswer DEF ClientInv, ResolvesItsOwn, Resolve
<1>2. \A q \in Request \ {r} : Spared(q)
  BY <1>1 DEF ClientInv, ClientTypeOK, Resolve, Spared
<1>3. Announced' = Announced
  BY DEF Resolve, Announced
<1>4. call' = call /\ slot'[r] \in {"answer", "garbled"}
  BY <1>1 DEF ClientInv, ClientTypeOK, Resolve
<1>5. Allowed(Status(r), Status(r)')
  BY <1>1, <1>4 DEF Allowed, Status
<1>6. QED
  BY <1>1, <1>2, <1>3, <1>5, AllowedMove

LEMMA AnnounceLossRefines ==
    ASSUME ClientInv, AnnounceLoss
    PROVE  Promise!Loses
<1>1. ASSUME NEW r \in Request
      PROVE  Status(r) # "open"
  BY <1>1 DEF ClientInv, SendersAreHeld, ClearCatchesUp, AnnounceLoss, Status
<1>2. ASSUME NEW r \in Request
      PROVE  Status(r)' = Status(r)
  BY <1>2 DEF AnnounceLoss, Status
<1>3. Announced'
  BY DEF AnnounceLoss, Announced
<1>4. QED
  BY <1>1, <1>2, <1>3 DEF Promise!Loses

\* Every other step leaves calls, channels and the announcement alone.
LEMMA OtherSteps ==
    ASSUME \/ UNCHANGED vars \/ Release
           \/ WriteOne \/ WriteFails \/ WriterStops
           \/ ReadPush \/ ReadAnswer \/ ReadUnexpected \/ LeaveLoop
           \/ ServerPushes \/ ServerEnds \/ \E r \in Request : ServerAnswers(r)
    PROVE  UNCHANGED Promise!promiseVars
<1>1. UNCHANGED <<call, slot>>
  BY DEF vars, Release, WriteOne, WriteFails, WriterStops, ReadPush, ReadAnswer,
     ReadUnexpected, LeaveLoop, ServerPushes, ServerEnds, ServerAnswers, callVars
<1>2. Announced' = Announced
  BY DEF vars, Release, WriteOne, WriteFails, WriterStops, ReadPush, ReadAnswer,
     ReadUnexpected, LeaveLoop, ServerPushes, ServerEnds, ServerAnswers, Announced
<1>3. QED
  BY <1>1, <1>2, NothingMoves

LEMMA StepRefines ==
    ASSUME ClientInv, [Next]_vars
    PROVE  [Promise!PromiseNext]_(Promise!promiseVars)
<1>1. ASSUME NEW r \in Request, Insert(r) \/ TimerFires(r) \/ CallStep(r)
      PROVE  [Promise!PromiseNext]_(Promise!promiseVars)
  BY <1>1, InsertRefines, TimerFiresRefines, CheckFlagRefines, RefuseRefines,
     EnqueueRefines, SendFailedRefines, CollectRefines, TimeOutRefines DEF CallStep
<1>2. ASSUME NEW t \in Task, ClearVisits(t)
      PROVE  [Promise!PromiseNext]_(Promise!promiseVars)
  <2>1. PICK r \in clearing[t] : DropEntry(r) /\ call' = call /\ reader' = reader
    BY <1>2 DEF ClearVisits
  <2>2. r \in Request
    BY DEF ClientInv, ClientTypeOK
  <2>3. QED
    BY <2>1, <2>2, DropRefines DEF Announced
<1>3. ASSUME WriteTooLarge
      PROVE  [Promise!PromiseNext]_(Promise!promiseVars)
  <2>1. /\ Head(outbound).id \in Request
        /\ DropEntry(Head(outbound).id) /\ call' = call /\ reader' = reader
    BY <1>3, HeadIsUp DEF ClientInv, WriteTooLarge
  <2>2. QED
    BY <2>1, DropRefines DEF Announced
<1>4. ASSUME Resolve
      PROVE  [Promise!PromiseNext]_(Promise!promiseVars)
  BY <1>4, ResolveRefines
<1>5. ASSUME AnnounceLoss
      PROVE  [Promise!PromiseNext]_(Promise!promiseVars)
  BY <1>5, AnnounceLossRefines DEF Promise!PromiseNext
<1>6. QED
  BY <1>1, <1>2, <1>3, <1>4, <1>5, OtherSteps
     DEF Next, WriterStep, ReaderStep, StreamEnds

\* The client implements the promise of RequestPromise: a call ends once, and
\* after the announcement of the loss none is open and none opens.
THEOREM ClientKeepsPromise == Spec => KeepsPromise
<1>1. Init => Promise!PromiseInit
  BY DEF Init, Promise!PromiseInit, Status, Announced
<1>2. ClientInv /\ [Next]_vars => [Promise!PromiseNext]_(Promise!promiseVars)
  BY StepRefines
<1>3. QED
  BY <1>1, <1>2, ClientInvariant, PTL DEF Spec, KeepsPromise, Promise!PromiseSpec
=============================================================================
