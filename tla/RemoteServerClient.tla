------------------------- MODULE RemoteServerClient -------------------------
(***************************************************************************)
(* The client end of one connection to the daemon: send_request calls of   *)
(* several tasks, the writer task and the reader task, which share the     *)
(* table of pending requests, the outbound queue and the dead flag.  The   *)
(* table is sharded: clear empties it entry by entry, between which the    *)
(* other tasks run.                                                        *)
(***************************************************************************)
EXTENDS Naturals, Sequences

CONSTANTS Request,    \* request ids; each is used by one call of send_request
          MaxPushes   \* bound on the push messages of the server

ASSUME ClientAssumption ==
    /\ {"reader", "writer"} \cap Request = {}
    /\ MaxPushes \in Nat

VARIABLES
    call,          \* where each send_request is, or how it ended
    slot,          \* the oneshot channel of each call
    pending,       \* pending_requests: the calls whose sender is in the table
    clearing,      \* what each running clear of the table has still to visit
    disconnected,  \* the dead flag
    outbound,      \* the outbound queue
    writer,        \* the writer task
    reader,        \* the reader task
    held,          \* somebody holds the client
    events,        \* what the event receiver got
    down,          \* the stream of the server
    server,        \* what the server did with each request
    gone           \* the server closed its end

callVars   == <<call, slot, pending, clearing, outbound, held>>
remoteVars == <<down, server, gone>>
vars == <<call, slot, pending, clearing, disconnected, outbound, writer,
          reader, held, events, down, server, gone>>

Task == Request \cup {"reader", "writer"}

\* Results of send_request, and the places where it still may touch the table.
Done   == {"ok", "protocol", "disconnected", "closed", "timeout"}
Inside == {"inserted", "refused", "checked", "unsent", "waiting", "timedout"}

UpMessage   == [kind : {"request", "abort"}, id : Request]
DownMessage == [kind : {"answer", "garbled"}, id : Request] \cup [kind : {"push"}]

Init ==
    /\ call = [r \in Request |-> "idle"]
    /\ slot = [r \in Request |-> "open"]
    /\ pending = {}
    /\ clearing = [t \in Task |-> {}]
    /\ disconnected = FALSE
    /\ outbound = <<>>
    /\ writer = "running"
    /\ reader = "reading"
    /\ held = TRUE
    /\ events = <<>>
    /\ down = <<>>
    /\ server = [r \in Request |-> "unseen"]
    /\ gone = FALSE

-----------------------------------------------------------------------------
\* The table of pending requests.

Goes(r, to) == call' = [call EXCEPT ![r] = to]

\* The sender leaves the table unused: the receiver fails once it is polled.
DropEntry(r) ==
    /\ pending' = pending \ {r}
    /\ slot' = IF r \in pending THEN [slot EXCEPT ![r] = "dropped"] ELSE slot

\* One step of a clear that task t runs.
ClearVisits(t) ==
    \E r \in clearing[t] :
        /\ DropEntry(r)
        /\ clearing' = [clearing EXCEPT ![t] = @ \ {r}]
        /\ UNCHANGED <<call, disconnected, outbound, writer, reader, held,
                       events, remoteVars>>

\* Mutant: the dead flag is not looked at.
UncheckedFlag(r) ==
    /\ call[r] = "inserted"
    /\ Goes(r, "checked")
    /\ UNCHANGED <<slot, pending, clearing, disconnected, outbound, writer,
                   reader, held, events, remoteVars>>

-----------------------------------------------------------------------------
\* send_request.

Insert(r) ==
    /\ held
    /\ call[r] = "idle"
    /\ Goes(r, "inserted")
    /\ pending' = pending \cup {r}
    /\ UNCHANGED <<slot, clearing, disconnected, outbound, writer, reader,
                   held, events, remoteVars>>

CheckFlag(r) ==
    /\ call[r] = "inserted"
    /\ IF disconnected
       THEN /\ Goes(r, "refused")
            /\ clearing' = [clearing EXCEPT ![r] = Request]
       ELSE Goes(r, "checked") /\ UNCHANGED clearing
    /\ UNCHANGED <<slot, pending, disconnected, outbound, writer, reader,
                   held, events, remoteVars>>

\* The clear of a call that found the connection dead is over.
Refuse(r) ==
    /\ call[r] = "refused"
    /\ clearing[r] = {}
    /\ Goes(r, "disconnected")
    /\ UNCHANGED <<slot, pending, clearing, disconnected, outbound, writer,
                   reader, held, events, remoteVars>>

\* The queue is closed once the writer task has returned.
Enqueue(r) ==
    /\ call[r] = "checked"
    /\ IF writer = "stopped"
       THEN Goes(r, "unsent") /\ UNCHANGED outbound
       ELSE /\ Goes(r, "waiting")
            /\ outbound' = Append(outbound, [kind |-> "request", id |-> r])
    /\ UNCHANGED <<slot, pending, clearing, disconnected, writer, reader,
                   held, events, remoteVars>>

SendFailed(r) ==
    /\ call[r] = "unsent"
    /\ Goes(r, "disconnected")
    /\ DropEntry(r)
    /\ UNCHANGED <<clearing, disconnected, outbound, writer, reader, held,
                   events, remoteVars>>

Collect(r) ==
    /\ call[r] = "waiting"
    /\ slot[r] # "open"
    /\ Goes(r, CASE slot[r] = "answer"  -> "ok"
                 [] slot[r] = "garbled" -> "protocol"
                 [] slot[r] = "dropped" -> "closed")
    /\ UNCHANGED <<slot, pending, clearing, disconnected, outbound, writer,
                   reader, held, events, remoteVars>>

\* select! polls in any order: the timer may win over an answer that is there.
TimerFires(r) ==
    /\ call[r] = "waiting"
    /\ Goes(r, "timedout")
    /\ UNCHANGED <<slot, pending, clearing, disconnected, outbound, writer,
                   reader, held, events, remoteVars>>

\* Mutant: the entry of a call that timed out stays in the table.
TimeOutKeepsEntry(r) ==
    /\ call[r] = "timedout"
    /\ Goes(r, "timeout")
    /\ outbound' = IF writer = "stopped" THEN outbound
                   ELSE Append(outbound, [kind |-> "abort", id |-> r])
    /\ UNCHANGED <<slot, pending, clearing, disconnected, writer, reader, held,
                   events, remoteVars>>

\* remove, then send_abort, which does nothing on a closed queue.
TimeOut(r) ==
    /\ call[r] = "timedout"
    /\ Goes(r, "timeout")
    /\ DropEntry(r)
    /\ outbound' = IF writer = "stopped" THEN outbound
                   ELSE Append(outbound, [kind |-> "abort", id |-> r])
    /\ UNCHANGED <<clearing, disconnected, writer, reader, held, events,
                   remoteVars>>

\* The last holder drops the client.
Release ==
    /\ held
    /\ \A r \in Request : call[r] \notin Inside
    /\ held' = FALSE
    /\ UNCHANGED <<call, slot, pending, clearing, disconnected, outbound,
                   writer, reader, events, remoteVars>>

-----------------------------------------------------------------------------
\* writer_task.

\* The request reaches the server, unless its end is closed.
WriteOne ==
    /\ writer = "running"
    /\ outbound # <<>>
    /\ outbound' = Tail(outbound)
    /\ server' = IF Head(outbound).kind = "request"
                 THEN [server EXCEPT ![Head(outbound).id] = "working"] ELSE server
    /\ UNCHANGED <<call, slot, pending, clearing, disconnected, writer, reader,
                   held, events, down, gone>>

\* MessageTooLarge: nothing was written, the loop goes on.
WriteTooLarge ==
    /\ writer = "running"
    /\ outbound # <<>>
    /\ Head(outbound).kind = "request"
    /\ outbound' = Tail(outbound)
    /\ DropEntry(Head(outbound).id)
    /\ UNCHANGED <<call, clearing, disconnected, writer, reader, held, events,
                   remoteVars>>

\* Any other write error: clear, then leave the loop.
WriteFails ==
    /\ writer = "running"
    /\ outbound # <<>>
    /\ outbound' = Tail(outbound)
    /\ writer' = "clearing"
    /\ clearing' = [clearing EXCEPT !["writer"] = Request]
    /\ UNCHANGED <<call, slot, pending, disconnected, reader, held, events,
                   remoteVars>>

\* The task returns and drops the receiver of the queue and the stream.
WriterStops ==
    /\ \/ writer = "clearing" /\ clearing["writer"] = {}
       \/ writer = "running" /\ ~held /\ outbound = <<>>
    /\ writer' = "stopped"
    /\ outbound' = <<>>
    /\ UNCHANGED <<call, slot, pending, clearing, disconnected, reader, held,
                   events, remoteVars>>

-----------------------------------------------------------------------------
\* reader_task.

ReadPush ==
    /\ reader = "reading"
    /\ down # <<>>
    /\ Head(down).kind = "push"
    /\ down' = Tail(down)
    /\ events' = Append(events, "push")
    /\ UNCHANGED <<call, slot, pending, clearing, disconnected, outbound,
                   writer, reader, held, server, gone>>

\* An answer takes the sender out of the table and sends in a second step.
ReadAnswer ==
    /\ reader = "reading"
    /\ down # <<>>
    /\ Head(down).kind # "push"
    /\ Head(down).id \in pending
    /\ pending' = pending \ {Head(down).id}
    /\ reader' = "resolving"
    /\ UNCHANGED <<call, slot, clearing, disconnected, outbound, writer, held,
                   events, remoteVars>>

Resolve ==
    /\ reader = "resolving"
    /\ slot' = [slot EXCEPT ![Head(down).id] = Head(down).kind]
    /\ down' = Tail(down)
    /\ reader' = "reading"
    /\ UNCHANGED <<call, pending, clearing, disconnected, outbound, writer,
                   held, events, server, gone>>

ReadUnexpected ==
    /\ reader = "reading"
    /\ down # <<>>
    /\ Head(down).kind # "push"
    /\ Head(down).id \notin pending
    /\ down' = Tail(down)
    /\ UNCHANGED <<call, slot, pending, clearing, disconnected, outbound,
                   writer, reader, held, events, server, gone>>

\* Mutant: the task returns without a clear of the table.
LeaveUncleared ==
    /\ reader = "reading"
    /\ reader' = "clearing"
    /\ disconnected' = TRUE
    /\ UNCHANGED <<call, slot, pending, clearing, outbound, writer, held,
                   events, remoteVars>>

\* End of the stream or a fatal error: the flag first, then the table.
LeaveLoop ==
    /\ reader = "reading"
    /\ reader' = "clearing"
    /\ disconnected' = TRUE
    /\ clearing' = [clearing EXCEPT !["reader"] = Request]
    /\ UNCHANGED <<call, slot, pending, outbound, writer, held, events,
                   remoteVars>>

StreamEnds == gone /\ down = <<>> /\ LeaveLoop

\* Mutant: the loss is announced before the table is cleared.
AnnounceEarly ==
    /\ reader = "clearing"
    /\ reader' = "stopped"
    /\ events' = Append(events, "disconnected")
    /\ UNCHANGED <<call, slot, pending, clearing, disconnected, outbound,
                   writer, held, remoteVars>>

AnnounceLoss ==
    /\ reader = "clearing"
    /\ clearing["reader"] = {}
    /\ reader' = "stopped"
    /\ events' = Append(events, "disconnected")
    /\ UNCHANGED <<call, slot, pending, clearing, disconnected, outbound,
                   writer, held, remoteVars>>

-----------------------------------------------------------------------------
\* The server, as far as the client can tell.

\* An abort that comes in between may be too late, and so changes nothing.
ServerAnswers(r) ==
    /\ ~gone
    /\ server[r] = "working"
    /\ server' = [server EXCEPT ![r] = "answered"]
    /\ \E k \in {"answer", "garbled"} :
         down' = Append(down, [kind |-> k, id |-> r])
    /\ UNCHANGED <<callVars, disconnected, writer, reader, events, gone>>

Pushes(s) == Len(SelectSeq(s, LAMBDA m : m.kind = "push"))

ServerPushes ==
    /\ ~gone
    /\ Len(events) + Pushes(down) < MaxPushes
    /\ down' = Append(down, [kind |-> "push"])
    /\ UNCHANGED <<callVars, disconnected, writer, reader, events, server,
                   gone>>

ServerEnds ==
    /\ ~gone
    /\ gone' = TRUE
    /\ UNCHANGED <<callVars, disconnected, writer, reader, events, down,
                   server>>

\* The proxy shuts the connection down when the client's stream ends.
HangsUp == writer = "stopped" /\ ServerEnds

-----------------------------------------------------------------------------
CallStep(r) ==
    \/ CheckFlag(r) \/ Refuse(r) \/ Enqueue(r) \/ SendFailed(r)
    \/ Collect(r) \/ TimeOut(r)

WriterStep == WriteOne \/ WriteTooLarge \/ WriteFails \/ WriterStops

ReaderStep ==
    \/ ReadPush \/ ReadAnswer \/ Resolve \/ ReadUnexpected
    \/ StreamEnds \/ AnnounceLoss

Next ==
    \/ \E r \in Request :
         Insert(r) \/ CallStep(r) \/ TimerFires(r) \/ ServerAnswers(r)
    \/ \E t \in Task : ClearVisits(t)
    \/ Release
    \/ WriterStep \/ ReaderStep \/ LeaveLoop
    \/ ServerPushes \/ ServerEnds

\* Tasks run while they can; no fairness for the request timer, the user, or a
\* server that keeps its end open while the client keeps its own.
Fairness ==
    /\ \A r \in Request : WF_vars(CallStep(r))
    /\ \A t \in Task : WF_vars(ClearVisits(t))
    /\ WF_vars(WriterStep)
    /\ WF_vars(ReaderStep)
    /\ WF_vars(HangsUp)

Spec     == Init /\ [][Next]_vars
FairSpec == Spec /\ Fairness

-----------------------------------------------------------------------------
\* Properties.

ClientTypeOK ==
    /\ call \in [Request -> {"idle"} \cup Inside \cup Done]
    /\ slot \in [Request -> {"open", "answer", "garbled", "dropped"}]
    /\ pending \subseteq Request
    /\ clearing \in [Task -> SUBSET Request]
    /\ disconnected \in BOOLEAN
    /\ outbound \in Seq(UpMessage)
    /\ writer \in {"running", "clearing", "stopped"}
    /\ reader \in {"reading", "resolving", "clearing", "stopped"}
    /\ held \in BOOLEAN
    /\ events \in Seq({"push", "disconnected"})
    /\ down \in Seq(DownMessage)
    /\ server \in [Request -> {"unseen", "working", "answered"}]
    /\ gone \in BOOLEAN
    /\ \A r \in pending : slot[r] = "open"   \* a oneshot sender is used once

\* A call that nothing has decided yet.
Open(r) == call[r] \in {"checked", "waiting"} /\ slot[r] = "open"

Announced == reader = "stopped"

\* Once the loss of the connection has been announced no call waits for an
\* answer that cannot come, however its insert, its look at the flag and its
\* send fell between the flag and the clear of the reader task
\* (send_request, 1262-1269; reader_task, 1418-1425).
NobodyWaitsOnTheDead == Announced => \A r \in Request : ~Open(r)

\* The table holds the sender of a call only while that call runs: answers,
\* write errors, timeouts and refusals each take it out, whichever comes first.
PendingAreAwaited == \A r \in pending : call[r] \in Inside

\* A call that is under way when the writer or the reader task stops ends
\* without the help of its timer, even when it slipped into the queue after the
\* writer cleared the table (writer_task, 1337-1338).
LostCallsEnd ==
    \A r \in Request :
        (call[r] \in Inside /\ (disconnected \/ writer = "stopped"))
            ~> call[r] \in Done

\* The client implements the promise it makes to its callers.
Status(r) ==
    CASE call[r] \in {"idle", "inserted"} -> "idle"
      [] call[r] = "ok" -> "answered"
      [] call[r] \in {"checked", "waiting"} ->
           IF slot[r] = "open" THEN "open" ELSE "settled"
      [] OTHER -> "failed"

Promise == INSTANCE RequestPromise WITH
    status <- [r \in Request |-> Status(r)],
    lost   <- Announced

KeepsPromise == Promise!PromiseSpec
=============================================================================
