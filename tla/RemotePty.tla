----------------------------- MODULE RemotePty -----------------------------
(***************************************************************************)
(* Terminals on the remote host.  A pane asks the daemon for a PTY, keeps  *)
(* what is typed until the answer, writes to the PTY and shows what it     *)
(* prints.  The daemon holds a PTY for its connection; a thread per PTY    *)
(* pushes the output.  An answer resumes a future and a push goes through  *)
(* the event stream, so that either may overtake the other.  A pane that   *)
(* is closed keeps a lease on its agent session until it has seen its      *)
(* shell exit.                                                             *)
(***************************************************************************)
EXTENDS Naturals, Sequences

CONSTANTS
    Pane,
    MaxGeneration,   \* bound on the connections
    InputLimit,      \* bound on the inputs of each pane
    OutputLimit      \* bound on the chunks each shell prints

ASSUME PtyAssumption ==
    /\ MaxGeneration \in Nat
    /\ InputLimit \in [Pane -> Nat]
    /\ OutputLimit \in [Pane -> Nat]

Generation == 1..MaxGeneration

VARIABLES
    generation,  \* of the present connection, 0 before the first
    connected,   \* the manager's session is Connected
    link,        \* each connection; "cut" until the daemon notices
    streaming,   \* connections whose event stream the client still drains
    nextPty,     \* next_pty_id of the daemon
    up,          \* messages on their way to the daemon, by connection
    events,      \* pushes on their way to the panes, by connection
    pty,         \* the PTY made for each pane
    pane         \* the event loop and the terminal model of each pane

linkVars == <<generation, connected, link, streaming>>
vars == <<linkVars, nextPty, up, events, pty, pane>>

\* "killed": dropped by the daemon, the reader thread has not ended yet.
NoPty == [state |-> "none", id |-> 0, made |-> 0, got |-> <<>>]

\* An input is what one write sends; the first of a shell is its bootstrap.
Bootstrap == 0

Init ==
    /\ generation = 0
    /\ connected = FALSE
    /\ link = [g \in Generation |-> "unborn"]
    /\ streaming = {}
    /\ nextPty = 1
    /\ up = [g \in Generation |-> <<>>]
    /\ events = [g \in Generation |-> <<>>]
    /\ pty = [p \in Pane |-> NoPty]
    /\ pane = [p \in Pane |-> [client |-> 0, request |-> "none", reply |-> 0, id |-> 0,
                              closed |-> FALSE, pending |-> <<>>, typed |-> 0,
                              shown |-> <<>>, exited |-> FALSE, missed |-> FALSE]]

-----------------------------------------------------------------------------
\* Helpers.

CreateMsg(p)    == [type |-> "create", pane |-> p]
WriteMsg(id, n) == [type |-> "write", id |-> id, input |-> n]
CloseMsg(id)    == [type |-> "close", id |-> id]

\* A push names its PTY by id.  Which pane the PTY was made for and the number of
\* the chunk are recorded for the properties.
OutputPush(p)  == [type |-> "output", id |-> pty[p].id, of |-> p,
                   chunk |-> pty[p].made + 1]
ExitedPush(p)  == [type |-> "exited", id |-> pty[p].id, of |-> p, chunk |-> 0]

\* try_send of messages on connection g: nothing arrives once it is cut.
Sent(g, msgs) ==
    IF g \in Generation /\ link[g] = "up" THEN [up EXCEPT ![g] = @ \o msgs] ELSE up

Pushed(g, msg) ==
    IF link[g] = "up" THEN [events EXCEPT ![g] = Append(@, msg)] ELSE events

Opened(p) == pane[p].request # "none"
InTable(p) == pty[p].state \in {"running", "exited"}

\* The PTYs of connection g with this id: one at most.
Found(g, id) == {p \in Pane : pane[p].client = g /\ pty[p].id = id /\ InTable(p)}

\* RemotePty is dropped: its shell is killed.
Dropped(S) ==
    [p \in Pane |->
       IF p \in S /\ pty[p].state = "running"
       THEN [pty[p] EXCEPT !.state = "killed", !.made = 0, !.got = <<>>]
       ELSE IF p \in S /\ pty[p].state = "exited" THEN NoPty ELSE pty[p]]

\* The event loop is closed; what the pane showed and how much was typed is forgotten.
Over(r) == [r EXCEPT !.id = 0, !.closed = TRUE, !.pending = <<>>, !.typed = 0,
                     !.shown = <<>>]

-----------------------------------------------------------------------------
\* The pane: its event loop, and what the user does with it.

\* start_environment_runtime with the client of the session.
OpenPane(p) ==
    /\ ~Opened(p)
    /\ connected
    /\ pane' = [pane EXCEPT ![p].client = generation, ![p].request = "asked"]
    /\ up' = Sent(generation, <<CreateMsg(p)>>)
    /\ UNCHANGED <<linkVars, nextPty, events, pty>>

Writes(id, inputs) == [i \in DOMAIN inputs |-> WriteMsg(id, inputs[i])]

\* Mutant: what waited goes before the bootstrap.
PtyCreatedPendingFirst(p) ==
    /\ pane[p].request = "created"
    /\ pane' = [pane EXCEPT ![p].request = "held", ![p].id = pane[p].reply,
                            ![p].reply = 0, ![p].pending = <<>>]
    /\ up' = Sent(pane[p].client,
                  Writes(pane[p].reply, pane[p].pending \o <<Bootstrap>>))
    /\ UNCHANGED <<linkVars, nextPty, events, pty>>

\* on_environment_runtime_pty_created: bootstrap the shell, then send what waited.
\* The pane may have been shut down meanwhile; it stays closed.
PtyCreated(p) ==
    /\ pane[p].request = "created"
    /\ pane' = [pane EXCEPT ![p].request = "held", ![p].id = pane[p].reply,
                            ![p].reply = 0, ![p].pending = <<>>]
    /\ up' = Sent(pane[p].client,
                  Writes(pane[p].reply, <<Bootstrap>> \o pane[p].pending))
    /\ UNCHANGED <<linkVars, nextPty, events, pty>>

\* The same on a connection that is down: a write fails and the pane gives up.
BootstrapFails(p) ==
    /\ pane[p].request = "created"
    /\ link[pane[p].client] # "up"
    /\ pane' = [pane EXCEPT ![p] = [Over(@) EXCEPT !.request = "held", !.reply = 0,
                                                !.exited = TRUE]]
    /\ UNCHANGED <<linkVars, nextPty, up, events, pty>>

\* on_environment_runtime_pty_created with an error.
Fails(p) ==
    /\ pane' = [pane EXCEPT ![p] = [Over(@) EXCEPT !.request = "refused", !.exited = TRUE]]
    /\ UNCHANGED <<linkVars, nextPty, up, events, pty>>

\* An error of the daemon or a lost connection, or the time is up at the client.
PtyNotCreated(p) == pane[p].request = "failed" /\ Fails(p)
CreateTimesOut(p) == pane[p].request = "asked" /\ Fails(p)

\* A message of the PtyController: bytes to write, or a new size.  A closed pane drops
\* it.
Input(p) ==
    /\ Opened(p) /\ ~pane[p].closed
    /\ pane[p].typed < InputLimit[p]
    /\ LET n == pane[p].typed + 1 IN
       \/ /\ pane[p].id = 0
          /\ pane' = [pane EXCEPT ![p].typed = n, ![p].pending = Append(@, n)]
          /\ up' = up
       \/ /\ pane[p].id # 0
          /\ pane' = [pane EXCEPT ![p].typed = n]
          /\ up' = Sent(pane[p].client, <<WriteMsg(pane[p].id, n)>>)
    /\ UNCHANGED <<linkVars, nextPty, events, pty>>

\* Mutant: the pane closes and the daemon is not told.
ShutdownQuietly(p) ==
    /\ Opened(p) /\ ~pane[p].closed
    /\ pane' = [pane EXCEPT ![p] = Over(@)]
    /\ UNCHANGED <<linkVars, nextPty, up, events, pty>>

\* Message::Shutdown, when a pane is closed for good: the PTY is closed, if its id is
\* known.
Shutdown(p) ==
    /\ Opened(p) /\ ~pane[p].closed
    /\ pane' = [pane EXCEPT ![p] = Over(@)]
    /\ up' = IF pane[p].id = 0 THEN up
             ELSE Sent(pane[p].client, <<CloseMsg(pane[p].id)>>)
    /\ UNCHANGED <<linkVars, nextPty, events, pty>>

-----------------------------------------------------------------------------
\* Pushes.  A pane listens for the session and the id; the session is the same
\* for all.  The manager drops what arrives while the session is not Connected.

\* Mutant: the id is not compared.
ListeningToAll(p, e) == pane[p].id # 0

Listening(p, e) == pane[p].id # 0 /\ pane[p].id = e.id

OutputArrives(g) ==
    /\ g \in streaming /\ events[g] # <<>>
    /\ LET e == Head(events[g]) IN
       /\ e.type = "output"
       /\ pane' = [p \in Pane |->
                     IF connected /\ Listening(p, e)
                     THEN [pane[p] EXCEPT !.shown = Append(@, <<e.of, e.chunk>>)]
                     ELSE pane[p]]
    /\ events' = [events EXCEPT ![g] = Tail(@)]
    /\ UNCHANGED <<linkVars, nextPty, up, pty>>

\* A terminal that hears of the exit is over.  Its own pane may wait for the id still.
Notified(e, heard) ==
    [p \in Pane |-> IF p \in heard THEN [Over(pane[p]) EXCEPT !.exited = TRUE]
                    ELSE IF p = e.of /\ pane[p].request \in {"asked", "created"}
                    THEN [pane[p] EXCEPT !.missed = TRUE]
                    ELSE pane[p]]

\* The panes that listen close, acknowledge and mark their terminal as exited.
ExitArrives(g) ==
    /\ g \in streaming /\ events[g] # <<>>
    /\ LET e == Head(events[g])
           heard == IF connected THEN {p \in Pane : Listening(p, e)} ELSE {}
       IN
       /\ e.type = "exited"
       /\ pane' = Notified(e, heard)
       /\ up' = [h \in Generation |->
                   IF link[h] = "up" /\ \E p \in heard : pane[p].client = h
                   THEN Append(up[h], CloseMsg(e.id)) ELSE up[h]]
    /\ events' = [events EXCEPT ![g] = Tail(@)]
    /\ UNCHANGED <<linkVars, nextPty, pty>>

-----------------------------------------------------------------------------
\* The daemon.

\* What its answer makes of the request: nothing, if the client gave up.
Answered(p, result, id) ==
    IF pane[p].request = "asked"
    THEN [pane EXCEPT ![p].request = result, ![p].reply = id] ELSE pane

Receives(g, type) ==
    /\ up[g] # <<>>
    /\ Head(up[g]).type = type
    /\ up' = [up EXCEPT ![g] = Tail(@)]

\* Mutant: the id is not used up.
CreatePtyReusesId(g) ==
    /\ Receives(g, "create")
    /\ LET p == Head(up[g]).pane IN
       /\ pty' = [pty EXCEPT ![p].state = "running", ![p].id = nextPty]
       /\ pane' = Answered(p, "created", nextPty)
    /\ UNCHANGED <<linkVars, nextPty, events>>

\* handle_create_pty: the reader thread runs at once, the answer follows.
CreatePty(g) ==
    /\ Receives(g, "create")
    /\ nextPty' = nextPty + 1
    /\ LET p == Head(up[g]).pane IN
       \/ /\ pty' = [pty EXCEPT ![p].state = "running", ![p].id = nextPty]
          /\ pane' = Answered(p, "created", nextPty)
       \/ pty' = pty /\ pane' = Answered(p, "failed", 0)
    /\ UNCHANGED <<linkVars, events>>

\* handle_write_pty, for the PTYs of the connection only.
WritePty(g) ==
    /\ Receives(g, "write")
    /\ LET m == Head(up[g]) IN
       pty' = [p \in Pane |->
                 IF p \in Found(g, m.id) /\ pty[p].state = "running"
                 THEN [pty[p] EXCEPT !.got = Append(@, m.input)] ELSE pty[p]]
    /\ UNCHANGED <<linkVars, nextPty, events, pane>>

\* handle_close_pty.
ClosePty(g) ==
    /\ Receives(g, "close")
    /\ pty' = Dropped(Found(g, Head(up[g]).id))
    /\ UNCHANGED <<linkVars, nextPty, events, pane>>

\* The shell prints and the reader thread pushes it.
ShellPrints(p) ==
    /\ pty[p].state = "running"
    /\ pty[p].made < OutputLimit[p]
    /\ pty' = [pty EXCEPT ![p].made = @ + 1]
    /\ events' = Pushed(pane[p].client, OutputPush(p))
    /\ UNCHANGED <<linkVars, nextPty, up, pane>>

\* Mutant: the reader thread ends without a push when the shell exits by itself.
ShellExitsQuietly(p) ==
    /\ pty[p].state = "running"
    /\ pty' = [pty EXCEPT ![p].state = "exited", ![p].made = 0, ![p].got = <<>>]
    /\ UNCHANGED <<linkVars, nextPty, up, events, pane>>

\* The shell exits: at the end of the output the reader thread pushes PtyExited.
ShellExits(p) ==
    /\ pty[p].state = "running"
    /\ pty' = [pty EXCEPT ![p].state = "exited", ![p].made = 0, ![p].got = <<>>]
    /\ events' = Pushed(pane[p].client, ExitedPush(p))
    /\ UNCHANGED <<linkVars, nextPty, up, pane>>

\* The same when the shell was killed.
ReaderEnds(p) ==
    /\ pty[p].state = "killed"
    /\ pty' = [pty EXCEPT ![p] = NoPty]
    /\ events' = Pushed(pane[p].client, ExitedPush(p))
    /\ UNCHANGED <<linkVars, nextPty, up, pane>>

-----------------------------------------------------------------------------
\* Connections: begun by the manager, cut by the network or by a restart, noticed
\* by the client when its stream ends and by the daemon when it deregisters.

Connect ==
    /\ ~connected
    /\ generation < MaxGeneration
    /\ generation' = generation + 1
    /\ connected' = TRUE
    /\ link' = [link EXCEPT ![generation + 1] = "up"]
    /\ streaming' = streaming \cup {generation + 1}
    /\ UNCHANGED <<nextPty, up, events, pty, pane>>

Cut(g) ==
    /\ link' = IF link[g] = "up" THEN [link EXCEPT ![g] = "cut"] ELSE link
    /\ up' = [up EXCEPT ![g] = <<>>]

\* What the daemon has not read is lost: anything it might still do with it ends when
\* it deregisters the connection.
LinkCut(g) ==
    /\ link[g] = "up"
    /\ Cut(g)
    /\ UNCHANGED <<generation, connected, streaming, nextPty, events, pty, pane>>

\* restart_session_transport drops the transport of the session.
Restart ==
    /\ connected
    /\ connected' = FALSE
    /\ Cut(generation)
    /\ UNCHANGED <<generation, streaming, nextPty, events, pty, pane>>

\* The event stream of a connection ends; what had not arrived is lost, requests
\* fail.  If the proxy is found dead, RemoteProcessExited marks the terminals with a
\* lease as exited; which panes run an agent and were closed or hidden is left open.
StreamEnds(g) ==
    /\ g \in streaming /\ link[g] # "up"
    /\ streaming' = streaming \ {g}
    /\ events' = [events EXCEPT ![g] = <<>>]
    /\ connected' = (connected /\ g # generation)
    /\ \E dead \in {S \in SUBSET Pane : S # {} => connected /\ g = generation} :
          pane' = [p \in Pane |->
                     LET r == IF pane[p].client = g /\ pane[p].request = "asked"
                              THEN [pane[p] EXCEPT !.request = "failed"] ELSE pane[p]
                     IN  IF p \in dead /\ Opened(p) THEN [r EXCEPT !.exited = TRUE] ELSE r]
    /\ UNCHANGED <<generation, link, nextPty, up, pty>>

\* deregister_connection drops the PTYs of the connection.
Deregister(g) ==
    /\ link[g] = "cut"
    /\ link' = [link EXCEPT ![g] = "gone"]
    /\ pty' = Dropped({p \in Pane : pane[p].client = g})
    /\ UNCHANGED <<generation, connected, streaming, nextPty, up, events, pane>>

\* The daemon ends, its shells with it.  The next one counts PTYs from 1.
DaemonDies ==
    /\ \E g \in Generation : link[g] \in {"up", "cut"}
    /\ link' = [g \in Generation |-> IF link[g] = "unborn" THEN "unborn" ELSE "gone"]
    /\ up' = [g \in Generation |-> <<>>]
    /\ pty' = [p \in Pane |-> NoPty]
    /\ nextPty' = 1
    /\ UNCHANGED <<generation, connected, streaming, events, pane>>

-----------------------------------------------------------------------------
Arrives(g) == OutputArrives(g) \/ ExitArrives(g)
Handles(g) == CreatePty(g) \/ WritePty(g) \/ ClosePty(g)
Resumes(p) == PtyCreated(p) \/ BootstrapFails(p) \/ PtyNotCreated(p)

Next ==
    \/ \E p \in Pane :
          \/ OpenPane(p) \/ Resumes(p) \/ CreateTimesOut(p)
          \/ Input(p) \/ Shutdown(p)
          \/ ShellPrints(p) \/ ShellExits(p) \/ ReaderEnds(p)
    \/ \E g \in Generation :
          Arrives(g) \/ Handles(g) \/ LinkCut(g) \/ StreamEnds(g) \/ Deregister(g)
    \/ Connect \/ Restart \/ DaemonDies

Spec == Init /\ [][Next]_vars

\* Either main thread handles what is queued, futures resume, reader threads run to
\* the end of the output, and the end of a connection is noticed on both sides.
FairSpec ==
    /\ Spec
    /\ \A p \in Pane : WF_vars(Resumes(p)) /\ WF_vars(ReaderEnds(p))
    /\ \A g \in Generation :
          /\ WF_vars(Arrives(g)) /\ WF_vars(Handles(g))
          /\ WF_vars(StreamEnds(g)) /\ WF_vars(Deregister(g))

-----------------------------------------------------------------------------
\* Properties.

Message ==
    [type : {"create"}, pane : Pane]
      \cup [type : {"write"}, id : Nat, input : Nat]
      \cup [type : {"close"}, id : Nat]
Push == [type : {"output", "exited"}, id : Nat, of : Pane, chunk : Nat]

Terminal == [state : {"none", "running", "exited", "killed"}, id : Nat, made : Nat,
             got : Seq(Nat)]
EventLoop == [client : 0..MaxGeneration,
              request : {"none", "asked", "created", "failed", "held", "refused"},
              reply : Nat, id : Nat, closed : BOOLEAN, pending : Seq(Nat), typed : Nat,
              shown : Seq(Pane \X Nat), exited : BOOLEAN, missed : BOOLEAN]

\* Type correctness.  A pane that asked for its PTY has a client.
PtyTypeOK ==
    /\ generation \in 0..MaxGeneration
    /\ connected \in BOOLEAN
    /\ connected => generation # 0
    /\ link \in [Generation -> {"unborn", "up", "cut", "gone"}]
    /\ streaming \in SUBSET Generation
    /\ nextPty \in Nat \ {0}
    /\ up \in [Generation -> Seq(Message)]
    /\ events \in [Generation -> Seq(Push)]
    /\ pty \in [Pane -> Terminal]
    /\ pane \in [Pane -> EventLoop]
    /\ \A p \in Pane : Opened(p) => pane[p].client # 0

OnLine(p) == pane[p].client \in Generation /\ link[pane[p].client] = "up"

\* A shell reads its bootstrap and then what was typed, all of it and in order, however
\* the typing falls before, while and after the PTY is made.
InputInOrder ==
    \A p \in Pane : \A i \in DOMAIN pty[p].got : pty[p].got[i] = i - 1

\* A pane misses what was printed before it knew the id, and nothing in between of what
\* comes after, as long as its connection is the present one.  Output of another shell
\* reaches it only from another connection, if the daemon was replaced.
OutputUnbroken ==
    \A p \in Pane :
      LET shown == pane[p].shown IN
      \A i \in DOMAIN shown :
        IF shown[i][1] = p
        THEN i > 1 /\ shown[i - 1][1] = p /\ pane[p].client = generation
               => shown[i][2] = shown[i - 1][2] + 1
        ELSE pane[p].client # pane[shown[i][1]].client

\* A pane that holds its PTY learns of the end of the shell: the exit is on its way, or
\* it came while the pane still waited for the id.
ExitIsHeard ==
    \A p \in Pane :
      OnLine(p) /\ pane[p].id # 0 /\ pty[p].state \in {"none", "exited"} =>
        \/ pane[p].missed
        \/ \E i \in DOMAIN events[pane[p].client] :
              LET e == events[pane[p].client][i] IN e.type = "exited" /\ e.of = p

ClosesSoon(p) == \E i \in DOMAIN up[pane[p].client] :
                    up[pane[p].client][i] = CloseMsg(pty[p].id)

\* Who ends a PTY: the open pane that holds its id or is about to be told it, or a
\* close on its way.
HasOwner(p) ==
    \/ ~pane[p].closed /\ (pane[p].request = "created" \/ pane[p].id = pty[p].id)
    \/ ClosesSoon(p)

\* A PTY of a live connection that nobody will end is that of a pane which gave up its
\* request, or was shut down before the answer: that one takes the id when it comes
\* and never closes it, as a closed pane drops every message.  No PTY is forgotten in
\* any other way, least of all one that its pane knew while it was open.
ForgottenOnlyUnanswered ==
    \A p \in Pane :
      OnLine(p) /\ InTable(p) /\ ~HasOwner(p) =>
        \/ pane[p].request = "refused"
        \/ pane[p].closed /\ (pane[p].request = "created" \/ pane[p].id = pty[p].id)

\* Who may start the session of a closed pane again must not meet its old shell: a
\* terminal that counts as exited has no running shell, or the daemon is about to kill
\* it, unless its connection is down or its request was given up.
ExitedMeansGone ==
    \A p \in Pane :
      pane[p].exited /\ OnLine(p) /\ pty[p].state = "running" =>
        ClosesSoon(p) \/ pane[p].request = "refused"

\* registry.rs: the lease of a closed pane stays "until each model reports process
\* exit".  A pane that is closed reports it some time, if its connection stays up.
LeaseEnds == \A p \in Pane : pane[p].closed ~> pane[p].exited \/ ~OnLine(p)
=============================================================================
