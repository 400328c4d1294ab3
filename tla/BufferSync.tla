----------------------------- MODULE BufferSync -----------------------------
(* One file of a host, open in an editor: the copy of GlobalBufferModel on    *)
(* the client, the copy of GlobalBufferModel in the daemon, the file itself,  *)
(* and the messages between them. Both copies carry a SyncClock: the client   *)
(* stamps an edit with the server version it knows, the daemon stamps a push  *)
(* with the client version it knows, and either side refuses what does not    *)
(* match.                                                                     *)
(*                                                                            *)
(* A text is an identity, an edit or a push is a pair of texts: it turns the  *)
(* text it was made from into the one it was made for, and any other into     *)
(* Garbled. Writes are atomic. There is one connection, and it stays up.      *)
EXTENDS Naturals, Sequences, SequencesExt

CONSTANTS Texts,             \* what a file or a buffer can hold
          Empty,             \* the text of a buffer that was not loaded
          Garbled,           \* the outcome of an edit to the wrong text
          MaxOpens, MaxEdits, MaxSaves, MaxWrites,
          MaxUses            \* bound on all of these together

ASSUME BufferAssumption ==
  /\ Empty \notin Texts /\ Garbled \notin Texts /\ Empty # Garbled
  /\ {MaxOpens, MaxEdits, MaxSaves, MaxWrites, MaxUses} \subseteq Nat

VARIABLES
  client,    \* the client's buffer: file id (0: none), clock, text, conflict
  server,    \* the daemon's buffer, its lease, load, reload and saves
  disk,      \* what the file holds
  noticed,   \* the watcher has seen a change that is not read yet
  reloads,   \* texts read by reload tasks whose closures have not run
  writes,    \* saves whose task was spawned
  tasks,     \* requests whose task has not put them on the wire yet
  toServer, toClient,
  used,      \* opens, edits, saves and external writes so far
  issued,    \* content versions the daemon gave out
  asked,     \* save -> texts the client showed since it asked for it
  outOfTurn  \* the client handled a push and the text of its buffer the other
             \* way round than they were sent, or a save was asked for or
             \* taken before the text was there

vars == <<client, server, disk, noticed, reloads, writes, tasks, toServer,
          toClient, used, issued, asked, outOfTurn>>

----------------------------------------------------------------------------
(* Values *)

AnyText == Texts \union {Empty, Garbled}
Files == 1..MaxOpens
Saves == 1..MaxSaves

NoBuffer == [file |-> 0, loaded |-> FALSE, sv |-> 0, cv |-> 0,
             text |-> Empty, conflict |-> FALSE]

(* version is the buffer's, base the last version known to be on disk (0 until
   the buffer is loaded), fileVersion FileModel's idea of it; read is what the
   task that loads the file has found. *)
Untracked == [tracked |-> FALSE, writer |-> FALSE, text |-> Empty,
              version |-> 0, base |-> 0, fileVersion |-> 0, sv |-> 0, cv |-> 0,
              waiting |-> <<>>, loading |-> "no", read |-> Empty, diff |-> {},
              saves |-> <<>>]

Applied(text, m) ==
  CASE m.from = m.to -> text
    [] text = m.from -> m.to
    [] OTHER -> Garbled

Opened(f, s) == [kind |-> "opened", file |-> f, text |-> s.text, sv |-> s.sv]
OpenFailed(f) == [kind |-> "open_failed", file |-> f]
SaveAnswer(s, ok, text) ==
  [kind |-> "saved", save |-> s.save, file |-> s.file, ok |-> ok, wrote |-> text]

Show(texts, text) == [s \in Saves |->
                        IF texts[s] = {} THEN {} ELSE texts[s] \union {text}]

UsesLeft == used.opens + used.edits + used.saves + used.writes < MaxUses

----------------------------------------------------------------------------
(* Client *)

\* A request is sent by a task of its own, a notification at once.

ClientOpens ==
  /\ client.file = 0 /\ used.opens < MaxOpens /\ UsesLeft
  /\ used' = [used EXCEPT !.opens = @ + 1]
  /\ client' = [NoBuffer EXCEPT !.file = used.opens + 1]
  /\ tasks' = tasks \union {[kind |-> "open", file |-> used.opens + 1]}
  /\ UNCHANGED <<server, disk, noticed, reloads, writes, toServer, toClient,
                 issued, asked, outOfTurn>>

ClientEdits(text) ==
  /\ client.loaded /\ used.edits < MaxEdits /\ UsesLeft
  /\ text # client.text
  /\ used' = [used EXCEPT !.edits = @ + 1]
  /\ client' = [client EXCEPT !.cv = used.edits + 1, !.text = text]
  /\ toServer' = Append(toServer, [kind |-> "edit", from |-> client.text,
                          to |-> text, sv |-> client.sv, cv |-> used.edits + 1])
  /\ asked' = Show(asked, text)
  /\ UNCHANGED <<server, disk, noticed, reloads, writes, tasks, toClient, issued,
                 outOfTurn>>

ClientSaves ==
  /\ client.file # 0 /\ used.saves < MaxSaves /\ UsesLeft
  /\ used' = [used EXCEPT !.saves = @ + 1]
  /\ asked' = [asked EXCEPT ![used.saves + 1] = {client.text}]
  /\ outOfTurn' = (outOfTurn \/ ~client.loaded)
  /\ tasks' = tasks \union
       {[kind |-> "save", save |-> used.saves + 1, file |-> client.file]}
  /\ UNCHANGED <<client, server, disk, noticed, reloads, writes, toServer,
                 toClient, issued>>

RequestSent(m) ==
  /\ tasks' = tasks \ {m}
  /\ toServer' = Append(toServer, m)
  /\ UNCHANGED <<client, server, disk, noticed, reloads, writes, toClient, used,
                 issued, asked, outOfTurn>>

ClientCloses ==
  /\ client.file # 0
  /\ client' = NoBuffer
  /\ toServer' = Append(toServer, [kind |-> "close"])
  /\ UNCHANGED <<server, disk, noticed, reloads, writes, tasks, toClient, used,
                 issued, asked, outOfTurn>>

(* Pushes go through the event stream and are handled in order. An answer resumes
   the future of its request, and may be handled before or after any other. *)
Deliverable ==
  {i \in DOMAIN toClient :
     toClient[i].kind = "push" => \A j \in 1..(i - 1) : toClient[j].kind # "push"}

ClientTakes(i) ==
  /\ toClient' = RemoveAt(toClient, i)
  /\ UNCHANGED <<server, disk, noticed, reloads, writes, tasks, toServer, used,
                 issued>>

\* The text of the open buffer is handled before a push that was sent earlier, and a
\* push before the text.
OvertakesPush(i) == /\ toClient[i].file = client.file
                    /\ \E j \in 1..(i - 1) : toClient[j].kind = "push"
OvertakesText(i) == \E j \in 1..(i - 1) :
                       toClient[j].kind = "opened" /\ toClient[j].file = client.file

FinishMaterialization(i) ==
  LET m == toClient[i]
  IN  /\ m.kind \in {"opened", "open_failed"}
      /\ client' = IF m.file # client.file THEN client
                   ELSE IF m.kind = "opened"
                   THEN [client EXCEPT !.loaded = TRUE, !.sv = m.sv,
                                       !.cv = 0, !.text = m.text]
                   ELSE NoBuffer
      /\ asked' = Show(asked, client'.text)
      /\ outOfTurn' = (outOfTurn \/ OvertakesPush(i))
      /\ ClientTakes(i)

\* Mutant: a push that does not fit is ignored.
NoConflict(c) == c
Conflict(c) == [c EXCEPT !.conflict = TRUE]

HandleBufferUpdatedPush(i) ==
  LET m == toClient[i]
  IN  /\ m.kind = "push"
      /\ client' = IF ~client.loaded THEN client
                   ELSE IF client.cv = m.cv
                   THEN [client EXCEPT !.sv = m.sv, !.text = Applied(@, m)]
                   ELSE Conflict(client)
      /\ asked' = Show(asked, client'.text)
      /\ outOfTurn' = (outOfTurn \/ OvertakesText(i))
      /\ ClientTakes(i)

SaveReported(i) ==
  LET m == toClient[i]
  IN  /\ m.kind = "saved"
      /\ asked' = [asked EXCEPT ![m.save] = {}]
      /\ UNCHANGED <<client, outOfTurn>>
      /\ ClientTakes(i)

----------------------------------------------------------------------------
(* Daemon: messages *)

Received(kind) == toServer # <<>> /\ Head(toServer).kind = kind

Send(messages) == toClient' = toClient \o messages

HandleOpenBuffer ==
  LET m == Head(toServer)
  IN  /\ Received("open")
      /\ toServer' = Tail(toServer)
      /\ \/ /\ ~server.tracked
            /\ server' = [Untracked EXCEPT !.tracked = TRUE, !.writer = TRUE,
                            !.version = issued + 1, !.loading = "reading",
                            !.waiting = <<m.file>>]
            /\ issued' = issued + 1
            /\ UNCHANGED toClient
         \/ /\ server.tracked /\ server.base = 0
            /\ server' = [server EXCEPT !.writer = TRUE,
                                        !.waiting = Append(@, m.file)]
            /\ UNCHANGED <<toClient, issued>>
         \/ /\ server.tracked /\ server.base # 0
            /\ server' = [server EXCEPT !.writer = TRUE]
            /\ Send(<<Opened(m.file, server)>>)
            /\ UNCHANGED issued
      /\ UNCHANGED <<client, disk, noticed, reloads, writes, tasks, used, asked,
                     outOfTurn>>

\* Mutant: the server version is not compared.
AnyEditMatches(m) == server.writer
ClientEditMatches(m) == server.writer /\ server.sv = m.sv

\* An edit made from another server version is dropped, and nobody is told.
HandleBufferEdit ==
  LET m == Head(toServer)
  IN  /\ Received("edit")
      /\ toServer' = Tail(toServer)
      /\ IF ClientEditMatches(m)
         THEN /\ server' = [server EXCEPT !.cv = m.cv, !.version = issued + 1,
                                          !.text = Applied(@, m)]
              /\ issued' = issued + 1
         ELSE UNCHANGED <<server, issued>>
      /\ UNCHANGED <<client, disk, noticed, reloads, writes, tasks, toClient,
                     used, asked, outOfTurn>>

StartSave(s) == [save |-> s.save, text |-> server.text,
                 version |-> server.version, written |-> FALSE]

Dispatched(m) == IF server.saves = <<>> THEN {StartSave(m)} ELSE {}

HandleSaveBuffer ==
  LET m == Head(toServer)
  IN  /\ Received("save")
      /\ toServer' = Tail(toServer)
      /\ IF ~server.writer
         THEN /\ Send(<<SaveAnswer(m, FALSE, Empty)>>)
              /\ UNCHANGED <<server, writes, outOfTurn>>
         ELSE /\ server' = [server EXCEPT !.saves = Append(@, m)]
              /\ writes' = writes \union Dispatched(m)
              /\ outOfTurn' = (outOfTurn \/ server.base = 0)
              /\ UNCHANGED toClient
      /\ UNCHANGED <<client, disk, noticed, reloads, tasks, used, issued, asked>>

\* A buffer that still saves outlives its last connection.
CleanedUpIfIdle(s) ==
  IF ~s.writer /\ s.saves = <<>> THEN Untracked ELSE s

HandleCloseBuffer ==
  /\ Received("close")
  /\ toServer' = Tail(toServer)
  /\ server' = IF server.writer
               THEN CleanedUpIfIdle([server EXCEPT !.writer = FALSE])
               ELSE server
  /\ UNCHANGED <<client, disk, noticed, reloads, writes, tasks, toClient, used,
                 issued, asked, outOfTurn>>

----------------------------------------------------------------------------
(* Daemon: loading, saving and reloading the file *)

LoadReads ==
  /\ server.loading = "reading"
  /\ server' = [server EXCEPT !.loading = "read", !.read = disk]
  /\ UNCHANGED <<client, disk, noticed, reloads, writes, tasks, toServer,
                 toClient, used, issued, asked, outOfTurn>>

FileLoaded ==
  LET loaded == [server EXCEPT !.text = server.read, !.version = issued + 1,
                   !.base = issued + 1, !.fileVersion = issued + 1,
                   !.loading = "no", !.read = Empty, !.waiting = <<>>]
  IN  /\ server.loading = "read"
      /\ server' = loaded
      /\ issued' = issued + 1
      /\ Send([i \in DOMAIN server.waiting |-> Opened(server.waiting[i], loaded)])
      /\ UNCHANGED <<client, disk, noticed, reloads, writes, tasks, toServer,
                     used, asked, outOfTurn>>

FailedToLoad ==
  /\ server.loading = "reading"
  /\ server' = Untracked
  /\ Send([i \in DOMAIN server.waiting |-> OpenFailed(server.waiting[i])] \o
          [i \in DOMAIN server.saves |->
             SaveAnswer(server.saves[i], FALSE, Empty)])
  /\ UNCHANGED <<client, disk, noticed, reloads, writes, tasks, toServer, used,
                 issued, asked, outOfTurn>>

Watched == server.fileVersion # 0

FileWritten(text) ==
  /\ disk' = text
  /\ noticed' \in (IF Watched THEN {TRUE} ELSE {noticed, TRUE})

SaveWrites(w) ==
  /\ ~w.written
  /\ FileWritten(w.text)
  /\ writes' = (writes \ {w}) \union {[w EXCEPT !.written = TRUE]}
  /\ UNCHANGED <<client, server, reloads, tasks, toServer, toClient, used,
                 issued, asked, outOfTurn>>

\* Mutant: the next save is not dispatched.
NotPromoted(rest) == {}
Promoted(rest) == IF rest = <<>> THEN {} ELSE {StartSave(Head(rest))}

(* complete_active_buffer_mutation: the head is answered and the next save is
   dispatched with what the buffer holds now. The event of a save that no
   buffer waits for has no effect. *)
SaveEnds(w, ok) ==
  IF server.saves # <<>> /\ Head(server.saves).save = w.save
  THEN LET done == IF ok THEN [server EXCEPT !.base = w.version,
                                             !.fileVersion = w.version]
                         ELSE server
           rest == Tail(server.saves)
       IN  /\ server' = CleanedUpIfIdle([done EXCEPT !.saves = rest])
           /\ writes' = (writes \ {w}) \union Promoted(rest)
           /\ Send(<<SaveAnswer(Head(server.saves), ok, w.text)>>)
  ELSE /\ writes' = writes \ {w}
       /\ UNCHANGED <<server, toClient>>

FileSaved(w) ==
  /\ w.written
  /\ SaveEnds(w, TRUE)
  /\ UNCHANGED <<client, disk, noticed, reloads, tasks, toServer, used, issued,
                 asked, outOfTurn>>

FailedToSave(w) ==
  /\ ~w.written
  /\ SaveEnds(w, FALSE)
  /\ UNCHANGED <<client, disk, noticed, reloads, tasks, toServer, used, issued,
                 asked, outOfTurn>>

ExternalWrite(text) ==
  /\ used.writes < MaxWrites /\ UsesLeft
  /\ text # disk
  /\ used' = [used EXCEPT !.writes = @ + 1]
  /\ FileWritten(text)
  /\ UNCHANGED <<client, server, reloads, writes, tasks, toServer, toClient,
                 issued, asked, outOfTurn>>

WatcherReads ==
  /\ noticed
  /\ noticed' = FALSE
  /\ reloads' = IF Watched THEN reloads \union {disk} ELSE reloads
  /\ UNCHANGED <<client, server, disk, writes, tasks, toServer, toClient, used,
                 issued, asked, outOfTurn>>

\* Mutant: the diff under way is not aborted.
AllParses(d) == server.diff \union {d}
LatestParse(d) == {d}

(* The daemon's own saves come back here as well. A buffer with edits of the
   user is left alone, and nobody is told. *)
FileUpdated(text) ==
  LET version == issued + 1
      clean == server.version \in {server.fileVersion, server.base}
  IN  /\ reloads' = reloads \ {text}
      /\ IF Watched
         THEN /\ server' = [server EXCEPT !.fileVersion = version, !.diff =
                   IF clean
                   THEN LatestParse([from |-> server.text, to |-> text,
                                 base |-> server.version, version |-> version])
                   ELSE {}]
              /\ issued' = version
         ELSE UNCHANGED <<server, issued>>
      /\ UNCHANGED <<client, disk, noticed, writes, tasks, toServer, toClient,
                     used, asked, outOfTurn>>

Push(d, sv) == <<[kind |-> "push", from |-> d.from, to |-> d.to, sv |-> sv,
                  cv |-> server.cv]>>
\* Mutant: no push when the text did not change.
PushOfChange(d, sv) ==
  IF server.writer /\ d.from # d.to THEN Push(d, sv) ELSE <<>>
PushOf(d, sv) == IF server.writer THEN Push(d, sv) ELSE <<>>

(* apply_diff_result: an edit that arrived meanwhile wins. *)
ApplyDiffResult ==
  \E d \in server.diff :
    /\ IF server.version = d.base
       THEN LET bumped == issued + 1
            IN  /\ server' = [server EXCEPT !.diff = {}, !.sv = bumped,
                                !.text = Applied(@, d), !.version = d.version,
                                !.base = d.version]
                /\ issued' = bumped
                /\ Send(PushOf(d, bumped))
       ELSE /\ server' = [server EXCEPT !.diff = {}]
            /\ UNCHANGED <<issued, toClient>>
    /\ UNCHANGED <<client, disk, noticed, reloads, writes, tasks, toServer, used,
                   asked, outOfTurn>>

----------------------------------------------------------------------------
(* The file is there at first, nothing is open and nobody writes. *)
Init ==
  /\ client = NoBuffer
  /\ server = Untracked
  /\ disk \in Texts
  /\ noticed = FALSE
  /\ reloads = {} /\ writes = {} /\ tasks = {}
  /\ toServer = <<>> /\ toClient = <<>>
  /\ used = [opens |-> 0, edits |-> 0, saves |-> 0, writes |-> 0]
  /\ issued = 0
  /\ asked = [s \in Saves |-> {}]
  /\ outOfTurn = FALSE

ClientHandles ==
  \E i \in Deliverable : \/ FinishMaterialization(i)
                         \/ HandleBufferUpdatedPush(i)
                         \/ SaveReported(i)

Client ==
  \/ ClientOpens \/ ClientSaves \/ ClientCloses
  \/ \E text \in Texts : ClientEdits(text)
  \/ \E m \in tasks : RequestSent(m)
  \/ ClientHandles

DaemonHandles ==
  HandleOpenBuffer \/ HandleBufferEdit \/ HandleSaveBuffer \/ HandleCloseBuffer

Loading == LoadReads \/ FileLoaded \/ FailedToLoad

SaveRuns(s) ==
  \E w \in writes : w.save = s /\ (SaveWrites(w) \/ FileSaved(w) \/ FailedToSave(w))

Reloading ==
  \/ WatcherReads \/ ApplyDiffResult
  \/ \E text \in reloads : FileUpdated(text)

Daemon ==
  DaemonHandles \/ Loading \/ Reloading \/ \E s \in Saves : SaveRuns(s)

Next == Client \/ Daemon \/ \E text \in Texts : ExternalWrite(text)

BufferSpec == Init /\ [][Next]_vars

----------------------------------------------------------------------------
(* Properties *)

Versions == 0..issued
SaveRequest == [kind : {"save"}, save : Saves, file : Files]

ClientBuffer == [file : 0..MaxOpens, loaded : BOOLEAN, sv : Versions,
                 cv : 0..MaxEdits, text : AnyText, conflict : BOOLEAN]

Diff == [from : AnyText, to : AnyText, base : Versions, version : Versions]
WriteTask == [save : Saves, text : AnyText, version : Versions, written : BOOLEAN]

ServerBuffer ==
  [tracked : BOOLEAN, writer : BOOLEAN, text : AnyText, version : Versions,
   base : Versions, fileVersion : Versions, sv : Versions, cv : 0..MaxEdits,
   waiting : Seq(Files), loading : {"no", "reading", "read"}, read : AnyText,
   diff : SUBSET Diff,
   saves : Seq(SaveRequest)]

(* The types of the two buffers, of the tasks and of what they wrote; at most
   one background diff of a buffer is under way. *)
BufferTypeOK ==
  /\ client \in ClientBuffer
  /\ server \in ServerBuffer
  /\ \A x, y \in server.diff : x = y
  /\ {disk} \union reloads \subseteq AnyText
  /\ noticed \in BOOLEAN
  /\ writes \subseteq WriteTask
  /\ tasks \subseteq [kind : {"open"}, file : Files] \union SaveRequest
  /\ asked \in [Saves -> SUBSET AnyText]
  /\ outOfTurn \in BOOLEAN

(* Versions do their work: no edit and no push is applied to a text other than
   the one it was made from (apply_client_edit, handle_buffer_updated_push and
   apply_diff_result each compare a version first). What defeats them is named:
   a push that came before the text found no clock and was dropped, or one that
   came after was part of the text already; or a save was asked for or taken
   before the text was there, and the empty buffer was written over the file. *)
GarbledOutOfTurn == Garbled \in {client.text, server.text, disk} => outOfTurn

Quiet ==
  /\ toServer = <<>> /\ toClient = <<>>
  /\ \A m \in tasks : m.kind # "open"

(* When no message is under way, an editor shows what the daemon holds, or a
   conflict was reported to it, or something came out of turn: the daemon drops
   stale edits in silence and relies on the push that made them stale. *)
DivergenceIsTold ==
  Quiet /\ client.loaded =>
    client.text = server.text \/ client.conflict \/ outOfTurn

(* The answer m is a success, and the editor that asked is there to take it. *)
TakesSuccess(m) == m.kind = "saved" /\ m.file = client.file /\ m.ok

(* The answer toClient[i] may be handled before a push that was sent earlier and
   leads to the text that was written: the editor will show it, or be told of a
   conflict. *)
LearnsFromPush(i) ==
  \E j \in 1..(i - 1) :
    toClient[j].kind = "push" /\ toClient[j].to = toClient[i].wrote

(* An editor that is told of a successful save showed the text that was written
   when it asked or since; or it was told of a conflict; or it learns of either by a
   push that the answer has overtaken; or something came out of turn. *)
SavedUnlessTold ==
  \A i \in Deliverable : LET m == toClient[i] IN
    TakesSuccess(m) =>
      m.wrote \in asked[m.save] \/ client.conflict \/ LearnsFromPush(i) \/ outOfTurn

(* The same without the conflict for an excuse, as the comment of
   save_environment_buffer has it: the daemon already holds the user's edits when it
   is asked to save. *)
SavedIsTheClients ==
  \A i \in Deliverable : LET m == toClient[i] IN
    TakesSuccess(m) => m.wrote \in asked[m.save] \/ LearnsFromPush(i) \/ outOfTurn

(* No save is forgotten, whatever was closed, reopened or failed to load in the
   meantime: once no message and no task is left, every save was answered. *)
SavesAnswered ==
  /\ Quiet /\ tasks = {} /\ writes = {}
  => \A s \in Saves : asked[s] = {}

=============================================================================
