------------------------- MODULE BufferSync_proofs -------------------------
(* Proofs about BufferSync. Saves are answered whatever happens to the       *)
(* messages: SavesInv says where a save that was asked for still is. Texts   *)
(* are another matter: TextsInv says what the two clocks of a buffer tell    *)
(* its two ends of each other's text, WroteInv where every save is and       *)
(* whether its editor has shown the text it writes. Both hold until a        *)
(* message is taken out of turn (outOfTurn), which the code allows.          *)
EXTENDS BufferSync, TLAPS, SequenceTheorems

-----------------------------------------------------------------------------
(* What the variables hold that BufferTypeOK leaves open: the messages, and the
   counters. *)

EditMsg == [kind : {"edit"}, from : AnyText, to : AnyText, sv : Versions,
            cv : 0..MaxEdits]
OpenMsg == [kind : {"open"}, file : Files]
CloseMsg == [kind : {"close"}]
Request == OpenMsg \union SaveRequest
ServerMsg == Request \union EditMsg \union CloseMsg

OpenedMsg == [kind : {"opened"}, file : Files, text : AnyText, sv : Versions]
FailedMsg == [kind : {"open_failed"}, file : Files]
SavedMsg == [kind : {"saved"}, save : Saves, file : Files, ok : BOOLEAN,
             wrote : AnyText]
PushMsg == [kind : {"push"}, from : AnyText, to : AnyText, sv : Versions,
            cv : 0..MaxEdits]
ClientMsg == OpenedMsg \union FailedMsg \union SavedMsg \union PushMsg

MessagesOK ==
  /\ toServer \in Seq(ServerMsg)
  /\ toClient \in Seq(ClientMsg)
  /\ issued \in Nat
  /\ used \in [opens : 0..MaxOpens, edits : 0..MaxEdits, saves : 0..MaxSaves,
               writes : 0..MaxWrites]

TypeInv == BufferTypeOK /\ MessagesOK

-----------------------------------------------------------------------------
\* Saves.

\* Nothing is left of a buffer that the daemon has dropped.
Blank == ~server.tracked => server = Untracked

\* A save that was asked for and is not answered is somewhere.
Underway(s) ==
  \/ \E m \in tasks : m.kind = "save" /\ m.save = s
  \/ \E i \in DOMAIN toServer : toServer[i].kind = "save" /\ toServer[i].save = s
  \/ \E i \in DOMAIN server.saves : server.saves[i].save = s
  \/ \E i \in DOMAIN toClient : toClient[i].kind = "saved" /\ toClient[i].save = s

\* The first save of the queue is with the file system.
Dispatch == server.saves # <<>> => \E w \in writes : w.save = Head(server.saves).save

SavesInv == (\A s \in Saves : asked[s] # {} => Underway(s)) /\ Dispatch

-----------------------------------------------------------------------------
\* Texts and versions.

EditsOut == {m \in ToSet(toServer) : m.kind = "edit"}
After(k) == {toClient[i] : i \in {j \in DOMAIN toClient : j > k}}
Pushes(k) == {m \in After(k) : m.kind = "push"}

\* No text is garbled, wherever it is.
Clean ==
  /\ Garbled \notin {client.text, server.text, server.read, disk} \union reloads
  /\ \A d \in server.diff : Garbled \notin {d.from, d.to}
  /\ \A w \in writes : w.text # Garbled
  /\ \A e \in EditsOut : Garbled \notin {e.from, e.to}
  /\ \A m \in After(0) : /\ m.kind = "push" => Garbled \notin {m.from, m.to}
                         /\ m.kind = "opened" => m.text # Garbled

(* The daemon knows the versions of a buffer once it is loaded, and the version of
   a buffer tells whether it still holds what a diff began with. *)
ServerInv ==
  /\ server.tracked => server.version # 0
  /\ server.base = 0 <=> server.fileVersion = 0
  /\ server.base # 0 => server.loading = "no" /\ server.waiting = <<>>
  /\ server.base = 0 => server.diff = {} /\ server.saves = <<>>
  /\ server.tracked /\ server.base = 0 => server.loading # "no"
  /\ \A w \in writes : w.version # 0
  /\ \A d \in server.diff : /\ d.version # 0
                            /\ server.version = d.base => server.text = d.from

\* An edit reaches a daemon that has loaded the buffer for its editor.
SessionInv ==
  \A j \in DOMAIN toServer : toServer[j].kind = "edit" =>
    /\ server.writer /\ server.base # 0
    /\ \A i \in 1..j : toServer[i].kind # "close"

\* The files that were opened are numbered; the editor shows the last one or none.
Ids ==
  /\ client.file \in {0, used.opens}
  /\ client.loaded => client.file # 0
  /\ client.conflict => client.loaded
  /\ \A m \in tasks : m.kind = "open" => m.file <= used.opens
  /\ \A i \in DOMAIN toServer : toServer[i].kind = "open" => toServer[i].file <= used.opens
  /\ \A i \in DOMAIN server.waiting : server.waiting[i] <= used.opens
  /\ \A i \in DOMAIN toClient :
       toClient[i].kind \in {"opened", "open_failed"} => toClient[i].file <= used.opens

(* The edits on their way were made of one server version; each leads from the text
   of the one before. *)
EditsInOrder ==
  /\ server.cv <= used.edits
  /\ EditsOut # {} => \E e \in EditsOut : \A f \in EditsOut : e.cv <= f.cv
  /\ \A i, j \in DOMAIN toServer :
       i < j /\ toServer[i].kind = "edit" /\ toServer[j].kind = "edit" =>
         toServer[i].cv < toServer[j].cv
  /\ \A e \in EditsOut :
       /\ e.sv <= server.sv
       /\ server.cv < e.cv /\ e.cv <= used.edits
       /\ e.cv < used.edits => \E f \in EditsOut : f.cv = e.cv + 1
       /\ e.sv = server.sv /\ (\A f \in EditsOut : e.cv <= f.cv) => e.from = server.text
  /\ \A e, f \in EditsOut : e.sv = f.sv /\ (f.cv = e.cv + 1 => e.to = f.from)

\* Pushes are numbered in the order they were made in.
PushesInOrder ==
  \A i, j \in DOMAIN toClient :
    i < j /\ toClient[i].kind = "push" /\ toClient[j].kind = "push" =>
      toClient[i].sv < toClient[j].sv

Earliest(P, p) == \A q \in P : p.sv <= q.sv
Latest(P, p) == \A q \in P : q.sv <= p.sv
NextTo(P, p, q) == p.sv < q.sv /\ \A r \in P : r.sv <= p.sv \/ q.sv <= r.sv

(* An editor that holds text, with the clock (sv, cv), has still to take the pushes
   P: they lead to the text of the daemon s.  If the editor is not in step with the
   daemon, it takes all of them or none. *)
ViewOf(P, s, edits, told, sv, cv, text) ==
  /\ sv <= s.sv
  /\ \A p \in P : p.cv = s.cv /\ sv < p.sv /\ p.sv <= s.sv
  /\ \A p \in P : cv = s.cv /\ Earliest(P, p) => p.from = text
  /\ \A p \in P : Latest(P, p) => p.sv = s.sv /\ p.to = s.text
  /\ P # {} => \E p \in P : Latest(P, p)
  /\ \A p, q \in P : NextTo(P, p, q) => p.to = q.from
  /\ P = {} /\ sv # s.sv => told /\ cv # s.cv
  /\ sv = s.sv /\ edits = {} => text = s.text

View(P, sv, cv, text) == ViewOf(P, server, EditsOut, client.conflict, sv, cv, text)

\* Where the OpenBuffer of the last open is.
OpenTasks == {m \in tasks : m.kind = "open" /\ m.file = used.opens}
OpenAt == {i \in DOMAIN toServer : toServer[i].kind = "open" /\ toServer[i].file = used.opens}
WaitAt == {i \in DOMAIN server.waiting : server.waiting[i] = used.opens}
AnswerAt == {i \in DOMAIN toClient : /\ toClient[i].kind \in {"opened", "open_failed"}
                                     /\ toClient[i].file = used.opens}

\* No edit and no close is on its way behind the n-th request.
CalmAfter(n) ==
  \A i \in DOMAIN toServer : i > n => toServer[i].kind \notin {"edit", "close"}

\* An editor that waits for the text: its OpenBuffer is at one place.
Waits ==
  client.file # 0 /\ ~client.loaded =>
    /\ OpenTasks # {} => OpenAt = {} /\ WaitAt = {} /\ AnswerAt = {}
    /\ \A i \in OpenAt : /\ CalmAfter(i) /\ WaitAt = {} /\ AnswerAt = {}
                         /\ \A j \in OpenAt : i = j
    /\ \A i \in WaitAt : /\ AnswerAt = {} /\ CalmAfter(0)
                         /\ server.writer /\ server.base = 0
                         /\ \A j \in WaitAt : i = j
    /\ \A i \in AnswerAt : /\ CalmAfter(0)
                           /\ \A j \in AnswerAt : i = j
                           /\ toClient[i].kind = "opened" =>
                                /\ server.writer /\ server.base # 0
                                /\ View(Pushes(i), toClient[i].sv, 0, toClient[i].text)

\* One that shows it.
Shows ==
  client.loaded =>
    /\ OpenTasks = {} /\ OpenAt = {} /\ WaitAt = {} /\ AnswerAt = {}
    /\ server.writer /\ server.base # 0
    /\ \A i \in DOMAIN toServer : toServer[i].kind # "close"
    /\ \A e \in EditsOut : /\ e.sv = client.sv /\ client.cv = used.edits
                           /\ e.cv = used.edits => e.to = client.text
    /\ View(Pushes(0), client.sv, client.cv, client.text)

TextsInv ==
  Clean /\ ServerInv /\ SessionInv /\ Ids /\ EditsInOrder /\ PushesInOrder /\ Waits /\ Shows

-----------------------------------------------------------------------------
\* What a save wrote.

\* The saves and their answers, wherever they are.
SaveMsgs ==
  {m \in tasks \union ToSet(toServer) \union ToSet(server.saves) \union After(0) :
     m.kind \in {"save", "saved"}}

\* A save is at one place, and it is not reported yet.
SaveTasks == {m.save : m \in {n \in tasks : n.kind = "save"}}
SaveAt(s) == {i \in DOMAIN toServer : toServer[i].kind = "save" /\ toServer[i].save = s}
QueuedAt(s) == {i \in DOMAIN server.saves : server.saves[i].save = s}
SavedAt(s) == {i \in DOMAIN toClient : toClient[i].kind = "saved" /\ toClient[i].save = s}
WritesOf(s) == {w \in writes : w.save = s}

One(S) == \A i, j \in S : i = j

Place(s) ==
  /\ One(SaveAt(s)) /\ One(QueuedAt(s)) /\ One(SavedAt(s))
  /\ s \in SaveTasks => SaveAt(s) = {} /\ QueuedAt(s) = {} /\ SavedAt(s) = {}
  /\ SaveAt(s) # {} => QueuedAt(s) = {} /\ SavedAt(s) = {}
  /\ QueuedAt(s) # {} => SavedAt(s) = {}
  /\ s \in SaveTasks \/ SaveAt(s) # {} \/ QueuedAt(s) # {} \/ SavedAt(s) # {} =>
       s <= used.saves /\ asked[s] # {}
  /\ WritesOf(s) # {} => s <= used.saves /\ s \notin SaveTasks /\ SaveAt(s) = {}

OneTask == \A m, n \in tasks : m.kind = "save" /\ n.kind = "save" /\ m.save = n.save => m = n

OnePlace == OneTask /\ \A s \in Saves : Place(s)

\* Who asked for a save that is not reported yet, and is still there, shows the text.
Asking ==
  /\ client.loaded => \A s \in Saves : asked[s] # {} => client.text \in asked[s]
  /\ \A m \in SaveMsgs : m.file <= used.opens /\ (m.file = client.file => client.loaded)

\* The text that an edit replaces has been shown since any save before it was asked for.
EditsShown ==
  /\ \A i, j \in DOMAIN toServer :
       i < j /\ toServer[i].kind = "save" /\ toServer[j].kind = "edit" =>
         toServer[j].from \in asked[toServer[i].save]
  /\ \A m \in ToSet(server.saves), e \in EditsOut : e.from \in asked[m.save]

\* The editor has shown the text, or one of the answers and pushes at I will tell it.
Told(text, s, I) ==
  \/ text \in asked[s] \/ client.conflict
  \/ \E i \in I : toClient[i].kind = "push" /\ toClient[i].to = text

Before(i) == {j \in DOMAIN toClient : j < i}

WritesTold ==
  \A m \in ToSet(server.saves) : m.file = client.file =>
    \A w \in WritesOf(m.save) : Told(w.text, m.save, DOMAIN toClient)

AnswersTold ==
  \A i \in DOMAIN toClient :
    TakesSuccess(toClient[i]) => Told(toClient[i].wrote, toClient[i].save, Before(i))

WroteInv == OnePlace /\ Asking /\ EditsShown /\ WritesTold /\ AnswersTold

-----------------------------------------------------------------------------
\* Sequences.

LEMMA Appended ==
  ASSUME NEW S, NEW s \in Seq(S), NEW x \in S
  PROVE  LET n == Len(s)
             t == Append(s, x)
         IN  /\ n \in Nat /\ DOMAIN s = 1..n /\ DOMAIN t = 1..(n + 1)
             /\ t \in Seq(S) /\ Len(t) = n + 1
             /\ \A i \in 1..n : t[i] = s[i] /\ i \in 1..(n + 1)
             /\ t[n + 1] = x /\ n + 1 \in 1..(n + 1)
             /\ \A i \in 1..(n + 1) : i \in 1..n \/ i = n + 1
  OBVIOUS

\* x comes behind the n elements of s.
Grown(s, t, x, n) ==
  /\ DOMAIN s = 1..n /\ DOMAIN t = 1..(n + 1)
  /\ \A i \in 1..n : t[i] = s[i]
  /\ t[n + 1] = x
  /\ \A i \in 1..(n + 1) : i \in 1..n \/ i = n + 1
  /\ \A i \in 1..n : i \in 1..(n + 1)

LEMMA AppendedAt ==
  ASSUME NEW S, NEW s \in Seq(S), NEW x \in S, NEW t, t = Append(s, x)
  PROVE  \E n \in Nat : Grown(s, t, x, n)
<1>1. Len(s) \in Nat /\ Grown(s, t, x, Len(s))
  BY Appended DEF Grown
<1>. QED  BY <1>1

LEMMA Joined ==
  ASSUME NEW S, NEW s \in Seq(S), NEW u \in Seq(S)
  PROVE  LET n == Len(s)
             t == s \o u
         IN  /\ n \in Nat /\ DOMAIN s = 1..n /\ DOMAIN u = 1..Len(u) /\ Len(u) \in Nat
             /\ t \in Seq(S) /\ DOMAIN t = 1..(n + Len(u)) /\ Len(t) = n + Len(u)
             /\ \A i \in 1..n : i \in DOMAIN t /\ t[i] = s[i]
             /\ \A i \in DOMAIN u : n + i \in DOMAIN t /\ t[n + i] = u[i]
             /\ \A i \in DOMAIN t : i \in 1..n \/ \E j \in DOMAIN u : i = n + j
<1>. DEFINE n == Len(s)
            m == Len(u)
            t == s \o u
<1>1. n \in Nat /\ m \in Nat /\ DOMAIN s = 1..n /\ DOMAIN u = 1..m
  OBVIOUS
<1>2. /\ t \in Seq(S) /\ Len(t) = n + m /\ DOMAIN t = 1..(n + m)
      /\ \A i \in 1..(n + m) : t[i] = IF i <= n THEN s[i] ELSE u[i - n]
  OBVIOUS
<1>. HIDE DEF n, m, t
<1>3. \A i \in 1..n : i \in 1..(n + m) /\ t[i] = s[i]
  BY <1>1, <1>2
<1>4. \A i \in 1..m : n + i \in 1..(n + m) /\ ~(n + i <= n) /\ (n + i) - n = i
  BY <1>1
<1>5. \A i \in 1..m : t[n + i] = u[i]
  BY <1>2, <1>4
<1>6. ASSUME NEW i \in 1..(n + m), i \notin 1..n
      PROVE  \E j \in 1..m : i = n + j
  <2>1. i - n \in 1..m /\ i = n + (i - n)
    BY <1>1, <1>6
  <2>. QED  BY <2>1
<1>. QED  BY <1>1, <1>2, <1>3, <1>4, <1>5, <1>6 DEF n, m, t

LEMMA Beheaded ==
  ASSUME NEW S, NEW s \in Seq(S), s # <<>>
  PROVE  LET n == Len(s)
             t == Tail(s)
         IN  /\ n \in Nat /\ n > 0 /\ DOMAIN s = 1..n /\ DOMAIN t = 1..(n - 1)
             /\ t \in Seq(S) /\ Len(t) = n - 1
             /\ 1 \in DOMAIN s /\ Head(s) = s[1] /\ Head(s) \in S
             /\ \A i \in DOMAIN t : i + 1 \in DOMAIN s /\ t[i] = s[i + 1]
             /\ \A i \in DOMAIN s : i # 1 => i - 1 \in DOMAIN t /\ t[i - 1] = s[i]
<1>. DEFINE n == Len(s)
            t == Tail(s)
<1>1. /\ n \in Nat /\ n > 0 /\ DOMAIN s = 1..n
      /\ Head(s) = s[1] /\ Head(s) \in S
  OBVIOUS
<1>2. t \in Seq(S) /\ Len(t) = n - 1 /\ \A i \in 1..Len(t) : t[i] = s[i + 1]
  BY HeadTailProperties
<1>3. DOMAIN t = 1..(n - 1)
  BY <1>2
<1>. HIDE DEF n, t
<1>4. \A i \in 1..(n - 1) : i + 1 \in 1..n
  BY <1>1
<1>5. \A i \in 1..n : i # 1 => i - 1 \in 1..(n - 1) /\ (i - 1) + 1 = i
  BY <1>1
<1>6. 1 \in 1..n
  BY <1>1
<1>. QED  BY <1>1, <1>2, <1>3, <1>4, <1>5, <1>6 DEF n, t

\* One element is taken out.
LEMMA Removed ==
  ASSUME NEW S, NEW s \in Seq(S), NEW k \in DOMAIN s
  PROVE  LET n == Len(s)
             t == RemoveAt(s, k)
         IN  /\ n \in Nat /\ n > 0 /\ DOMAIN s = 1..n /\ DOMAIN t = 1..(n - 1)
             /\ t \in Seq(S) /\ Len(t) = n - 1
             /\ \A i \in DOMAIN t : i < k => i \in DOMAIN s /\ t[i] = s[i]
             /\ \A i \in DOMAIN t : i >= k => i + 1 \in DOMAIN s /\ t[i] = s[i + 1]
             /\ \A i \in DOMAIN s : i < k => i \in DOMAIN t /\ t[i] = s[i]
             /\ \A i \in DOMAIN s : i > k => i - 1 \in DOMAIN t /\ t[i - 1] = s[i]
<1>. DEFINE n == Len(s)
            a == SubSeq(s, 1, k - 1)
            b == SubSeq(s, k + 1, n)
            t == a \o b
<1>1. n \in Nat /\ n > 0 /\ DOMAIN s = 1..n /\ k \in 1..n
  OBVIOUS
<1>2. /\ a \in Seq(S) /\ Len(a) = k - 1
      /\ \A i \in 1..(k - 1) : a[i] = s[i]
  <2>1. k - 1 \in 0..n /\ 1 \in 1..(n + 1) /\ (k - 1) - 1 + 1 = k - 1
        /\ \A i \in 1..(k - 1) : (1 + i) - 1 = i /\ i \in 1..n
    BY <1>1
  <2>. QED  BY <1>1, <2>1
<1>3. /\ b \in Seq(S) /\ Len(b) = n - k
      /\ \A i \in 1..(n - k) : b[i] = s[k + i]
  <2>1. k + 1 \in 1..(n + 1) /\ n \in k..n /\ (n - (k + 1)) + 1 = n - k
        /\ \A i \in 1..(n - k) : ((k + 1) + i) - 1 = k + i /\ k + i \in 1..n
    BY <1>1
  <2>. QED  BY <1>1, <2>1
<1>. HIDE DEF a, b
<1>4. /\ t \in Seq(S) /\ Len(t) = n - 1 /\ DOMAIN t = 1..(n - 1)
      /\ \A i \in 1..(n - 1) : t[i] = IF i < k THEN a[i] ELSE b[i - (k - 1)]
  <2>1. /\ t \in Seq(S) /\ Len(t) = Len(a) + Len(b)
        /\ \A i \in 1..Len(t) : t[i] = IF i <= Len(a) THEN a[i] ELSE b[i - Len(a)]
    <3>1. a \in Seq(S) /\ b \in Seq(S)
      BY <1>2, <1>3
    <3>2. /\ t \in Seq(S) /\ Len(t) = Len(a) + Len(b)
          /\ \A i \in 1..(Len(a) + Len(b)) :
                t[i] = IF i <= Len(a) THEN a[i] ELSE b[i - Len(a)]
      BY <3>1, ConcatProperties
    <3>. QED  BY <3>2
  <2>2. DOMAIN t = 1..Len(t)
    BY <2>1
  <2>3. (k - 1) + (n - k) = n - 1 /\ \A i \in 1..(n - 1) : i <= k - 1 <=> i < k
    BY <1>1
  <2>. QED  BY <1>2, <1>3, <2>1, <2>2, <2>3
<1>5. t = RemoveAt(s, k)
  BY DEF a, b, RemoveAt
<1>. HIDE DEF n, t
<1>6. \A i \in 1..(n - 1) : i < k => i \in 1..n /\ i \in 1..(k - 1) /\ t[i] = s[i]
  BY <1>1, <1>2, <1>4
<1>7. ASSUME NEW i \in 1..(n - 1), i >= k
      PROVE  i + 1 \in 1..n /\ t[i] = s[i + 1]
  <2>1. /\ i - (k - 1) \in 1..(n - k) /\ k + (i - (k - 1)) = i + 1 /\ ~(i < k)
        /\ i + 1 \in 1..n
    BY <1>1, <1>7
  <2>2. t[i] = b[i - (k - 1)]
    BY <1>4, <2>1
  <2>3. b[i - (k - 1)] = s[k + (i - (k - 1))]
    BY <1>3, <2>1
  <2>. QED  BY <2>1, <2>2, <2>3
<1>8. \A i \in 1..n : i < k => i \in 1..(n - 1)
  BY <1>1
<1>9. ASSUME NEW i \in 1..n, i > k
      PROVE  i - 1 \in 1..(n - 1) /\ t[i - 1] = s[i]
  <2>1. i - 1 \in 1..(n - 1) /\ i - 1 >= k /\ (i - 1) + 1 = i
    BY <1>1, <1>9
  <2>. QED  BY <1>7, <2>1
<1>. QED  BY <1>1, <1>4, <1>5, <1>6, <1>7, <1>8, <1>9 DEF n

\* An answer for each element.
LEMMA Mapped ==
  ASSUME NEW S, NEW s \in Seq(S), NEW T, NEW f \in [DOMAIN s -> T]
  PROVE  f \in Seq(T) /\ Len(f) = Len(s) /\ DOMAIN f = DOMAIN s
<1>1. Len(s) \in Nat /\ DOMAIN s = 1..Len(s)
  OBVIOUS
<1>2. f \in [1..Len(s) -> T]
  BY <1>1
<1>. QED  BY <1>1, <1>2

-----------------------------------------------------------------------------
\* Types.

\* A content version is given out, or none: what was a version still is one.
LEMMA VersionsGrow ==
  ASSUME issued \in Nat, issued' \in Nat, issued <= issued'
  PROVE  /\ Versions \subseteq Versions' /\ ClientBuffer \subseteq ClientBuffer'
         /\ ServerBuffer \subseteq ServerBuffer'
         /\ Diff \subseteq Diff' /\ WriteTask \subseteq WriteTask'
         /\ Seq(ServerMsg) \subseteq Seq(ServerMsg')
         /\ Seq(ClientMsg) \subseteq Seq(ClientMsg')
<1>1. Versions \subseteq Versions'
  BY DEF Versions
<1>2. Diff \subseteq Diff' /\ WriteTask \subseteq WriteTask' /\ ClientBuffer \subseteq ClientBuffer'
  BY <1>1 DEF Diff, WriteTask, ClientBuffer
<1>3. ServerBuffer \subseteq ServerBuffer'
  <2>1. ASSUME NEW b \in ServerBuffer PROVE b \in ServerBuffer'
    <3>1. b.diff \in SUBSET Diff'
      BY <1>2 DEF ServerBuffer
    <3>. QED  BY <1>1, <3>1 DEF ServerBuffer
  <2>. QED  BY <2>1
<1>4. ServerMsg \subseteq ServerMsg'
  BY <1>1 DEF ServerMsg, Request, OpenMsg, SaveRequest, EditMsg, CloseMsg
<1>5. ClientMsg \subseteq ClientMsg'
  BY <1>1 DEF ClientMsg, OpenedMsg, FailedMsg, SavedMsg, PushMsg
<1>6. \A s \in Seq(ServerMsg) : s \in Seq(ServerMsg')
  BY <1>4, SeqMonotonic
<1>7. \A s \in Seq(ClientMsg) : s \in Seq(ClientMsg')
  BY <1>5, SeqMonotonic
<1>. QED  BY <1>1, <1>2, <1>3, <1>6, <1>7

LEMMA AppliedType ==
  ASSUME NEW text \in AnyText, NEW m, m.to \in AnyText
  PROVE  Applied(text, m) \in AnyText
  BY DEF Applied, AnyText

\* A step that gives out one version or none.
LEMMA TypeFrom ==
  ASSUME TypeInv, issued' \in {issued, issued + 1},
         client' \in ClientBuffer \/ client' \in ClientBuffer',
         server' \in ServerBuffer \/ server' \in ServerBuffer',
         \A x, y \in server'.diff : x = y,
         disk' \in AnyText, reloads' \subseteq AnyText, noticed' \in BOOLEAN,
         writes' \subseteq WriteTask, tasks' \subseteq Request,
         asked' \in [Saves -> SUBSET AnyText],
         outOfTurn' = outOfTurn \/ outOfTurn' \in BOOLEAN,
         toServer' \in Seq(ServerMsg) \/ toServer' \in Seq(ServerMsg'),
         toClient' \in Seq(ClientMsg) \/ toClient' \in Seq(ClientMsg'),
         used' \in [opens : 0..MaxOpens, edits : 0..MaxEdits, saves : 0..MaxSaves,
                    writes : 0..MaxWrites]
  PROVE  TypeInv'
<1>1. issued \in Nat /\ issued' \in Nat /\ issued <= issued'
  BY DEF TypeInv, MessagesOK
<1>2. /\ client' \in ClientBuffer' /\ server' \in ServerBuffer'
      /\ writes' \subseteq WriteTask'
      /\ toServer' \in Seq(ServerMsg') /\ toClient' \in Seq(ClientMsg')
  BY <1>1, VersionsGrow
<1>3. MessagesOK'
  BY <1>1, <1>2 DEF MessagesOK
<1>4. BufferTypeOK'
  <2>1. tasks' \subseteq [kind : {"open"}, file : Files] \union SaveRequest
    BY DEF Request, OpenMsg
  <2>2. outOfTurn' \in BOOLEAN
    BY DEF TypeInv, BufferTypeOK
  <2>. QED  BY <1>2, <2>1, <2>2 DEF BufferTypeOK
<1>. QED  BY <1>3, <1>4 DEF TypeInv

\* What is known of the values before a step.
LEMMA TypesNow ==
  ASSUME TypeInv
  PROVE  /\ client \in ClientBuffer /\ server \in ServerBuffer
         /\ \A x, y \in server.diff : x = y
         /\ disk \in AnyText /\ reloads \subseteq AnyText /\ noticed \in BOOLEAN
         /\ writes \subseteq WriteTask /\ tasks \subseteq Request
         /\ asked \in [Saves -> SUBSET AnyText]
         /\ toServer \in Seq(ServerMsg) /\ toClient \in Seq(ClientMsg)
         /\ issued \in Nat
         /\ used \in [opens : 0..MaxOpens, edits : 0..MaxEdits, saves : 0..MaxSaves,
                      writes : 0..MaxWrites]
         /\ MaxOpens \in Nat /\ MaxEdits \in Nat /\ MaxSaves \in Nat /\ MaxWrites \in Nat
<1>1. BufferTypeOK /\ MessagesOK
  BY DEF TypeInv
<1>2. tasks \subseteq Request /\ disk \in AnyText /\ reloads \subseteq AnyText
  BY <1>1 DEF BufferTypeOK, Request, OpenMsg
<1>. QED  BY <1>1, <1>2, BufferAssumption DEF BufferTypeOK, MessagesOK

LEMMA UntrackedType ==
  ASSUME issued \in Nat
  PROVE  Untracked \in ServerBuffer /\ Untracked.diff = {}
<1>. DEFINE nobody == <<>>
            nothing == <<>>
<1>1. nobody \in Seq(Files) /\ nothing \in Seq(SaveRequest)
  OBVIOUS
<1>. DEFINE u == [tracked |-> FALSE, writer |-> FALSE, text |-> Empty,
              version |-> 0, base |-> 0, fileVersion |-> 0, sv |-> 0, cv |-> 0,
              waiting |-> nobody, loading |-> "no", read |-> Empty, diff |-> {},
              saves |-> nothing]
<1>2. Untracked = u
  BY DEF Untracked
<1>3. 0 \in Versions /\ 0 \in 0..MaxEdits /\ Empty \in AnyText
  BY BufferAssumption DEF Versions, AnyText
<1>. HIDE DEF nobody, nothing
<1>4. u \in ServerBuffer /\ u.diff = {}
  BY <1>1, <1>3 DEF ServerBuffer
<1>. QED  BY <1>2, <1>4

LEMMA NoBufferType ==
  ASSUME issued \in Nat
  PROVE  NoBuffer \in ClientBuffer
<1>1. 0 \in Versions /\ 0 \in 0..MaxEdits /\ 0 \in 0..MaxOpens /\ Empty \in AnyText
  BY BufferAssumption DEF Versions, AnyText
<1>. QED  BY <1>1 DEF NoBuffer, ClientBuffer

LEMMA ShowType ==
  ASSUME NEW texts \in [Saves -> SUBSET AnyText], NEW text \in AnyText
  PROVE  Show(texts, text) \in [Saves -> SUBSET AnyText]
  BY DEF Show

LEMMA InitType == Init => TypeInv
<1>. SUFFICES ASSUME Init
              PROVE  TypeInv
  OBVIOUS
<1>1. issued \in Nat /\ issued = 0
  BY DEF Init
<1>2. client \in ClientBuffer /\ server \in ServerBuffer /\ server.diff = {}
  BY <1>1, NoBufferType, UntrackedType DEF Init
<1>3. /\ disk \in AnyText /\ reloads = {} /\ writes = {} /\ tasks = {} /\ noticed \in BOOLEAN
      /\ toServer \in Seq(ServerMsg) /\ toClient \in Seq(ClientMsg)
      /\ asked \in [Saves -> SUBSET AnyText]
  <2>1. disk \in AnyText /\ reloads = {} /\ writes = {} /\ tasks = {} /\ noticed \in BOOLEAN
    BY DEF Init, AnyText
  <2>2. toServer \in Seq(ServerMsg) /\ toClient \in Seq(ClientMsg)
    <3>1. toServer = <<>> /\ toClient = <<>>
      BY DEF Init
    <3>. QED  BY <3>1
  <2>3. asked \in [Saves -> SUBSET AnyText]
    BY DEF Init
  <2>. QED  BY <2>1, <2>2, <2>3
<1>4. used \in [opens : 0..MaxOpens, edits : 0..MaxEdits, saves : 0..MaxSaves,
                writes : 0..MaxWrites]
  BY BufferAssumption DEF Init
<1>5. BufferTypeOK
  <2>1. outOfTurn \in BOOLEAN
    BY DEF Init
  <2>. QED  BY <1>2, <1>3, <2>1 DEF BufferTypeOK
<1>. QED  BY <1>1, <1>3, <1>4, <1>5 DEF TypeInv, MessagesOK

LEMMA ClientActsType ==
  ASSUME TypeInv,
         ClientOpens \/ ClientSaves \/ ClientCloses \/ \E text \in Texts : ClientEdits(text)
  PROVE  TypeInv'
<1>. USE TypesNow
<1>1. CASE ClientOpens
  <2>1. used.opens + 1 \in Files /\ used.opens + 1 \in 0..MaxOpens
    BY <1>1 DEF ClientOpens, Files
  <2>2. client' \in ClientBuffer
    BY <1>1, <2>1, NoBufferType DEF ClientOpens, ClientBuffer
  <2>3. tasks' \subseteq Request
    BY <1>1, <2>1 DEF ClientOpens, Request, OpenMsg
  <2>4. used' \in [opens : 0..MaxOpens, edits : 0..MaxEdits, saves : 0..MaxSaves,
                   writes : 0..MaxWrites]
    BY <1>1, <2>1 DEF ClientOpens
  <2>. QED  BY <1>1, <2>2, <2>3, <2>4, TypeFrom DEF ClientOpens
<1>2. CASE ClientSaves
  <2>1. used.saves + 1 \in Saves /\ used.saves + 1 \in 0..MaxSaves /\ client.file \in Files
    BY <1>2 DEF ClientSaves, Saves, Files, ClientBuffer
  <2>2. client.text \in AnyText
    BY DEF ClientBuffer
  <2>3. asked' \in [Saves -> SUBSET AnyText]
    BY <1>2, <2>1, <2>2 DEF ClientSaves
  <2>4. tasks' \subseteq Request
    BY <1>2, <2>1 DEF ClientSaves, Request, SaveRequest
  <2>5. used' \in [opens : 0..MaxOpens, edits : 0..MaxEdits, saves : 0..MaxSaves,
                   writes : 0..MaxWrites]
    BY <1>2, <2>1 DEF ClientSaves
  <2>6. outOfTurn' \in BOOLEAN
    BY <1>2 DEF ClientSaves
  <2>. QED  BY <1>2, <2>3, <2>4, <2>5, <2>6, TypeFrom DEF ClientSaves
<1>3. CASE ClientCloses
  <2>1. toServer' \in Seq(ServerMsg)
    <3>1. [kind |-> "close"] \in ServerMsg
      BY DEF ServerMsg, CloseMsg
    <3>. QED  BY <1>3, <3>1 DEF ClientCloses
  <2>. QED  BY <1>3, <2>1, NoBufferType, TypeFrom DEF ClientCloses
<1>4. ASSUME NEW text \in Texts, ClientEdits(text)
      PROVE  TypeInv'
  <2>1. used.edits + 1 \in 0..MaxEdits /\ text \in AnyText
    <3>1. used.edits \in 0..MaxEdits /\ used.edits < MaxEdits
      BY <1>4 DEF ClientEdits
    <3>2. text \in AnyText
      BY DEF AnyText
    <3>. QED  BY <3>1, <3>2
  <2>2. client' \in ClientBuffer
    BY <1>4, <2>1 DEF ClientEdits, ClientBuffer
  <2>3. toServer' \in Seq(ServerMsg)
    <3>. DEFINE e == [kind |-> "edit", from |-> client.text, to |-> text, sv |-> client.sv,
                      cv |-> used.edits + 1]
    <3>1. e \in ServerMsg
      BY <2>1 DEF ServerMsg, EditMsg, ClientBuffer
    <3>2. toServer' = Append(toServer, e)
      BY <1>4 DEF ClientEdits
    <3>. HIDE DEF e
    <3>. QED  BY <3>1, <3>2
  <2>4. used' \in [opens : 0..MaxOpens, edits : 0..MaxEdits, saves : 0..MaxSaves,
                   writes : 0..MaxWrites]
    BY <1>4, <2>1 DEF ClientEdits
  <2>5. asked' \in [Saves -> SUBSET AnyText]
    BY <1>4, <2>1, ShowType DEF ClientEdits
  <2>. QED  BY <1>4, <2>2, <2>3, <2>4, <2>5, TypeFrom DEF ClientEdits
<1>. QED  BY <1>1, <1>2, <1>3, <1>4

LEMMA RequestSentType ==
  ASSUME TypeInv, NEW m \in tasks, RequestSent(m)
  PROVE  TypeInv'
<1>1. m \in ServerMsg
  BY TypesNow DEF ServerMsg
<1>2. toServer' \in Seq(ServerMsg)
  BY <1>1, TypesNow DEF RequestSent
<1>3. tasks' \subseteq Request
  BY TypesNow DEF RequestSent
<1>. QED  BY <1>2, <1>3, TypesNow, TypeFrom DEF RequestSent

\* The messages of each kind.
LEMMA ServerKinds ==
  ASSUME NEW m \in ServerMsg
  PROVE  /\ m.kind \in {"open", "save", "edit", "close"}
         /\ m.kind = "open" => m.file \in Files
         /\ m.kind = "save" => m.save \in Saves /\ m.file \in Files /\ m \in SaveRequest
         /\ m.kind = "edit" => /\ m.from \in AnyText /\ m.to \in AnyText
                               /\ m.sv \in Versions /\ m.cv \in 0..MaxEdits
  BY DEF ServerMsg, Request, OpenMsg, SaveRequest, EditMsg, CloseMsg

LEMMA ClientKinds ==
  ASSUME NEW m \in ClientMsg
  PROVE  /\ m.kind \in {"opened", "open_failed", "saved", "push"}
         /\ m.kind \in {"opened", "open_failed"} => m.file \in Files
         /\ m.kind = "opened" => m.text \in AnyText /\ m.sv \in Versions
         /\ m.kind = "saved" => /\ m.save \in Saves /\ m.file \in Files
                                /\ m.ok \in BOOLEAN /\ m.wrote \in AnyText
         /\ m.kind = "push" => /\ m.from \in AnyText /\ m.to \in AnyText
                               /\ m.sv \in Versions /\ m.cv \in 0..MaxEdits
  BY DEF ClientMsg, OpenedMsg, FailedMsg, SavedMsg, PushMsg

LEMMA ClientHandlesType ==
  ASSUME TypeInv, NEW i \in Deliverable,
         FinishMaterialization(i) \/ HandleBufferUpdatedPush(i) \/ SaveReported(i)
  PROVE  TypeInv'
<1>. USE TypesNow
<1>1. i \in DOMAIN toClient /\ ClientTakes(i)
  BY DEF Deliverable, FinishMaterialization, HandleBufferUpdatedPush, SaveReported
<1>2. toClient' \in Seq(ClientMsg)
  BY <1>1, Removed DEF ClientTakes
<1>3. PICK m : m = toClient[i]
  OBVIOUS
<1>4. m \in ClientMsg
  BY <1>1, <1>3
<1>5. /\ m.kind = "opened" => m.text \in AnyText /\ m.sv \in Versions
      /\ m.kind = "push" => m.to \in AnyText /\ m.sv \in Versions
  BY <1>4, ClientKinds
<1>6. client' \in ClientBuffer
  <2>1. CASE FinishMaterialization(i)
    <3>. DEFINE shown == [client EXCEPT !.loaded = TRUE, !.sv = m.sv, !.cv = 0,
                                        !.text = m.text]
    <3>1. \/ client' = client \/ client' = NoBuffer
          \/ client' = shown /\ m.kind = "opened"
      BY <1>3, <2>1 DEF FinishMaterialization
    <3>2. m.kind = "opened" => shown \in ClientBuffer
      <4>1. ASSUME NEW v \in Versions, NEW text \in AnyText
            PROVE  [client EXCEPT !.loaded = TRUE, !.sv = v, !.cv = 0, !.text = text]
                     \in ClientBuffer
        <5>1. 0 \in 0..MaxEdits
          OBVIOUS
        <5>. QED  BY <5>1 DEF ClientBuffer
      <4>. QED  BY <1>5, <4>1
    <3>. HIDE DEF shown
    <3>. QED  BY <3>1, <3>2, NoBufferType
  <2>2. CASE HandleBufferUpdatedPush(i)
    <3>1. m.kind = "push" /\ Applied(client.text, m) \in AnyText
      BY <1>3, <1>5, <2>2, AppliedType DEF HandleBufferUpdatedPush, ClientBuffer
    <3>2. client' \in {client, [client EXCEPT !.sv = m.sv, !.text = Applied(client.text, m)],
                       [client EXCEPT !.conflict = TRUE]}
      BY <1>3, <2>2 DEF HandleBufferUpdatedPush, Conflict, ClientBuffer
    <3>. QED  BY <1>5, <3>1, <3>2 DEF ClientBuffer
  <2>3. CASE SaveReported(i)
    BY <2>3 DEF SaveReported
  <2>. QED  BY <2>1, <2>2, <2>3
<1>7. asked' \in [Saves -> SUBSET AnyText]
  <2>1. client'.text \in AnyText
    BY <1>6 DEF ClientBuffer
  <2>2. asked' = Show(asked, client'.text) \/ asked' = [asked EXCEPT ![m.save] = {}]
    BY <1>3 DEF FinishMaterialization, HandleBufferUpdatedPush, SaveReported
  <2>. QED  BY <2>1, <2>2, ShowType
<1>8. outOfTurn' = outOfTurn \/ outOfTurn' \in BOOLEAN
  BY DEF FinishMaterialization, HandleBufferUpdatedPush, SaveReported
<1>. QED  BY <1>1, <1>2, <1>6, <1>7, <1>8, TypeFrom DEF ClientTakes

-----------------------------------------------------------------------------
\* Types: the daemon.

LEMMA ReceivedType ==
  ASSUME TypeInv, NEW kind, Received(kind)
  PROVE  /\ toServer # <<>> /\ Head(toServer) \in ServerMsg /\ Head(toServer).kind = kind
         /\ Tail(toServer) \in Seq(ServerMsg)
  BY TypesNow DEF Received

LEMMA SentType ==
  ASSUME TypeInv, NEW messages \in Seq(ClientMsg), Send(messages)
  PROVE  toClient' \in Seq(ClientMsg)
  BY TypesNow DEF Send

LEMMA SendOne ==
  ASSUME TypeInv, NEW m \in ClientMsg, Send(<<m>>)
  PROVE  toClient' \in Seq(ClientMsg)
<1>1. <<m>> \in Seq(ClientMsg)
  OBVIOUS
<1>. QED  BY <1>1, SentType

LEMMA AnswerType ==
  ASSUME NEW s \in SaveRequest, NEW ok \in BOOLEAN, NEW text \in AnyText
  PROVE  SaveAnswer(s, ok, text) \in ClientMsg
  BY DEF SaveAnswer, SaveRequest, ClientMsg, SavedMsg

LEMMA OpenedType ==
  ASSUME NEW f \in Files, NEW s, s.text \in AnyText, s.sv \in Versions
  PROVE  Opened(f, s) \in ClientMsg
  BY DEF Opened, ClientMsg, OpenedMsg

LEMMA StartSaveType ==
  ASSUME TypeInv, NEW s \in SaveRequest
  PROVE  StartSave(s) \in WriteTask
  BY TypesNow DEF StartSave, WriteTask, ServerBuffer, SaveRequest

LEMMA HandleOpenType ==
  ASSUME TypeInv, HandleOpenBuffer
  PROVE  TypeInv'
<1>. USE TypesNow
<1>1. PICK m : m = Head(toServer)
  OBVIOUS
<1>2. m \in ServerMsg /\ m.kind = "open" /\ toServer' \in Seq(ServerMsg)
  BY <1>1, ReceivedType DEF HandleOpenBuffer
<1>3. m.file \in Files
  BY <1>2, ServerKinds
<1>4. CASE /\ ~server.tracked
           /\ server' = [Untracked EXCEPT !.tracked = TRUE, !.writer = TRUE,
                            !.version = issued + 1, !.loading = "reading",
                            !.waiting = <<m.file>>]
           /\ issued' = issued + 1
           /\ UNCHANGED toClient
  <2>1. Untracked \in ServerBuffer' /\ Untracked.diff = {}
    <3>1. issued' \in Nat /\ issued <= issued'
      BY <1>4
    <3>. QED  BY <3>1, UntrackedType, VersionsGrow
  <2>2. issued + 1 \in Versions'
    BY <1>4 DEF Versions
  <2>. DEFINE one == <<m.file>>
  <2>3. one \in Seq(Files)
    BY <1>3
  <2>4. server' = [Untracked EXCEPT !.tracked = TRUE, !.writer = TRUE,
                            !.version = issued + 1, !.loading = "reading",
                            !.waiting = one]
    BY <1>4
  <2>. HIDE DEF one
  <2>5. server' \in ServerBuffer' /\ server'.diff = {}
    BY <2>1, <2>2, <2>3, <2>4 DEF ServerBuffer
  <2>. QED  BY <1>2, <1>4, <2>5, TypeFrom DEF HandleOpenBuffer
<1>5. CASE /\ server' = [server EXCEPT !.writer = TRUE, !.waiting = Append(@, m.file)]
           /\ UNCHANGED <<toClient, issued>>
  <2>1. Append(server.waiting, m.file) \in Seq(Files)
    BY <1>3 DEF ServerBuffer
  <2>2. server' \in ServerBuffer /\ server'.diff = server.diff
    BY <1>5, <2>1 DEF ServerBuffer
  <2>. QED  BY <1>2, <1>5, <2>2, TypeFrom DEF HandleOpenBuffer
<1>6. CASE /\ server' = [server EXCEPT !.writer = TRUE]
           /\ Send(<<Opened(m.file, server)>>)
           /\ UNCHANGED issued
  <2>1. server' \in ServerBuffer /\ server'.diff = server.diff
    BY <1>6 DEF ServerBuffer
  <2>2. toClient' \in Seq(ClientMsg)
    BY <1>3, <1>6, OpenedType, SendOne DEF ServerBuffer
  <2>. QED  BY <1>2, <1>6, <2>1, <2>2, TypeFrom DEF HandleOpenBuffer
<1>. QED  BY <1>1, <1>4, <1>5, <1>6 DEF HandleOpenBuffer

LEMMA HandleEditType ==
  ASSUME TypeInv, HandleBufferEdit
  PROVE  TypeInv'
<1>. USE TypesNow
<1>1. PICK m : m = Head(toServer)
  OBVIOUS
<1>2. m \in ServerMsg /\ m.kind = "edit" /\ toServer' \in Seq(ServerMsg)
  BY <1>1, ReceivedType DEF HandleBufferEdit
<1>3. CASE UNCHANGED <<server, issued>>
  BY <1>2, <1>3, TypeFrom DEF HandleBufferEdit
<1>4. CASE /\ server' = [server EXCEPT !.cv = m.cv, !.version = issued + 1,
                                        !.text = Applied(@, m)]
           /\ issued' = issued + 1
  <2>1. m.cv \in 0..MaxEdits /\ Applied(server.text, m) \in AnyText
    BY <1>2, ServerKinds, AppliedType DEF ServerBuffer
  <2>2. server \in ServerBuffer' /\ issued + 1 \in Versions'
    <3>1. issued' \in Nat /\ issued <= issued' /\ issued + 1 \in 0..issued'
      BY <1>4
    <3>. QED  BY <3>1, VersionsGrow DEF Versions
  <2>3. server' \in ServerBuffer' /\ server'.diff = server.diff
    BY <1>4, <2>1, <2>2 DEF ServerBuffer
  <2>. QED  BY <1>2, <1>4, <2>3, TypeFrom DEF HandleBufferEdit
<1>. QED  BY <1>1, <1>3, <1>4 DEF HandleBufferEdit

LEMMA HandleSaveType ==
  ASSUME TypeInv, HandleSaveBuffer
  PROVE  TypeInv'
<1>. USE TypesNow
<1>1. PICK m : m = Head(toServer)
  OBVIOUS
<1>2. m \in SaveRequest /\ toServer' \in Seq(ServerMsg)
  BY <1>1, ReceivedType, ServerKinds DEF HandleSaveBuffer
<1>3. CASE /\ Send(<<SaveAnswer(m, FALSE, Empty)>>)
           /\ UNCHANGED <<server, writes, outOfTurn>>
  <2>1. SaveAnswer(m, FALSE, Empty) \in ClientMsg
    BY <1>2, AnswerType DEF AnyText
  <2>2. toClient' \in Seq(ClientMsg)
    BY <1>3, <2>1, SendOne
  <2>. QED  BY <1>2, <1>3, <2>2, TypeFrom DEF HandleSaveBuffer
<1>4. CASE /\ server' = [server EXCEPT !.saves = Append(@, m)]
           /\ writes' = writes \union Dispatched(m)
           /\ outOfTurn' = (outOfTurn \/ server.base = 0)
           /\ UNCHANGED toClient
  <2>1. Append(server.saves, m) \in Seq(SaveRequest)
    BY <1>2 DEF ServerBuffer
  <2>2. server' \in ServerBuffer /\ server'.diff = server.diff
    BY <1>4, <2>1 DEF ServerBuffer
  <2>3. writes' \subseteq WriteTask
    BY <1>2, <1>4, StartSaveType DEF Dispatched
  <2>4. outOfTurn' \in BOOLEAN
    BY <1>4
  <2>. QED  BY <1>2, <1>4, <2>2, <2>3, <2>4, TypeFrom DEF HandleSaveBuffer
<1>. QED  BY <1>1, <1>3, <1>4 DEF HandleSaveBuffer

LEMMA CleanedType ==
  ASSUME TypeInv, NEW s \in ServerBuffer, s.diff = server.diff
  PROVE  /\ CleanedUpIfIdle(s) \in ServerBuffer
         /\ \A x, y \in CleanedUpIfIdle(s).diff : x = y
<1>. USE TypesNow
<1>1. Untracked \in ServerBuffer /\ Untracked.diff = {}
  BY UntrackedType
<1>. QED  BY <1>1 DEF CleanedUpIfIdle

LEMMA HandleCloseType ==
  ASSUME TypeInv, HandleCloseBuffer
  PROVE  TypeInv'
<1>. USE TypesNow
<1>1. toServer' \in Seq(ServerMsg)
  BY ReceivedType DEF HandleCloseBuffer
<1>2. server' \in ServerBuffer /\ \A x, y \in server'.diff : x = y
  <2>. DEFINE s == [server EXCEPT !.writer = FALSE]
  <2>1. s \in ServerBuffer /\ s.diff = server.diff
    BY DEF ServerBuffer
  <2>2. server' = server \/ server' = CleanedUpIfIdle(s)
    BY DEF HandleCloseBuffer
  <2>. HIDE DEF s
  <2>. QED  BY <2>1, <2>2, CleanedType
<1>. QED  BY <1>1, <1>2, TypeFrom DEF HandleCloseBuffer

LEMMA LoadingType ==
  ASSUME TypeInv, Loading
  PROVE  TypeInv'
<1>. USE TypesNow
<1>1. CASE LoadReads
  <2>1. server' \in ServerBuffer /\ server'.diff = server.diff
    BY <1>1 DEF LoadReads, ServerBuffer
  <2>. QED  BY <1>1, <2>1, TypeFrom DEF LoadReads
<1>2. CASE FileLoaded
  <2>. DEFINE nobody == <<>>
              b == [server EXCEPT !.text = server.read, !.version = issued + 1,
                   !.base = issued + 1, !.fileVersion = issued + 1,
                   !.loading = "no", !.read = Empty, !.waiting = nobody]
              messages == [i \in DOMAIN server.waiting |-> Opened(server.waiting[i], b)]
  <2>1. issued' = issued + 1 /\ server' = b /\ Send(messages)
    BY <1>2 DEF FileLoaded
  <2>2. /\ server \in ServerBuffer' /\ issued + 1 \in Versions' /\ Empty \in AnyText
        /\ nobody \in Seq(Files)
    <3>1. issued' \in Nat /\ issued <= issued' /\ issued + 1 \in 0..issued'
      BY <2>1
    <3>2. Empty \in AnyText
      BY DEF AnyText
    <3>3. nobody \in Seq(Files)
      OBVIOUS
    <3>. QED  BY <3>1, <3>2, <3>3, VersionsGrow DEF Versions
  <2>. HIDE DEF nobody
  <2>3. b \in ServerBuffer' /\ b.diff = server.diff /\ b.text \in AnyText /\ b.sv = server.sv
    BY <2>2 DEF ServerBuffer
  <2>. HIDE DEF b
  <2>4. messages \in Seq(ClientMsg)
    <3>1. server.waiting \in Seq(Files) /\ server.sv \in Versions
      BY DEF ServerBuffer
    <3>2. \A i \in DOMAIN server.waiting : Opened(server.waiting[i], b) \in ClientMsg
      BY <2>3, <3>1, OpenedType
    <3>3. messages \in [DOMAIN server.waiting -> ClientMsg]
      BY <3>2
    <3>. HIDE DEF messages
    <3>. QED  BY <3>1, <3>3, Mapped
  <2>. HIDE DEF messages
  <2>5. toClient' \in Seq(ClientMsg)
    BY <2>1, <2>4, SentType
  <2>. QED  BY <1>2, <2>1, <2>3, <2>5, TypeFrom DEF FileLoaded
<1>3. CASE FailedToLoad
  <2>. DEFINE failed == [i \in DOMAIN server.waiting |-> OpenFailed(server.waiting[i])]
              unsaved == [i \in DOMAIN server.saves |->
                            SaveAnswer(server.saves[i], FALSE, Empty)]
  <2>1. server.waiting \in Seq(Files) /\ server.saves \in Seq(SaveRequest)
    BY DEF ServerBuffer
  <2>2. failed \in Seq(ClientMsg)
    <3>1. \A f \in Files : OpenFailed(f) \in ClientMsg
      BY DEF OpenFailed, ClientMsg, FailedMsg
    <3>2. failed \in [DOMAIN server.waiting -> ClientMsg]
      BY <2>1, <3>1
    <3>. HIDE DEF failed
    <3>. QED  BY <2>1, <3>2, Mapped
  <2>3. unsaved \in Seq(ClientMsg)
    <3>1. \A s \in SaveRequest : SaveAnswer(s, FALSE, Empty) \in ClientMsg
      BY AnswerType DEF AnyText
    <3>2. unsaved \in [DOMAIN server.saves -> ClientMsg]
      <4>1. \A i \in DOMAIN server.saves : server.saves[i] \in SaveRequest
        BY <2>1
      <4>2. \A i \in DOMAIN server.saves :
               SaveAnswer(server.saves[i], FALSE, Empty) \in ClientMsg
        BY <3>1, <4>1
      <4>. QED  BY <4>2
    <3>. HIDE DEF unsaved
    <3>. QED  BY <2>1, <3>2, Mapped
  <2>4. Send(failed \o unsaved)
    BY <1>3 DEF FailedToLoad
  <2>. HIDE DEF failed, unsaved
  <2>5. toClient' \in Seq(ClientMsg)
    <3>1. failed \o unsaved \in Seq(ClientMsg)
      BY <2>2, <2>3
    <3>. QED  BY <2>4, <3>1, SentType
  <2>. QED  BY <1>3, <2>5, UntrackedType, TypeFrom DEF FailedToLoad
<1>. QED  BY <1>1, <1>2, <1>3 DEF Loading

LEMMA SaveEndsType ==
  ASSUME TypeInv, NEW w \in writes, NEW ok \in BOOLEAN, SaveEnds(w, ok)
  PROVE  /\ server' \in ServerBuffer /\ \A x, y \in server'.diff : x = y
         /\ writes' \subseteq WriteTask /\ toClient' \in Seq(ClientMsg)
<1>. USE TypesNow
<1>1. CASE server.saves # <<>> /\ Head(server.saves).save = w.save
  <2>. DEFINE done == IF ok THEN [server EXCEPT !.base = w.version,
                                                !.fileVersion = w.version]
                      ELSE server
              rest == Tail(server.saves)
              s == [done EXCEPT !.saves = rest]
  <2>1. w.version \in Versions /\ w.text \in AnyText
    BY DEF WriteTask
  <2>2. /\ rest \in Seq(SaveRequest) /\ Head(server.saves) \in SaveRequest
        /\ rest # <<>> => Head(rest) \in SaveRequest
    <3>1. server.saves \in Seq(SaveRequest)
      BY DEF ServerBuffer
    <3>2. rest \in Seq(SaveRequest) /\ Head(server.saves) \in SaveRequest
      BY <1>1, <3>1, Beheaded
    <3>. HIDE DEF rest
    <3>. QED  BY <3>2, Beheaded
  <2>3. /\ server' = CleanedUpIfIdle(s)
        /\ writes' = (writes \ {w}) \union Promoted(rest)
        /\ Send(<<SaveAnswer(Head(server.saves), ok, w.text)>>)
    BY <1>1 DEF SaveEnds
  <2>. HIDE DEF rest
  <2>4. done \in ServerBuffer /\ done.diff = server.diff
    BY <2>1 DEF ServerBuffer
  <2>. HIDE DEF done
  <2>5. s \in ServerBuffer /\ s.diff = server.diff
    BY <2>2, <2>4 DEF ServerBuffer
  <2>. HIDE DEF s
  <2>6. server' \in ServerBuffer /\ \A x, y \in server'.diff : x = y
    BY <2>3, <2>5, CleanedType
  <2>7. writes' \subseteq WriteTask
    BY <2>2, <2>3, StartSaveType DEF Promoted
  <2>8. toClient' \in Seq(ClientMsg)
    BY <2>1, <2>2, <2>3, AnswerType, SendOne
  <2>. QED  BY <2>6, <2>7, <2>8
<1>2. CASE ~(server.saves # <<>> /\ Head(server.saves).save = w.save)
  BY <1>2 DEF SaveEnds
<1>. QED  BY <1>1, <1>2

LEMMA SaveRunsType ==
  ASSUME TypeInv, NEW s \in Saves, SaveRuns(s)
  PROVE  TypeInv'
<1>. USE TypesNow
<1>1. PICK w \in writes : SaveWrites(w) \/ FileSaved(w) \/ FailedToSave(w)
  BY DEF SaveRuns
<1>2. CASE SaveWrites(w)
  <2>1. disk' \in AnyText /\ noticed' \in BOOLEAN
    BY <1>2 DEF SaveWrites, FileWritten, WriteTask
  <2>2. writes' \subseteq WriteTask
    BY <1>2 DEF SaveWrites, WriteTask
  <2>. QED  BY <1>2, <2>1, <2>2, TypeFrom DEF SaveWrites
<1>3. CASE FileSaved(w)
  BY <1>3, SaveEndsType, TypeFrom DEF FileSaved
<1>4. CASE FailedToSave(w)
  BY <1>4, SaveEndsType, TypeFrom DEF FailedToSave
<1>. QED  BY <1>1, <1>2, <1>3, <1>4

LEMMA ReloadingType ==
  ASSUME TypeInv, Reloading \/ \E text \in Texts : ExternalWrite(text)
  PROVE  TypeInv'
<1>. USE TypesNow
<1>1. CASE WatcherReads
  <2>1. reloads' \subseteq AnyText
    BY <1>1 DEF WatcherReads
  <2>. QED  BY <1>1, <2>1, TypeFrom DEF WatcherReads
<1>2. ASSUME NEW text \in Texts, ExternalWrite(text)
      PROVE  TypeInv'
  <2>1. disk' \in AnyText /\ noticed' \in BOOLEAN
    BY <1>2 DEF ExternalWrite, FileWritten, AnyText
  <2>2. used' \in [opens : 0..MaxOpens, edits : 0..MaxEdits, saves : 0..MaxSaves,
                   writes : 0..MaxWrites]
    <3>1. used.writes \in 0..MaxWrites /\ used.writes < MaxWrites
          /\ used' = [used EXCEPT !.writes = @ + 1]
      BY <1>2 DEF ExternalWrite
    <3>. QED  BY <3>1
  <2>. QED  BY <1>2, <2>1, <2>2, TypeFrom DEF ExternalWrite
<1>3. ASSUME NEW text \in reloads, FileUpdated(text)
      PROVE  TypeInv'
  <2>1. reloads' \subseteq AnyText
    BY <1>3 DEF FileUpdated
  <2>2. CASE Watched
    <3>. DEFINE d == [from |-> server.text, to |-> text, base |-> server.version,
                      version |-> issued + 1]
    <3>1. PICK D \in {{d}, {}} : /\ issued' = issued + 1
                                 /\ server' = [server EXCEPT !.fileVersion = issued + 1, !.diff = D]
      BY <1>3, <2>2 DEF FileUpdated, LatestParse
    <3>2. server \in ServerBuffer' /\ issued + 1 \in Versions' /\ server.version \in Versions'
      <4>1. issued' \in Nat /\ issued <= issued' /\ issued + 1 \in 0..issued'
        BY <3>1
      <4>2. Versions \subseteq Versions' /\ server \in ServerBuffer'
        BY <4>1, VersionsGrow
      <4>. QED  BY <4>1, <4>2 DEF Versions, ServerBuffer
    <3>3. d \in Diff'
      BY <3>2 DEF Diff, ServerBuffer
    <3>4. D \in SUBSET Diff' /\ \A x, y \in D : x = y
      BY <3>3
    <3>. HIDE DEF d
    <3>5. server' \in ServerBuffer' /\ server'.diff = D
      BY <3>1, <3>2, <3>4 DEF ServerBuffer
    <3>. QED  BY <1>3, <2>1, <3>1, <3>4, <3>5, TypeFrom DEF FileUpdated
  <2>3. CASE ~Watched
    BY <1>3, <2>1, <2>3, TypeFrom DEF FileUpdated
  <2>. QED  BY <2>2, <2>3
<1>4. CASE ApplyDiffResult
  <2>1. PICK d \in server.diff :
          \/ /\ server' = [server EXCEPT !.diff = {}, !.sv = issued + 1,
                             !.text = Applied(@, d), !.version = d.version,
                             !.base = d.version]
             /\ issued' = issued + 1
             /\ Send(PushOf(d, issued + 1))
          \/ /\ server' = [server EXCEPT !.diff = {}]
             /\ UNCHANGED <<issued, toClient>>
    BY <1>4 DEF ApplyDiffResult
  <2>2. d \in Diff
    BY DEF ServerBuffer
  <2>3. CASE /\ server' = [server EXCEPT !.diff = {}]
             /\ UNCHANGED <<issued, toClient>>
    <3>1. server' \in ServerBuffer /\ server'.diff = {}
      BY <2>3 DEF ServerBuffer
    <3>. QED  BY <1>4, <2>3, <3>1, TypeFrom DEF ApplyDiffResult
  <2>4. CASE /\ server' = [server EXCEPT !.diff = {}, !.sv = issued + 1,
                             !.text = Applied(@, d), !.version = d.version,
                             !.base = d.version]
             /\ issued' = issued + 1
             /\ Send(PushOf(d, issued + 1))
    <3>1. issued' \in Nat /\ issued <= issued' /\ issued + 1 \in 0..issued'
      BY <2>4
    <3>2. /\ server \in ServerBuffer' /\ issued + 1 \in Versions' /\ d \in Diff'
          /\ toClient \in Seq(ClientMsg')
      BY <2>2, <3>1, VersionsGrow DEF Versions
    <3>3. Applied(server.text, d) \in AnyText
      BY <2>2, AppliedType DEF Diff, ServerBuffer
    <3>4. server' \in ServerBuffer' /\ server'.diff = {}
      BY <2>4, <3>2, <3>3 DEF ServerBuffer, Diff
    <3>5. toClient' \in Seq(ClientMsg')
      <4>. DEFINE p == [kind |-> "push", from |-> d.from, to |-> d.to, sv |-> issued + 1,
                        cv |-> server.cv]
      <4>1. p \in ClientMsg'
        BY <2>2, <3>2 DEF ClientMsg, PushMsg, Diff, ServerBuffer
      <4>2. toClient' = toClient \o <<p>> \/ toClient' = toClient \o <<>>
        BY <2>4 DEF Send, PushOf, Push
      <4>. HIDE DEF p
      <4>3. <<p>> \in Seq(ClientMsg') /\ <<>> \in Seq(ClientMsg')
        BY <4>1
      <4>4. \A u \in Seq(ClientMsg') : toClient \o u \in Seq(ClientMsg')
        BY <3>2, ConcatProperties
      <4>. QED  BY <4>2, <4>3, <4>4
    <3>. QED  BY <1>4, <2>4, <3>4, <3>5, TypeFrom DEF ApplyDiffResult
  <2>. QED  BY <2>1, <2>3, <2>4
<1>. QED  BY <1>1, <1>2, <1>3, <1>4 DEF Reloading

LEMMA NextType ==
  ASSUME TypeInv, [Next]_vars
  PROVE  TypeInv'
<1>1. CASE UNCHANGED vars
  BY <1>1 DEF vars, TypeInv, BufferTypeOK, MessagesOK, Versions, ClientBuffer,
       ServerBuffer, Diff, WriteTask, ServerMsg, ClientMsg, EditMsg, OpenedMsg, PushMsg
<1>2. CASE Client
  BY <1>2, ClientActsType, RequestSentType, ClientHandlesType DEF Client, ClientHandles
<1>3. CASE Daemon \/ \E text \in Texts : ExternalWrite(text)
  BY <1>3, HandleOpenType, HandleEditType, HandleSaveType, HandleCloseType, LoadingType,
     SaveRunsType, ReloadingType DEF Daemon, DaemonHandles
<1>. QED  BY <1>1, <1>2, <1>3 DEF Next

LEMMA TypesInvariant == BufferSpec => []TypeInv
<1>1. TypeInv /\ [Next]_vars => TypeInv'
  BY NextType
<1>. QED  BY <1>1, InitType, PTL DEF BufferSpec

\* BufferTypeOK: both buffers, their tasks and the texts keep their types, whatever the
\* order in which messages travel.
THEOREM BufferTypesHold == BufferSpec => []BufferTypeOK
<1>1. TypeInv => BufferTypeOK
  BY DEF TypeInv
<1>. QED  BY <1>1, TypesInvariant, PTL

-----------------------------------------------------------------------------
\* Every save is answered.

LEMMA ShowKeeps ==
  ASSUME TypeInv, NEW text, asked' = Show(asked, text), NEW s \in Saves
  PROVE  asked'[s] # {} <=> asked[s] # {}
  BY TypesNow DEF Show

\* A save that is under way stays so, where none is answered.
LEMMA SavesKept ==
  ASSUME TypeInv, SavesInv,
         \A s \in Saves : asked'[s] # {} => asked[s] # {} \/ Underway(s)',
         \A s \in Saves : asked[s] # {} /\ asked'[s] # {} /\ Underway(s) => Underway(s)',
         Dispatch'
  PROVE  SavesInv'
  BY DEF SavesInv

\* The same, where the queue of the daemon is left alone.
LEMMA SavesAlone ==
  ASSUME TypeInv, SavesInv, server'.saves = server.saves, writes' = writes,
         \A s \in Saves : asked'[s] # {} => asked[s] # {} \/ Underway(s)',
         \A m \in tasks : m.kind = "save" =>
           \/ m \in tasks'
           \/ \E i \in DOMAIN toServer' : toServer'[i] = m,
         \A i \in DOMAIN toServer : toServer[i].kind = "save" =>
           \/ \E j \in DOMAIN toServer' : toServer'[j] = toServer[i]
           \/ \E j \in DOMAIN toClient' : /\ toClient'[j].kind = "saved"
                                          /\ toClient'[j].save = toServer[i].save,
         \A i \in DOMAIN toClient : toClient[i].kind = "saved" =>
           \/ \E j \in DOMAIN toClient' : toClient'[j] = toClient[i]
           \/ asked'[toClient[i].save] = {}
  PROVE  SavesInv'
<1>1. ASSUME NEW s \in Saves, asked'[s] # {}, Underway(s)
      PROVE  Underway(s)'
  <2>1. CASE \E m \in tasks : m.kind = "save" /\ m.save = s
    BY <2>1 DEF Underway
  <2>2. CASE \E i \in DOMAIN toServer : toServer[i].kind = "save" /\ toServer[i].save = s
    BY <2>2 DEF Underway
  <2>3. CASE \E i \in DOMAIN server.saves : server.saves[i].save = s
    BY <2>3 DEF Underway
  <2>4. CASE \E i \in DOMAIN toClient : toClient[i].kind = "saved" /\ toClient[i].save = s
    BY <1>1, <2>4 DEF Underway
  <2>. QED  BY <1>1, <2>1, <2>2, <2>3, <2>4 DEF Underway
<1>2. Dispatch'
  BY DEF SavesInv, Dispatch
<1>. QED  BY <1>1, <1>2, SavesKept

LEMMA ClientActsSaves ==
  ASSUME TypeInv, SavesInv,
         ClientOpens \/ ClientSaves \/ ClientCloses \/ \E text \in Texts : ClientEdits(text)
  PROVE  SavesInv'
<1>1. toServer \in Seq(ServerMsg)
  BY TypesNow
<1>2. server' = server /\ writes' = writes /\ toClient' = toClient /\ tasks \subseteq tasks'
  BY DEF ClientOpens, ClientSaves, ClientCloses, ClientEdits
<1>3. toServer' = toServer \/ \E m \in ServerMsg : toServer' = Append(toServer, m)
  <2>1. CASE ClientCloses
    <3>1. [kind |-> "close"] \in ServerMsg
      BY DEF ServerMsg, CloseMsg
    <3>. QED  BY <2>1, <3>1 DEF ClientCloses
  <2>2. ASSUME NEW text \in Texts, ClientEdits(text)
        PROVE  \E m \in ServerMsg : toServer' = Append(toServer, m)
    <3>. DEFINE e == [kind |-> "edit", from |-> client.text, to |-> text, sv |-> client.sv,
                      cv |-> used.edits + 1]
    <3>1. e \in ServerMsg
      <4>1. used.edits + 1 \in 0..MaxEdits /\ text \in AnyText
        <5>1. used.edits \in 0..MaxEdits /\ used.edits < MaxEdits /\ MaxEdits \in Nat
          BY <2>2, TypesNow DEF ClientEdits
        <5>. QED  BY <5>1 DEF AnyText
      <4>2. client \in ClientBuffer
        BY TypesNow
      <4>. QED  BY <4>1, <4>2 DEF ServerMsg, EditMsg, ClientBuffer
    <3>2. toServer' = Append(toServer, e)
      BY <2>2 DEF ClientEdits
    <3>. HIDE DEF e
    <3>. QED  BY <3>1, <3>2
  <2>. QED  BY <2>1, <2>2 DEF ClientOpens, ClientSaves
<1>4. \A i \in DOMAIN toServer : \E j \in DOMAIN toServer' : toServer'[j] = toServer[i]
  BY <1>1, <1>3, Appended
<1>5. \A s \in Saves : asked'[s] # {} => asked[s] # {} \/ Underway(s)'
  <2>1. CASE ClientSaves
    <3>. DEFINE m == [kind |-> "save", save |-> used.saves + 1, file |-> client.file]
    <3>1. /\ asked' = [asked EXCEPT ![used.saves + 1] = {client.text}]
          /\ m \in tasks' /\ m.kind = "save" /\ m.save = used.saves + 1
      BY <2>1 DEF ClientSaves
    <3>2. \A s \in Saves : s # used.saves + 1 => asked'[s] = asked[s]
      BY <3>1, TypesNow
    <3>. HIDE DEF m
    <3>5. \A s \in Saves : s = used.saves + 1 => Underway(s)'
      BY <3>1 DEF Underway
    <3>. QED  BY <3>2, <3>5
  <2>2. CASE ~ClientSaves
    <3>1. asked' = asked \/ \E text \in Texts : asked' = Show(asked, text)
      BY <2>2 DEF ClientOpens, ClientCloses, ClientEdits
    <3>. QED  BY <3>1, ShowKeeps
  <2>. QED  BY <2>1, <2>2
<1>. QED  BY <1>2, <1>4, <1>5, SavesAlone

LEMMA RequestSentSaves ==
  ASSUME TypeInv, SavesInv, NEW m \in tasks, RequestSent(m)
  PROVE  SavesInv'
<1>1. /\ toServer \in Seq(ServerMsg) /\ m \in ServerMsg
  BY TypesNow DEF ServerMsg
<1>2. /\ toServer' = Append(toServer, m) /\ tasks' = tasks \ {m}
      /\ server' = server /\ writes' = writes /\ toClient' = toClient /\ asked' = asked
  BY DEF RequestSent
<1>3. \A i \in DOMAIN toServer : \E j \in DOMAIN toServer' : toServer'[j] = toServer[i]
  BY <1>1, <1>2, Appended
<1>4. \E j \in DOMAIN toServer' : toServer'[j] = m
  BY <1>1, <1>2, Appended
<1>. QED  BY <1>2, <1>3, <1>4, SavesAlone

LEMMA ClientHandlesSaves ==
  ASSUME TypeInv, SavesInv, NEW i \in Deliverable,
         FinishMaterialization(i) \/ HandleBufferUpdatedPush(i) \/ SaveReported(i)
  PROVE  SavesInv'
<1>1. /\ i \in DOMAIN toClient /\ toClient \in Seq(ClientMsg)
      /\ toClient' = RemoveAt(toClient, i)
      /\ server' = server /\ writes' = writes /\ toServer' = toServer /\ tasks' = tasks
  BY TypesNow DEF Deliverable, FinishMaterialization, HandleBufferUpdatedPush, SaveReported,
     ClientTakes
<1>2. \A k \in DOMAIN toClient : k # i => \E j \in DOMAIN toClient' : toClient'[j] = toClient[k]
  <2>1. \A k \in DOMAIN toClient : k \in Int
    BY <1>1
  <2>2. \A k \in DOMAIN toClient : k # i => k < i \/ k > i
    BY <1>1, <2>1
  <2>. QED  BY <1>1, <2>2, Removed
<1>3. \A s \in Saves : asked'[s] # {} => asked[s] # {}
  <2>1. CASE SaveReported(i)
    BY <2>1, TypesNow DEF SaveReported
  <2>2. CASE ~SaveReported(i)
    <3>1. asked' = Show(asked, client'.text)
      BY <2>2 DEF FinishMaterialization, HandleBufferUpdatedPush
    <3>. QED  BY <3>1, ShowKeeps
  <2>. QED  BY <2>1, <2>2
<1>4. toClient[i].kind = "saved" => asked'[toClient[i].save] = {}
  <2>1. ASSUME toClient[i].kind = "saved" PROVE asked'[toClient[i].save] = {}
    <3>1. SaveReported(i)
      BY <2>1 DEF FinishMaterialization, HandleBufferUpdatedPush
    <3>2. toClient[i].save \in Saves
      BY <1>1, <2>1, ClientKinds
    <3>. QED  BY <3>1, <3>2, TypesNow DEF SaveReported
  <2>. QED  BY <2>1
<1>. QED  BY <1>1, <1>2, <1>3, <1>4, SavesAlone

\* A save that the daemon was sent, and one that waits in its queue, moves on or is
\* answered.
LEMMA SavesMove ==
  ASSUME TypeInv, SavesInv, asked' = asked, tasks' = tasks,
         \A i \in DOMAIN toServer : toServer[i].kind = "save" =>
           \/ \E j \in DOMAIN toServer' : toServer'[j] = toServer[i]
           \/ \E j \in DOMAIN server'.saves : server'.saves[j].save = toServer[i].save
           \/ \E j \in DOMAIN toClient' : /\ toClient'[j].kind = "saved"
                                          /\ toClient'[j].save = toServer[i].save,
         \A i \in DOMAIN server.saves :
           \/ \E j \in DOMAIN server'.saves : server'.saves[j] = server.saves[i]
           \/ \E j \in DOMAIN toClient' : /\ toClient'[j].kind = "saved"
                                          /\ toClient'[j].save = server.saves[i].save,
         \A i \in DOMAIN toClient : \E j \in DOMAIN toClient' : toClient'[j] = toClient[i],
         Dispatch'
  PROVE  SavesInv'
<1>1. ASSUME NEW s \in Saves, Underway(s)
      PROVE  Underway(s)'
  <2>1. CASE \E m \in tasks : m.kind = "save" /\ m.save = s
    BY <2>1 DEF Underway
  <2>2. CASE \E i \in DOMAIN toServer : toServer[i].kind = "save" /\ toServer[i].save = s
    BY <2>2 DEF Underway
  <2>3. CASE \E i \in DOMAIN server.saves : server.saves[i].save = s
    BY <2>3 DEF Underway
  <2>4. CASE \E i \in DOMAIN toClient : toClient[i].kind = "saved" /\ toClient[i].save = s
    BY <2>4 DEF Underway
  <2>. QED  BY <1>1, <2>1, <2>2, <2>3, <2>4 DEF Underway
<1>. QED  BY <1>1, SavesKept

\* A message that is taken, and one that is sent.
LEMMA TakenOrLeft ==
  ASSUME TypeInv, toServer # <<>>, toServer' = Tail(toServer), NEW i \in DOMAIN toServer
  PROVE  \/ \E j \in DOMAIN toServer' : toServer'[j] = toServer[i]
         \/ toServer[i] = Head(toServer)
  BY TypesNow, Beheaded

LEMMA JoinedLast ==
  ASSUME NEW S, NEW s \in Seq(S), NEW u \in Seq(S)
  PROVE  \A i \in DOMAIN u : \E j \in DOMAIN (s \o u) : (s \o u)[j] = u[i]
<1>. DEFINE t == s \o u
<1>1. \A i \in DOMAIN u : Len(s) + i \in DOMAIN t /\ t[Len(s) + i] = u[i]
  BY Joined
<1>. HIDE DEF t
<1>2. \A i \in DOMAIN u : \E j \in DOMAIN t : t[j] = u[i]
  BY <1>1
<1>. QED  BY <1>2 DEF t

LEMMA SentAfter ==
  ASSUME TypeInv, NEW messages \in Seq(ClientMsg), Send(messages)
  PROVE  /\ \A i \in DOMAIN toClient : \E j \in DOMAIN toClient' : toClient'[j] = toClient[i]
         /\ \A i \in DOMAIN messages : \E j \in DOMAIN toClient' : toClient'[j] = messages[i]
<1>. DEFINE t == toClient \o messages
<1>1. toClient \in Seq(ClientMsg) /\ toClient' = t
  BY TypesNow DEF Send
<1>2. /\ \A i \in 1..Len(toClient) : i \in DOMAIN t /\ t[i] = toClient[i]
      /\ \A i \in DOMAIN messages : Len(toClient) + i \in DOMAIN t
                                   /\ t[Len(toClient) + i] = messages[i]
      /\ DOMAIN toClient = 1..Len(toClient)
  BY <1>1, Joined
<1>. HIDE DEF t
<1>. QED  BY <1>1, <1>2

LEMMA SentOneAfter ==
  ASSUME TypeInv, NEW m \in ClientMsg, Send(<<m>>)
  PROVE  /\ \A i \in DOMAIN toClient : \E j \in DOMAIN toClient' : toClient'[j] = toClient[i]
         /\ \E j \in DOMAIN toClient' : toClient'[j] = m
<1>1. <<m>> \in Seq(ClientMsg) /\ 1 \in DOMAIN <<m>> /\ <<m>>[1] = m
  OBVIOUS
<1>. QED  BY <1>1, SentAfter

LEMMA CleanedSaves ==
  ASSUME NEW s
  PROVE  CleanedUpIfIdle(s).saves = s.saves
<1>1. Untracked.saves = <<>>
  BY DEF Untracked
<1>. QED  BY <1>1 DEF CleanedUpIfIdle

LEMMA UntrackedFields ==
  /\ Untracked.tracked = FALSE /\ Untracked.writer = FALSE /\ Untracked.loading = "no"
  /\ Untracked.diff = {} /\ Untracked.fileVersion = 0 /\ Untracked.base = 0
  /\ Untracked.saves = <<>> /\ Untracked.waiting = <<>> /\ Untracked.version = 0
  BY DEF Untracked

\* What the daemon has dropped, only an OpenBuffer brings back.
LEMMA BlankKept ==
  ASSUME TypeInv, Blank, [Next]_vars
  PROVE  Blank'
<1>. USE TypesNow, UntrackedFields
<1>1. CASE server' = server
  BY <1>1 DEF Blank
<1>2. CASE server' = Untracked
  BY <1>2 DEF Blank
<1>3. ASSUME server.tracked, server'.tracked = server.tracked
      PROVE  Blank'
  BY <1>3 DEF Blank
<1>4. CASE HandleOpenBuffer
  <2>1. CASE server.tracked
    <3>1. PICK q : \/ server' = [server EXCEPT !.writer = TRUE, !.waiting = q]
                   \/ server' = [server EXCEPT !.writer = TRUE]
      BY <1>4, <2>1 DEF HandleOpenBuffer
    <3>2. server'.tracked = server.tracked
      BY <3>1 DEF ServerBuffer
    <3>. QED  BY <1>3, <2>1, <3>2
  <2>2. CASE ~server.tracked
    <3>1. PICK q : server' = [Untracked EXCEPT !.tracked = TRUE, !.writer = TRUE,
                                !.version = issued + 1, !.loading = "reading",
                                !.waiting = q]
      BY <1>4, <2>2 DEF HandleOpenBuffer
    <3>2. server'.tracked
      BY <3>1 DEF Untracked
    <3>. QED  BY <3>2 DEF Blank
  <2>. QED  BY <2>1, <2>2
<1>5. CASE HandleBufferEdit
  <2>1. CASE ClientEditMatches(Head(toServer))
    <3>1. server.tracked
      BY <2>1 DEF ClientEditMatches, Blank
    <3>2. server'.tracked = server.tracked
      BY <1>5, <2>1 DEF HandleBufferEdit, ServerBuffer
    <3>. QED  BY <1>3, <3>1, <3>2
  <2>. QED  BY <1>1, <1>5, <2>1 DEF HandleBufferEdit
<1>6. CASE HandleSaveBuffer
  <2>1. CASE server.writer
    <3>1. server.tracked
      BY <2>1 DEF Blank
    <3>2. server'.tracked = server.tracked
      BY <1>6, <2>1 DEF HandleSaveBuffer, ServerBuffer
    <3>. QED  BY <1>3, <3>1, <3>2
  <2>. QED  BY <1>1, <1>6, <2>1 DEF HandleSaveBuffer
<1>7. CASE HandleCloseBuffer
  <2>1. CASE server.writer /\ server' # Untracked
    <3>1. server.tracked
      BY <2>1 DEF Blank
    <3>2. server'.tracked = server.tracked
      BY <1>7, <2>1 DEF HandleCloseBuffer, CleanedUpIfIdle, ServerBuffer
    <3>. QED  BY <1>3, <3>1, <3>2
  <2>. QED  BY <1>1, <1>2, <1>7, <2>1 DEF HandleCloseBuffer
<1>8. CASE LoadReads \/ FileLoaded
  <2>1. server.tracked
    BY <1>8 DEF LoadReads, FileLoaded, Blank
  <2>2. server'.tracked = server.tracked
    BY <1>8 DEF LoadReads, FileLoaded, ServerBuffer
  <2>. QED  BY <1>3, <2>1, <2>2
<1>9. ASSUME NEW w \in writes, NEW ok \in BOOLEAN, SaveEnds(w, ok)
      PROVE  Blank'
  <2>1. CASE server.saves # <<>> /\ Head(server.saves).save = w.save /\ server' # Untracked
    <3>1. server.tracked
      BY <2>1 DEF Blank
    <3>. DEFINE done == IF ok THEN [server EXCEPT !.base = w.version,
                                                  !.fileVersion = w.version]
                        ELSE server
    <3>2. server' = [done EXCEPT !.saves = Tail(server.saves)]
      BY <1>9, <2>1 DEF SaveEnds, CleanedUpIfIdle
    <3>3. server'.tracked = done.tracked /\ done.tracked = server.tracked
      BY <3>2 DEF ServerBuffer
    <3>. QED  BY <1>3, <3>1, <3>3
  <2>. QED  BY <1>1, <1>2, <1>9, <2>1 DEF SaveEnds
<1>10. ASSUME NEW text \in reloads, FileUpdated(text)
       PROVE  Blank'
  <2>1. CASE Watched
    <3>1. server.tracked
      BY <2>1 DEF Blank, Watched
    <3>2. PICK D : server' = [server EXCEPT !.fileVersion = issued + 1, !.diff = D]
      BY <1>10, <2>1 DEF FileUpdated
    <3>3. server'.tracked = server.tracked
      BY <3>2 DEF ServerBuffer
    <3>. QED  BY <1>3, <3>1, <3>3
  <2>. QED  BY <1>1, <1>10, <2>1 DEF FileUpdated
<1>11. CASE ApplyDiffResult
  <2>1. server.tracked
    BY <1>11 DEF ApplyDiffResult, Blank
  <2>2. PICK d, v : \/ server' = [server EXCEPT !.diff = {}, !.sv = v,
                                !.text = Applied(@, d), !.version = d.version,
                                !.base = d.version]
                    \/ server' = [server EXCEPT !.diff = {}]
    BY <1>11 DEF ApplyDiffResult
  <2>3. server'.tracked = server.tracked
    BY <2>2 DEF ServerBuffer
  <2>. QED  BY <1>3, <2>1, <2>3
<1>12. CASE UNCHANGED vars
  BY <1>1, <1>12 DEF vars
<1>13. CASE Client
  BY <1>1, <1>13 DEF Client, ClientOpens, ClientSaves, ClientCloses, ClientEdits, RequestSent,
     ClientHandles, FinishMaterialization, HandleBufferUpdatedPush, SaveReported, ClientTakes
<1>14. CASE \E text \in Texts : ExternalWrite(text)
  BY <1>1, <1>14 DEF ExternalWrite
<1>15. CASE Loading
  BY <1>2, <1>8, <1>15 DEF Loading, FailedToLoad
<1>16. CASE Reloading
  BY <1>1, <1>10, <1>11, <1>16 DEF Reloading, WatcherReads
<1>17. ASSUME NEW s \in Saves, SaveRuns(s)
       PROVE  Blank'
  BY <1>1, <1>9, <1>17 DEF SaveRuns, SaveWrites, FileSaved, FailedToSave
<1>. QED  BY <1>4, <1>5, <1>6, <1>7, <1>12, <1>13, <1>14, <1>15, <1>16, <1>17
          DEF Next, Daemon, DaemonHandles

LEMMA BlankInvariant == BufferSpec => []Blank
<1>1. Init => Blank
  BY DEF Init, Blank
<1>2. TypeInv /\ Blank /\ [Next]_vars => Blank'
  BY BlankKept
<1>. QED  BY <1>1, <1>2, TypesInvariant, PTL DEF BufferSpec

LEMMA HandleOpenSaves ==
  ASSUME TypeInv, Blank, SavesInv, HandleOpenBuffer
  PROVE  SavesInv'
<1>. USE TypesNow, UntrackedFields
<1>1. PICK m : m = Head(toServer)
  OBVIOUS
<1>2. m \in ServerMsg /\ m.kind = "open" /\ toServer # <<>> /\ toServer' = Tail(toServer)
  BY <1>1, ReceivedType DEF HandleOpenBuffer
<1>3. \A i \in DOMAIN toServer : toServer[i].kind = "save" =>
        \E j \in DOMAIN toServer' : toServer'[j] = toServer[i]
  BY <1>1, <1>2, TakenOrLeft
<1>4. server'.saves = server.saves
  <2>1. CASE server.tracked
    <3>1. PICK q : \/ server' = [server EXCEPT !.writer = TRUE, !.waiting = q]
                   \/ server' = [server EXCEPT !.writer = TRUE]
      BY <2>1 DEF HandleOpenBuffer
    <3>. QED  BY <3>1 DEF ServerBuffer
  <2>2. CASE ~server.tracked
    <3>1. PICK q : server' = [Untracked EXCEPT !.tracked = TRUE, !.writer = TRUE,
                                !.version = issued + 1, !.loading = "reading",
                                !.waiting = q]
      BY <2>2 DEF HandleOpenBuffer
    <3>2. server'.saves = Untracked.saves
      BY <3>1 DEF Untracked
    <3>. QED  BY <2>2, <3>2 DEF Blank
  <2>. QED  BY <2>1, <2>2
<1>5. \A i \in DOMAIN toClient : \E j \in DOMAIN toClient' : toClient'[j] = toClient[i]
  <2>1. CASE toClient' = toClient
    BY <2>1
  <2>2. CASE Send(<<Opened(m.file, server)>>)
    <3>1. Opened(m.file, server) \in ClientMsg
      BY <1>2, ServerKinds, OpenedType DEF ServerBuffer
    <3>. QED  BY <2>2, <3>1, SentOneAfter
  <2>. QED  BY <1>1, <2>1, <2>2 DEF HandleOpenBuffer
<1>6. Dispatch'
  BY <1>4 DEF SavesInv, Dispatch, HandleOpenBuffer
<1>. QED  BY <1>3, <1>4, <1>5, <1>6, SavesMove DEF HandleOpenBuffer

LEMMA HandleEditSaves ==
  ASSUME TypeInv, SavesInv, HandleBufferEdit
  PROVE  SavesInv'
<1>. USE TypesNow
<1>1. toServer # <<>> /\ toServer' = Tail(toServer) /\ Head(toServer).kind = "edit"
  BY ReceivedType DEF HandleBufferEdit
<1>2. \A i \in DOMAIN toServer : toServer[i].kind = "save" =>
        \E j \in DOMAIN toServer' : toServer'[j] = toServer[i]
  BY <1>1, TakenOrLeft
<1>3. server'.saves = server.saves
  BY DEF HandleBufferEdit, ServerBuffer
<1>4. Dispatch'
  BY <1>3 DEF SavesInv, Dispatch, HandleBufferEdit
<1>. QED  BY <1>2, <1>3, <1>4, SavesMove DEF HandleBufferEdit

LEMMA HandleSaveSaves ==
  ASSUME TypeInv, SavesInv, HandleSaveBuffer
  PROVE  SavesInv'
<1>. USE TypesNow
<1>1. PICK m : m = Head(toServer)
  OBVIOUS
<1>2. m \in SaveRequest /\ toServer # <<>> /\ toServer' = Tail(toServer)
  BY <1>1, ReceivedType, ServerKinds DEF HandleSaveBuffer
<1>3. \A i \in DOMAIN toServer : \/ \E j \in DOMAIN toServer' : toServer'[j] = toServer[i]
                                 \/ toServer[i] = m
  BY <1>1, <1>2, TakenOrLeft
<1>4. CASE /\ Send(<<SaveAnswer(m, FALSE, Empty)>>)
           /\ UNCHANGED <<server, writes>>
  <2>. DEFINE a == SaveAnswer(m, FALSE, Empty)
  <2>1. a \in ClientMsg /\ a.kind = "saved" /\ a.save = m.save
    <3>1. a \in ClientMsg
      BY <1>2, AnswerType DEF AnyText
    <3>2. a.kind = "saved" /\ a.save = m.save
      BY DEF SaveAnswer
    <3>. QED  BY <3>1, <3>2
  <2>2. Send(<<a>>)
    BY <1>4
  <2>. HIDE DEF a
  <2>3. /\ \A i \in DOMAIN toClient : \E j \in DOMAIN toClient' : toClient'[j] = toClient[i]
        /\ \E j \in DOMAIN toClient' : toClient'[j] = a
    BY <2>1, <2>2, SentOneAfter
  <2>4. Dispatch'
    BY <1>4 DEF SavesInv, Dispatch
  <2>. QED  BY <1>3, <1>4, <2>1, <2>3, <2>4, SavesMove DEF HandleSaveBuffer
<1>5. CASE /\ server' = [server EXCEPT !.saves = Append(@, m)]
           /\ writes' = writes \union Dispatched(m)
           /\ UNCHANGED toClient
  <2>1. server.saves \in Seq(SaveRequest) /\ server'.saves = Append(server.saves, m)
    BY <1>5 DEF ServerBuffer
  <2>2. /\ \A i \in DOMAIN server.saves :
             \E j \in DOMAIN server'.saves : server'.saves[j] = server.saves[i]
        /\ \E j \in DOMAIN server'.saves : server'.saves[j] = m
    <3>1. server.saves \in Seq(SaveRequest) /\ m \in SaveRequest
      BY <1>2, <2>1
    <3>2. PICK n \in Nat : Grown(server.saves, server'.saves, m, n)
      BY ONLY <2>1, <3>1, AppendedAt
    <3>3. n + 1 \in 1..(n + 1)
      OBVIOUS
    <3>. QED  BY <3>2, <3>3 DEF Grown
  <2>3. Dispatch'
    <3>1. CASE server.saves = <<>>
      <4>1. StartSave(m) \in writes' /\ StartSave(m).save = m.save
        BY <1>5, <3>1 DEF Dispatched, StartSave
      <4>2. Head(server'.saves) = m
        BY <1>2, <2>1, <3>1
      <4>. QED  BY <4>1, <4>2 DEF Dispatch
    <3>2. CASE server.saves # <<>>
      <4>1. Head(server'.saves) = Head(server.saves)
        BY <1>2, <2>1, <3>2
      <4>2. PICK w \in writes : w.save = Head(server.saves).save
        BY <3>2 DEF SavesInv, Dispatch
      <4>3. w \in writes'
        BY <1>5
      <4>. QED  BY <4>1, <4>2, <4>3 DEF Dispatch
    <3>. QED  BY <3>1, <3>2
  <2>4. asked' = asked /\ tasks' = tasks /\ toClient' = toClient
    BY <1>5 DEF HandleSaveBuffer
  <2>5. \A i \in DOMAIN toServer : toServer[i].kind = "save" =>
          \/ \E j \in DOMAIN toServer' : toServer'[j] = toServer[i]
          \/ \E j \in DOMAIN server'.saves : server'.saves[j].save = toServer[i].save
    BY <1>3, <2>2
  <2>. QED  BY <2>2, <2>3, <2>4, <2>5, SavesMove
<1>. QED  BY <1>1, <1>4, <1>5 DEF HandleSaveBuffer

LEMMA HandleCloseSaves ==
  ASSUME TypeInv, SavesInv, HandleCloseBuffer
  PROVE  SavesInv'
<1>. USE TypesNow
<1>1. toServer # <<>> /\ toServer' = Tail(toServer) /\ Head(toServer).kind = "close"
  BY ReceivedType DEF HandleCloseBuffer
<1>2. \A i \in DOMAIN toServer : toServer[i].kind = "save" =>
        \E j \in DOMAIN toServer' : toServer'[j] = toServer[i]
  BY <1>1, TakenOrLeft
<1>3. server'.saves = server.saves
  <2>. DEFINE s == [server EXCEPT !.writer = FALSE]
  <2>1. s.saves = server.saves
    BY DEF ServerBuffer
  <2>2. server' = server \/ server' = CleanedUpIfIdle(s)
    BY DEF HandleCloseBuffer
  <2>. HIDE DEF s
  <2>. QED  BY <2>1, <2>2, CleanedSaves
<1>4. Dispatch'
  BY <1>3 DEF SavesInv, Dispatch, HandleCloseBuffer
<1>. QED  BY <1>2, <1>3, <1>4, SavesMove DEF HandleCloseBuffer

\* A load that fails answers everything that waited for it.
LEMMA LoadingSaves ==
  ASSUME TypeInv, SavesInv, Loading
  PROVE  SavesInv'
<1>. USE TypesNow, UntrackedFields
<1>1. toServer' = toServer /\ tasks' = tasks /\ asked' = asked /\ writes' = writes
  BY DEF Loading, LoadReads, FileLoaded, FailedToLoad
<1>2. CASE LoadReads
  <2>1. server'.saves = server.saves /\ toClient' = toClient
    BY <1>2 DEF LoadReads, ServerBuffer
  <2>2. Dispatch'
    BY <1>1, <2>1 DEF SavesInv, Dispatch
  <2>. QED  BY <1>1, <2>1, <2>2, SavesMove
<1>3. CASE FileLoaded
  <2>. DEFINE nobody == <<>>
              b == [server EXCEPT !.text = server.read, !.version = issued + 1,
                   !.base = issued + 1, !.fileVersion = issued + 1,
                   !.loading = "no", !.read = Empty, !.waiting = nobody]
              messages == [i \in DOMAIN server.waiting |-> Opened(server.waiting[i], b)]
  <2>1. server' = b /\ Send(messages)
    BY <1>3 DEF FileLoaded
  <2>. HIDE DEF nobody
  <2>2. server'.saves = server.saves
    BY <2>1 DEF ServerBuffer
  <2>3. b.text \in AnyText /\ b.sv = server.sv
    BY DEF ServerBuffer
  <2>. HIDE DEF b
  <2>4. messages \in Seq(ClientMsg)
    <3>1. server.waiting \in Seq(Files) /\ server.sv \in Versions
      BY DEF ServerBuffer
    <3>2. \A i \in DOMAIN server.waiting : Opened(server.waiting[i], b) \in ClientMsg
      BY <2>3, <3>1, OpenedType
    <3>3. messages \in [DOMAIN server.waiting -> ClientMsg]
      BY <3>2
    <3>. HIDE DEF messages
    <3>. QED  BY <3>1, <3>3, Mapped
  <2>. HIDE DEF messages
  <2>5. \A i \in DOMAIN toClient : \E j \in DOMAIN toClient' : toClient'[j] = toClient[i]
    BY <2>1, <2>4, SentAfter
  <2>6. Dispatch'
    BY <1>1, <2>2 DEF SavesInv, Dispatch
  <2>. QED  BY <1>1, <2>2, <2>5, <2>6, SavesMove
<1>4. CASE FailedToLoad
  <2>. DEFINE failed == [i \in DOMAIN server.waiting |-> OpenFailed(server.waiting[i])]
              unsaved == [i \in DOMAIN server.saves |->
                            SaveAnswer(server.saves[i], FALSE, Empty)]
  <2>1. server.waiting \in Seq(Files) /\ server.saves \in Seq(SaveRequest)
    BY DEF ServerBuffer
  <2>2. failed \in Seq(ClientMsg)
    <3>1. \A f \in Files : OpenFailed(f) \in ClientMsg
      BY DEF OpenFailed, ClientMsg, FailedMsg
    <3>2. failed \in [DOMAIN server.waiting -> ClientMsg]
      BY <2>1, <3>1
    <3>. HIDE DEF failed
    <3>. QED  BY <2>1, <3>2, Mapped
  <2>3. /\ unsaved \in Seq(ClientMsg) /\ DOMAIN unsaved = DOMAIN server.saves
        /\ \A i \in DOMAIN server.saves : /\ unsaved[i].kind = "saved"
                                          /\ unsaved[i].save = server.saves[i].save
    <3>1. \A s \in SaveRequest : SaveAnswer(s, FALSE, Empty) \in ClientMsg
      BY AnswerType DEF AnyText
    <3>2. unsaved \in [DOMAIN server.saves -> ClientMsg]
      <4>1. \A i \in DOMAIN server.saves : server.saves[i] \in SaveRequest
        BY <2>1
      <4>2. \A i \in DOMAIN server.saves :
               SaveAnswer(server.saves[i], FALSE, Empty) \in ClientMsg
        BY <3>1, <4>1
      <4>. QED  BY <4>2
    <3>3. \A i \in DOMAIN server.saves : /\ unsaved[i].kind = "saved"
                                         /\ unsaved[i].save = server.saves[i].save
      BY DEF SaveAnswer
    <3>. HIDE DEF unsaved
    <3>. QED  BY <2>1, <3>2, <3>3, Mapped
  <2>4. Send(failed \o unsaved)
    BY <1>4 DEF FailedToLoad
  <2>. HIDE DEF failed, unsaved
  <2>5. /\ \A i \in DOMAIN toClient : \E j \in DOMAIN toClient' : toClient'[j] = toClient[i]
        /\ \A i \in DOMAIN unsaved : \E j \in DOMAIN toClient' : toClient'[j] = unsaved[i]
    <3>. DEFINE all == failed \o unsaved
    <3>1. /\ all \in Seq(ClientMsg)
          /\ \A i \in DOMAIN unsaved : \E j \in DOMAIN all : all[j] = unsaved[i]
      <4>1. all \in Seq(ClientMsg)
        BY <2>2, <2>3, Joined
      <4>2. \A i \in DOMAIN unsaved : \E j \in DOMAIN all : all[j] = unsaved[i]
        <5>1. \A x, y \in Seq(ClientMsg) : \A i \in DOMAIN y :
                 \E j \in DOMAIN (x \o y) : (x \o y)[j] = y[i]
          BY ONLY JoinedLast
        <5>. QED  BY ONLY <2>2, <2>3, <5>1
      <4>. HIDE DEF all
      <4>. QED  BY <4>1, <4>2
    <3>2. Send(all)
      BY <2>4
    <3>. HIDE DEF all
    <3>. QED  BY <3>1, <3>2, SentAfter
  <2>6. server'.saves = <<>>
    BY <1>4 DEF FailedToLoad
  <2>7. Dispatch'
    BY <2>6 DEF Dispatch
  <2>. QED  BY <1>1, <2>3, <2>5, <2>7, SavesMove
<1>. QED  BY <1>2, <1>3, <1>4 DEF Loading

LEMMA SaveEndsSaves ==
  ASSUME TypeInv, SavesInv, NEW w \in writes, NEW ok \in BOOLEAN, SaveEnds(w, ok),
         toServer' = toServer, tasks' = tasks, asked' = asked
  PROVE  SavesInv'
<1>. USE TypesNow
<1>1. CASE server.saves # <<>> /\ Head(server.saves).save = w.save
  <2>. DEFINE done == IF ok THEN [server EXCEPT !.base = w.version,
                                                !.fileVersion = w.version]
                      ELSE server
              rest == Tail(server.saves)
              s == [done EXCEPT !.saves = rest]
              a == SaveAnswer(Head(server.saves), ok, w.text)
  <2>1. server.saves \in Seq(SaveRequest) /\ w.text \in AnyText
    BY DEF ServerBuffer, WriteTask
  <2>2. /\ rest \in Seq(SaveRequest) /\ Head(server.saves) = server.saves[1]
        /\ Head(server.saves) \in SaveRequest
        /\ \A i \in DOMAIN server.saves :
             i # 1 => i - 1 \in DOMAIN rest /\ rest[i - 1] = server.saves[i]
    BY <1>1, <2>1, Beheaded
  <2>3. /\ server' = CleanedUpIfIdle(s)
        /\ writes' = (writes \ {w}) \union Promoted(rest)
        /\ Send(<<a>>)
    BY <1>1 DEF SaveEnds
  <2>4. a \in ClientMsg /\ a.kind = "saved" /\ a.save = Head(server.saves).save
    <3>1. a \in ClientMsg
      BY <2>1, <2>2, AnswerType
    <3>2. a.kind = "saved" /\ a.save = Head(server.saves).save
      BY DEF SaveAnswer
    <3>. QED  BY <3>1, <3>2
  <2>. HIDE DEF rest, a
  <2>5. s.saves = rest
    BY DEF ServerBuffer
  <2>. HIDE DEF done, s
  <2>6. server'.saves = rest
    BY <2>3, <2>5, CleanedSaves
  <2>7. /\ \A i \in DOMAIN toClient : \E j \in DOMAIN toClient' : toClient'[j] = toClient[i]
        /\ \E j \in DOMAIN toClient' : toClient'[j] = a
    BY <2>3, <2>4, SentOneAfter
  <2>8. \A i \in DOMAIN server.saves :
           \/ \E j \in DOMAIN server'.saves : server'.saves[j] = server.saves[i]
           \/ \E j \in DOMAIN toClient' : /\ toClient'[j].kind = "saved"
                                          /\ toClient'[j].save = server.saves[i].save
    BY <2>2, <2>4, <2>6, <2>7
  <2>9. Dispatch'
    <3>1. CASE rest # <<>>
      <4>1. StartSave(Head(rest)) \in writes'
        BY <2>3, <3>1 DEF Promoted
      <4>2. StartSave(Head(rest)).save = Head(rest).save
        BY DEF StartSave
      <4>. QED  BY <2>6, <4>1, <4>2 DEF Dispatch
    <3>. QED  BY <2>6, <3>1 DEF Dispatch
  <2>. QED  BY <2>7, <2>8, <2>9, SavesMove
<1>2. CASE ~(server.saves # <<>> /\ Head(server.saves).save = w.save)
  <2>1. writes' = writes \ {w} /\ server' = server /\ toClient' = toClient
    BY <1>2 DEF SaveEnds
  <2>2. Dispatch'
    BY <1>2, <2>1 DEF SavesInv, Dispatch
  <2>. QED  BY <2>1, <2>2, SavesMove
<1>. QED  BY <1>1, <1>2

LEMMA SaveRunsSaves ==
  ASSUME TypeInv, SavesInv, NEW s \in Saves, SaveRuns(s)
  PROVE  SavesInv'
<1>1. PICK w \in writes : SaveWrites(w) \/ FileSaved(w) \/ FailedToSave(w)
  BY DEF SaveRuns
<1>2. CASE SaveWrites(w)
  <2>1. w \in WriteTask
    BY TypesNow
  <2>2. [w EXCEPT !.written = TRUE].save = w.save
    BY <2>1 DEF WriteTask
  <2>3. writes' = (writes \ {w}) \union {[w EXCEPT !.written = TRUE]} /\ server' = server
    BY <1>2 DEF SaveWrites
  <2>4. Dispatch'
    BY <2>2, <2>3 DEF SavesInv, Dispatch
  <2>. QED  BY <1>2, <2>3, <2>4, SavesMove DEF SaveWrites
<1>3. CASE FileSaved(w)
  BY <1>3, SaveEndsSaves DEF FileSaved
<1>4. CASE FailedToSave(w)
  BY <1>4, SaveEndsSaves DEF FailedToSave
<1>. QED  BY <1>1, <1>2, <1>3, <1>4

LEMMA ReloadingSaves ==
  ASSUME TypeInv, SavesInv, Reloading \/ \E text \in Texts : ExternalWrite(text)
  PROVE  SavesInv'
<1>. USE TypesNow
<1>1. toServer' = toServer /\ tasks' = tasks /\ asked' = asked /\ writes' = writes
  BY DEF Reloading, WatcherReads, ApplyDiffResult, FileUpdated, ExternalWrite
<1>2. server'.saves = server.saves
  <2>1. CASE server' = server
    BY <2>1
  <2>2. CASE server' # server
    <3>1. \/ \E v, D : server' = [server EXCEPT !.fileVersion = v, !.diff = D]
          \/ \E d, v, t : server' = [server EXCEPT !.diff = {}, !.sv = v, !.text = t,
                                                !.version = d.version, !.base = d.version]
          \/ server' = [server EXCEPT !.diff = {}]
      BY <2>2 DEF Reloading, WatcherReads, ApplyDiffResult, FileUpdated, ExternalWrite
    <3>. QED  BY <3>1 DEF ServerBuffer
  <2>. QED  BY <2>1, <2>2
<1>3. \A i \in DOMAIN toClient : \E j \in DOMAIN toClient' : toClient'[j] = toClient[i]
  <2>1. CASE toClient' = toClient
    BY <2>1
  <2>2. CASE ApplyDiffResult /\ toClient' # toClient
    <3>1. PICK d \in server.diff : issued' = issued + 1 /\ Send(PushOf(d, issued + 1))
      BY <2>2 DEF ApplyDiffResult
    <3>. DEFINE p == [kind |-> "push", from |-> d.from, to |-> d.to, sv |-> issued + 1,
                      cv |-> server.cv]
                none == <<>>
                t == toClient \o <<p>>
    <3>2. toClient' = toClient \o none \/ toClient' = t
      BY <3>1 DEF Send, PushOf, Push
    <3>3. toClient \in Seq(ClientMsg \union {p}) /\ <<p>> \in Seq(ClientMsg \union {p})
      BY DEF ServerBuffer
    <3>4. \A i \in DOMAIN toClient : i \in DOMAIN t /\ t[i] = toClient[i]
      BY <3>3, Joined
    <3>. HIDE DEF p, t
    <3>. QED  BY <3>2, <3>4
  <2>. QED  BY <2>1, <2>2 DEF Reloading, WatcherReads, FileUpdated, ExternalWrite
<1>4. Dispatch'
  BY <1>1, <1>2 DEF SavesInv, Dispatch
<1>. QED  BY <1>1, <1>2, <1>3, <1>4, SavesMove

LEMMA NextSaves ==
  ASSUME TypeInv, Blank, SavesInv, [Next]_vars
  PROVE  SavesInv'
<1>1. CASE UNCHANGED vars
  BY <1>1 DEF vars, SavesInv, Underway, Dispatch
<1>2. CASE Client
  BY <1>2, ClientActsSaves, RequestSentSaves, ClientHandlesSaves DEF Client, ClientHandles
<1>3. CASE Daemon \/ \E text \in Texts : ExternalWrite(text)
  BY <1>3, HandleOpenSaves, HandleEditSaves, HandleSaveSaves, HandleCloseSaves,
     LoadingSaves, SaveRunsSaves, ReloadingSaves DEF Daemon, DaemonHandles
<1>. QED  BY <1>1, <1>2, <1>3 DEF Next

LEMMA InitSaves == Init => SavesInv
  BY DEF Init, SavesInv, Dispatch, Untracked

LEMMA SavesHold == BufferSpec => []SavesInv
<1>1. TypeInv /\ Blank /\ SavesInv /\ [Next]_vars => SavesInv'
  BY NextSaves
<1>. QED  BY <1>1, InitSaves, TypesInvariant, BlankInvariant, PTL DEF BufferSpec

\* SavesAnswered: HandleSaveBuffer, complete_active_buffer_mutation and FailedToLoad
\* between them forget no save, in whatever order messages travel and whatever is closed,
\* reopened or fails to load meanwhile.
THEOREM EverySaveIsAnswered == BufferSpec => []SavesAnswered
<1>1. SavesInv => SavesAnswered
  <2>. SUFFICES ASSUME SavesInv, Quiet, tasks = {}, writes = {}, NEW s \in Saves
                PROVE  asked[s] = {}
    BY DEF SavesAnswered
  <2>1. server.saves = <<>>
    BY DEF SavesInv, Dispatch
  <2>2. ~Underway(s)
    BY <2>1 DEF Underway, Quiet
  <2>. QED  BY <2>2 DEF SavesInv
<1>. QED  BY <1>1, SavesHold, PTL

-----------------------------------------------------------------------------
\* Queues as sets, and as positions.

LEMMA SetAppended ==
  ASSUME NEW S, NEW s \in Seq(S), NEW x \in S
  PROVE  ToSet(Append(s, x)) = ToSet(s) \union {x}
<1>. DEFINE t == Append(s, x)
            n == Len(s)
<1>1. /\ DOMAIN s = 1..n /\ DOMAIN t = 1..(n + 1)
      /\ \A i \in 1..n : t[i] = s[i] /\ i \in 1..(n + 1)
      /\ t[n + 1] = x /\ n + 1 \in 1..(n + 1)
      /\ \A i \in 1..(n + 1) : i \in 1..n \/ i = n + 1
  BY Appended
<1>. HIDE DEF t, n
<1>2. ToSet(t) = ToSet(s) \union {x}
  BY <1>1 DEF ToSet
<1>. QED  BY <1>2 DEF t

LEMMA SetBeheaded ==
  ASSUME NEW S, NEW s \in Seq(S), s # <<>>
  PROVE  ToSet(s) = {Head(s)} \union ToSet(Tail(s))
<1>. DEFINE t == Tail(s)
<1>1. /\ 1 \in DOMAIN s /\ Head(s) = s[1]
      /\ \A i \in DOMAIN t : i + 1 \in DOMAIN s /\ t[i] = s[i + 1]
      /\ \A i \in DOMAIN s : i # 1 => i - 1 \in DOMAIN t /\ t[i - 1] = s[i]
  BY Beheaded
<1>. HIDE DEF t
<1>2. ToSet(s) = {Head(s)} \union ToSet(t)
  BY <1>1 DEF ToSet
<1>. QED  BY <1>2 DEF t

\* The message at k of the client's queue is taken: the one at i was at j.
Kept(k, i, j) == \/ j < k /\ i = j
                 \/ j > k /\ i + 1 = j

LEMMA KeptOrder ==
  ASSUME NEW k \in Nat, NEW i \in Nat, NEW a \in Nat, Kept(k, i, a),
         NEW j \in Nat, NEW b \in Nat, Kept(k, j, b)
  PROVE  a # k /\ (i < j <=> a < b) /\ (i = j <=> a = b)
  BY DEF Kept

LEMMA TakenFrom ==
  ASSUME TypeInv, NEW k \in DOMAIN toClient, toClient' = RemoveAt(toClient, k)
  PROVE  /\ k \in Nat /\ toClient[k] \in ClientMsg
         /\ \A j \in DOMAIN toClient : j \in Nat /\ j >= 1 /\ (j < k => j \in 1..(k - 1))
         /\ \A i \in DOMAIN toClient' :
              /\ i \in Nat /\ i >= 1
              /\ \E j \in DOMAIN toClient : Kept(k, i, j) /\ toClient'[i] = toClient[j]
         /\ \A j \in DOMAIN toClient : j # k =>
              \E i \in DOMAIN toClient' : Kept(k, i, j) /\ toClient'[i] = toClient[j]
<1>. DEFINE t == RemoveAt(toClient, k)
            n == Len(toClient)
<1>1. toClient \in Seq(ClientMsg)
  BY TypesNow
<1>2. /\ n \in Nat /\ DOMAIN toClient = 1..n /\ DOMAIN t = 1..(n - 1)
      /\ \A i \in DOMAIN t : i < k => i \in DOMAIN toClient /\ t[i] = toClient[i]
      /\ \A i \in DOMAIN t : i >= k => i + 1 \in DOMAIN toClient /\ t[i] = toClient[i + 1]
      /\ \A i \in DOMAIN toClient : i < k => i \in DOMAIN t /\ t[i] = toClient[i]
      /\ \A i \in DOMAIN toClient : i > k => i - 1 \in DOMAIN t /\ t[i - 1] = toClient[i]
  BY <1>1, Removed
<1>3. toClient[k] \in ClientMsg
  BY <1>1
<1>4. t = toClient'
  OBVIOUS
<1>. HIDE DEF t, n
<1>5. k \in Nat /\ \A j \in DOMAIN toClient : j \in Nat /\ j >= 1 /\ (j < k => j \in 1..(k - 1))
  BY <1>2
<1>6. ASSUME NEW i \in DOMAIN t
      PROVE  /\ i \in Nat /\ i >= 1
             /\ \E j \in DOMAIN toClient : Kept(k, i, j) /\ t[i] = toClient[j]
  <2>1. i \in Nat /\ i >= 1
    BY <1>2
  <2>2. CASE i < k
    BY <1>2, <2>1, <2>2 DEF Kept
  <2>3. CASE i >= k
    <3>1. i + 1 \in DOMAIN toClient /\ t[i] = toClient[i + 1] /\ i + 1 > k
      BY <1>2, <1>5, <2>1, <2>3
    <3>. QED  BY <2>1, <3>1 DEF Kept
  <2>. QED  BY <1>5, <2>1, <2>2, <2>3
<1>7. ASSUME NEW j \in DOMAIN toClient, j # k
      PROVE  \E i \in DOMAIN t : Kept(k, i, j) /\ t[i] = toClient[j]
  <2>1. CASE j < k
    BY <1>2, <2>1 DEF Kept
  <2>2. CASE j > k
    <3>1. j - 1 \in DOMAIN t /\ t[j - 1] = toClient[j] /\ (j - 1) + 1 = j
      BY <1>2, <1>5, <2>2
    <3>. QED  BY <2>2, <3>1 DEF Kept
  <2>. QED  BY <1>5, <1>7, <2>1, <2>2
<1>. QED  BY <1>3, <1>4, <1>5, <1>6, <1>7

\* Messages are sent to the client.
LEMMA AfterSent ==
  ASSUME TypeInv, NEW S, ClientMsg \subseteq S, NEW u \in Seq(S), toClient' = toClient \o u
  PROVE  /\ Len(toClient) \in Nat /\ DOMAIN toClient = 1..Len(toClient)
         /\ \A k \in Nat : k <= Len(toClient) => After(k)' = After(k) \union ToSet(u)
         /\ After(Len(toClient)) = {}
         /\ \A i \in DOMAIN toClient : i \in DOMAIN toClient' /\ toClient'[i] = toClient[i]
         /\ \A i \in DOMAIN toClient' :
              i \in DOMAIN toClient \/ \E j \in DOMAIN u : i = Len(toClient) + j
                                                          /\ toClient'[i] = u[j]
         /\ \A j \in DOMAIN u : j \in Nat /\ j >= 1
<1>. DEFINE t == toClient \o u
            n == Len(toClient)
<1>1. toClient \in Seq(S)
  BY TypesNow
<1>2. /\ n \in Nat /\ DOMAIN toClient = 1..n /\ DOMAIN u = 1..Len(u) /\ Len(u) \in Nat
      /\ \A i \in 1..n : i \in DOMAIN t /\ t[i] = toClient[i]
      /\ \A i \in DOMAIN u : n + i \in DOMAIN t /\ t[n + i] = u[i]
      /\ \A i \in DOMAIN t : i \in 1..n \/ \E j \in DOMAIN u : i = n + j
  BY <1>1, Joined
<1>. HIDE DEF t, n
<1>3. /\ \A i \in DOMAIN toClient : i \in Nat /\ i <= n
      /\ \A j \in DOMAIN u : j \in Nat /\ j >= 1
  BY <1>2
<1>4. ASSUME NEW k \in Nat, k <= n
      PROVE  {t[i] : i \in {j \in DOMAIN t : j > k}} = After(k) \union ToSet(u)
  <2>1. \A j \in DOMAIN u : n + j > k
    BY <1>2, <1>3, <1>4
  <2>. QED  BY <1>2, <2>1 DEF After, ToSet
<1>5. After(n) = {}
  BY <1>2, <1>3 DEF After
<1>6. toClient' = t /\ n = Len(toClient)
  BY DEF t, n
<1>7. \A k \in Nat : k <= n => After(k)' = After(k) \union ToSet(u)
  BY <1>4, <1>6 DEF After
<1>. QED  BY <1>2, <1>3, <1>5, <1>6, <1>7

-----------------------------------------------------------------------------
\* What an editor sees.

\* The daemon pushes a change to an editor that it has told all about the text before.
LEMMA ViewPushed ==
  ASSUME NEW P, NEW p, NEW s, NEW t, NEW E, NEW told \in BOOLEAN, NEW sv \in Int, NEW cv,
         NEW text, ViewOf(P, s, E, told, sv, cv, text), s.sv \in Int,
         \A q \in P : q.sv \in Int,
         cv = s.cv => E = {},
         p.cv = s.cv, p.from = s.text, p.sv = t.sv, p.to = t.text,
         t.sv \in Int, t.sv > s.sv, t.cv = s.cv
  PROVE  ViewOf(P \union {p}, t, E, told, sv, cv, text)
<1>. DEFINE Q == P \union {p}
<1>1. /\ sv <= s.sv
      /\ \A q \in P : q.cv = s.cv /\ sv < q.sv /\ q.sv <= s.sv
      /\ \A q \in P : cv = s.cv /\ Earliest(P, q) => q.from = text
      /\ \A q \in P : Latest(P, q) => q.sv = s.sv /\ q.to = s.text
      /\ \A q, r \in P : NextTo(P, q, r) => q.to = r.from
      /\ P = {} /\ sv # s.sv => told /\ cv # s.cv
      /\ sv = s.sv /\ E = {} => text = s.text
  BY DEF ViewOf
<1>2. sv < t.sv /\ \A q \in P : q.sv < p.sv
  BY <1>1
<1>3. \A q \in Q : q.cv = t.cv /\ sv < q.sv /\ q.sv <= t.sv
  BY <1>1, <1>2
<1>4. ASSUME NEW q \in Q, cv = t.cv, Earliest(Q, q)
      PROVE  q.from = text
  <2>1. CASE q \in P
    BY <1>1, <1>4, <2>1 DEF Earliest
  <2>2. CASE q \notin P
    <3>1. q = p /\ p.sv \in Int
      BY <2>2
    <3>2. \A r \in P : p.sv <= r.sv
      BY <1>4, <3>1 DEF Earliest
    <3>3. P = {}
      BY <1>2, <3>1, <3>2
    <3>4. sv = s.sv /\ E = {}
      BY <1>1, <1>4, <3>3
    <3>. QED  BY <1>1, <3>1, <3>4
  <2>. QED  BY <2>1, <2>2
<1>5. ASSUME NEW q \in Q, Latest(Q, q)
      PROVE  q.sv = t.sv /\ q.to = t.text
  <2>1. p.sv <= q.sv /\ p.sv \in Int
    BY <1>5 DEF Latest
  <2>2. q = p
    BY <1>2, <2>1
  <2>. QED  BY <2>2
<1>6. ASSUME NEW q \in Q, NEW r \in Q, NextTo(Q, q, r)
      PROVE  q.to = r.from
  <2>1. q.sv < r.sv /\ \A o \in Q : o.sv <= q.sv \/ r.sv <= o.sv
    BY <1>6 DEF NextTo
  <2>2. p.sv \in Int /\ \A o \in P : o.sv \in Int
    OBVIOUS
  <2>3. q # p
    BY <1>2, <2>1, <2>2
  <2>4. CASE r \in P
    BY <1>1, <2>1, <2>3, <2>4 DEF NextTo
  <2>5. CASE r = p
    <3>1. \A o \in P : o.sv <= q.sv
      BY <1>2, <2>1, <2>2, <2>5
    <3>. QED  BY <1>1, <2>3, <2>5, <3>1 DEF Latest
  <2>. QED  BY <2>4, <2>5
<1>7. sv <= t.sv /\ sv # t.sv /\ Q # {}
  BY <1>2
<1>8. Latest(Q, p) /\ p \in Q
  BY <1>2 DEF Latest
<1>. HIDE DEF Q
<1>9. ViewOf(Q, t, E, told, sv, cv, text)
  BY <1>3, <1>4, <1>5, <1>6, <1>7, <1>8 DEF ViewOf
<1>. QED  BY <1>9 DEF Q

\* The last of the pushes stays the last when the first is taken.
LEMMA LatestStays ==
  ASSUME NEW P, NEW m \in P, \A q \in P : q.sv \in Int, \A q \in P \ {m} : m.sv < q.sv,
         \E p \in P : Latest(P, p), NEW Q, Q = P \ {m}, Q # {}
  PROVE  \E p \in Q : Latest(Q, p)
<1>1. PICK p \in P : \A q \in P : q.sv <= p.sv
  BY DEF Latest
<1>2. p # m
  <2>1. PICK q \in Q : m.sv < q.sv /\ q.sv <= p.sv
    BY <1>1
  <2>. QED  BY <2>1
<1>. QED  BY <1>1, <1>2 DEF Latest

\* The editor takes the first push, which fits.
LEMMA ViewTaken ==
  ASSUME NEW P, NEW m \in P, NEW s, NEW E, NEW told \in BOOLEAN, NEW sv \in Int,
         NEW cv, NEW text, ViewOf(P, s, E, told, sv, cv, text), s.sv \in Int,
         \A q \in P : q.sv \in Int, \A q \in P \ {m} : m.sv < q.sv,
         NEW Q, Q = P \ {m}, NEW v, v = m.sv, NEW to, to = m.to, cv \in {s.cv}
  PROVE  ViewOf(Q, s, E, told, v, cv, to)
<1>1. /\ sv <= s.sv
      /\ \A q \in P : q.cv = s.cv /\ sv < q.sv /\ q.sv <= s.sv
      /\ \A q \in P : cv = s.cv /\ Earliest(P, q) => q.from = text
      /\ \A q \in P : Latest(P, q) => q.sv = s.sv /\ q.to = s.text
      /\ \A q, r \in P : NextTo(P, q, r) => q.to = r.from
  BY DEF ViewOf
<1>2. \A q \in Q : Earliest(Q, q) => q.from = m.to
  <2>. SUFFICES ASSUME NEW q \in Q, Earliest(Q, q) PROVE q.from = m.to
    OBVIOUS
  <2>1. \A r \in P : r.sv <= m.sv \/ q.sv <= r.sv
    BY DEF Earliest
  <2>. QED  BY <1>1, <2>1 DEF NextTo
<1>3. \A q \in Q : Latest(Q, q) => q.sv = s.sv /\ q.to = s.text
  <2>. SUFFICES ASSUME NEW q \in Q, Latest(Q, q) PROVE Latest(P, q)
    BY <1>1
  <2>1. m.sv <= q.sv
    OBVIOUS
  <2>. QED  BY <2>1 DEF Latest
<1>4. \A q, r \in Q : NextTo(Q, q, r) => q.to = r.from
  <2>. SUFFICES ASSUME NEW q \in Q, NEW r \in Q, NextTo(Q, q, r) PROVE NextTo(P, q, r)
    BY <1>1
  <2>1. m.sv <= q.sv
    OBVIOUS
  <2>. QED  BY <2>1 DEF NextTo
<1>5. Q = {} => Latest(P, m)
  BY DEF Latest
<1>6. m.sv = s.sv => Q = {}
  BY <1>1
<1>7. Q # {} => \E q \in Q : Latest(Q, q)
  <2>1. \E q \in P : Latest(P, q)
    BY DEF ViewOf
  <2>. QED  BY <2>1, LatestStays
<1>. QED  BY <1>1, <1>2, <1>3, <1>4, <1>5, <1>6, <1>7 DEF ViewOf

\* The editor takes the first push, which does not fit.
LEMMA ViewMissed ==
  ASSUME NEW P, NEW m \in P, NEW s, NEW E, NEW told \in BOOLEAN, NEW sv \in Int,
         NEW cv, NEW text, ViewOf(P, s, E, told, sv, cv, text), s.sv \in Int,
         \A q \in P : q.sv \in Int, \A q \in P \ {m} : m.sv < q.sv, cv # s.cv
  PROVE  ViewOf(P \ {m}, s, E, TRUE, sv, cv, text)
<1>. DEFINE Q == P \ {m}
<1>1. /\ sv <= s.sv
      /\ \A q \in P : q.cv = s.cv /\ sv < q.sv /\ q.sv <= s.sv
      /\ \A q \in P : Latest(P, q) => q.sv = s.sv /\ q.to = s.text
      /\ \A q, r \in P : NextTo(P, q, r) => q.to = r.from
  BY DEF ViewOf
<1>3. \A q \in Q : Latest(Q, q) => q.sv = s.sv /\ q.to = s.text
  <2>. SUFFICES ASSUME NEW q \in Q, Latest(Q, q) PROVE Latest(P, q)
    BY <1>1
  <2>1. m.sv <= q.sv
    OBVIOUS
  <2>. QED  BY <2>1 DEF Latest
<1>4. \A q, r \in Q : NextTo(Q, q, r) => q.to = r.from
  <2>. SUFFICES ASSUME NEW q \in Q, NEW r \in Q, NextTo(Q, q, r) PROVE NextTo(P, q, r)
    BY <1>1
  <2>1. m.sv <= q.sv
    OBVIOUS
  <2>. QED  BY <2>1 DEF NextTo
<1>5. sv < s.sv
  BY <1>1
<1>6. Q # {} => \E q \in Q : Latest(Q, q)
  <2>1. \E q \in P : Latest(P, q)
    BY DEF ViewOf
  <2>. QED  BY <2>1, LatestStays
<1>. QED  BY <1>1, <1>3, <1>4, <1>5, <1>6 DEF ViewOf

-----------------------------------------------------------------------------
\* Steps that no editor sees.

LEMMA EditsKnown ==
  ASSUME TypeInv, NEW e \in EditsOut
  PROVE  /\ e \in ServerMsg /\ e.kind = "edit" /\ e.sv \in Versions /\ e.cv \in 0..MaxEdits
         /\ e.from \in AnyText /\ e.to \in AnyText
         /\ \E i \in DOMAIN toServer : toServer[i] = e
<1>1. e.kind = "edit" /\ \E i \in DOMAIN toServer : toServer[i] = e
  BY DEF EditsOut, ToSet
<1>2. e \in ServerMsg
  BY <1>1, TypesNow
<1>. QED  BY <1>1, <1>2, ServerKinds

LEMMA NoCalmEdits ==
  ASSUME TypeInv, CalmAfter(0)
  PROVE  EditsOut = {}
<1>1. \A i \in DOMAIN toServer : i > 0
  <2>1. DOMAIN toServer = 1..Len(toServer) /\ Len(toServer) \in Nat
    BY TypesNow
  <2>. QED  BY <2>1
<1>. QED  BY <1>1 DEF CalmAfter, EditsOut, ToSet

LEMMA PushesKnown ==
  ASSUME TypeInv, NEW k \in Nat, NEW p \in Pushes(k)
  PROVE  /\ p \in ClientMsg /\ p.kind = "push" /\ p.sv \in Versions /\ p.cv \in 0..MaxEdits
         /\ p.from \in AnyText /\ p.to \in AnyText
         /\ \E i \in DOMAIN toClient : i > k /\ toClient[i] = p
<1>1. p.kind = "push" /\ \E i \in DOMAIN toClient : i > k /\ toClient[i] = p
  BY DEF Pushes, After
<1>2. p \in ClientMsg
  BY <1>1, TypesNow
<1>. QED  BY <1>1, <1>2, ClientKinds

\* Answers to saves are sent.
LEMMA SavedSent ==
  ASSUME TypeInv, NEW u \in Seq(ClientMsg), \A i \in DOMAIN u : u[i].kind = "saved",
         toClient' = toClient \o u, used'.opens = used.opens
  PROVE  /\ \A k \in Nat : k <= Len(toClient) => Pushes(k)' = Pushes(k)
         /\ After(0)' = After(0) \union ToSet(u)
         /\ AnswerAt' = AnswerAt
         /\ \A i \in AnswerAt : i \in Nat /\ i <= Len(toClient) /\ toClient'[i] = toClient[i]
         /\ PushesInOrder => PushesInOrder'
         /\ \A i \in DOMAIN toClient' : \/ i \in DOMAIN toClient /\ toClient'[i] = toClient[i]
                                        \/ toClient'[i].kind = "saved"
<1>1. /\ Len(toClient) \in Nat /\ DOMAIN toClient = 1..Len(toClient)
      /\ \A k \in Nat : k <= Len(toClient) => After(k)' = After(k) \union ToSet(u)
      /\ \A i \in DOMAIN toClient : i \in DOMAIN toClient' /\ toClient'[i] = toClient[i]
      /\ \A i \in DOMAIN toClient' :
           i \in DOMAIN toClient \/ \E j \in DOMAIN u : i = Len(toClient) + j
                                                       /\ toClient'[i] = u[j]
  <2>1. ClientMsg \subseteq ClientMsg /\ u \in Seq(ClientMsg) /\ toClient' = toClient \o u
    OBVIOUS
  <2>. QED  BY ONLY TypeInv, <2>1, AfterSent
<1>2. \A i \in DOMAIN toClient' : \/ i \in DOMAIN toClient /\ toClient'[i] = toClient[i]
                                  \/ toClient'[i].kind = "saved"
  BY <1>1
<1>3. \A m \in ToSet(u) : m.kind = "saved"
  BY DEF ToSet
<1>4. \A k \in Nat : k <= Len(toClient) => Pushes(k)' = Pushes(k)
  BY <1>1, <1>3 DEF Pushes
<1>5. AnswerAt' = AnswerAt
  BY <1>1, <1>2 DEF AnswerAt
<1>6. \A i \in AnswerAt : i \in Nat /\ i <= Len(toClient) /\ toClient'[i] = toClient[i]
  BY <1>1 DEF AnswerAt
<1>7. PushesInOrder => PushesInOrder'
  BY <1>2 DEF PushesInOrder
<1>8. After(0)' = After(0) \union ToSet(u)
  BY <1>1
<1>. QED  BY <1>2, <1>4, <1>5, <1>6, <1>7, <1>8

\* The daemon does something to the file, or to its notes of it.
LEMMA Steady ==
  ASSUME TypeInv, TextsInv,
         client' = client, tasks' = tasks, toServer' = toServer,
         used'.opens = used.opens, used'.edits = used.edits,
         NEW u \in Seq(ClientMsg), \A i \in DOMAIN u : u[i].kind = "saved",
         toClient' = toClient \o u,
         server'.text = server.text, server'.sv = server.sv, server'.cv = server.cv,
         server'.writer = server.writer, server'.waiting = server.waiting,
         server'.base = 0 <=> server.base = 0
  PROVE  SessionInv' /\ Ids' /\ EditsInOrder' /\ PushesInOrder' /\ Waits' /\ Shows'
<1>1. /\ \A k \in Nat : k <= Len(toClient) => Pushes(k)' = Pushes(k)
      /\ AnswerAt' = AnswerAt
      /\ \A i \in AnswerAt : i \in Nat /\ i <= Len(toClient) /\ toClient'[i] = toClient[i]
      /\ PushesInOrder => PushesInOrder'
      /\ \A i \in DOMAIN toClient' : \/ i \in DOMAIN toClient /\ toClient'[i] = toClient[i]
                                     \/ toClient'[i].kind = "saved"
  BY SavedSent
<1>2. /\ EditsOut' = EditsOut /\ OpenTasks' = OpenTasks /\ OpenAt' = OpenAt
      /\ WaitAt' = WaitAt /\ \A n : CalmAfter(n)' <=> CalmAfter(n)
  BY DEF EditsOut, OpenTasks, OpenAt, WaitAt, CalmAfter
<1>3. SessionInv'
  BY DEF TextsInv, SessionInv
<1>4. Ids'
  BY <1>1 DEF TextsInv, Ids
<1>5. EditsInOrder'
  BY <1>2 DEF TextsInv, EditsInOrder
<1>6. client.conflict \in BOOLEAN /\ Len(toClient) \in Nat
  BY TypesNow DEF ClientBuffer
<1>7. ASSUME NEW k \in Nat, k <= Len(toClient), NEW sv, NEW cv, NEW text,
             View(Pushes(k), sv, cv, text)
      PROVE  ViewOf(Pushes(k), server', EditsOut, client.conflict, sv, cv, text)
  <2>1. ViewOf(Pushes(k), server, EditsOut, client.conflict, sv, cv, text)
    BY <1>7 DEF View
  <2>. QED  BY <2>1 DEF ViewOf
<1>8. Waits'
  <2>. SUFFICES ASSUME client.file # 0, ~client.loaded PROVE Waits'
    BY DEF Waits
  <2>1. ASSUME NEW i \in AnswerAt, toClient[i].kind = "opened"
        PROVE  /\ server.writer /\ server.base # 0
               /\ ViewOf(Pushes(i), server', EditsOut, client.conflict, toClient[i].sv, 0,
                         toClient[i].text)
    BY <1>1, <1>7, <2>1 DEF TextsInv, Waits
  <2>2. \A i \in AnswerAt : Pushes(i)' = Pushes(i)
    BY <1>1
  <2>3. ASSUME NEW i \in AnswerAt, toClient'[i].kind = "opened"
        PROVE  /\ server'.writer /\ server'.base # 0
               /\ View(Pushes(i), toClient[i].sv, 0, toClient[i].text)'
    BY <1>1, <1>2, <2>1, <2>2, <2>3 DEF View
  <2>. QED  BY <1>1, <1>2, <2>3 DEF TextsInv, Waits
<1>9. Shows'
  <2>. SUFFICES ASSUME client.loaded PROVE Shows'
    BY DEF Shows
  <2>1. ViewOf(Pushes(0), server', EditsOut, client.conflict, client.sv, client.cv, client.text)
    BY <1>6, <1>7 DEF TextsInv, Shows
  <2>2. Pushes(0)' = Pushes(0)
    BY <1>1, <1>6
  <2>. QED  BY <1>1, <1>2, <2>1, <2>2 DEF TextsInv, Shows, View
<1>. QED  BY <1>1, <1>3, <1>4, <1>5, <1>8, <1>9 DEF TextsInv

\* Nothing is sent to the client.
LEMMA Unsent == toClient \in Seq(ClientMsg) =>
  \E u \in Seq(ClientMsg) : toClient = toClient \o u /\ \A i \in DOMAIN u : u[i].kind = "saved"
<1>. SUFFICES ASSUME toClient \in Seq(ClientMsg)
              PROVE  \E u \in Seq(ClientMsg) : /\ toClient = toClient \o u
                                               /\ \A i \in DOMAIN u : u[i].kind = "saved"
  OBVIOUS
<1>1. <<>> \in Seq(ClientMsg) /\ toClient = toClient \o <<>>
  OBVIOUS
<1>2. DOMAIN <<>> = {}
  OBVIOUS
<1>. QED  BY <1>1, <1>2

LEMMA LoadReadsTexts ==
  ASSUME TypeInv, TextsInv, LoadReads
  PROVE  TextsInv'
<1>. USE TypesNow
<1>1. /\ server'.text = server.text /\ server'.sv = server.sv /\ server'.cv = server.cv
      /\ server'.writer = server.writer /\ server'.waiting = server.waiting
      /\ server'.base = server.base /\ server'.fileVersion = server.fileVersion
      /\ server'.version = server.version /\ server'.diff = server.diff
      /\ server'.saves = server.saves /\ server'.tracked = server.tracked
      /\ server'.loading = "read" /\ server'.read = disk /\ server.loading = "reading"
  BY DEF LoadReads, ServerBuffer
<1>2. Clean'
  BY <1>1 DEF LoadReads, TextsInv, Clean, EditsOut, After
<1>3. ServerInv'
  BY <1>1 DEF LoadReads, TextsInv, ServerInv
<1>4. PICK u \in Seq(ClientMsg) :
        toClient = toClient \o u /\ \A i \in DOMAIN u : u[i].kind = "saved"
  BY Unsent
<1>5. SessionInv' /\ Ids' /\ EditsInOrder' /\ PushesInOrder' /\ Waits' /\ Shows'
  BY <1>1, <1>4, Steady DEF LoadReads
<1>. QED  BY <1>2, <1>3, <1>5 DEF TextsInv

\* Steps that leave the buffers and the messages alone.
LEMMA FileTexts ==
  ASSUME TypeInv, TextsInv, UNCHANGED <<client, server, tasks, toServer, toClient, asked>>,
         used'.opens = used.opens, used'.edits = used.edits,
         disk' # Garbled, Garbled \notin reloads',
         \A w \in writes' : \E x \in writes : w.text = x.text /\ w.version = x.version
  PROVE  TextsInv'
<1>1. Clean'
  BY DEF TextsInv, Clean, EditsOut, After
<1>2. ServerInv'
  BY DEF TextsInv, ServerInv
<1>3. PICK u \in Seq(ClientMsg) :
        toClient = toClient \o u /\ \A i \in DOMAIN u : u[i].kind = "saved"
  BY Unsent, TypesNow
<1>4. SessionInv' /\ Ids' /\ EditsInOrder' /\ PushesInOrder' /\ Waits' /\ Shows'
  BY <1>3, Steady
<1>. QED  BY <1>1, <1>2, <1>4 DEF TextsInv

LEMMA SaveWritesTexts ==
  ASSUME TypeInv, TextsInv, NEW w \in writes, SaveWrites(w)
  PROVE  TextsInv'
<1>1. /\ disk' = w.text /\ reloads' = reloads
      /\ writes' = (writes \ {w}) \union {[w EXCEPT !.written = TRUE]}
  BY DEF SaveWrites, FileWritten
<1>2. w \in WriteTask
  BY TypesNow
<1>3. [w EXCEPT !.written = TRUE].text = w.text /\ [w EXCEPT !.written = TRUE].version = w.version
  BY <1>2 DEF WriteTask
<1>4. disk' # Garbled /\ Garbled \notin reloads'
  BY <1>1 DEF TextsInv, Clean
<1>5. \A x \in writes' : \E y \in writes : x.text = y.text /\ x.version = y.version
  BY <1>1, <1>3
<1>. QED  BY <1>4, <1>5, FileTexts DEF SaveWrites

LEMMA ExternalTexts ==
  ASSUME TypeInv, TextsInv, NEW text \in Texts, ExternalWrite(text)
  PROVE  TextsInv'
<1>1. disk' # Garbled /\ Garbled \notin reloads'
  BY BufferAssumption DEF ExternalWrite, FileWritten, TextsInv, Clean
<1>2. used'.opens = used.opens /\ used'.edits = used.edits
  BY TypesNow DEF ExternalWrite
<1>. QED  BY <1>1, <1>2, FileTexts DEF ExternalWrite

LEMMA WatcherTexts ==
  ASSUME TypeInv, TextsInv, WatcherReads
  PROVE  TextsInv'
<1>1. disk' # Garbled /\ Garbled \notin reloads'
  BY DEF WatcherReads, TextsInv, Clean
<1>. QED  BY <1>1, FileTexts DEF WatcherReads

LEMMA FileUpdatedTexts ==
  ASSUME TypeInv, TextsInv, NEW text \in reloads, FileUpdated(text)
  PROVE  TextsInv'
<1>. USE TypesNow
<1>1. text # Garbled /\ Garbled \notin reloads'
  BY DEF TextsInv, Clean, FileUpdated
<1>2. CASE ~Watched
  <2>1. disk' # Garbled
    BY DEF FileUpdated, TextsInv, Clean
  <2>. QED  BY <1>1, <1>2, <2>1, FileTexts DEF FileUpdated
<1>3. CASE Watched
  <2>. DEFINE d == [from |-> server.text, to |-> text, base |-> server.version,
                    version |-> issued + 1]
  <2>1. PICK D \in {{d}, {}} : /\ issued' = issued + 1
                               /\ server' = [server EXCEPT !.fileVersion = issued + 1, !.diff = D]
    BY <1>3 DEF FileUpdated, LatestParse
  <2>2. \A x \in D : /\ x.from = server.text /\ x.to = text /\ x.base = server.version
                     /\ x.version = issued + 1
    OBVIOUS
  <2>. HIDE DEF d
  <2>3. /\ server'.text = server.text /\ server'.sv = server.sv /\ server'.cv = server.cv
        /\ server'.writer = server.writer /\ server'.waiting = server.waiting
        /\ server'.base = server.base /\ server'.fileVersion = issued + 1
        /\ server'.version = server.version /\ server'.diff = D
        /\ server'.saves = server.saves /\ server'.tracked = server.tracked
        /\ server'.loading = server.loading /\ server'.read = server.read
    BY <2>1 DEF ServerBuffer
  <2>4. server.base # 0
    BY <1>3 DEF TextsInv, ServerInv, Watched
  <2>5. issued + 1 # 0
    OBVIOUS
  <2>6. Clean'
    BY <1>1, <2>2, <2>3 DEF FileUpdated, TextsInv, Clean, EditsOut, After
  <2>7. ServerInv'
    BY <2>2, <2>3, <2>4, <2>5 DEF FileUpdated, TextsInv, ServerInv
  <2>8. PICK u \in Seq(ClientMsg) :
          toClient = toClient \o u /\ \A i \in DOMAIN u : u[i].kind = "saved"
    BY Unsent
  <2>9. SessionInv' /\ Ids' /\ EditsInOrder' /\ PushesInOrder' /\ Waits' /\ Shows'
    BY <2>3, <2>8, Steady DEF FileUpdated
  <2>. QED  BY <2>6, <2>7, <2>9 DEF TextsInv
<1>. QED  BY <1>2, <1>3

\* No editor sees a buffer that has no writer.
LEMMA Unwatched ==
  ASSUME TypeInv, TextsInv, ~server.writer \/ server.base = 0
  PROVE  /\ ~client.loaded
         /\ \A i \in DOMAIN toServer : toServer[i].kind # "edit"
         /\ EditsOut = {}
         /\ \A i \in AnswerAt : client.file # 0 => toClient[i].kind # "opened"
<1>1. ~client.loaded
  BY DEF TextsInv, Shows
<1>2. \A i \in DOMAIN toServer : toServer[i].kind # "edit"
  BY DEF TextsInv, SessionInv
<1>3. EditsOut = {}
  BY <1>2 DEF EditsOut, ToSet
<1>4. \A i \in AnswerAt : client.file # 0 => toClient[i].kind # "opened"
  BY <1>1 DEF TextsInv, Waits
<1>. QED  BY <1>1, <1>2, <1>3, <1>4

\* The daemon drops a buffer.
LEMMA DroppedTexts ==
  ASSUME TypeInv, TextsInv, ~server.writer, server' = Untracked,
         UNCHANGED <<client, disk, reloads, tasks, toServer, used>>,
         writes' \subseteq writes,
         NEW u \in Seq(ClientMsg), \A i \in DOMAIN u : u[i].kind = "saved",
         toClient' = toClient \o u
  PROVE  TextsInv'
<1>1. /\ server'.text = Empty /\ server'.version = 0 /\ server'.base = 0
      /\ server'.fileVersion = 0 /\ server'.sv = 0 /\ server'.cv = 0
      /\ server'.waiting = <<>> /\ server'.read = Empty /\ server'.diff = {}
      /\ server'.saves = <<>> /\ server'.tracked = FALSE /\ server'.loading = "no"
      /\ server'.writer = FALSE
  BY DEF Untracked
<1>2. /\ After(0)' = After(0) \union ToSet(u) /\ AnswerAt' = AnswerAt
      /\ \A i \in AnswerAt : toClient'[i] = toClient[i]
      /\ PushesInOrder'
      /\ \A i \in DOMAIN toClient' : \/ i \in DOMAIN toClient /\ toClient'[i] = toClient[i]
                                     \/ toClient'[i].kind = "saved"
  BY SavedSent DEF TextsInv
<1>3. /\ ~client.loaded
      /\ \A i \in DOMAIN toServer : toServer[i].kind # "edit"
      /\ EditsOut = {}
      /\ \A i \in AnswerAt : client.file # 0 => toClient[i].kind # "opened"
  BY Unwatched
<1>4. /\ EditsOut' = {} /\ OpenTasks' = OpenTasks /\ OpenAt' = OpenAt /\ WaitAt' = {}
      /\ \A n : CalmAfter(n)' <=> CalmAfter(n)
  BY <1>1, <1>3 DEF EditsOut, OpenTasks, OpenAt, WaitAt, CalmAfter
<1>5. Clean'
  <2>1. \A m \in ToSet(u) : m.kind = "saved"
    BY DEF ToSet
  <2>. QED  BY <1>1, <1>2, <1>4, <2>1, BufferAssumption DEF TextsInv, Clean
<1>6. ServerInv'
  BY <1>1 DEF TextsInv, ServerInv
<1>7. SessionInv'
  BY <1>3 DEF SessionInv
<1>8. Ids'
  BY <1>1, <1>2 DEF TextsInv, Ids
<1>9. EditsInOrder'
  <2>1. used.edits \in Nat
    BY TypesNow
  <2>. QED  BY <1>1, <1>3, <1>4, <2>1 DEF EditsInOrder
<1>10. Waits'
  BY <1>2, <1>3, <1>4 DEF TextsInv, Waits
<1>11. Shows'
  BY <1>3 DEF Shows
<1>. QED  BY <1>2, <1>5, <1>6, <1>7, <1>8, <1>9, <1>10, <1>11 DEF TextsInv

LEMMA SaveEndsTexts ==
  ASSUME TypeInv, Blank, TextsInv, NEW w \in writes, NEW ok \in BOOLEAN, SaveEnds(w, ok),
         UNCHANGED <<client, disk, reloads, tasks, toServer, used>>
  PROVE  TextsInv'
<1>. USE TypesNow
<1>1. CASE server.saves # <<>> /\ Head(server.saves).save = w.save
  <2>. DEFINE done == IF ok THEN [server EXCEPT !.base = w.version,
                                                !.fileVersion = w.version]
                      ELSE server
              rest == Tail(server.saves)
              s == [done EXCEPT !.saves = rest]
              a == SaveAnswer(Head(server.saves), ok, w.text)
              u == <<a>>
  <2>1. server.saves \in Seq(SaveRequest) /\ w.text \in AnyText
    BY DEF ServerBuffer, WriteTask
  <2>2. Head(server.saves) \in SaveRequest
    BY <1>1, <2>1, Beheaded
  <2>3. /\ server' = CleanedUpIfIdle(s)
        /\ writes' = (writes \ {w}) \union Promoted(rest)
        /\ toClient' = toClient \o u
    BY <1>1 DEF SaveEnds, Send
  <2>4. a \in ClientMsg /\ a.kind = "saved"
    <3>1. a \in ClientMsg
      BY <2>1, <2>2, AnswerType
    <3>2. a.kind = "saved"
      BY DEF SaveAnswer
    <3>. QED  BY <3>1, <3>2
  <2>. HIDE DEF rest, a
  <2>5. u \in Seq(ClientMsg) /\ \A i \in DOMAIN u : u[i].kind = "saved"
    BY <2>4
  <2>6. /\ done.text = server.text /\ done.sv = server.sv /\ done.cv = server.cv
        /\ done.writer = server.writer /\ done.waiting = server.waiting
        /\ done.version = server.version /\ done.diff = server.diff
        /\ done.tracked = server.tracked /\ done.loading = server.loading
        /\ done.read = server.read /\ done \in ServerBuffer
        /\ \/ done.base = server.base /\ done.fileVersion = server.fileVersion
           \/ done.base = w.version /\ done.fileVersion = w.version
    <3>1. w.version \in Versions
      BY DEF WriteTask
    <3>2. CASE ok
      <4>1. done = [server EXCEPT !.base = w.version, !.fileVersion = w.version]
        BY <3>2
      <4>. HIDE DEF done
      <4>. QED  BY <3>1, <4>1 DEF ServerBuffer
    <3>3. CASE ~ok
      <4>1. done = server
        BY <3>3
      <4>. HIDE DEF done
      <4>. QED  BY <4>1 DEF ServerBuffer
    <3>. QED  BY <3>2, <3>3
  <2>7. server.base # 0 /\ w.version # 0
    BY <1>1 DEF TextsInv, ServerInv
  <2>. HIDE DEF done
  <2>8. /\ s.text = server.text /\ s.sv = server.sv /\ s.cv = server.cv
        /\ s.writer = server.writer /\ s.waiting = server.waiting
        /\ s.version = server.version /\ s.diff = server.diff
        /\ s.tracked = server.tracked /\ s.loading = server.loading
        /\ s.read = server.read /\ s.saves = rest
        /\ s.base # 0 /\ s.fileVersion # 0
    <3>1. server.fileVersion # 0
      BY <2>7 DEF TextsInv, ServerInv
    <3>. QED  BY <2>6, <2>7, <3>1 DEF ServerBuffer
  <2>. HIDE DEF s
  <2>9. CASE ~s.writer /\ s.saves = <<>>
    <3>1. server' = Untracked /\ writes' \subseteq writes
      BY <2>3, <2>8, <2>9 DEF CleanedUpIfIdle, Promoted
    <3>. HIDE DEF u
    <3>. QED  BY <2>3, <2>5, <2>8, <2>9, <3>1, DroppedTexts
  <2>10. CASE ~(~s.writer /\ s.saves = <<>>)
    <3>1. server' = s
      BY <2>3, <2>10 DEF CleanedUpIfIdle
    <3>2. \A x \in writes' : x \in writes \/ (x.text = server.text /\ x.version = server.version)
      <4>. DEFINE b == StartSave(Head(rest))
      <4>1. b.text = server.text /\ b.version = server.version
        BY DEF StartSave
      <4>2. Promoted(rest) \subseteq {b}
        BY DEF Promoted
      <4>. HIDE DEF b
      <4>. QED  BY <2>3, <4>1, <4>2
    <3>3. server.tracked
      BY <1>1, UntrackedFields DEF Blank
    <3>4. server.text # Garbled /\ server.version # 0
      BY <3>3 DEF TextsInv, Clean, ServerInv
    <3>5. Clean'
      <4>. HIDE DEF u
      <4>1. After(0)' = After(0) \union ToSet(u)
        BY <2>3, <2>5, SavedSent
      <4>2. \A m \in ToSet(u) : m.kind = "saved"
        BY <2>5 DEF ToSet
      <4>3. EditsOut' = EditsOut
        BY DEF EditsOut
      <4>. QED  BY <2>8, <3>1, <3>2, <3>4, <4>1, <4>2, <4>3 DEF TextsInv, Clean
    <3>6. ServerInv'
      BY <2>7, <2>8, <3>1, <3>2, <3>4 DEF TextsInv, ServerInv
    <3>7. SessionInv' /\ Ids' /\ EditsInOrder' /\ PushesInOrder' /\ Waits' /\ Shows'
      <4>. HIDE DEF u
      <4>. QED  BY <2>3, <2>5, <2>7, <2>8, <3>1, Steady
    <3>. QED  BY <3>5, <3>6, <3>7 DEF TextsInv
  <2>. QED  BY <2>9, <2>10
<1>2. CASE ~(server.saves # <<>> /\ Head(server.saves).save = w.save)
  <2>1. writes' = writes \ {w} /\ server' = server /\ toClient' = toClient
    BY <1>2 DEF SaveEnds
  <2>2. disk' # Garbled /\ Garbled \notin reloads'
    BY DEF TextsInv, Clean
  <2>3. Clean'
    BY <2>1 DEF TextsInv, Clean, EditsOut, After
  <2>4. ServerInv'
    BY <2>1 DEF TextsInv, ServerInv
  <2>5. PICK u \in Seq(ClientMsg) :
          toClient = toClient \o u /\ \A i \in DOMAIN u : u[i].kind = "saved"
    BY Unsent
  <2>6. SessionInv' /\ Ids' /\ EditsInOrder' /\ PushesInOrder' /\ Waits' /\ Shows'
    BY <2>1, <2>5, Steady
  <2>. QED  BY <2>3, <2>4, <2>6 DEF TextsInv
<1>. QED  BY <1>1, <1>2

LEMMA SaveRunsTexts ==
  ASSUME TypeInv, Blank, TextsInv, NEW s \in Saves, SaveRuns(s)
  PROVE  TextsInv'
<1>1. PICK w \in writes : SaveWrites(w) \/ FileSaved(w) \/ FailedToSave(w)
  BY DEF SaveRuns
<1>2. CASE FileSaved(w)
  BY <1>2, SaveEndsTexts DEF FileSaved
<1>3. CASE FailedToSave(w)
  BY <1>3, SaveEndsTexts DEF FailedToSave
<1>. QED  BY <1>1, <1>2, <1>3, SaveWritesTexts

-----------------------------------------------------------------------------
\* The buffer is loaded, or is not.

(* Those that wait for the buffer are answered, and then saves that fail: no message
   with a later answer in front of it is disturbed. *)
LEMMA LoadAnswers ==
  ASSUME TypeInv, TextsInv, server.base = 0,
         NEW u \in Seq(ClientMsg), toClient' = toClient \o u, used' = used,
         NEW kind \in {"opened", "open_failed"},
         \A i \in DOMAIN u : /\ u[i].kind \in {kind, "saved"}
                             /\ u[i].kind = kind => /\ i \in DOMAIN server.waiting
                                                    /\ u[i].file = server.waiting[i]
  PROVE  /\ \A i \in DOMAIN toClient' :
              \/ i \in DOMAIN toClient /\ toClient'[i] = toClient[i]
              \/ \E j \in DOMAIN u : i = Len(toClient) + j /\ toClient'[i] = u[j]
         /\ After(0)' = After(0) \union ToSet(u)
         /\ PushesInOrder'
         /\ \A i \in DOMAIN toClient' \ DOMAIN toClient : Pushes(i)' = {}
         /\ AnswerAt \subseteq AnswerAt'
         /\ \A i \in AnswerAt' : \/ i \in AnswerAt /\ toClient'[i] = toClient[i]
                                 \/ /\ i \notin DOMAIN toClient /\ toClient'[i].kind = kind
                                    /\ \E j \in WaitAt : i = Len(toClient) + j /\ j \in Int
                                                         /\ toClient'[i] = u[j]
<1>1. /\ Len(toClient) \in Nat /\ DOMAIN toClient = 1..Len(toClient)
      /\ \A k \in Nat : k <= Len(toClient) => After(k)' = After(k) \union ToSet(u)
      /\ \A i \in DOMAIN toClient : i \in DOMAIN toClient' /\ toClient'[i] = toClient[i]
      /\ \A i \in DOMAIN toClient' :
           i \in DOMAIN toClient \/ \E j \in DOMAIN u : i = Len(toClient) + j
                                                       /\ toClient'[i] = u[j]
      /\ \A j \in DOMAIN u : j \in Nat /\ j >= 1
  <2>1. ClientMsg \subseteq ClientMsg /\ u \in Seq(ClientMsg) /\ toClient' = toClient \o u
    OBVIOUS
  <2>. QED  BY ONLY TypeInv, <2>1, AfterSent
<1>2. \A i \in DOMAIN toClient' : \/ i \in DOMAIN toClient /\ toClient'[i] = toClient[i]
                                  \/ \E j \in DOMAIN u : i = Len(toClient) + j
                                                        /\ toClient'[i] = u[j]
  BY <1>1
<1>3. \A i \in DOMAIN u : u[i].kind # "push"
  OBVIOUS
<1>4. PushesInOrder'
  <2>1. \A i \in DOMAIN toClient' : toClient'[i].kind = "push" =>
          i \in DOMAIN toClient /\ toClient'[i] = toClient[i]
    BY <1>2, <1>3
  <2>. QED  BY <2>1 DEF TextsInv, PushesInOrder
<1>5. \A i \in DOMAIN toClient' \ DOMAIN toClient : Pushes(i)' = {}
  <2>. SUFFICES ASSUME NEW i \in DOMAIN toClient' \ DOMAIN toClient,
                       NEW j \in DOMAIN toClient', j > i
                PROVE  toClient'[j].kind # "push"
    BY DEF Pushes, After
  <2>1. i > Len(toClient)
    BY <1>1
  <2>2. j \notin DOMAIN toClient
    <3>1. i \in Int
      BY <1>1
    <3>. QED  BY <1>1, <2>1, <3>1
  <2>. QED  BY <1>2, <1>3, <2>2
<1>6. AnswerAt \subseteq AnswerAt'
  BY <1>1 DEF AnswerAt
<1>7. ASSUME NEW i \in AnswerAt', ~(i \in AnswerAt /\ toClient'[i] = toClient[i])
      PROVE  /\ i \notin DOMAIN toClient /\ toClient'[i].kind = kind
             /\ \E j \in WaitAt : i = Len(toClient) + j /\ j \in Int /\ toClient'[i] = u[j]
  <2>1. /\ i \in DOMAIN toClient' /\ toClient'[i].file = used.opens
        /\ toClient'[i].kind \in {"opened", "open_failed"}
    BY DEF AnswerAt
  <2>2. ~(i \in DOMAIN toClient /\ toClient'[i] = toClient[i])
    BY <1>7, <2>1 DEF AnswerAt
  <2>3. PICK j \in DOMAIN u : i = Len(toClient) + j /\ toClient'[i] = u[j]
    BY <1>2, <2>1, <2>2
  <2>4. u[j].kind = kind /\ j \in WaitAt
    BY <2>1, <2>3 DEF WaitAt
  <2>. QED  BY <1>1, <2>2, <2>3, <2>4
<1>8. After(0)' = After(0) \union ToSet(u)
  BY <1>1
<1>. QED  BY <1>2, <1>4, <1>5, <1>6, <1>7, <1>8

LEMMA FileLoadedTexts ==
  ASSUME TypeInv, Blank, TextsInv, FileLoaded
  PROVE  TextsInv'
<1>. USE TypesNow
<1>. DEFINE nobody == <<>>
            b == [server EXCEPT !.text = server.read, !.version = issued + 1,
                   !.base = issued + 1, !.fileVersion = issued + 1,
                   !.loading = "no", !.read = Empty, !.waiting = nobody]
            u == [i \in DOMAIN server.waiting |-> Opened(server.waiting[i], b)]
<1>1. /\ server' = b /\ toClient' = toClient \o u /\ server.loading = "read"
      /\ UNCHANGED <<client, disk, noticed, reloads, writes, tasks, toServer, used, asked>>
  BY DEF FileLoaded, Send
<1>2. server.base = 0 /\ server.diff = {} /\ server.saves = <<>> /\ server.tracked
  BY <1>1, UntrackedFields DEF TextsInv, ServerInv, Blank
<1>. HIDE DEF nobody
<1>3. /\ b.text = server.read /\ b.version = issued + 1 /\ b.base = issued + 1
      /\ b.fileVersion = issued + 1 /\ b.loading = "no" /\ b.read = Empty
      /\ b.waiting = nobody /\ b.diff = {} /\ b.saves = <<>> /\ b.tracked
      /\ b.sv = server.sv /\ b.cv = server.cv /\ b.writer = server.writer
  BY <1>2 DEF ServerBuffer
<1>. HIDE DEF b
<1>4. server.waiting \in Seq(Files) /\ server.sv \in Versions /\ server.read \in AnyText
  BY DEF ServerBuffer
<1>5. /\ u \in Seq(ClientMsg) /\ DOMAIN u = DOMAIN server.waiting
      /\ \A i \in DOMAIN u : /\ u[i].kind = "opened" /\ u[i].file = server.waiting[i]
                             /\ u[i].text = b.text /\ u[i].sv = b.sv
  <2>1. \A i \in DOMAIN server.waiting : Opened(server.waiting[i], b) \in ClientMsg
    BY <1>3, <1>4, OpenedType
  <2>2. u \in [DOMAIN server.waiting -> ClientMsg]
    BY <2>1
  <2>3. \A i \in DOMAIN u : /\ u[i].kind = "opened" /\ u[i].file = server.waiting[i]
                            /\ u[i].text = b.text /\ u[i].sv = b.sv
    BY DEF Opened
  <2>. HIDE DEF u
  <2>. QED  BY <1>4, <2>2, <2>3, Mapped
<1>. HIDE DEF u
<1>6. /\ \A i \in DOMAIN toClient' :
           \/ i \in DOMAIN toClient /\ toClient'[i] = toClient[i]
           \/ \E j \in DOMAIN u : i = Len(toClient) + j /\ toClient'[i] = u[j]
      /\ After(0)' = After(0) \union ToSet(u)
      /\ PushesInOrder'
      /\ \A i \in DOMAIN toClient' \ DOMAIN toClient : Pushes(i)' = {}
      /\ \A i \in AnswerAt' : \/ i \in AnswerAt /\ toClient'[i] = toClient[i]
                              \/ /\ i \notin DOMAIN toClient /\ toClient'[i].kind = "opened"
                                 /\ \E j \in WaitAt : i = Len(toClient) + j /\ j \in Int
                                                      /\ toClient'[i] = u[j]
  <2>1. \A i \in DOMAIN u : /\ u[i].kind \in {"opened", "saved"}
                            /\ u[i].kind = "opened" => /\ i \in DOMAIN server.waiting
                                                       /\ u[i].file = server.waiting[i]
    BY <1>5
  <2>2. used' = used
    BY <1>1
  <2>. QED  BY <1>1, <1>2, <1>5, <2>1, <2>2, LoadAnswers
<1>7. /\ ~client.loaded
      /\ \A i \in DOMAIN toServer : toServer[i].kind # "edit"
      /\ EditsOut = {}
      /\ \A i \in AnswerAt : client.file # 0 => toClient[i].kind # "opened"
  BY <1>2, Unwatched
<1>8. /\ EditsOut' = {} /\ OpenTasks' = OpenTasks /\ OpenAt' = OpenAt /\ WaitAt' = {}
      /\ \A n : CalmAfter(n)' <=> CalmAfter(n)
  BY <1>1, <1>3, <1>7 DEF EditsOut, OpenTasks, OpenAt, WaitAt, CalmAfter, nobody
<1>9. Clean'
  <2>1. \A m \in ToSet(u) : m.kind = "opened" /\ m.text = server.read
    BY <1>3, <1>5 DEF ToSet
  <2>. QED  BY <1>1, <1>3, <1>6, <1>8, <2>1, BufferAssumption DEF TextsInv, Clean
<1>10. ServerInv'
  <2>1. issued + 1 # 0
    OBVIOUS
  <2>. QED  BY <1>1, <1>3, <2>1 DEF TextsInv, ServerInv, nobody
<1>11. SessionInv'
  BY <1>1, <1>7 DEF SessionInv
<1>12. Ids'
  <2>1. \A i \in DOMAIN toClient' :
          toClient'[i].kind \in {"opened", "open_failed"} => toClient'[i].file <= used.opens
    <3>1. ASSUME NEW j \in DOMAIN u, u[j].kind = "opened"
          PROVE  u[j].file <= used.opens
      BY <1>5, <3>1 DEF TextsInv, Ids
    <3>2. \A j \in DOMAIN u : u[j].kind \in {"opened", "open_failed"} => u[j].kind = "opened"
      BY <1>5
    <3>. QED  BY <1>6, <3>1, <3>2 DEF TextsInv, Ids
  <2>2. server'.waiting = <<>>
    BY <1>1, <1>3 DEF nobody
  <2>. QED  BY <1>1, <2>1, <2>2 DEF TextsInv, Ids
<1>13. EditsInOrder'
  <2>1. server'.cv = server.cv
    BY <1>1, <1>3
  <2>. QED  BY <1>1, <1>7, <1>8, <2>1 DEF TextsInv, EditsInOrder
<1>14. Waits'
  <2>. SUFFICES ASSUME client.file # 0, ~client.loaded PROVE Waits'
    BY <1>1 DEF Waits
  <2>1. ASSUME NEW i \in AnswerAt', i \notin AnswerAt
        PROVE  /\ server'.writer /\ server'.base # 0 /\ CalmAfter(0) /\ AnswerAt = {}
               /\ \E j \in WaitAt : i = Len(toClient) + j
               /\ View(Pushes(i), toClient[i].sv, 0, toClient[i].text)'
    <3>1. PICK j \in WaitAt : i = Len(toClient) + j /\ j \in Int /\ toClient'[i] = u[j]
      BY <1>6, <2>1
    <3>2. server.writer /\ CalmAfter(0) /\ AnswerAt = {}
      BY DEF TextsInv, Waits
    <3>3. i \in DOMAIN toClient' \ DOMAIN toClient
      BY <1>6, <2>1 DEF AnswerAt
    <3>4. Pushes(i)' = {}
      BY <1>6, <3>3
    <3>5. j \in DOMAIN u
      BY <1>5 DEF WaitAt
    <3>6. toClient'[i].sv = server'.sv /\ toClient'[i].text = server'.text
      BY <1>1, <1>5, <3>1, <3>5
    <3>7. server'.sv <= server'.sv
      BY <1>1, <1>3, <1>4 DEF Versions
    <3>8. View(Pushes(i), toClient[i].sv, 0, toClient[i].text)'
      BY <3>4, <3>6, <3>7 DEF View, ViewOf
    <3>9. server'.base # 0
      BY <1>1, <1>3
    <3>. QED  BY <1>1, <1>3, <3>1, <3>2, <3>8, <3>9
  <2>2. ASSUME NEW i \in AnswerAt', i \in AnswerAt
        PROVE  toClient'[i].kind # "opened" /\ CalmAfter(0)
    <3>1. i \in DOMAIN toClient
      BY <2>2 DEF AnswerAt
    <3>. QED  BY <1>6, <1>7, <2>2, <3>1 DEF TextsInv, Waits
  <2>3. \A i, j \in AnswerAt' : i = j
    <3>1. \A i, j \in WaitAt : i = j
      BY DEF TextsInv, Waits
    <3>2. \A i, j \in AnswerAt : i = j
      BY DEF TextsInv, Waits
    <3>. QED  BY <2>1, <3>1, <3>2
  <2>4. OpenTasks # {} \/ OpenAt # {} => AnswerAt' = {}
    <3>1. OpenTasks # {} \/ OpenAt # {} => AnswerAt = {} /\ WaitAt = {}
      BY DEF TextsInv, Waits
    <3>. QED  BY <2>1, <3>1
  <2>5. \A i \in OpenAt : CalmAfter(i) /\ \A j \in OpenAt : i = j
    BY DEF TextsInv, Waits
  <2>6. OpenTasks # {} => OpenAt = {}
    BY DEF TextsInv, Waits
  <2>. QED  BY <1>1, <1>8, <2>1, <2>2, <2>3, <2>4, <2>5, <2>6 DEF Waits
<1>15. Shows'
  BY <1>1, <1>7 DEF Shows
<1>. QED  BY <1>6, <1>9, <1>10, <1>11, <1>12, <1>13, <1>14, <1>15 DEF TextsInv

LEMMA FailedToLoadTexts ==
  ASSUME TypeInv, TextsInv, FailedToLoad
  PROVE  TextsInv'
<1>. USE TypesNow
<1>. DEFINE failed == [i \in DOMAIN server.waiting |-> OpenFailed(server.waiting[i])]
            unsaved == [i \in DOMAIN server.saves |->
                          SaveAnswer(server.saves[i], FALSE, Empty)]
            u == failed \o unsaved
<1>1. /\ server' = Untracked /\ toClient' = toClient \o u /\ server.loading = "reading"
      /\ UNCHANGED <<client, disk, noticed, reloads, writes, tasks, toServer, used, asked>>
  BY DEF FailedToLoad, Send
<1>2. server.base = 0
  BY <1>1 DEF TextsInv, ServerInv
<1>3. /\ server'.text = Empty /\ server'.version = 0 /\ server'.base = 0
      /\ server'.fileVersion = 0 /\ server'.sv = 0 /\ server'.cv = 0
      /\ server'.waiting = <<>> /\ server'.read = Empty /\ server'.diff = {}
      /\ server'.saves = <<>> /\ server'.tracked = FALSE /\ server'.loading = "no"
      /\ server'.writer = FALSE
  BY <1>1 DEF Untracked
<1>4. server.waiting \in Seq(Files) /\ server.saves = <<>>
  BY <1>2 DEF ServerBuffer, TextsInv, ServerInv
<1>5. /\ u \in Seq(ClientMsg)
      /\ \A i \in DOMAIN u : /\ u[i].kind = "open_failed" /\ i \in DOMAIN server.waiting
                             /\ u[i].file = server.waiting[i]
  <2>1. \A f \in Files : OpenFailed(f) \in ClientMsg
    BY DEF OpenFailed, ClientMsg, FailedMsg
  <2>2. failed \in [DOMAIN server.waiting -> ClientMsg]
    BY <1>4, <2>1
  <2>3. \A i \in DOMAIN failed : /\ failed[i].kind = "open_failed" /\ i \in DOMAIN server.waiting
                                 /\ failed[i].file = server.waiting[i]
    BY DEF OpenFailed
  <2>4. unsaved = <<>>
    BY <1>4
  <2>. HIDE DEF failed, unsaved
  <2>5. failed \in Seq(ClientMsg)
    BY <1>4, <2>2, Mapped
  <2>6. u = failed
    BY <2>4, <2>5
  <2>. QED  BY <2>3, <2>5, <2>6
<1>. HIDE DEF failed, unsaved, u
<1>6. /\ \A i \in DOMAIN toClient' :
           \/ i \in DOMAIN toClient /\ toClient'[i] = toClient[i]
           \/ \E j \in DOMAIN u : i = Len(toClient) + j /\ toClient'[i] = u[j]
      /\ After(0)' = After(0) \union ToSet(u)
      /\ PushesInOrder'
      /\ \A i \in AnswerAt' : \/ i \in AnswerAt /\ toClient'[i] = toClient[i]
                              \/ /\ i \notin DOMAIN toClient /\ toClient'[i].kind = "open_failed"
                                 /\ \E j \in WaitAt : i = Len(toClient) + j /\ j \in Int
                                                      /\ toClient'[i] = u[j]
  <2>1. \A i \in DOMAIN u : /\ u[i].kind \in {"open_failed", "saved"}
                            /\ u[i].kind = "open_failed" => /\ i \in DOMAIN server.waiting
                                                            /\ u[i].file = server.waiting[i]
    BY <1>5
  <2>. QED  BY <1>1, <1>2, <1>5, <2>1, LoadAnswers
<1>7. /\ ~client.loaded
      /\ \A i \in DOMAIN toServer : toServer[i].kind # "edit"
      /\ EditsOut = {}
      /\ \A i \in AnswerAt : client.file # 0 => toClient[i].kind # "opened"
  BY <1>2, Unwatched
<1>8. /\ EditsOut' = {} /\ OpenTasks' = OpenTasks /\ OpenAt' = OpenAt /\ WaitAt' = {}
      /\ \A n : CalmAfter(n)' <=> CalmAfter(n)
  BY <1>1, <1>3, <1>7 DEF EditsOut, OpenTasks, OpenAt, WaitAt, CalmAfter
<1>9. Clean'
  <2>1. \A m \in ToSet(u) : m.kind = "open_failed"
    BY <1>5 DEF ToSet
  <2>. QED  BY <1>1, <1>3, <1>6, <1>8, <2>1, BufferAssumption DEF TextsInv, Clean
<1>10. ServerInv'
  BY <1>1, <1>3 DEF TextsInv, ServerInv
<1>11. SessionInv'
  BY <1>1, <1>7 DEF SessionInv
<1>12. Ids'
  <2>1. \A i \in DOMAIN toClient' :
          toClient'[i].kind \in {"opened", "open_failed"} => toClient'[i].file <= used.opens
    <3>1. \A i \in DOMAIN u : u[i].file <= used.opens
      BY <1>5 DEF TextsInv, Ids
    <3>2. \A i \in DOMAIN toClient :
            toClient[i].kind \in {"opened", "open_failed"} => toClient[i].file <= used.opens
      BY DEF TextsInv, Ids
    <3>. QED  BY <1>6, <3>1, <3>2
  <2>2. DOMAIN server'.waiting = {}
    BY <1>3
  <2>. QED  BY <1>1, <2>1, <2>2 DEF TextsInv, Ids
<1>13. EditsInOrder'
  <2>1. used.edits \in Nat
    OBVIOUS
  <2>. QED  BY <1>1, <1>3, <1>7, <1>8, <2>1 DEF EditsInOrder
<1>14. Waits'
  <2>. SUFFICES ASSUME client.file # 0, ~client.loaded PROVE Waits'
    BY <1>1 DEF Waits
  <2>1. ASSUME NEW i \in AnswerAt', i \notin AnswerAt
        PROVE  /\ toClient'[i].kind = "open_failed" /\ CalmAfter(0) /\ AnswerAt = {}
               /\ \E j \in WaitAt : i = Len(toClient) + j
    <3>1. PICK j \in WaitAt : i = Len(toClient) + j /\ toClient'[i].kind = "open_failed"
      BY <1>6, <2>1
    <3>2. CalmAfter(0) /\ AnswerAt = {}
      BY DEF TextsInv, Waits
    <3>. QED  BY <3>1, <3>2
  <2>2. ASSUME NEW i \in AnswerAt', i \in AnswerAt
        PROVE  toClient'[i].kind # "opened" /\ CalmAfter(0)
    <3>1. i \in DOMAIN toClient
      BY <2>2 DEF AnswerAt
    <3>. QED  BY <1>6, <1>7, <2>2, <3>1 DEF TextsInv, Waits
  <2>3. \A i, j \in AnswerAt' : i = j
    <3>1. \A i, j \in WaitAt : i = j
      BY DEF TextsInv, Waits
    <3>2. \A i, j \in AnswerAt : i = j
      BY DEF TextsInv, Waits
    <3>. QED  BY <2>1, <3>1, <3>2
  <2>4. OpenTasks # {} \/ OpenAt # {} => AnswerAt' = {}
    <3>1. OpenTasks # {} \/ OpenAt # {} => AnswerAt = {} /\ WaitAt = {}
      BY DEF TextsInv, Waits
    <3>. QED  BY <2>1, <3>1
  <2>5. \A i \in OpenAt : CalmAfter(i) /\ \A j \in OpenAt : i = j
    BY DEF TextsInv, Waits
  <2>6. OpenTasks # {} => OpenAt = {}
    BY DEF TextsInv, Waits
  <2>. QED  BY <1>1, <1>8, <2>1, <2>2, <2>3, <2>4, <2>5, <2>6 DEF Waits
<1>15. Shows'
  BY <1>1, <1>7 DEF Shows
<1>. QED  BY <1>6, <1>9, <1>10, <1>11, <1>12, <1>13, <1>14, <1>15 DEF TextsInv

-----------------------------------------------------------------------------
\* The daemon reloads the file, and pushes what changed.

\* An editor whose clock is the one the daemon has, has no edits on their way.
LEMMA NoEditsOut ==
  ASSUME TypeInv, TextsInv, client.loaded, client.cv = server.cv
  PROVE  EditsOut = {}
<1>. SUFFICES ASSUME NEW e \in EditsOut PROVE FALSE
  OBVIOUS
<1>1. client.cv = used.edits /\ server.cv < e.cv /\ e.cv <= used.edits
  BY DEF TextsInv, Shows, EditsInOrder
<1>2. server.cv \in Int /\ e.cv \in Int /\ used.edits \in Int
  BY EditsKnown, TypesNow DEF ServerBuffer
<1>. QED  BY <1>1, <1>2

LEMMA PushSent ==
  ASSUME TypeInv, TextsInv, NEW p, p.kind = "push", p.sv = issued + 1,
         toClient' = toClient \o <<p>>, used' = used
  PROVE  /\ \A k \in Nat : k <= Len(toClient) => Pushes(k)' = Pushes(k) \union {p}
         /\ After(0)' = After(0) \union {p}
         /\ AnswerAt' = AnswerAt
         /\ \A i \in DOMAIN toClient : i \in Nat /\ i <= Len(toClient) /\ toClient'[i] = toClient[i]
         /\ PushesInOrder'
         /\ \A i \in DOMAIN toClient' : \/ i \in DOMAIN toClient /\ toClient'[i] = toClient[i]
                                        \/ toClient'[i] = p
<1>. DEFINE S == ClientMsg \union {p}
            u == <<p>>
<1>1. u \in Seq(S) /\ DOMAIN u = {1} /\ u[1] = p /\ ToSet(u) = {p}
  BY DEF ToSet
<1>2. ClientMsg \subseteq S
  OBVIOUS
<1>3. toClient' = toClient \o u
  OBVIOUS
<1>. HIDE DEF S, u
<1>4. /\ Len(toClient) \in Nat /\ DOMAIN toClient = 1..Len(toClient)
      /\ \A k \in Nat : k <= Len(toClient) => After(k)' = After(k) \union ToSet(u)
      /\ \A i \in DOMAIN toClient : i \in DOMAIN toClient' /\ toClient'[i] = toClient[i]
      /\ \A i \in DOMAIN toClient' :
           i \in DOMAIN toClient \/ \E j \in DOMAIN u : i = Len(toClient) + j
                                                       /\ toClient'[i] = u[j]
  BY <1>1, <1>2, <1>3, AfterSent
<1>5. \A i \in DOMAIN toClient' : \/ i \in DOMAIN toClient /\ toClient'[i] = toClient[i]
                                  \/ i = Len(toClient) + 1 /\ toClient'[i] = p
  BY <1>1, <1>4
<1>6. \A k \in Nat : k <= Len(toClient) => Pushes(k)' = Pushes(k) \union {p}
  BY <1>1, <1>4 DEF Pushes
<1>7. AnswerAt' = AnswerAt
  BY <1>4, <1>5 DEF AnswerAt
<1>8. PushesInOrder'
  <2>. SUFFICES ASSUME NEW i \in DOMAIN toClient', NEW j \in DOMAIN toClient', i < j,
                       toClient'[i].kind = "push", toClient'[j].kind = "push"
                PROVE  toClient'[i].sv < toClient'[j].sv
    BY DEF PushesInOrder
  <2>1. i \in DOMAIN toClient /\ toClient'[i] = toClient[i]
    BY <1>4, <1>5
  <2>2. CASE j \in DOMAIN toClient /\ toClient'[j] = toClient[j]
    BY <2>1, <2>2 DEF TextsInv, PushesInOrder
  <2>3. CASE toClient'[j] = p
    <3>1. toClient[i] \in ClientMsg
      BY <2>1, TypesNow
    <3>2. toClient[i].sv \in Versions /\ issued \in Nat
      BY <2>1, <3>1, ClientKinds, TypesNow
    <3>. QED  BY <2>1, <2>3, <3>2 DEF Versions
  <2>. QED  BY <1>5, <2>2, <2>3
<1>9. After(0)' = After(0) \union {p}
  BY <1>1, <1>4
<1>10. \A i \in DOMAIN toClient : i \in Nat /\ i <= Len(toClient) /\ toClient'[i] = toClient[i]
  BY <1>4
<1>. QED  BY <1>5, <1>6, <1>7, <1>8, <1>9, <1>10

LEMMA ApplyDiffTexts ==
  ASSUME TypeInv, TextsInv, ApplyDiffResult
  PROVE  TextsInv'
<1>. USE TypesNow
<1>1. PICK d \in server.diff :
        \/ /\ server.version = d.base
           /\ server' = [server EXCEPT !.diff = {}, !.sv = issued + 1,
                           !.text = Applied(@, d), !.version = d.version,
                           !.base = d.version]
           /\ issued' = issued + 1
           /\ Send(PushOf(d, issued + 1))
        \/ /\ server' = [server EXCEPT !.diff = {}]
           /\ UNCHANGED <<issued, toClient>>
  BY DEF ApplyDiffResult
<1>2. UNCHANGED <<client, disk, noticed, reloads, writes, tasks, toServer, used, asked>>
  BY DEF ApplyDiffResult
<1>3. d \in Diff
  BY DEF ServerBuffer
<1>4. server.base # 0 /\ server.fileVersion # 0 /\ d.version # 0 /\ Garbled \notin {d.from, d.to}
  BY DEF TextsInv, ServerInv, Clean
<1>5. CASE /\ server' = [server EXCEPT !.diff = {}]
           /\ UNCHANGED <<issued, toClient>>
  <2>1. /\ server'.text = server.text /\ server'.sv = server.sv /\ server'.cv = server.cv
        /\ server'.writer = server.writer /\ server'.waiting = server.waiting
        /\ server'.base = server.base /\ server'.fileVersion = server.fileVersion
        /\ server'.version = server.version /\ server'.diff = {}
        /\ server'.saves = server.saves /\ server'.tracked = server.tracked
        /\ server'.loading = server.loading /\ server'.read = server.read
    BY <1>5 DEF ServerBuffer
  <2>2. Clean'
    BY <1>2, <1>5, <2>1 DEF TextsInv, Clean, EditsOut, After
  <2>3. ServerInv'
    BY <1>2, <2>1 DEF TextsInv, ServerInv
  <2>4. PICK u \in Seq(ClientMsg) :
          toClient = toClient \o u /\ \A i \in DOMAIN u : u[i].kind = "saved"
    BY Unsent
  <2>5. SessionInv' /\ Ids' /\ EditsInOrder' /\ PushesInOrder' /\ Waits' /\ Shows'
    BY <1>2, <1>5, <2>1, <2>4, Steady
  <2>. QED  BY <2>2, <2>3, <2>5 DEF TextsInv
<1>6. CASE /\ server.version = d.base
           /\ server' = [server EXCEPT !.diff = {}, !.sv = issued + 1,
                           !.text = Applied(@, d), !.version = d.version,
                           !.base = d.version]
           /\ Send(PushOf(d, issued + 1))
  <2>1. server.text = d.from /\ Applied(server.text, d) = d.to
    BY <1>6 DEF TextsInv, ServerInv, Applied
  <2>2. /\ server'.text = d.to /\ server'.sv = issued + 1 /\ server'.cv = server.cv
        /\ server'.writer = server.writer /\ server'.waiting = server.waiting
        /\ server'.base = d.version /\ server'.fileVersion = server.fileVersion
        /\ server'.version = d.version /\ server'.diff = {}
        /\ server'.saves = server.saves /\ server'.tracked = server.tracked
        /\ server'.loading = server.loading /\ server'.read = server.read
    BY <1>6, <2>1 DEF ServerBuffer
  <2>3. server.sv \in Nat /\ server.sv <= issued /\ issued \in Nat
    BY DEF ServerBuffer, Versions
  <2>4. /\ EditsOut' = EditsOut /\ OpenTasks' = OpenTasks /\ OpenAt' = OpenAt
        /\ WaitAt' = WaitAt /\ \A n : CalmAfter(n)' <=> CalmAfter(n)
    BY <1>2, <2>2 DEF EditsOut, OpenTasks, OpenAt, WaitAt, CalmAfter
  <2>5. ServerInv'
    BY <1>2, <1>4, <2>2 DEF TextsInv, ServerInv
  <2>6. SessionInv'
    BY <1>2, <1>4, <2>2 DEF TextsInv, SessionInv
  <2>7. EditsInOrder'
    <3>1. \A e \in EditsOut : e.sv \in Int /\ e.sv <= server.sv
      BY EditsKnown DEF TextsInv, EditsInOrder, Versions
    <3>2. \A e \in EditsOut : e.sv <= issued + 1 /\ e.sv # issued + 1
      BY <2>3, <3>1
    <3>. QED  BY <1>2, <2>2, <2>4, <3>2 DEF TextsInv, EditsInOrder
  <2>8. CASE server.writer
    <3>. DEFINE p == [kind |-> "push", from |-> d.from, to |-> d.to, sv |-> issued + 1,
                      cv |-> server.cv]
    <3>1. toClient' = toClient \o <<p>>
      BY <1>6, <2>8 DEF Send, PushOf, Push
    <3>2. /\ p.kind = "push" /\ p.from = d.from /\ p.to = d.to /\ p.sv = issued + 1
          /\ p.cv = server.cv
      OBVIOUS
    <3>. HIDE DEF p
    <3>3. /\ \A k \in Nat : k <= Len(toClient) => Pushes(k)' = Pushes(k) \union {p}
          /\ After(0)' = After(0) \union {p}
          /\ AnswerAt' = AnswerAt
          /\ \A i \in DOMAIN toClient : /\ i \in Nat /\ i <= Len(toClient)
                                        /\ toClient'[i] = toClient[i]
          /\ PushesInOrder'
          /\ \A i \in DOMAIN toClient' : \/ i \in DOMAIN toClient /\ toClient'[i] = toClient[i]
                                         \/ toClient'[i] = p
      BY <1>2, <3>1, <3>2, PushSent
    <3>4. Clean'
      BY <1>2, <1>4, <2>2, <2>4, <3>2, <3>3 DEF TextsInv, Clean
    <3>5. Ids'
      BY <1>2, <2>2, <3>2, <3>3 DEF TextsInv, Ids
    <3>6. ASSUME NEW k \in Nat, k <= Len(toClient), NEW sv \in Int, NEW cv, NEW text,
                 View(Pushes(k), sv, cv, text), cv = server.cv => EditsOut = {}
          PROVE  ViewOf(Pushes(k) \union {p}, server', EditsOut, client.conflict, sv, cv, text)
      <4>1. ViewOf(Pushes(k), server, EditsOut, client.conflict, sv, cv, text)
        BY <3>6 DEF View
      <4>2. \A q \in Pushes(k) : q.sv \in Int
        BY <3>6, PushesKnown DEF Versions
      <4>3. client.conflict \in BOOLEAN
        BY DEF ClientBuffer
      <4>4. /\ p.cv = server.cv /\ p.from = server.text /\ p.sv = server'.sv
            /\ p.to = server'.text /\ server'.sv \in Int /\ server'.sv > server.sv
            /\ server'.cv = server.cv /\ server.sv \in Int
        BY <2>1, <2>2, <2>3, <3>2
      <4>5. PICK told \in BOOLEAN : told = client.conflict
        BY <4>3
      <4>6. PICK P, t, s : P = Pushes(k) /\ t = server' /\ s = server
        OBVIOUS
      <4>7. ViewOf(P, s, EditsOut, told, sv, cv, text)
        BY <4>1, <4>5, <4>6
      <4>8. ViewOf(P \union {p}, t, EditsOut, told, sv, cv, text)
        <5>1. /\ p.cv = s.cv /\ p.from = s.text /\ p.sv = t.sv /\ p.to = t.text
              /\ t.sv \in Int /\ t.sv > s.sv /\ t.cv = s.cv /\ s.sv \in Int
          BY <4>4, <4>6
        <5>2. /\ \A q \in P : q.sv \in Int
              /\ cv = s.cv => EditsOut = {}
              /\ told \in BOOLEAN /\ sv \in Int
          BY <3>6, <4>2, <4>6
        <5>. QED  BY ONLY <4>7, <5>1, <5>2, ViewPushed
      <4>. QED  BY <4>5, <4>6, <4>8
    <3>7. Waits'
      <4>. SUFFICES ASSUME client.file # 0, ~client.loaded PROVE Waits'
        BY <1>2 DEF Waits
      <4>1. ASSUME NEW i \in AnswerAt, toClient'[i].kind = "opened"
            PROVE  /\ server'.writer /\ server'.base # 0
                   /\ View(Pushes(i), toClient[i].sv, 0, toClient[i].text)'
        <5>1. i \in DOMAIN toClient /\ i \in Nat /\ i <= Len(toClient) /\ toClient'[i] = toClient[i]
          BY <3>3 DEF AnswerAt
        <5>2. CalmAfter(0) /\ View(Pushes(i), toClient[i].sv, 0, toClient[i].text)
          BY <4>1, <5>1 DEF TextsInv, Waits
        <5>3. EditsOut = {}
          BY <5>2, NoCalmEdits
        <5>4. toClient[i].sv \in Int
          <6>1. toClient[i] \in ClientMsg
            BY <5>1
          <6>. QED  BY <4>1, <5>1, <6>1, ClientKinds DEF Versions
        <5>5. ViewOf(Pushes(i) \union {p}, server', EditsOut, client.conflict,
                     toClient[i].sv, 0, toClient[i].text)
          BY <3>6, <5>1, <5>2, <5>3, <5>4
        <5>6. Pushes(i)' = Pushes(i) \union {p}
          BY <3>3, <5>1
        <5>. QED  BY <1>2, <1>4, <2>2, <2>4, <2>8, <5>1, <5>5, <5>6 DEF View
      <4>2. \A i \in AnswerAt : toClient'[i] = toClient[i]
        BY <3>3 DEF AnswerAt
      <4>3. WaitAt = {}
        BY <1>4 DEF TextsInv, Waits
      <4>. QED  BY <1>2, <2>4, <3>3, <4>1, <4>3 DEF TextsInv, Waits
    <3>8. Shows'
      <4>. SUFFICES ASSUME client.loaded PROVE Shows'
        BY <1>2 DEF Shows
      <4>1. client.sv \in Int /\ 0 <= Len(toClient)
        BY DEF ClientBuffer, Versions
      <4>2. ViewOf(Pushes(0) \union {p}, server', EditsOut, client.conflict, client.sv,
                   client.cv, client.text)
        BY <3>6, <4>1, NoEditsOut DEF TextsInv, Shows
      <4>3. Pushes(0)' = Pushes(0) \union {p}
        BY <3>3, <4>1
      <4>4. View(Pushes(0), client.sv, client.cv, client.text)'
        BY <1>2, <2>4, <4>2, <4>3 DEF View
      <4>. QED  BY <1>2, <1>4, <2>2, <2>4, <3>3, <4>4 DEF TextsInv, Shows
    <3>. QED  BY <2>5, <2>6, <2>7, <3>3, <3>4, <3>5, <3>7, <3>8 DEF TextsInv
  <2>9. CASE ~server.writer
    <3>1. toClient' = toClient
      <4>1. toClient' = toClient \o <<>>
        BY <1>6, <2>9 DEF Send, PushOf
      <4>. QED  BY <4>1
    <3>2. /\ ~client.loaded /\ EditsOut = {}
          /\ \A i \in AnswerAt : client.file # 0 => toClient[i].kind # "opened"
      BY <2>9, Unwatched
    <3>3. AnswerAt' = AnswerAt /\ After(0)' = After(0) /\ PushesInOrder'
      BY <1>2, <3>1 DEF AnswerAt, After, TextsInv, PushesInOrder
    <3>4. Clean'
      BY <1>2, <1>4, <2>2, <2>4, <3>3 DEF TextsInv, Clean
    <3>5. Ids'
      BY <1>2, <2>2, <3>1 DEF TextsInv, Ids
    <3>6. Waits'
      BY <1>2, <2>4, <2>9, <3>1, <3>2, <3>3 DEF TextsInv, Waits
    <3>7. Shows'
      BY <1>2, <3>2 DEF Shows
    <3>. QED  BY <2>5, <2>6, <2>7, <3>3, <3>4, <3>5, <3>6, <3>7 DEF TextsInv
  <2>. QED  BY <2>8, <2>9
<1>. QED  BY <1>1, <1>5, <1>6

-----------------------------------------------------------------------------
\* The daemon takes the first message.

LEMMA Taken ==
  ASSUME TypeInv, TextsInv, toServer # <<>>, toServer' = Tail(toServer),
         used'.opens = used.opens
  PROVE  /\ 1 \in DOMAIN toServer /\ toServer[1] = Head(toServer)
         /\ Head(toServer) \in ServerMsg
         /\ \A i \in DOMAIN toServer' : /\ i \in Nat /\ i + 1 \in DOMAIN toServer
                                        /\ toServer'[i] = toServer[i + 1]
         /\ \A i \in DOMAIN toServer : i \in Nat /\ i >= 1
         /\ Len(toServer) \in Nat /\ Len(toServer') = Len(toServer) - 1
         /\ EditsOut = EditsOut' \union {m \in {Head(toServer)} : m.kind = "edit"}
         /\ \A i \in OpenAt' : i + 1 \in OpenAt
         /\ \A i, j \in DOMAIN toServer' :
              i < j /\ toServer'[i].kind = "edit" /\ toServer'[j].kind = "edit" =>
                toServer'[i].cv < toServer'[j].cv
         /\ \A i \in DOMAIN toServer' :
              toServer'[i].kind = "open" => toServer'[i].file <= used.opens
<1>. DEFINE t == Tail(toServer)
<1>1. toServer \in Seq(ServerMsg)
  BY TypesNow
<1>2. /\ 1 \in DOMAIN toServer /\ toServer[1] = Head(toServer)
      /\ Head(toServer) \in ServerMsg
      /\ DOMAIN toServer = 1..Len(toServer) /\ DOMAIN t = 1..(Len(toServer) - 1)
      /\ \A i \in DOMAIN t : i + 1 \in DOMAIN toServer /\ t[i] = toServer[i + 1]
      /\ Len(toServer) \in Nat /\ Len(t) = Len(toServer) - 1
  BY <1>1, Beheaded
<1>3. ToSet(toServer) = {Head(toServer)} \union ToSet(t)
  BY <1>1, SetBeheaded
<1>. HIDE DEF t
<1>4. toServer' = t
  BY DEF t
<1>5. /\ \A i \in DOMAIN t : i \in Nat
      /\ \A i \in DOMAIN toServer : i \in Nat /\ i >= 1
  BY <1>2
<1>6. EditsOut = EditsOut' \union {m \in {Head(toServer)} : m.kind = "edit"}
  BY <1>3, <1>4 DEF EditsOut
<1>7. \A i \in OpenAt' : i + 1 \in OpenAt
  BY <1>2, <1>4 DEF OpenAt
<1>8. \A i, j \in DOMAIN t :
        i < j /\ t[i].kind = "edit" /\ t[j].kind = "edit" => t[i].cv < t[j].cv
  <2>. SUFFICES ASSUME NEW i \in DOMAIN t, NEW j \in DOMAIN t, i < j,
                       t[i].kind = "edit", t[j].kind = "edit"
                PROVE  t[i].cv < t[j].cv
    OBVIOUS
  <2>1. i + 1 < j + 1
    BY <1>5
  <2>. QED  BY <1>2, <2>1 DEF TextsInv, EditsInOrder
<1>9. \A i \in DOMAIN t : t[i].kind = "open" => t[i].file <= used.opens
  BY <1>2 DEF TextsInv, Ids
<1>. QED  BY <1>2, <1>4, <1>5, <1>6, <1>7, <1>8, <1>9

LEMMA CalmTaken ==
  ASSUME TypeInv, TextsInv, toServer # <<>>, toServer' = Tail(toServer),
         used'.opens = used.opens
  PROVE  \A n \in Nat : /\ CalmAfter(n) => CalmAfter(n)'
                        /\ CalmAfter(n + 1) => CalmAfter(n)'
<1>1. \A i \in DOMAIN toServer' : /\ i \in Nat /\ i + 1 \in DOMAIN toServer
                                  /\ toServer'[i] = toServer[i + 1]
  BY Taken
<1>2. ASSUME NEW n \in Nat, CalmAfter(n) \/ CalmAfter(n + 1)
      PROVE  CalmAfter(n)'
  <2>. SUFFICES ASSUME NEW i \in DOMAIN toServer', i > n
                PROVE  toServer'[i].kind \notin {"edit", "close"}
    BY DEF CalmAfter
  <2>1. i \in Nat /\ i + 1 > n /\ i + 1 > n + 1
    BY <1>1
  <2>. QED  BY <1>1, <1>2, <2>1 DEF CalmAfter
<1>. QED  BY <1>2

\* The rest of what an editor has sent.
LEMMA TakenSession ==
  ASSUME TypeInv, TextsInv, toServer # <<>>, toServer' = Tail(toServer),
         used'.opens = used.opens,
         server.writer /\ server.base # 0 => server'.writer /\ server'.base # 0
  PROVE  SessionInv' /\ (Head(toServer).kind = "edit" => server.writer /\ server.base # 0)
<1>1. /\ 1 \in DOMAIN toServer /\ toServer[1] = Head(toServer)
      /\ \A i \in DOMAIN toServer' : /\ i \in Nat /\ i + 1 \in DOMAIN toServer
                                     /\ toServer'[i] = toServer[i + 1]
      /\ DOMAIN toServer' = 1..Len(toServer')
  <2>1. toServer' \in Seq(ServerMsg)
    BY TypesNow, Beheaded
  <2>. QED  BY <2>1, Taken
<1>2. Head(toServer).kind = "edit" => server.writer /\ server.base # 0
  BY <1>1 DEF TextsInv, SessionInv
<1>3. ASSUME NEW j \in DOMAIN toServer', toServer'[j].kind = "edit"
      PROVE  /\ server'.writer /\ server'.base # 0
             /\ \A i \in 1..j : toServer'[i].kind # "close"
  <2>1. toServer[j + 1].kind = "edit" /\ j + 1 \in DOMAIN toServer
    BY <1>1, <1>3
  <2>2. server'.writer /\ server'.base # 0
    BY <2>1 DEF TextsInv, SessionInv
  <2>3. ASSUME NEW i \in 1..j PROVE toServer'[i].kind # "close"
    <3>1. j \in Nat /\ j \in 1..Len(toServer')
      BY <1>1
    <3>2. i \in DOMAIN toServer' /\ i \in Nat /\ i + 1 \in 1..(j + 1)
      BY <1>1, <3>1
    <3>3. toServer[i + 1].kind # "close"
      BY <2>1, <3>2 DEF TextsInv, SessionInv
    <3>. QED  BY <1>1, <3>2, <3>3
  <2>. QED  BY <2>2, <2>3
<1>. QED  BY <1>2, <1>3 DEF SessionInv

\* An editor that waits for the text: nothing it has closed or edited is behind its
\* OpenBuffer.
LEMMA TakenOpen ==
  ASSUME TypeInv, TextsInv, toServer # <<>>, toServer' = Tail(toServer),
         used'.opens = used.opens, client.file # 0, ~client.loaded, tasks' = tasks
  PROVE  /\ OpenTasks' = OpenTasks
         /\ OpenTasks # {} => OpenAt' = {} /\ WaitAt = {} /\ AnswerAt = {}
         /\ \A i \in OpenAt' : /\ CalmAfter(i)' /\ WaitAt = {} /\ AnswerAt = {}
                               /\ \A j \in OpenAt' : i = j
         /\ WaitAt # {} \/ AnswerAt # {} =>
              /\ CalmAfter(0)' /\ OpenAt' = {} /\ OpenTasks = {}
              /\ Head(toServer).kind \notin {"edit", "close"}
         /\ Head(toServer).kind = "open" /\ Head(toServer).file = used.opens =>
              /\ CalmAfter(0)' /\ OpenAt' = {} /\ OpenTasks = {} /\ WaitAt = {} /\ AnswerAt = {}
<1>1. OpenTasks' = OpenTasks
  BY DEF OpenTasks
<1>2. /\ 1 \in DOMAIN toServer /\ toServer[1] = Head(toServer)
      /\ \A i \in OpenAt' : i \in Nat /\ i >= 1 /\ i + 1 \in OpenAt
      /\ \A n \in Nat : /\ CalmAfter(n) => CalmAfter(n)'
                        /\ CalmAfter(n + 1) => CalmAfter(n)'
  <2>1. \A i \in DOMAIN toServer' : i \in Nat /\ i + 1 \in DOMAIN toServer
    BY Taken
  <2>2. \A i \in DOMAIN toServer' : i >= 1
    <3>1. toServer' \in Seq(ServerMsg)
      BY TypesNow, Beheaded
    <3>. QED  BY <3>1
  <2>3. \A i \in OpenAt' : i \in DOMAIN toServer'
    BY DEF OpenAt
  <2>. QED  BY <2>1, <2>2, <2>3, Taken, CalmTaken
<1>3. /\ OpenTasks # {} => OpenAt = {} /\ WaitAt = {} /\ AnswerAt = {}
      /\ \A i \in OpenAt : /\ CalmAfter(i) /\ WaitAt = {} /\ AnswerAt = {}
                           /\ \A j \in OpenAt : i = j
      /\ WaitAt # {} \/ AnswerAt # {} => CalmAfter(0)
  BY DEF TextsInv, Waits
<1>4. ASSUME NEW i \in OpenAt'
      PROVE  /\ CalmAfter(i)' /\ WaitAt = {} /\ AnswerAt = {}
             /\ \A j \in OpenAt' : i = j
  <2>1. \A j \in OpenAt' : i + 1 = j + 1
    BY <1>2, <1>3
  <2>. QED  BY <1>2, <1>3, <2>1
<1>5. OpenTasks # {} => OpenAt' = {}
  BY <1>2, <1>3
<1>6. ASSUME WaitAt # {} \/ AnswerAt # {}
      PROVE  /\ CalmAfter(0)' /\ OpenAt' = {} /\ OpenTasks = {}
             /\ Head(toServer).kind \notin {"edit", "close"}
  <2>1. CalmAfter(0) /\ OpenAt = {} /\ OpenTasks = {}
    BY <1>3, <1>6
  <2>2. 1 > 0 /\ 0 \in Nat
    OBVIOUS
  <2>3. Head(toServer).kind \notin {"edit", "close"}
    BY <1>2, <2>1, <2>2 DEF CalmAfter
  <2>. QED  BY <1>2, <2>1, <2>2, <2>3
<1>7. ASSUME Head(toServer).kind = "open", Head(toServer).file = used.opens
      PROVE  CalmAfter(0)' /\ OpenAt' = {} /\ OpenTasks = {} /\ WaitAt = {} /\ AnswerAt = {}
  <2>1. 1 \in OpenAt
    BY <1>2, <1>7 DEF OpenAt
  <2>2. CalmAfter(1) /\ OpenTasks = {} /\ WaitAt = {} /\ AnswerAt = {}
    BY <1>3, <2>1
  <2>3. CalmAfter(0)'
    <3>1. 0 + 1 = 1 /\ 0 \in Nat
      OBVIOUS
    <3>. QED  BY <1>2, <2>2, <3>1
  <2>4. ASSUME NEW i \in OpenAt' PROVE FALSE
    <3>1. i + 1 = 1 /\ i \in Nat /\ i >= 1
      BY <1>2, <1>3, <2>1
    <3>. QED  BY <3>1
  <2>. QED  BY <2>2, <2>3, <2>4
<1>. QED  BY <1>1, <1>3, <1>4, <1>5, <1>6, <1>7

LEMMA TakenWaits ==
  ASSUME TypeInv, TextsInv, toServer # <<>>, toServer' = Tail(toServer),
         Head(toServer).kind \in {"edit", "close"},
         used'.opens = used.opens, client' = client, tasks' = tasks, toClient' = toClient,
         server'.waiting = server.waiting \/ server'.waiting = <<>>
  PROVE  Waits'
<1>. SUFFICES ASSUME client.file # 0, ~client.loaded PROVE Waits'
  BY DEF Waits
<1>1. /\ WaitAt = {} /\ AnswerAt = {} /\ OpenTasks' = OpenTasks
      /\ \A i \in OpenAt' : CalmAfter(i)' /\ \A j \in OpenAt' : i = j
      /\ OpenTasks # {} => OpenAt' = {}
  BY TakenOpen
<1>2. WaitAt' = {} /\ AnswerAt' = {}
  BY <1>1 DEF WaitAt, AnswerAt
<1>. QED  BY <1>1, <1>2 DEF Waits

\* The editor and the daemon keep what they hold while a request is taken that concerns
\* neither: a save, or the open of a file that was closed again.
LEMMA TakenSteady ==
  ASSUME TypeInv, TextsInv, toServer # <<>>, toServer' = Tail(toServer),
         Head(toServer).kind \in {"open", "save"},
         Head(toServer).kind = "open" => Head(toServer).file # used.opens,
         UNCHANGED <<client, tasks, used>>,
         NEW u \in Seq(ClientMsg), toClient' = toClient \o u,
         \A i \in DOMAIN u : /\ u[i].kind \in {"saved", "opened"}
                             /\ u[i].kind = "opened" => u[i].file # used.opens
                                                        /\ u[i].file <= used.opens,
         server'.text = server.text, server'.sv = server.sv, server'.cv = server.cv,
         server'.waiting = server.waiting, server'.base = server.base,
         server.writer => server'.writer
  PROVE  /\ After(0)' = After(0) \union ToSet(u) /\ EditsOut' = EditsOut
         /\ SessionInv' /\ Ids' /\ EditsInOrder' /\ PushesInOrder' /\ Waits' /\ Shows'
<1>. USE TypesNow
<1>1. /\ Len(toClient) \in Nat /\ DOMAIN toClient = 1..Len(toClient)
      /\ \A k \in Nat : k <= Len(toClient) => After(k)' = After(k) \union ToSet(u)
      /\ \A i \in DOMAIN toClient : i \in DOMAIN toClient' /\ toClient'[i] = toClient[i]
      /\ \A i \in DOMAIN toClient' :
           i \in DOMAIN toClient \/ \E j \in DOMAIN u : i = Len(toClient) + j
                                                       /\ toClient'[i] = u[j]
  <2>1. ClientMsg \subseteq ClientMsg /\ u \in Seq(ClientMsg) /\ toClient' = toClient \o u
    OBVIOUS
  <2>. QED  BY ONLY TypeInv, <2>1, AfterSent
<1>2. \A i \in DOMAIN toClient' :
        \/ i \in DOMAIN toClient /\ toClient'[i] = toClient[i]
        \/ /\ toClient'[i].kind \in {"saved", "opened"}
           /\ toClient'[i].kind = "opened" => toClient'[i].file # used.opens
                                              /\ toClient'[i].file <= used.opens
  <2>. SUFFICES ASSUME NEW i \in DOMAIN toClient', i \notin DOMAIN toClient
                PROVE  /\ toClient'[i].kind \in {"saved", "opened"}
                       /\ toClient'[i].kind = "opened" => toClient'[i].file # used.opens
                                                          /\ toClient'[i].file <= used.opens
    BY <1>1
  <2>1. PICK j \in DOMAIN u : toClient'[i] = u[j]
    BY <1>1
  <2>. QED  BY <2>1
<1>3. \A k \in Nat : k <= Len(toClient) => Pushes(k)' = Pushes(k)
  <2>1. \A m \in ToSet(u) : m.kind # "push"
    BY DEF ToSet
  <2>. QED  BY <1>1, <2>1 DEF Pushes
<1>4. /\ AnswerAt' = AnswerAt
      /\ \A i \in AnswerAt : i \in Nat /\ i <= Len(toClient) /\ toClient'[i] = toClient[i]
  <2>1. \A i \in AnswerAt : i \in Nat /\ i <= Len(toClient) /\ toClient'[i] = toClient[i]
    BY <1>1 DEF AnswerAt
  <2>2. \A i \in AnswerAt' : i \in AnswerAt
    BY <1>2 DEF AnswerAt
  <2>3. \A i \in AnswerAt : i \in AnswerAt'
    BY <1>1 DEF AnswerAt
  <2>. QED  BY <2>1, <2>2, <2>3
<1>5. EditsOut' = EditsOut /\ WaitAt' = WaitAt /\ OpenTasks' = OpenTasks
  <2>1. EditsOut' = EditsOut
    BY Taken
  <2>. QED  BY <2>1 DEF WaitAt, OpenTasks
<1>6. SessionInv'
  BY TakenSession
<1>7. Ids'
  <2>1. \A i \in DOMAIN toServer' :
          toServer'[i].kind = "open" => toServer'[i].file <= used.opens
    BY Taken
  <2>2. \A i \in DOMAIN toClient' :
          toClient'[i].kind \in {"opened", "open_failed"} => toClient'[i].file <= used.opens
    BY <1>2 DEF TextsInv, Ids
  <2>. QED  BY <2>1, <2>2 DEF TextsInv, Ids
<1>8. EditsInOrder'
  <2>1. \A i, j \in DOMAIN toServer' :
          i < j /\ toServer'[i].kind = "edit" /\ toServer'[j].kind = "edit" =>
            toServer'[i].cv < toServer'[j].cv
    BY Taken
  <2>. QED  BY <1>5, <2>1 DEF TextsInv, EditsInOrder
<1>9. PushesInOrder'
  <2>1. \A i \in DOMAIN toClient' : toClient'[i].kind = "push" =>
          i \in DOMAIN toClient /\ toClient'[i] = toClient[i]
    BY <1>2
  <2>. QED  BY <2>1 DEF TextsInv, PushesInOrder
<1>10. ASSUME NEW k \in Nat, k <= Len(toClient), NEW sv, NEW cv, NEW text,
              View(Pushes(k), sv, cv, text)
       PROVE  ViewOf(Pushes(k), server', EditsOut, client.conflict, sv, cv, text)
  <2>1. ViewOf(Pushes(k), server, EditsOut, client.conflict, sv, cv, text)
    BY <1>10 DEF View
  <2>. QED  BY <2>1 DEF ViewOf
<1>11. Waits'
  <2>. SUFFICES ASSUME client.file # 0, ~client.loaded PROVE Waits'
    BY DEF Waits
  <2>1. /\ OpenTasks # {} => OpenAt' = {} /\ WaitAt = {} /\ AnswerAt = {}
        /\ \A i \in OpenAt' : /\ CalmAfter(i)' /\ WaitAt = {} /\ AnswerAt = {}
                              /\ \A j \in OpenAt' : i = j
        /\ WaitAt # {} \/ AnswerAt # {} => CalmAfter(0)'
    BY TakenOpen
  <2>2. ASSUME NEW i \in AnswerAt, toClient[i].kind = "opened"
        PROVE  /\ server.writer /\ server.base # 0
               /\ ViewOf(Pushes(i), server', EditsOut, client.conflict, toClient[i].sv, 0,
                         toClient[i].text)
    BY <1>4, <1>10, <2>2 DEF TextsInv, Waits
  <2>3. \A i \in AnswerAt : Pushes(i)' = Pushes(i)
    BY <1>3, <1>4
  <2>4. ASSUME NEW i \in AnswerAt, toClient'[i].kind = "opened"
        PROVE  /\ server'.writer /\ server'.base # 0
               /\ View(Pushes(i), toClient[i].sv, 0, toClient[i].text)'
    BY <1>4, <1>5, <2>2, <2>3, <2>4 DEF View
  <2>5. /\ \A i, j \in AnswerAt : i = j
        /\ \A i \in WaitAt : /\ AnswerAt = {} /\ server.writer /\ server.base = 0
                             /\ \A j \in WaitAt : i = j
    BY DEF TextsInv, Waits
  <2>. QED  BY <1>4, <1>5, <2>1, <2>4, <2>5 DEF Waits
<1>12. Shows'
  <2>. SUFFICES ASSUME client.loaded PROVE Shows'
    BY DEF Shows
  <2>1. OpenTasks = {} /\ OpenAt = {} /\ WaitAt = {} /\ AnswerAt = {}
        /\ server.writer /\ server.base # 0
    BY DEF TextsInv, Shows
  <2>2. OpenAt' = {}
    BY <2>1, Taken
  <2>3. \A i \in DOMAIN toServer' : toServer'[i].kind # "close"
    BY Taken DEF TextsInv, Shows
  <2>4. View(Pushes(0), client.sv, client.cv, client.text)'
    <3>1. ViewOf(Pushes(0), server', EditsOut, client.conflict, client.sv, client.cv,
                 client.text)
      BY <1>1, <1>10 DEF TextsInv, Shows
    <3>2. Pushes(0)' = Pushes(0)
      BY <1>1, <1>3
    <3>. QED  BY <1>5, <3>1, <3>2 DEF View
  <2>5. \A e \in EditsOut' : /\ e.sv = client'.sv /\ client'.cv = used'.edits
                             /\ e.cv = used'.edits => e.to = client'.text
    BY <1>5 DEF TextsInv, Shows
  <2>. QED  BY <1>4, <1>5, <2>1, <2>2, <2>3, <2>4, <2>5 DEF Shows
<1>13. After(0)' = After(0) \union ToSet(u)
  BY <1>1
<1>. QED  BY <1>5, <1>6, <1>7, <1>8, <1>9, <1>11, <1>12, <1>13

LEMMA HandleSaveTexts ==
  ASSUME TypeInv, Blank, TextsInv, HandleSaveBuffer, ~outOfTurn'
  PROVE  TextsInv'
<1>. USE TypesNow
<1>1. PICK m : m = Head(toServer)
  OBVIOUS
<1>2. m \in SaveRequest /\ m.kind = "save" /\ toServer # <<>> /\ toServer' = Tail(toServer)
  BY <1>1, ReceivedType, ServerKinds DEF HandleSaveBuffer
<1>3. UNCHANGED <<client, disk, noticed, reloads, tasks, used, issued, asked>>
  BY DEF HandleSaveBuffer
<1>4. /\ server'.text = server.text /\ server'.sv = server.sv /\ server'.cv = server.cv
      /\ server'.writer = server.writer /\ server'.waiting = server.waiting
      /\ server'.base = server.base /\ server'.fileVersion = server.fileVersion
      /\ server'.version = server.version /\ server'.diff = server.diff
      /\ server'.tracked = server.tracked
      /\ server'.loading = server.loading /\ server'.read = server.read
  BY DEF HandleSaveBuffer, ServerBuffer
<1>5. server'.saves = server.saves \/ server.base # 0
  BY DEF HandleSaveBuffer
<1>6. PICK u \in Seq(ClientMsg) : /\ toClient' = toClient \o u
                                  /\ \A i \in DOMAIN u : u[i].kind = "saved"
  <2>1. CASE ~server.writer
    <3>. DEFINE a == SaveAnswer(m, FALSE, Empty)
                v == <<a>>
    <3>1. a \in ClientMsg /\ a.kind = "saved"
      <4>1. a \in ClientMsg
        BY <1>2, AnswerType DEF AnyText
      <4>. QED  BY <4>1 DEF SaveAnswer
    <3>2. toClient' = toClient \o v
      BY <1>1, <2>1 DEF HandleSaveBuffer, Send
    <3>. HIDE DEF a
    <3>3. v \in Seq(ClientMsg) /\ \A i \in DOMAIN v : v[i].kind = "saved"
      BY <3>1
    <3>. QED  BY <3>2, <3>3
  <2>2. CASE server.writer
    <3>1. toClient' = toClient
      BY <2>2 DEF HandleSaveBuffer
    <3>. QED  BY <3>1, Unsent
  <2>. QED  BY <2>1, <2>2
<1>7. /\ After(0)' = After(0) \union ToSet(u) /\ EditsOut' = EditsOut
      /\ SessionInv' /\ Ids' /\ EditsInOrder' /\ PushesInOrder' /\ Waits' /\ Shows'
  BY <1>1, <1>2, <1>3, <1>4, <1>6, TakenSteady
<1>8. \A w \in writes' : w \in writes \/ (/\ w.text = server.text /\ w.version = server.version
                                          /\ server.base # 0)
  <2>. DEFINE b == StartSave(m)
  <2>1. b.text = server.text /\ b.version = server.version
    BY DEF StartSave
  <2>2. Dispatched(m) \subseteq {b}
    BY DEF Dispatched
  <2>. HIDE DEF b
  <2>3. writes' = writes \/ (server.base # 0 /\ writes' = writes \union Dispatched(m))
    BY <1>1 DEF HandleSaveBuffer
  <2>. QED  BY <2>1, <2>2, <2>3
<1>9. server.text # Garbled /\ (server.base # 0 => server.version # 0)
  <2>1. server.base # 0 => server.tracked
    BY UntrackedFields DEF Blank
  <2>. QED  BY <2>1 DEF TextsInv, Clean, ServerInv
<1>10. Clean'
  <2>1. \A a \in ToSet(u) : a.kind = "saved"
    BY <1>6 DEF ToSet
  <2>. QED  BY <1>3, <1>4, <1>7, <1>8, <1>9, <2>1 DEF TextsInv, Clean
<1>11. ServerInv'
  BY <1>4, <1>5, <1>8, <1>9 DEF TextsInv, ServerInv
<1>. QED  BY <1>7, <1>10, <1>11 DEF TextsInv

\* The edit at the head of the queue comes before the others.
LEMMA FirstEdit ==
  ASSUME TypeInv, TextsInv, toServer # <<>>, toServer' = Tail(toServer),
         used'.opens = used.opens, Head(toServer).kind = "edit"
  PROVE  /\ Head(toServer) \in EditsOut
         /\ EditsOut = EditsOut' \union {Head(toServer)}
         /\ \A e \in EditsOut' : Head(toServer).cv < e.cv
<1>1. /\ 1 \in DOMAIN toServer /\ toServer[1] = Head(toServer)
      /\ \A i \in DOMAIN toServer' : /\ i \in Nat /\ i + 1 \in DOMAIN toServer
                                     /\ toServer'[i] = toServer[i + 1]
      /\ \A i \in DOMAIN toServer : i \in Nat /\ i >= 1
      /\ EditsOut = EditsOut' \union {m \in {Head(toServer)} : m.kind = "edit"}
  BY Taken
<1>2. ASSUME NEW e \in EditsOut'
      PROVE  Head(toServer).cv < e.cv
  <2>1. PICK i \in DOMAIN toServer' : toServer'[i] = e /\ e.kind = "edit"
    BY DEF EditsOut, ToSet
  <2>2. i + 1 \in DOMAIN toServer /\ toServer[i + 1] = e /\ 1 < i + 1
    <3>1. i \in Nat /\ i + 1 \in DOMAIN toServer /\ toServer[i + 1] = e
      BY <1>1, <2>1
    <3>2. i + 1 >= 1 /\ i \in DOMAIN toServer'
      BY <1>1, <3>1
    <3>3. i >= 1
      <4>1. toServer' \in Seq(ServerMsg)
        BY TypesNow, Beheaded
      <4>. QED  BY <3>1, <4>1
    <3>. QED  BY <3>1, <3>3
  <2>. QED  BY <1>1, <2>1, <2>2 DEF TextsInv, EditsInOrder
<1>. QED  BY <1>1, <1>2

\* What is left of the edits, after one is taken.
LEMMA EditsLeft ==
  ASSUME TypeInv, TextsInv, toServer # <<>>, toServer' = Tail(toServer), used' = used,
         NEW m \in EditsOut, m = Head(toServer),
         server'.sv = server.sv, server'.cv \in {server.cv, m.cv},
         server'.cv = server.cv => m.sv # server.sv,
         server'.cv = m.cv => server'.text = m.to
  PROVE  EditsInOrder' /\ (m.cv < used.edits => EditsOut' # {})
<1>1. /\ EditsOut = EditsOut' \union {m}
      /\ \A e \in EditsOut' : m.cv < e.cv
  BY FirstEdit DEF EditsOut
<1>2. \A e \in EditsOut : e.cv \in Int /\ e.sv \in Int
  BY EditsKnown DEF Versions
<1>3. server.cv \in Int /\ used.edits \in Int
  BY TypesNow DEF ServerBuffer
<1>4. \A i, j \in DOMAIN toServer' :
        i < j /\ toServer'[i].kind = "edit" /\ toServer'[j].kind = "edit" =>
          toServer'[i].cv < toServer'[j].cv
  BY Taken
<1>5. /\ server.cv < m.cv /\ m.cv <= used.edits
      /\ \A e \in EditsOut :
           /\ e.sv <= server.sv /\ server.cv < e.cv /\ e.cv <= used.edits
           /\ e.cv < used.edits => \E f \in EditsOut : f.cv = e.cv + 1
      /\ \A e, f \in EditsOut : e.sv = f.sv /\ (f.cv = e.cv + 1 => e.to = f.from)
  BY DEF TextsInv, EditsInOrder
<1>6. server'.cv <= used.edits
  BY <1>2, <1>3, <1>5
<1>7. ASSUME NEW e \in EditsOut, e.cv < used.edits, e = m \/ e \in EditsOut'
      PROVE  \E f \in EditsOut' : f.cv = e.cv + 1
  <2>1. PICK f \in EditsOut : f.cv = e.cv + 1
    BY <1>5, <1>7
  <2>2. f # m
    BY <1>1, <1>2, <1>7, <2>1
  <2>. QED  BY <1>1, <2>1, <2>2
<1>8. ASSUME NEW e \in EditsOut', e.sv = server.sv, \A f \in EditsOut' : e.cv <= f.cv
      PROVE  e.from = server'.text
  <2>1. e \in EditsOut /\ m.cv < e.cv /\ e.cv <= used.edits /\ m.sv = server.sv
    BY <1>1, <1>5, <1>8
  <2>2. m.cv < used.edits
    BY <1>2, <1>3, <2>1
  <2>3. PICK f \in EditsOut' : f.cv = m.cv + 1
    BY <1>7, <2>2
  <2>4. e.cv = m.cv + 1
    <3>1. e.cv <= f.cv
      BY <1>8
    <3>. QED  BY <1>2, <2>1, <2>3, <3>1
  <2>5. e.from = m.to
    BY <1>5, <2>1, <2>4
  <2>6. server'.cv = m.cv
    BY <2>1
  <2>. QED  BY <2>5, <2>6
<1>9. \A e \in EditsOut' : server'.cv < e.cv
  BY <1>1, <1>5
<1>10. \A e \in EditsOut' : e \in EditsOut
  BY <1>1
<1>11. EditsInOrder'
  <2>0. ASSUME EditsOut' # {}
        PROVE  \E e \in EditsOut' : \A f \in EditsOut' : e.cv <= f.cv
    <3>1. PICK e \in EditsOut' : m.cv < e.cv /\ e.cv <= used.edits
      BY <1>1, <1>5, <1>10, <2>0
    <3>2. m.cv < used.edits
      BY <1>2, <1>3, <1>10, <3>1
    <3>3. PICK f \in EditsOut' : f.cv = m.cv + 1
      BY <1>7, <3>2
    <3>4. \A g \in EditsOut' : f.cv <= g.cv
      BY <1>1, <1>2, <1>10, <3>3
    <3>. QED  BY <3>4
  <2>1. \A e \in EditsOut' :
          /\ e.sv <= server'.sv
          /\ server'.cv < e.cv /\ e.cv <= used'.edits
          /\ e.cv < used'.edits => \E f \in EditsOut' : f.cv = e.cv + 1
          /\ e.sv = server'.sv /\ (\A f \in EditsOut' : e.cv <= f.cv) => e.from = server'.text
    BY <1>5, <1>7, <1>8, <1>9, <1>10
  <2>2. \A e, f \in EditsOut' : e.sv = f.sv /\ (f.cv = e.cv + 1 => e.to = f.from)
    BY <1>5, <1>10
  <2>. QED  BY <1>4, <1>6, <2>0, <2>1, <2>2 DEF EditsInOrder
<1>12. m.cv < used.edits => EditsOut' # {}
  BY <1>7
<1>. QED  BY <1>11, <1>12

LEMMA HandleEditTexts ==
  ASSUME TypeInv, TextsInv, HandleBufferEdit
  PROVE  TextsInv'
<1>. USE TypesNow
<1>1. PICK m : m = Head(toServer)
  OBVIOUS
<1>2. m.kind = "edit" /\ toServer # <<>> /\ toServer' = Tail(toServer)
  BY <1>1, ReceivedType DEF HandleBufferEdit
<1>3. UNCHANGED <<client, disk, noticed, reloads, writes, tasks, toClient, used, asked>>
  BY DEF HandleBufferEdit
<1>4. /\ m \in EditsOut /\ EditsOut = EditsOut' \union {m}
      /\ \A e \in EditsOut' : m.cv < e.cv
  BY <1>1, <1>2, <1>3, FirstEdit
<1>5. m.cv \in 0..MaxEdits /\ m.sv \in Versions /\ Garbled \notin {m.from, m.to}
  <2>1. Garbled \notin {m.from, m.to}
    BY <1>4 DEF TextsInv, Clean
  <2>. QED  BY <1>4, <2>1, EditsKnown
<1>6. server.writer /\ server.base # 0
  <2>1. 1 \in DOMAIN toServer /\ toServer[1].kind = "edit"
    BY <1>1, <1>2, <1>3, Taken
  <2>. QED  BY <2>1 DEF TextsInv, SessionInv
<1>7. server.cv < m.cv /\ server.cv \in Int /\ m.cv \in Int /\ used.edits \in Int
  BY <1>4, <1>5 DEF TextsInv, EditsInOrder, ServerBuffer
<1>8. Ids'
  <2>1. server'.waiting = server.waiting
    BY DEF HandleBufferEdit, ServerBuffer
  <2>. QED  BY <1>2, <1>3, <2>1, Taken DEF TextsInv, Ids
<1>9. PushesInOrder'
  BY <1>3 DEF TextsInv, PushesInOrder
<1>10. server'.waiting = server.waiting
  BY DEF HandleBufferEdit, ServerBuffer
<1>11. Waits'
  <2>1. /\ toServer # <<>> /\ toServer' = Tail(toServer) /\ server'.waiting = server.waiting
        /\ Head(toServer).kind \in {"edit", "close"}
        /\ UNCHANGED <<client, tasks, toClient, used>>
    BY <1>1, <1>2, <1>3, <1>10
  <2>. QED  BY ONLY TypeInv, TextsInv, <2>1, TakenWaits
<1>12. client.loaded =>
         /\ OpenTasks' = {} /\ OpenAt' = {} /\ WaitAt' = {} /\ AnswerAt' = {}
         /\ \A i \in DOMAIN toServer' : toServer'[i].kind # "close"
         /\ \A e \in EditsOut' : /\ e.sv = client.sv /\ client.cv = used.edits
                                 /\ e.cv = used.edits => e.to = client.text
         /\ View(Pushes(0), client.sv, client.cv, client.text) /\ Pushes(0)' = Pushes(0)
         /\ m.sv = client.sv /\ client.cv = used.edits
         /\ m.cv = used.edits => m.to = client.text
  <2>. SUFFICES ASSUME client.loaded
                PROVE  /\ OpenTasks' = {} /\ OpenAt' = {} /\ WaitAt' = {} /\ AnswerAt' = {}
                       /\ \A i \in DOMAIN toServer' : toServer'[i].kind # "close"
                       /\ Pushes(0)' = Pushes(0)
    BY <1>4 DEF TextsInv, Shows
  <2>1. OpenTasks = {} /\ OpenAt = {} /\ WaitAt = {} /\ AnswerAt = {}
    BY DEF TextsInv, Shows
  <2>2. OpenAt' = {}
    BY <1>2, <1>3, <2>1, Taken
  <2>3. \A i \in DOMAIN toServer' : toServer'[i].kind # "close"
    BY <1>2, <1>3, Taken DEF TextsInv, Shows
  <2>. QED  BY <1>3, <1>10, <2>1, <2>2, <2>3 DEF OpenTasks, WaitAt, AnswerAt, Pushes, After
<1>13. CASE ~ClientEditMatches(m)
  <2>1. server' = server /\ m.sv # server.sv
    BY <1>1, <1>6, <1>13 DEF HandleBufferEdit, ClientEditMatches
  <2>2. Clean'
    BY <1>3, <1>4, <2>1 DEF TextsInv, Clean, After
  <2>3. ServerInv'
    BY <1>3, <2>1 DEF TextsInv, ServerInv
  <2>4. SessionInv'
    BY <1>1, <1>2, <1>3, <2>1, TakenSession
  <2>5. EditsInOrder'
    <3>1. server'.cv # m.cv
      BY <1>7, <2>1
    <3>. QED  BY <1>1, <1>2, <1>3, <1>4, <2>1, <3>1, EditsLeft
  <2>6. Shows'
    <3>. SUFFICES ASSUME client.loaded PROVE Shows'
      BY <1>3 DEF Shows
    <3>1. View(Pushes(0), client.sv, client.cv, client.text)'
      <4>1. ViewOf(Pushes(0), server, EditsOut, client.conflict, client.sv, client.cv, client.text)
        BY <1>12 DEF View
      <4>2. ViewOf(Pushes(0), server, EditsOut', client.conflict, client.sv, client.cv, client.text)
        BY <1>12, <2>1, <4>1 DEF ViewOf
      <4>. QED  BY <1>3, <1>12, <2>1, <4>2 DEF View
    <3>. QED  BY <1>3, <1>6, <1>12, <2>1, <3>1 DEF Shows
  <2>. QED  BY <1>8, <1>9, <1>11, <2>2, <2>3, <2>4, <2>5, <2>6 DEF TextsInv
<1>14. CASE ClientEditMatches(m)
  <2>1. m.sv = server.sv /\ issued' = issued + 1
        /\ server' = [server EXCEPT !.cv = m.cv, !.version = issued + 1, !.text = Applied(@, m)]
    BY <1>1, <1>14 DEF HandleBufferEdit, ClientEditMatches
  <2>2. m.from = server.text
    <3>1. \A f \in EditsOut : m.cv <= f.cv
      <4>1. \A f \in EditsOut : f.cv \in Int
        BY EditsKnown
      <4>. QED  BY <1>4, <4>1
    <3>. QED  BY <1>4, <2>1, <3>1 DEF TextsInv, EditsInOrder
  <2>3. Applied(server.text, m) = m.to
    BY <2>2 DEF Applied
  <2>4. /\ server'.text = m.to /\ server'.sv = server.sv /\ server'.cv = m.cv
        /\ server'.writer = server.writer /\ server'.waiting = server.waiting
        /\ server'.base = server.base /\ server'.fileVersion = server.fileVersion
        /\ server'.version = issued + 1 /\ server'.diff = server.diff
        /\ server'.saves = server.saves /\ server'.tracked = server.tracked
        /\ server'.loading = server.loading /\ server'.read = server.read
    BY <2>1, <2>3 DEF ServerBuffer
  <2>5. Clean'
    BY <1>3, <1>4, <1>5, <2>4 DEF TextsInv, Clean, After
  <2>6. ServerInv'
    <3>1. \A d \in server.diff : d.base # issued + 1
      <4>1. \A d \in server.diff : d.base \in 0..issued
        BY DEF ServerBuffer, Diff, Versions
      <4>. QED  BY <4>1
    <3>2. issued + 1 # 0
      OBVIOUS
    <3>. QED  BY <1>3, <2>4, <3>1, <3>2 DEF TextsInv, ServerInv
  <2>7. SessionInv'
    BY <1>1, <1>2, <1>3, <2>4, TakenSession
  <2>8. EditsInOrder' /\ (m.cv < used.edits => EditsOut' # {})
    <3>1. server'.cv # server.cv
      BY <1>7, <2>4
    <3>. QED  BY <1>1, <1>2, <1>3, <1>4, <2>4, <3>1, EditsLeft
  <2>9. Shows'
    <3>. SUFFICES ASSUME client.loaded PROVE Shows'
      BY <1>3 DEF Shows
    <3>1. client.sv = server.sv /\ server.sv \in Int /\ client.cv = used.edits
      <4>1. server.sv \in Int
        BY DEF ServerBuffer, Versions
      <4>. QED  BY <1>12, <2>1, <4>1
    <3>2. Pushes(0) = {}
      <4>1. \A p \in Pushes(0) : client.sv < p.sv /\ p.sv <= server.sv
        BY <1>12 DEF View, ViewOf
      <4>2. \A p \in Pushes(0) : p.sv \in Int
        BY PushesKnown DEF Versions
      <4>. QED  BY <3>1, <4>1, <4>2
    <3>3. EditsOut' = {} => client.text = m.to
      <4>1. m.cv <= used.edits
        BY <1>4 DEF TextsInv, EditsInOrder
      <4>. QED  BY <1>7, <1>12, <2>8, <4>1
    <3>4. View(Pushes(0), client.sv, client.cv, client.text)'
      BY <1>3, <1>12, <2>4, <3>1, <3>2, <3>3 DEF View, ViewOf
    <3>. QED  BY <1>3, <1>6, <1>12, <2>4, <3>4 DEF Shows
  <2>. QED  BY <1>8, <1>9, <1>11, <2>5, <2>6, <2>7, <2>8, <2>9 DEF TextsInv
<1>. QED  BY <1>13, <1>14

\* A close is at the head of the queue: the editor shows no text.
LEMMA NoSession ==
  ASSUME TypeInv, TextsInv, toServer # <<>>, toServer' = Tail(toServer),
         used'.opens = used.opens, Head(toServer).kind = "close"
  PROVE  ~client.loaded /\ EditsOut = {} /\ EditsOut' = {} /\ SessionInv'
<1>1. 1 \in DOMAIN toServer /\ toServer[1] = Head(toServer)
  BY Taken
<1>2. ~client.loaded
  BY <1>1 DEF TextsInv, Shows
<1>3. ASSUME NEW j \in DOMAIN toServer PROVE toServer[j].kind # "edit"
  <2>. SUFFICES ASSUME toServer[j].kind = "edit" PROVE FALSE
    OBVIOUS
  <2>1. j \in Nat /\ j >= 1
    BY Taken
  <2>2. 1 \in 1..j
    BY <2>1
  <2>. QED  BY <1>1, <2>2 DEF TextsInv, SessionInv
<1>4. EditsOut = {}
  BY <1>3 DEF EditsOut, ToSet
<1>5. EditsOut' = {}
  BY <1>4, Taken
<1>6. SessionInv'
  BY <1>3, Taken DEF SessionInv
<1>. QED  BY <1>2, <1>4, <1>5, <1>6

LEMMA HandleCloseTexts ==
  ASSUME TypeInv, Blank, TextsInv, HandleCloseBuffer
  PROVE  TextsInv'
<1>. USE TypesNow
<1>1. Head(toServer).kind = "close" /\ toServer # <<>> /\ toServer' = Tail(toServer)
  BY DEF HandleCloseBuffer, Received
<1>2. UNCHANGED <<client, disk, noticed, reloads, writes, tasks, toClient, used, issued, asked>>
  BY DEF HandleCloseBuffer
<1>3. ~client.loaded /\ EditsOut = {} /\ EditsOut' = {} /\ SessionInv'
  BY <1>1, <1>2, NoSession
<1>4. \/ server' = Untracked
      \/ /\ server'.text = server.text /\ server'.sv = server.sv /\ server'.cv = server.cv
         /\ server'.waiting = server.waiting
         /\ server'.base = server.base /\ server'.fileVersion = server.fileVersion
         /\ server'.version = server.version /\ server'.diff = server.diff
         /\ server'.saves = server.saves /\ server'.tracked = server.tracked
         /\ server'.loading = server.loading /\ server'.read = server.read
  BY DEF HandleCloseBuffer, CleanedUpIfIdle, ServerBuffer
<1>5. /\ Untracked.text = Empty /\ Untracked.version = 0 /\ Untracked.base = 0
      /\ Untracked.fileVersion = 0 /\ Untracked.cv = 0
      /\ Untracked.waiting = <<>> /\ Untracked.read = Empty /\ Untracked.diff = {}
      /\ Untracked.saves = <<>> /\ Untracked.tracked = FALSE
  BY DEF Untracked
<1>6. Clean'
  BY <1>2, <1>3, <1>4, <1>5, BufferAssumption DEF TextsInv, Clean, After
<1>7. ServerInv'
  BY <1>2, <1>4, <1>5 DEF TextsInv, ServerInv
<1>8. Ids'
  BY <1>1, <1>2, <1>4, <1>5, Taken DEF TextsInv, Ids
<1>9. EditsInOrder'
  <2>1. server'.cv <= used.edits
    BY <1>4, <1>5 DEF TextsInv, EditsInOrder
  <2>. QED  BY <1>1, <1>2, <1>3, <2>1, Taken DEF EditsInOrder
<1>10. PushesInOrder'
  BY <1>2 DEF TextsInv, PushesInOrder
<1>11. Waits'
  BY <1>1, <1>2, <1>4, <1>5, TakenWaits
<1>12. Shows'
  BY <1>2, <1>3 DEF Shows
<1>. QED  BY <1>3, <1>6, <1>7, <1>8, <1>9, <1>10, <1>11, <1>12 DEF TextsInv

\* An open that waits for the file to be loaded, or that finds it loaded.
LEMMA HandleOpenTexts ==
  ASSUME TypeInv, Blank, TextsInv, HandleOpenBuffer
  PROVE  TextsInv'
<1>. USE TypesNow
<1>1. PICK m : m = Head(toServer)
  OBVIOUS
<1>2. m \in ServerMsg /\ m.kind = "open" /\ toServer # <<>> /\ toServer' = Tail(toServer)
  BY <1>1, ReceivedType DEF HandleOpenBuffer
<1>3. UNCHANGED <<client, disk, noticed, reloads, writes, tasks, used, asked>>
  BY DEF HandleOpenBuffer
<1>4. EditsOut' = EditsOut
  BY <1>1, <1>2, <1>3, Taken
<1>5. m.file \in Files /\ m.file <= used.opens
  <2>1. 1 \in DOMAIN toServer /\ toServer[1] = m
    BY <1>1, <1>2, <1>3, Taken
  <2>. QED  BY <1>2, <2>1, ServerKinds DEF TextsInv, Ids
<1>6. /\ 0 <= used.edits /\ used.edits \in Nat /\ issued + 1 # 0 /\ server.cv <= used.edits
  BY DEF TextsInv, EditsInOrder
<1>7. client.file # 0 /\ ~client.loaded =>
        /\ OpenTasks' = OpenTasks
        /\ OpenTasks # {} => OpenAt' = {} /\ WaitAt = {} /\ AnswerAt = {}
        /\ \A i \in OpenAt' : /\ CalmAfter(i)' /\ WaitAt = {} /\ AnswerAt = {}
                              /\ \A j \in OpenAt' : i = j
        /\ WaitAt # {} \/ AnswerAt # {} => CalmAfter(0)' /\ OpenAt' = {} /\ OpenTasks = {}
        /\ m.file = used.opens =>
             CalmAfter(0)' /\ OpenAt' = {} /\ OpenTasks = {} /\ WaitAt = {} /\ AnswerAt = {}
  BY <1>1, <1>2, <1>3, TakenOpen
<1>8. ASSUME server.base = 0
      PROVE  /\ ~client.loaded /\ EditsOut = {} /\ EditsOut' = {} /\ SessionInv' /\ Shows'
             /\ \A i \in AnswerAt : client.file # 0 => toClient[i].kind # "opened"
             /\ server'.cv = server.cv \/ server'.cv = 0 => EditsInOrder'
  <2>1. /\ ~client.loaded /\ EditsOut = {}
        /\ \A i \in AnswerAt : client.file # 0 => toClient[i].kind # "opened"
    BY <1>8, Unwatched
  <2>2. Shows'
    BY <1>3, <2>1 DEF Shows
  <2>3. SessionInv'
    BY <1>2, <1>3, <1>8, TakenSession
  <2>4. ASSUME server'.cv = server.cv \/ server'.cv = 0
        PROVE  EditsInOrder'
    <3>1. server'.cv <= used.edits
      BY <1>6, <2>4
    <3>. QED  BY <1>2, <1>3, <1>4, <2>1, <3>1, Taken DEF EditsInOrder
  <2>. QED  BY <1>4, <2>1, <2>2, <2>3, <2>4
<1>9. ASSUME server.base = 0, toClient' = toClient, NEW w \in Seq(Files),
             server'.waiting = Append(w, m.file),
             w = server.waiting \/ w = <<>>, server'.writer, server'.base = 0
      PROVE  Ids' /\ Waits'
  <2>1. /\ Len(w) \in Nat /\ DOMAIN w = 1..Len(w) /\ DOMAIN server'.waiting = 1..(Len(w) + 1)
        /\ \A i \in 1..Len(w) : server'.waiting[i] = w[i]
        /\ server'.waiting[Len(w) + 1] = m.file
        /\ \A i \in 1..(Len(w) + 1) : i \in 1..Len(w) \/ i = Len(w) + 1
    BY <1>5, <1>9, Appended
  <2>2. \A i \in DOMAIN w : w[i] <= used.opens
    BY <1>9 DEF TextsInv, Ids
  <2>3. Ids'
    BY <1>2, <1>3, <1>5, <1>9, <2>1, <2>2, Taken DEF TextsInv, Ids
  <2>4. Waits'
    <3>. SUFFICES ASSUME client.file # 0, ~client.loaded PROVE Waits'
      BY <1>3 DEF Waits
    <3>1. AnswerAt' = AnswerAt /\ \A i \in AnswerAt : toClient'[i].kind # "opened"
      BY <1>3, <1>8, <1>9 DEF AnswerAt
    <3>2. \A i \in DOMAIN w : w[i] = used.opens => i \in WaitAt
      BY <1>9 DEF WaitAt
    <3>3. \A i \in WaitAt' : \/ i \in WaitAt /\ m.file # used.opens
                             \/ i = Len(w) + 1 /\ m.file = used.opens
      <4>. SUFFICES ASSUME NEW i \in WaitAt'
                    PROVE  \/ i \in WaitAt /\ m.file # used.opens
                           \/ i = Len(w) + 1 /\ m.file = used.opens
        OBVIOUS
      <4>1. i \in 1..(Len(w) + 1) /\ server'.waiting[i] = used.opens
        BY <1>3, <2>1 DEF WaitAt
      <4>2. CASE i \in 1..Len(w)
        <5>1. i \in WaitAt
          BY <2>1, <3>2, <4>1, <4>2
        <5>. QED  BY <1>7, <5>1
      <4>3. CASE i = Len(w) + 1
        BY <2>1, <4>1, <4>3
      <4>. QED  BY <2>1, <4>1, <4>2, <4>3
    <3>4. \A i, j \in WaitAt' : i = j
      <4>1. \A i, j \in WaitAt : i = j
        BY DEF TextsInv, Waits
      <4>. QED  BY <3>3, <4>1
    <3>5. ASSUME NEW i \in WaitAt'
          PROVE  CalmAfter(0)' /\ OpenAt' = {} /\ OpenTasks = {} /\ AnswerAt = {}
      <4>1. \A j \in WaitAt : AnswerAt = {}
        BY DEF TextsInv, Waits
      <4>. QED  BY <1>7, <3>3, <3>5, <4>1
    <3>6. \A i, j \in AnswerAt : i = j
      BY DEF TextsInv, Waits
    <3>. QED  BY <1>3, <1>7, <1>9, <3>1, <3>4, <3>5, <3>6 DEF Waits
  <2>. QED  BY <2>3, <2>4
<1>10. CASE ~server.tracked
  <2>. DEFINE nobody == <<>>
              b == [Untracked EXCEPT !.tracked = TRUE, !.writer = TRUE,
                      !.version = issued + 1, !.loading = "reading",
                      !.waiting = Append(nobody, m.file)]
  <2>1. <<m.file>> = Append(nobody, m.file)
    OBVIOUS
  <2>2. server' = b /\ toClient' = toClient
    BY <1>1, <1>10, <2>1 DEF HandleOpenBuffer
  <2>3. nobody \in Seq(Files) /\ nobody = <<>>
    OBVIOUS
  <2>. HIDE DEF nobody
  <2>4. /\ b.text = Empty /\ b.version = issued + 1 /\ b.base = 0 /\ b.fileVersion = 0
        /\ b.cv = 0 /\ b.waiting = Append(nobody, m.file) /\ b.read = Empty /\ b.diff = {}
        /\ b.saves = <<>> /\ b.tracked = TRUE /\ b.writer = TRUE /\ b.loading = "reading"
    BY DEF Untracked
  <2>. HIDE DEF b
  <2>5. server.base = 0
    BY <1>10, UntrackedFields DEF Blank
  <2>6. Ids' /\ Waits'
    BY <1>9, <2>2, <2>3, <2>4, <2>5
  <2>7. Clean'
    <3>1. After(0)' = After(0)
      BY <2>2 DEF After
    <3>. QED  BY <1>3, <1>4, <2>2, <2>4, <3>1, BufferAssumption DEF TextsInv, Clean
  <2>8. ServerInv'
    BY <1>3, <1>6, <2>2, <2>4 DEF TextsInv, ServerInv
  <2>9. EditsInOrder' /\ SessionInv' /\ Shows'
    BY <1>8, <2>2, <2>4, <2>5
  <2>10. PushesInOrder'
    BY <2>2 DEF TextsInv, PushesInOrder
  <2>. QED  BY <2>6, <2>7, <2>8, <2>9, <2>10 DEF TextsInv
<1>11. CASE server.tracked /\ server.base = 0
  <2>1. /\ server' = [server EXCEPT !.writer = TRUE, !.waiting = Append(@, m.file)]
        /\ toClient' = toClient
    BY <1>1, <1>11 DEF HandleOpenBuffer
  <2>2. /\ server'.text = server.text /\ server'.sv = server.sv /\ server'.cv = server.cv
        /\ server'.waiting = Append(server.waiting, m.file) /\ server'.writer
        /\ server'.base = server.base /\ server'.fileVersion = server.fileVersion
        /\ server'.version = server.version /\ server'.diff = server.diff
        /\ server'.saves = server.saves /\ server'.tracked = server.tracked
        /\ server'.loading = server.loading /\ server'.read = server.read
        /\ server.waiting \in Seq(Files)
    BY <2>1 DEF ServerBuffer
  <2>3. Ids' /\ Waits'
    BY <1>9, <1>11, <2>1, <2>2
  <2>4. Clean'
    BY <1>3, <1>4, <2>1, <2>2 DEF TextsInv, Clean, After
  <2>5. ServerInv'
    BY <1>3, <1>11, <2>2 DEF TextsInv, ServerInv
  <2>6. EditsInOrder' /\ SessionInv' /\ Shows'
    BY <1>8, <1>11, <2>2
  <2>7. PushesInOrder'
    BY <2>1 DEF TextsInv, PushesInOrder
  <2>. QED  BY <2>3, <2>4, <2>5, <2>6, <2>7 DEF TextsInv
<1>12. CASE server.tracked /\ server.base # 0
  <2>. DEFINE a == Opened(m.file, server)
              u == <<a>>
  <2>1. server' = [server EXCEPT !.writer = TRUE] /\ toClient' = toClient \o u
    BY <1>1, <1>12 DEF HandleOpenBuffer, Send
  <2>2. /\ server'.text = server.text /\ server'.sv = server.sv /\ server'.cv = server.cv
        /\ server'.waiting = server.waiting /\ server'.writer
        /\ server'.base = server.base /\ server'.fileVersion = server.fileVersion
        /\ server'.version = server.version /\ server'.diff = server.diff
        /\ server'.saves = server.saves /\ server'.tracked = server.tracked
        /\ server'.loading = server.loading /\ server'.read = server.read
    BY <2>1 DEF ServerBuffer
  <2>3. /\ a.kind = "opened" /\ a.file = m.file /\ a.text = server.text /\ a.sv = server.sv
        /\ a \in ClientMsg
    <3>1. server.text \in AnyText /\ server.sv \in Versions
      BY DEF ServerBuffer
    <3>2. a \in ClientMsg
      BY <1>5, <3>1, OpenedType
    <3>. QED  BY <3>2 DEF Opened
  <2>. HIDE DEF a
  <2>4. u \in Seq(ClientMsg) /\ DOMAIN u = {1} /\ u[1] = a /\ ToSet(u) = {a}
    BY <2>3 DEF ToSet
  <2>. HIDE DEF u
  <2>5. ASSUME After(0)' = After(0) \union {a} PROVE Clean'
    <3>1. server.text # Garbled
      BY DEF TextsInv, Clean
    <3>. QED  BY <1>3, <1>4, <2>2, <2>3, <2>5, <3>1 DEF TextsInv, Clean
  <2>6. ServerInv'
    BY <1>3, <1>12, <2>2 DEF TextsInv, ServerInv
  <2>7. CASE m.file # used.opens
    <3>1. \A i \in DOMAIN u : /\ u[i].kind \in {"saved", "opened"}
                              /\ u[i].kind = "opened" => u[i].file # used.opens
                                                         /\ u[i].file <= used.opens
      BY <1>5, <2>3, <2>4, <2>7
    <3>2. /\ After(0)' = After(0) \union ToSet(u)
          /\ SessionInv' /\ Ids' /\ EditsInOrder' /\ PushesInOrder' /\ Waits' /\ Shows'
      BY <1>1, <1>2, <1>3, <2>1, <2>2, <2>4, <2>7, <3>1, TakenSteady
    <3>. QED  BY <2>4, <2>5, <2>6, <3>2 DEF TextsInv
  <2>8. CASE m.file = used.opens
    <3>1. /\ Len(toClient) \in Nat /\ DOMAIN toClient = 1..Len(toClient)
          /\ \A k \in Nat : k <= Len(toClient) => After(k)' = After(k) \union {a}
          /\ \A i \in DOMAIN toClient : i \in DOMAIN toClient' /\ toClient'[i] = toClient[i]
          /\ \A i \in DOMAIN toClient' : \/ i \in DOMAIN toClient /\ toClient'[i] = toClient[i]
                                         \/ i = Len(toClient) + 1 /\ toClient'[i] = a
      <4>1. ClientMsg \subseteq ClientMsg /\ u \in Seq(ClientMsg) /\ toClient' = toClient \o u
        BY <2>1, <2>4
      <4>2. /\ Len(toClient) \in Nat /\ DOMAIN toClient = 1..Len(toClient)
            /\ \A k \in Nat : k <= Len(toClient) => After(k)' = After(k) \union ToSet(u)
            /\ \A i \in DOMAIN toClient : i \in DOMAIN toClient' /\ toClient'[i] = toClient[i]
            /\ \A i \in DOMAIN toClient' :
                 i \in DOMAIN toClient \/ \E j \in DOMAIN u : i = Len(toClient) + j
                                                             /\ toClient'[i] = u[j]
        BY ONLY TypeInv, <4>1, AfterSent
      <4>3. \A j \in DOMAIN u : j = 1 /\ u[j] = a
        BY <2>4
      <4>4. \A i \in DOMAIN toClient' : \/ i \in DOMAIN toClient /\ toClient'[i] = toClient[i]
                                        \/ i = Len(toClient) + 1 /\ toClient'[i] = a
        BY <4>2, <4>3
      <4>5. \A k \in Nat : k <= Len(toClient) => After(k)' = After(k) \union {a}
        BY <2>4, <4>2
      <4>. QED  BY <4>2, <4>4, <4>5
    <3>2. Clean'
      BY <2>5, <3>1
    <3>3. Ids'
      BY <1>2, <1>3, <1>5, <2>2, <2>3, <3>1, Taken DEF TextsInv, Ids
    <3>4. ~client.loaded
      <4>1. 1 \in OpenAt
        BY <1>1, <1>2, <1>3, <2>8, Taken DEF OpenAt
      <4>. QED  BY <4>1 DEF TextsInv, Shows
    <3>5. Shows'
      BY <1>3, <3>4 DEF Shows
    <3>6. SessionInv'
      BY <1>2, <1>3, <2>2, TakenSession
    <3>7. EditsInOrder'
      <4>1. \A i, j \in DOMAIN toServer' :
              i < j /\ toServer'[i].kind = "edit" /\ toServer'[j].kind = "edit" =>
                toServer'[i].cv < toServer'[j].cv
        BY <1>2, <1>3, Taken
      <4>. QED  BY <1>3, <1>4, <2>2, <4>1 DEF TextsInv, EditsInOrder
    <3>8. PushesInOrder'
      <4>1. \A i \in DOMAIN toClient' : toClient'[i].kind = "push" =>
              i \in DOMAIN toClient /\ toClient'[i] = toClient[i]
        BY <2>3, <3>1
      <4>. QED  BY <4>1 DEF TextsInv, PushesInOrder
    <3>9. Waits'
      <4>. SUFFICES ASSUME client.file # 0 PROVE Waits'
        BY <1>3 DEF Waits
      <4>1. /\ CalmAfter(0)' /\ OpenAt' = {} /\ OpenTasks' = {} /\ WaitAt = {}
            /\ AnswerAt = {}
        BY <1>7, <2>8, <3>4
      <4>2. WaitAt' = {}
        BY <1>3, <2>2, <4>1 DEF WaitAt
      <4>3. ASSUME NEW i \in AnswerAt'
            PROVE  i = Len(toClient) + 1 /\ toClient'[i] = a
        <5>1. i \in DOMAIN toClient' /\ i \notin AnswerAt /\ toClient'[i].file = used.opens
              /\ toClient'[i].kind \in {"opened", "open_failed"}
          BY <1>3, <4>1 DEF AnswerAt
        <5>. QED  BY <3>1, <5>1 DEF AnswerAt
      <4>4. ASSUME NEW i \in AnswerAt'
            PROVE  View(Pushes(i), toClient[i].sv, 0, toClient[i].text)'
        <5>1. i = Len(toClient) + 1 /\ toClient'[i] = a
          BY <4>3, <4>4
        <5>2. Pushes(i)' = {}
          <6>. SUFFICES ASSUME NEW j \in DOMAIN toClient', j > i PROVE FALSE
            BY DEF Pushes, After
          <6>1. j \in 1..Len(toClient) \/ j = Len(toClient) + 1
            BY <3>1
          <6>. QED  BY <3>1, <5>1, <6>1
        <5>3. toClient'[i].sv = server'.sv /\ toClient'[i].text = server'.text
          BY <2>2, <2>3, <5>1
        <5>4. server'.sv <= server'.sv
          BY <2>2 DEF ServerBuffer, Versions
        <5>. QED  BY <5>2, <5>3, <5>4 DEF View, ViewOf
      <4>5. \A i, j \in AnswerAt' : i = j
        BY <4>3
      <4>6. server'.writer /\ server'.base # 0
        BY <1>12, <2>2
      <4>. QED  BY <4>1, <4>2, <4>4, <4>5, <4>6 DEF Waits
    <3>. QED  BY <2>6, <3>2, <3>3, <3>5, <3>6, <3>7, <3>8, <3>9 DEF TextsInv
  <2>. QED  BY <2>7, <2>8
<1>. QED  BY <1>10, <1>11, <1>12

-----------------------------------------------------------------------------
\* The client sends.

LEMMA RequestAppended ==
  ASSUME TypeInv, NEW m, toServer' = Append(toServer, m)
  PROVE  /\ Len(toServer) \in Nat /\ Len(toServer') = Len(toServer) + 1
         /\ \A i \in DOMAIN toServer : /\ i \in Nat /\ i <= Len(toServer)
                                       /\ toServer'[i] = toServer[i]
         /\ \A i \in DOMAIN toServer' : \/ i \in DOMAIN toServer /\ toServer'[i] = toServer[i]
                                        \/ i = Len(toServer) + 1 /\ toServer'[i] = m
         /\ \A j \in DOMAIN toServer : \A i \in 1..j : i \in DOMAIN toServer
         /\ EditsOut' = EditsOut \union {x \in {m} : x.kind = "edit"}
<1>. DEFINE S == ServerMsg \union {m}
            t == Append(toServer, m)
<1>1. toServer \in Seq(S) /\ m \in S
  <2>1. toServer \in Seq(ServerMsg) /\ ServerMsg \subseteq S
    BY TypesNow
  <2>2. toServer \in Seq(S)
    BY <2>1, SeqMonotonic
  <2>. QED  BY <2>2
<1>. HIDE DEF S
<1>2. /\ Len(toServer) \in Nat /\ DOMAIN toServer = 1..Len(toServer)
      /\ DOMAIN t = 1..(Len(toServer) + 1) /\ Len(t) = Len(toServer) + 1
      /\ \A i \in 1..Len(toServer) : t[i] = toServer[i] /\ i \in 1..(Len(toServer) + 1)
      /\ t[Len(toServer) + 1] = m
      /\ \A i \in 1..(Len(toServer) + 1) : i \in 1..Len(toServer) \/ i = Len(toServer) + 1
  BY <1>1, Appended
<1>3. ToSet(t) = ToSet(toServer) \union {m}
  BY <1>1, SetAppended
<1>. HIDE DEF t
<1>4. toServer' = t
  BY DEF t
<1>5. \A i \in DOMAIN toServer : i \in Nat /\ i <= Len(toServer) /\ t[i] = toServer[i]
  BY <1>2
<1>6. \A i \in DOMAIN t : \/ i \in DOMAIN toServer /\ t[i] = toServer[i]
                          \/ i = Len(toServer) + 1 /\ t[i] = m
  BY <1>2
<1>7. \A j \in DOMAIN toServer : \A i \in 1..j : i \in DOMAIN toServer
  BY <1>2
<1>8. EditsOut' = EditsOut \union {x \in {m} : x.kind = "edit"}
  BY <1>3, <1>4 DEF EditsOut
<1>. QED  BY <1>2, <1>4, <1>5, <1>6, <1>7, <1>8

\* What an editor sends next comes after what it has sent.
LEMMA SessionGrows ==
  ASSUME TypeInv, TextsInv, NEW m, toServer' = Append(toServer, m), server' = server,
         m.kind = "edit" => client.loaded
  PROVE  SessionInv'
<1>. SUFFICES ASSUME NEW j \in DOMAIN toServer', toServer'[j].kind = "edit"
              PROVE  /\ server.writer /\ server.base # 0
                     /\ \A i \in 1..j : toServer'[i].kind # "close"
  BY DEF SessionInv
<1>1. /\ Len(toServer) \in Nat
      /\ \A i \in DOMAIN toServer : i \in Nat /\ i <= Len(toServer) /\ toServer'[i] = toServer[i]
      /\ \/ j \in DOMAIN toServer /\ toServer'[j] = toServer[j]
         \/ j = Len(toServer) + 1 /\ toServer'[j] = m
      /\ \A k \in DOMAIN toServer : \A i \in 1..k : i \in DOMAIN toServer
      /\ DOMAIN toServer = 1..Len(toServer)
  BY RequestAppended, TypesNow
<1>2. CASE j \in DOMAIN toServer /\ toServer'[j] = toServer[j]
  <2>1. \A i \in 1..j : i \in DOMAIN toServer /\ toServer'[i] = toServer[i]
    BY <1>1, <1>2
  <2>. QED  BY <1>2, <2>1 DEF TextsInv, SessionInv
<1>3. CASE j = Len(toServer) + 1 /\ toServer'[j] = m
  <2>1. /\ server.writer /\ server.base # 0
        /\ \A i \in DOMAIN toServer : toServer[i].kind # "close"
    BY <1>3 DEF TextsInv, Shows
  <2>2. \A i \in 1..j : i \in DOMAIN toServer \/ i = j
    BY <1>1, <1>3
  <2>. QED  BY <1>1, <2>1, <2>2
<1>. QED  BY <1>1, <1>2, <1>3

\* A message that is not an edit does not concern the edits.
LEMMA OtherSent ==
  ASSUME TypeInv, TextsInv, NEW m, toServer' = Append(toServer, m), server' = server,
         m.kind # "edit", used'.edits = used.edits
  PROVE  EditsOut' = EditsOut /\ EditsInOrder'
<1>1. EditsOut' = EditsOut
  <2>1. {x \in {m} : x.kind = "edit"} = {}
    OBVIOUS
  <2>2. EditsOut' = EditsOut \union {x \in {m} : x.kind = "edit"}
    BY RequestAppended
  <2>. QED  BY <2>1, <2>2
<1>2. \A i \in DOMAIN toServer' : toServer'[i].kind = "edit" =>
        i \in DOMAIN toServer /\ toServer'[i] = toServer[i]
  BY RequestAppended
<1>. QED  BY <1>1, <1>2 DEF TextsInv, EditsInOrder

LEMMA ClientOpensTexts ==
  ASSUME TypeInv, TextsInv, ClientOpens
  PROVE  TextsInv'
<1>. USE TypesNow
<1>1. PICK n \in Nat : n = used.opens /\ n + 1 # 0 /\ ~(n + 1 <= n)
  OBVIOUS
<1>2. /\ client.file = 0 /\ ~client.loaded
      /\ tasks' = tasks \union {[kind |-> "open", file |-> n + 1]}
      /\ used'.opens = n + 1 /\ used'.edits = used.edits
      /\ UNCHANGED <<server, disk, noticed, reloads, writes, toServer, toClient>>
  BY <1>1 DEF ClientOpens, TextsInv, Ids
<1>3. /\ client'.file = n + 1 /\ ~client'.loaded /\ ~client'.conflict /\ client'.text = Empty
  BY <1>1 DEF ClientOpens, NoBuffer
<1>4. EditsOut' = EditsOut /\ After(0)' = After(0)
  BY <1>2 DEF EditsOut, After
<1>5. Clean'
  BY <1>2, <1>3, <1>4, BufferAssumption DEF TextsInv, Clean
<1>6. ServerInv' /\ SessionInv' /\ PushesInOrder'
  BY <1>2 DEF TextsInv, ServerInv, SessionInv, PushesInOrder
<1>7. \A x \in Nat : x <= n => x <= n + 1 /\ x # n + 1
  OBVIOUS
<1>8. /\ \A i \in DOMAIN toServer : toServer[i].kind = "open" => toServer[i].file \in Nat
      /\ \A i \in DOMAIN server.waiting : server.waiting[i] \in Nat
      /\ \A i \in DOMAIN toClient :
           toClient[i].kind \in {"opened", "open_failed"} => toClient[i].file \in Nat
      /\ \A x \in tasks : x.kind = "open" => x.file \in Nat
  <2>1. ASSUME NEW i \in DOMAIN toServer, toServer[i].kind = "open"
        PROVE  toServer[i].file \in Nat
    <3>1. toServer[i] \in ServerMsg
      OBVIOUS
    <3>. QED  BY <2>1, <3>1, ServerKinds DEF Files
  <2>2. ASSUME NEW i \in DOMAIN toClient, toClient[i].kind \in {"opened", "open_failed"}
        PROVE  toClient[i].file \in Nat
    <3>1. toClient[i] \in ClientMsg
      OBVIOUS
    <3>. QED  BY <2>2, <3>1, ClientKinds DEF Files
  <2>3. server.waiting \in Seq(Files)
    BY DEF ServerBuffer
  <2>4. \A i \in DOMAIN server.waiting : server.waiting[i] \in Nat
    <3>1. \A f \in Files : f \in Nat
      BY DEF Files
    <3>2. \A i \in DOMAIN server.waiting : server.waiting[i] \in Files
      BY <2>3
    <3>. QED  BY ONLY <3>1, <3>2
  <2>5. ASSUME NEW x \in tasks, x.kind = "open" PROVE x.file \in Nat
    <3>1. x \in Request
      OBVIOUS
    <3>. QED  BY <2>5, <3>1 DEF Request, OpenMsg, SaveRequest, Files
  <2>. QED  BY <2>1, <2>2, <2>4, <2>5
<1>9. /\ \A i \in DOMAIN toServer : toServer[i].kind = "open" => toServer[i].file <= n
      /\ \A i \in DOMAIN server.waiting : server.waiting[i] <= n
      /\ \A i \in DOMAIN toClient :
           toClient[i].kind \in {"opened", "open_failed"} => toClient[i].file <= n
      /\ \A x \in tasks : x.kind = "open" => x.file <= n
  BY <1>1 DEF TextsInv, Ids
<1>10. Ids'
  <2>1. \A x \in tasks' : x.kind = "open" => x.file <= n + 1
    <3>1. n + 1 <= n + 1
      OBVIOUS
    <3>2. \A x \in tasks : x.kind = "open" => x.file <= n + 1
      BY ONLY <1>7, <1>8, <1>9
    <3>3. \A x \in tasks' : x \in tasks \/ x.file = n + 1
      BY <1>2
    <3>. QED  BY ONLY <3>1, <3>2, <3>3
  <2>2. /\ \A i \in DOMAIN toServer : toServer[i].kind = "open" => toServer[i].file <= n + 1
        /\ \A i \in DOMAIN server.waiting : server.waiting[i] <= n + 1
        /\ \A i \in DOMAIN toClient :
             toClient[i].kind \in {"opened", "open_failed"} => toClient[i].file <= n + 1
    BY ONLY <1>7, <1>8, <1>9
  <2>3. client'.file # 0
    BY <1>1, <1>3
  <2>. QED  BY <1>2, <1>3, <2>1, <2>2, <2>3 DEF Ids
<1>11. EditsInOrder'
  BY <1>2, <1>4 DEF TextsInv, EditsInOrder
<1>12. Waits'
  <2>1. OpenAt' = {} /\ WaitAt' = {} /\ AnswerAt' = {}
    BY <1>2, <1>7, <1>8, <1>9 DEF OpenAt, WaitAt, AnswerAt
  <2>. QED  BY <2>1 DEF Waits
<1>13. Shows'
  BY <1>3 DEF Shows
<1>. QED  BY <1>5, <1>6, <1>10, <1>11, <1>12, <1>13 DEF TextsInv

LEMMA ClientSavesTexts ==
  ASSUME TypeInv, TextsInv, ~outOfTurn', ClientSaves
  PROVE  TextsInv'
<1>1. /\ client.loaded /\ used'.opens = used.opens /\ used'.edits = used.edits
      /\ UNCHANGED <<client, server, disk, noticed, reloads, writes, toServer, toClient>>
      /\ \A m \in tasks' : m \in tasks \/ m.kind = "save"
  <2>1. \E m : m.kind = "save" /\ tasks' = tasks \union {m}
    BY DEF ClientSaves
  <2>2. client.loaded
    BY TypesNow DEF ClientSaves, ClientBuffer
  <2>3. used'.opens = used.opens /\ used'.edits = used.edits
    BY TypesNow DEF ClientSaves
  <2>. QED  BY <2>1, <2>2, <2>3 DEF ClientSaves
<1>2. /\ EditsOut' = EditsOut /\ After(0)' = After(0) /\ Pushes(0)' = Pushes(0)
      /\ OpenAt' = OpenAt /\ WaitAt' = WaitAt /\ AnswerAt' = AnswerAt
      /\ OpenTasks' \subseteq OpenTasks
  BY <1>1 DEF EditsOut, After, Pushes, OpenAt, WaitAt, AnswerAt, OpenTasks
<1>3. Clean' /\ ServerInv' /\ SessionInv' /\ PushesInOrder' /\ EditsInOrder'
  BY <1>1, <1>2 DEF TextsInv, Clean, ServerInv, SessionInv, PushesInOrder, EditsInOrder
<1>4. Ids'
  BY <1>1 DEF TextsInv, Ids
<1>5. Waits'
  BY <1>1 DEF Waits
<1>6. Shows'
  BY <1>1, <1>2 DEF TextsInv, Shows, View
<1>. QED  BY <1>3, <1>4, <1>5, <1>6 DEF TextsInv

LEMMA ClientClosesTexts ==
  ASSUME TypeInv, TextsInv, ClientCloses
  PROVE  TextsInv'
<1>. USE TypesNow
<1>. DEFINE m == [kind |-> "close"]
<1>1. /\ client' = NoBuffer /\ toServer' = Append(toServer, m)
      /\ UNCHANGED <<server, disk, noticed, reloads, writes, tasks, toClient, used>>
  BY DEF ClientCloses
<1>2. /\ client'.file = 0 /\ ~client'.loaded /\ ~client'.conflict /\ client'.text = Empty
  BY <1>1 DEF NoBuffer
<1>3. m.kind = "close"
  OBVIOUS
<1>. HIDE DEF m
<1>4. EditsOut' = EditsOut /\ EditsInOrder' /\ After(0)' = After(0)
  BY <1>1, <1>3, OtherSent DEF After
<1>5. Clean'
  BY <1>1, <1>2, <1>4, BufferAssumption DEF TextsInv, Clean
<1>6. ServerInv' /\ PushesInOrder'
  BY <1>1 DEF TextsInv, ServerInv, PushesInOrder
<1>7. SessionInv'
  BY <1>1, <1>3, SessionGrows
<1>8. Ids'
  <2>1. \A i \in DOMAIN toServer' : toServer'[i].kind = "open" =>
          i \in DOMAIN toServer /\ toServer'[i] = toServer[i]
    BY <1>1, <1>3, RequestAppended
  <2>. QED  BY <1>1, <1>2, <2>1 DEF TextsInv, Ids
<1>9. Waits' /\ Shows'
  BY <1>2 DEF Waits, Shows
<1>. QED  BY <1>4, <1>5, <1>6, <1>7, <1>8, <1>9 DEF TextsInv

LEMMA ClientEditsTexts ==
  ASSUME TypeInv, TextsInv, NEW text \in Texts, ClientEdits(text)
  PROVE  TextsInv'
<1>. USE TypesNow
<1>. DEFINE m == [kind |-> "edit", from |-> client.text, to |-> text, sv |-> client.sv,
                  cv |-> used.edits + 1]
<1>1. /\ client.loaded /\ toServer' = Append(toServer, m)
      /\ used'.opens = used.opens /\ used'.edits = used.edits + 1
      /\ UNCHANGED <<server, disk, noticed, reloads, writes, tasks, toClient>>
  BY DEF ClientEdits
<1>2. /\ client'.file = client.file /\ client'.loaded /\ client'.conflict = client.conflict
      /\ client'.text = text /\ client'.cv = used.edits + 1 /\ client'.sv = client.sv
  BY <1>1 DEF ClientEdits, ClientBuffer
<1>3. /\ m.kind = "edit" /\ m.from = client.text /\ m.to = text /\ m.sv = client.sv
      /\ m.cv = used.edits + 1
  OBVIOUS
<1>. HIDE DEF m
<1>4. PICK n \in Nat : n = used.edits
  OBVIOUS
<1>5. /\ \A i \in DOMAIN toServer' : \/ i \in DOMAIN toServer /\ toServer'[i] = toServer[i]
                                     \/ i = Len(toServer) + 1 /\ toServer'[i] = m
      /\ \A i \in DOMAIN toServer : i \in Nat /\ i <= Len(toServer)
      /\ Len(toServer) \in Nat
      /\ EditsOut' = EditsOut \union {m}
  <2>1. {x \in {m} : x.kind = "edit"} = {m}
    BY <1>3
  <2>2. EditsOut' = EditsOut \union {x \in {m} : x.kind = "edit"}
    BY <1>1, RequestAppended
  <2>. QED  BY <1>1, <2>1, <2>2, RequestAppended
<1>6. \A e \in EditsOut : e.cv \in Nat /\ e.cv <= n /\ e.sv = client.sv /\ server.cv < e.cv
  BY <1>1, <1>4, EditsKnown DEF TextsInv, Shows, EditsInOrder
<1>7. /\ server.cv \in Nat /\ server.cv <= n /\ server.sv \in Int /\ client.sv \in Int
      /\ client.sv <= server.sv
  BY <1>1, <1>4
     DEF ServerBuffer, ClientBuffer, Versions, TextsInv, EditsInOrder, Shows, View, ViewOf
<1>8. Clean'
  <2>1. text # Garbled /\ After(0)' = After(0)
    BY <1>1, BufferAssumption DEF After
  <2>. QED  BY <1>1, <1>2, <1>3, <1>5, <2>1 DEF TextsInv, Clean
<1>9. ServerInv' /\ PushesInOrder'
  BY <1>1 DEF TextsInv, ServerInv, PushesInOrder
<1>10. SessionInv'
  BY <1>1, SessionGrows
<1>11. Ids'
  BY <1>1, <1>2, <1>3, <1>5 DEF TextsInv, Ids
<1>12. EditsInOrder'
  <2>1. server'.cv <= used'.edits
    BY <1>1, <1>4, <1>7
  <2>2. ASSUME NEW i \in DOMAIN toServer', NEW j \in DOMAIN toServer', i < j,
               toServer'[i].kind = "edit", toServer'[j].kind = "edit"
        PROVE  toServer'[i].cv < toServer'[j].cv
    <3>1. i \in DOMAIN toServer /\ toServer'[i] = toServer[i]
      <4>1. PICK k \in Nat : k = Len(toServer)
        BY <1>5
      <4>2. j <= k + 1 /\ j \in Nat
        BY <1>5, <4>1
      <4>3. i # k + 1
        BY <2>2, <4>2
      <4>. QED  BY <1>5, <4>1, <4>3
    <3>2. CASE j \in DOMAIN toServer /\ toServer'[j] = toServer[j]
      BY <2>2, <3>1, <3>2 DEF TextsInv, EditsInOrder
    <3>3. CASE toServer'[j] = m
      <4>1. toServer[i] \in EditsOut
        BY <2>2, <3>1 DEF EditsOut, ToSet
      <4>2. toServer[i].cv \in Nat /\ toServer[i].cv <= n
        BY <1>6, <4>1
      <4>. QED  BY <1>3, <1>4, <3>1, <3>3, <4>2
    <3>. QED  BY <1>5, <3>2, <3>3
  <2>3. ASSUME NEW e \in EditsOut
        PROVE  /\ e.sv <= server.sv
               /\ server.cv < e.cv /\ e.cv <= n + 1
               /\ e.cv < n + 1 => \E f \in EditsOut' : f.cv = e.cv + 1
               /\ e.sv = server.sv /\ (\A f \in EditsOut' : e.cv <= f.cv) => e.from = server.text
    <3>1. e.cv < n \/ e.cv = n
      BY <1>6
    <3>2. e.cv < n => \E f \in EditsOut : f.cv = e.cv + 1
      BY <1>4 DEF TextsInv, EditsInOrder
    <3>3. e.cv = n => m.cv = e.cv + 1
      BY <1>3, <1>4
    <3>4. \E f \in EditsOut' : f.cv = e.cv + 1
      BY <1>5, <3>1, <3>2, <3>3
    <3>5. \A f \in EditsOut : f \in EditsOut'
      BY <1>5
    <3>6. e.sv = server.sv /\ (\A f \in EditsOut' : e.cv <= f.cv) => e.from = server.text
      BY <3>5 DEF TextsInv, EditsInOrder
    <3>7. e.sv <= server.sv /\ server.cv < e.cv
      BY <1>6, <1>7
    <3>. QED  BY <1>6, <3>4, <3>6, <3>7
  <2>4. /\ m.sv <= server.sv
        /\ server.cv < m.cv /\ m.cv <= n + 1 /\ ~(m.cv < n + 1)
        /\ m.sv = server.sv /\ (\A f \in EditsOut' : m.cv <= f.cv) => m.from = server.text
    <3>1. ASSUME m.sv = server.sv, \A f \in EditsOut' : m.cv <= f.cv
          PROVE  m.from = server.text
      <4>1. \A f \in EditsOut : n + 1 <= f.cv
        BY <1>3, <1>4, <1>5, <3>1
      <4>2. EditsOut = {}
        BY <1>6, <4>1
      <4>3. client.sv = server.sv => client.text = server.text
        <5>1. ViewOf(Pushes(0), server, EditsOut, client.conflict, client.sv, client.cv,
                     client.text)
          BY <1>1 DEF TextsInv, Shows, View
        <5>. QED  BY <4>2, <5>1 DEF ViewOf
      <4>. QED  BY <1>3, <3>1, <4>3
    <3>2. /\ m.sv <= server.sv /\ server.cv < m.cv /\ m.cv <= n + 1 /\ ~(m.cv < n + 1)
      BY <1>3, <1>4, <1>7
    <3>. QED  BY <3>1, <3>2
  <2>5. ASSUME NEW e \in EditsOut', NEW f \in EditsOut'
        PROVE  e.sv = f.sv /\ (f.cv = e.cv + 1 => e.to = f.from)
    <3>1. e.sv = client.sv /\ f.sv = client.sv
      BY <1>3, <1>5, <1>6
    <3>2. ASSUME f.cv = e.cv + 1 PROVE e.to = f.from
      <4>1. CASE e \in EditsOut /\ f \in EditsOut
        BY <3>2, <4>1 DEF TextsInv, EditsInOrder
      <4>2. CASE f = m
        <5>1. e.cv + 1 = n + 1 /\ e.cv \in Nat
          BY <1>3, <1>4, <1>5, <1>6, <3>2, <4>2
        <5>2. e.cv = n
          BY <5>1
        <5>3. e \in EditsOut
          BY <1>3, <1>4, <1>5, <5>2
        <5>4. e.to = client.text
          BY <1>1, <1>4, <5>2, <5>3 DEF TextsInv, Shows
        <5>. QED  BY <1>3, <4>2, <5>4
      <4>3. CASE e = m /\ f # m
        <5>1. f \in EditsOut /\ f.cv = (n + 1) + 1
          BY <1>3, <1>4, <1>5, <3>2, <4>3
        <5>. QED  BY <1>6, <5>1
      <4>. QED  BY <1>5, <4>1, <4>2, <4>3
    <3>. QED  BY <3>1, <3>2
  <2>6. used'.edits = n + 1 /\ server' = server
    BY <1>1, <1>4
  <2>7. ASSUME NEW e \in EditsOut'
        PROVE  /\ e.sv <= server.sv
               /\ server.cv < e.cv /\ e.cv <= n + 1
               /\ e.cv < n + 1 => \E f \in EditsOut' : f.cv = e.cv + 1
               /\ e.sv = server.sv /\ (\A f \in EditsOut' : e.cv <= f.cv) => e.from = server.text
    BY <1>5, <2>3, <2>4
  <2>8. \E e \in EditsOut' : \A f \in EditsOut' : e.cv <= f.cv
    <3>1. CASE EditsOut = {}
      <4>1. EditsOut' = {m} /\ m.cv \in Nat
        BY <1>3, <1>4, <1>5, <3>1
      <4>. QED  BY <4>1
    <3>2. CASE EditsOut # {}
      <4>1. PICK e \in EditsOut : \A f \in EditsOut : e.cv <= f.cv
        BY <3>2 DEF TextsInv, EditsInOrder
      <4>2. e.cv <= m.cv
        BY <1>3, <1>4, <1>6
      <4>. QED  BY <1>5, <4>1, <4>2
    <3>. QED  BY <3>1, <3>2
  <2>. QED  BY <2>1, <2>2, <2>5, <2>6, <2>7, <2>8 DEF EditsInOrder
<1>13. Waits'
  BY <1>2 DEF Waits
<1>14. Shows'
  <2>1. /\ OpenTasks = {} /\ OpenAt = {} /\ WaitAt = {} /\ AnswerAt = {}
        /\ server.writer /\ server.base # 0
        /\ \A i \in DOMAIN toServer : toServer[i].kind # "close"
        /\ View(Pushes(0), client.sv, client.cv, client.text)
    BY <1>1 DEF TextsInv, Shows
  <2>2. OpenTasks' = {} /\ WaitAt' = {} /\ AnswerAt' = {} /\ Pushes(0)' = Pushes(0)
    BY <1>1, <2>1 DEF OpenTasks, WaitAt, AnswerAt, Pushes, After
  <2>3. \A i \in DOMAIN toServer' : toServer'[i].kind # "close"
    BY <1>3, <1>5, <2>1
  <2>4. OpenAt' = {}
    BY <1>1, <1>3, <1>5, <2>1 DEF OpenAt
  <2>5. ASSUME NEW e \in EditsOut'
        PROVE  /\ e.sv = client.sv
               /\ e.cv = n + 1 => e.to = text
    <3>1. e \in EditsOut => e.cv # n + 1
      BY <1>6
    <3>. QED  BY <1>3, <1>5, <1>6, <3>1
  <2>6. View(Pushes(0), client.sv, client.cv, client.text)'
    <3>1. n + 1 # server.cv /\ EditsOut' # {}
      BY <1>5, <1>7
    <3>2. ViewOf(Pushes(0), server, EditsOut', client.conflict, client.sv, n + 1, text)
      BY <2>1, <3>1 DEF View, ViewOf
    <3>. QED  BY <1>1, <1>2, <1>4, <2>2, <3>2 DEF View
  <2>. QED  BY <1>1, <1>2, <1>4, <2>1, <2>2, <2>3, <2>4, <2>5, <2>6 DEF Shows
<1>. QED  BY <1>8, <1>9, <1>10, <1>11, <1>12, <1>13, <1>14 DEF TextsInv

LEMMA RequestSentTexts ==
  ASSUME TypeInv, TextsInv, NEW m \in tasks, RequestSent(m)
  PROVE  TextsInv'
<1>. USE TypesNow
<1>1. /\ tasks' = tasks \ {m} /\ toServer' = Append(toServer, m)
      /\ UNCHANGED <<client, server, disk, noticed, reloads, writes, toClient, used>>
  BY DEF RequestSent
<1>2. m \in Request /\ m.kind \in {"open", "save"}
  BY DEF Request, OpenMsg, SaveRequest
<1>3. m.kind = "open" => m.file <= used.opens
  BY DEF TextsInv, Ids
<1>4. EditsOut' = EditsOut /\ EditsInOrder' /\ After(0)' = After(0) /\ Pushes(0)' = Pushes(0)
      /\ WaitAt' = WaitAt /\ AnswerAt' = AnswerAt
  BY <1>1, <1>2, OtherSent DEF After, Pushes, WaitAt, AnswerAt
<1>5. Clean'
  BY <1>1, <1>4 DEF TextsInv, Clean
<1>6. ServerInv' /\ PushesInOrder'
  BY <1>1 DEF TextsInv, ServerInv, PushesInOrder
<1>7. SessionInv'
  BY <1>1, <1>2, SessionGrows
<1>8. /\ Len(toServer) \in Nat /\ Len(toServer') = Len(toServer) + 1
      /\ \A i \in DOMAIN toServer' : \/ i \in DOMAIN toServer /\ toServer'[i] = toServer[i]
                                     \/ i = Len(toServer) + 1 /\ toServer'[i] = m
  BY <1>1, RequestAppended
<1>9. Ids'
  <2>1. \A i \in DOMAIN toServer' : toServer'[i].kind = "open" => toServer'[i].file <= used.opens
    <3>1. used.opens <= used.opens
      OBVIOUS
    <3>. QED  BY <1>3, <1>8, <3>1 DEF TextsInv, Ids
  <2>. QED  BY <1>1, <2>1 DEF TextsInv, Ids
<1>10. /\ \A i \in DOMAIN toServer : /\ i \in Nat /\ i <= Len(toServer)
                                     /\ i \in DOMAIN toServer' /\ toServer'[i] = toServer[i]
       /\ \A n \in Nat : CalmAfter(n) => CalmAfter(n)'
       /\ \A n \in Nat : n = Len(toServer) + 1 => CalmAfter(n)'
  <2>1. DOMAIN toServer = 1..Len(toServer) /\ DOMAIN toServer' = 1..(Len(toServer) + 1)
    <3>1. toServer' \in Seq(ServerMsg)
      BY <1>1, <1>2 DEF ServerMsg
    <3>. QED  BY <1>8, <3>1
  <2>2. \A i \in DOMAIN toServer : /\ i \in Nat /\ i <= Len(toServer) /\ i \in DOMAIN toServer'
                                   /\ toServer'[i] = toServer[i]
    <3>1. \A i \in DOMAIN toServer : i \in DOMAIN toServer' /\ i # Len(toServer) + 1
      BY <1>8, <2>1
    <3>. QED  BY <1>8, <2>1, <3>1
  <2>3. \A n \in Nat : CalmAfter(n) => CalmAfter(n)'
    BY <1>2, <1>8 DEF CalmAfter
  <2>4. \A n \in Nat : n = Len(toServer) + 1 => CalmAfter(n)'
    BY <1>8, <2>1 DEF CalmAfter
  <2>. QED  BY <2>2, <2>3, <2>4
<1>11. Waits'
  <2>. SUFFICES ASSUME client.file # 0, ~client.loaded PROVE Waits'
    BY <1>1 DEF Waits
  <2>1. /\ OpenTasks # {} => OpenAt = {} /\ WaitAt = {} /\ AnswerAt = {}
        /\ \A i \in OpenAt : /\ CalmAfter(i) /\ WaitAt = {} /\ AnswerAt = {}
                             /\ \A j \in OpenAt : i = j
        /\ \A i \in WaitAt : /\ AnswerAt = {} /\ CalmAfter(0)
                             /\ server.writer /\ server.base = 0
                             /\ \A j \in WaitAt : i = j
        /\ \A i \in AnswerAt : /\ CalmAfter(0)
                               /\ \A j \in AnswerAt : i = j
                               /\ toClient[i].kind = "opened" =>
                                    /\ server.writer /\ server.base # 0
                                    /\ View(Pushes(i), toClient[i].sv, 0, toClient[i].text)
    BY DEF TextsInv, Waits
  <2>2. /\ \A i \in WaitAt : CalmAfter(0)'
        /\ \A i \in AnswerAt : CalmAfter(0)'
    BY <1>10, <2>1
  <2>3. ASSUME NEW i \in AnswerAt, toClient'[i].kind = "opened"
        PROVE  /\ server'.writer /\ server'.base # 0
               /\ View(Pushes(i), toClient[i].sv, 0, toClient[i].text)'
    <3>1. Pushes(i)' = Pushes(i)
      BY <1>1 DEF Pushes, After
    <3>. QED  BY <1>1, <1>4, <2>1, <2>3, <3>1 DEF View
  <2>4. CASE m \in OpenTasks
    <3>1. OpenAt = {} /\ WaitAt = {} /\ AnswerAt = {} /\ m.kind = "open" /\ m.file = used.opens
      BY <2>1, <2>4 DEF OpenTasks
    <3>2. OpenTasks' = {}
      <4>. SUFFICES ASSUME NEW x \in tasks, x.kind = "open", x.file = used.opens PROVE x = m
        BY <1>1 DEF OpenTasks
      <4>1. x \in OpenMsg /\ m \in OpenMsg
        <5>1. x \in Request
          OBVIOUS
        <5>. QED  BY <1>2, <3>1, <5>1 DEF Request, SaveRequest
      <4>. QED  BY <3>1, <4>1 DEF OpenMsg
    <3>3. \A i \in OpenAt' : i = Len(toServer) + 1
      <4>1. \A i \in DOMAIN toServer : ~(toServer[i].kind = "open" /\ toServer[i].file = used.opens)
        BY <3>1 DEF OpenAt
      <4>2. used'.opens = used.opens
        BY <1>1
      <4>3. ASSUME NEW i \in OpenAt' PROVE i = Len(toServer) + 1
        <5>1. i \in DOMAIN toServer' /\ toServer'[i].kind = "open" /\ toServer'[i].file = used.opens
          BY <4>2, <4>3 DEF OpenAt
        <5>2. ~(i \in DOMAIN toServer /\ toServer'[i] = toServer[i])
          BY <4>1, <5>1
        <5>. QED  BY <1>8, <5>1, <5>2
      <4>. QED  BY <4>3
    <3>4. \A i \in OpenAt' : CalmAfter(i)'
      <4>1. Len(toServer) + 1 \in Nat
        BY <1>8
      <4>. QED  BY <1>10, <3>3, <4>1
    <3>. QED  BY <1>4, <3>1, <3>2, <3>3, <3>4 DEF Waits
  <2>5. CASE m \notin OpenTasks
    <3>1. OpenTasks' = OpenTasks
      BY <1>1, <2>5 DEF OpenTasks
    <3>2. OpenAt' = OpenAt
      <4>1. ~(m.kind = "open" /\ m.file = used.opens)
        BY <2>5 DEF OpenTasks
      <4>2. \A i \in OpenAt' : i \in OpenAt
        BY <1>1, <1>8, <4>1 DEF OpenAt
      <4>3. \A i \in OpenAt : i \in OpenAt'
        BY <1>1, <1>10 DEF OpenAt
      <4>. QED  BY <4>2, <4>3
    <3>3. \A i \in OpenAt : CalmAfter(i)'
      <4>1. \A i \in OpenAt : i \in Nat
        BY <1>10 DEF OpenAt
      <4>. QED  BY <1>10, <2>1, <4>1
    <3>4. server'.writer = server.writer /\ server'.base = server.base
      BY <1>1
    <3>. QED  BY <1>4, <2>1, <2>2, <2>3, <3>1, <3>2, <3>3, <3>4 DEF Waits
  <2>. QED  BY <2>4, <2>5
<1>12. Shows'
  <2>. SUFFICES ASSUME client.loaded PROVE Shows'
    BY <1>1 DEF Shows
  <2>1. /\ OpenTasks = {} /\ OpenAt = {} /\ WaitAt = {} /\ AnswerAt = {}
        /\ server.writer /\ server.base # 0
        /\ \A i \in DOMAIN toServer : toServer[i].kind # "close"
        /\ View(Pushes(0), client.sv, client.cv, client.text)
        /\ \A e \in EditsOut : /\ e.sv = client.sv /\ client.cv = used.edits
                               /\ e.cv = used.edits => e.to = client.text
    BY DEF TextsInv, Shows
  <2>2. OpenTasks' = {} /\ ~(m.kind = "open" /\ m.file = used.opens)
    BY <1>1, <2>1 DEF OpenTasks
  <2>3. \A i \in DOMAIN toServer' : toServer'[i].kind # "close"
    BY <1>2, <1>8, <2>1
  <2>4. OpenAt' = {}
    BY <1>1, <1>8, <2>1, <2>2 DEF OpenAt
  <2>5. View(Pushes(0), client.sv, client.cv, client.text)'
    BY <1>1, <1>4, <2>1 DEF View
  <2>. QED  BY <1>1, <1>4, <2>1, <2>2, <2>3, <2>4, <2>5 DEF Shows
<1>. QED  BY <1>4, <1>5, <1>6, <1>7, <1>9, <1>11, <1>12 DEF TextsInv

-----------------------------------------------------------------------------
\* The client takes an answer, or the first push.

LEMMA ClientTaken ==
  ASSUME TypeInv, TextsInv, NEW k \in Deliverable, toClient' = RemoveAt(toClient, k),
         used' = used
  PROVE  /\ k \in DOMAIN toClient /\ k \in Nat
         /\ toClient[k] \in ClientMsg /\ toClient[k] \in After(0)
         /\ \A m \in After(0)' : m \in After(0)
         /\ \A i \in DOMAIN toClient' : \E j \in DOMAIN toClient : toClient'[i] = toClient[j]
         /\ toClient[k].kind # "push" => Pushes(0)' = Pushes(0)
         /\ toClient[k].kind = "push" =>
              /\ toClient[k] \in Pushes(0)
              /\ Pushes(0)' = Pushes(0) \ {toClient[k]}
              /\ \A p \in Pushes(0) \ {toClient[k]} : toClient[k].sv < p.sv
         /\ PushesInOrder'
         /\ \A i \in AnswerAt' :
              \E j \in AnswerAt : /\ j # k /\ Kept(k, i, j) /\ toClient'[i] = toClient[j]
                                  /\ toClient[k].kind # "push" \/ k < j
                                       => Pushes(i)' = Pushes(j)
<1>. USE TypesNow
<1>1. /\ k \in Nat /\ k \in DOMAIN toClient /\ toClient[k] \in ClientMsg
      /\ toClient[k].kind = "push" => \A j \in 1..(k - 1) : toClient[j].kind # "push"
      /\ \A j \in DOMAIN toClient : j \in Nat /\ j >= 1 /\ (j < k => j \in 1..(k - 1))
      /\ \A i \in DOMAIN toClient' :
           /\ i \in Nat /\ i >= 1
           /\ \E j \in DOMAIN toClient : Kept(k, i, j) /\ toClient'[i] = toClient[j]
      /\ \A j \in DOMAIN toClient : j # k =>
           \E i \in DOMAIN toClient' : Kept(k, i, j) /\ toClient'[i] = toClient[j]
  <2>1. k \in DOMAIN toClient
    BY DEF Deliverable
  <2>2. toClient[k].kind = "push" => \A j \in 1..(k - 1) : toClient[j].kind # "push"
    BY DEF Deliverable
  <2>. QED  BY <2>1, <2>2, TakenFrom
<1>2. PICK m : m = toClient[k]
  OBVIOUS
<1>3. /\ \A x \in After(0)' : \E j \in DOMAIN toClient : j # k /\ toClient[j] = x
      /\ \A x \in After(0) : x = m \/ x \in After(0)'
      /\ \A x \in After(0)' : x \in After(0)
      /\ m \in After(0)
  <2>1. ASSUME NEW x \in After(0)'
        PROVE  \E j \in DOMAIN toClient : j # k /\ j > 0 /\ toClient[j] = x
    <3>1. PICK i \in DOMAIN toClient' : toClient'[i] = x
      BY DEF After
    <3>2. PICK j \in DOMAIN toClient : Kept(k, i, j) /\ toClient'[i] = toClient[j]
      BY <1>1, <3>1
    <3>3. i \in Nat /\ j \in Nat /\ j > 0 /\ k \in Nat
      BY <1>1
    <3>4. j # k
      BY ONLY <3>2, <3>3, KeptOrder
    <3>. QED  BY <3>1, <3>2, <3>3, <3>4
  <2>2. ASSUME NEW x \in After(0), x # m
        PROVE  x \in After(0)'
    <3>1. PICK j \in DOMAIN toClient : toClient[j] = x
      BY DEF After
    <3>2. PICK i \in DOMAIN toClient' : toClient'[i] = toClient[j]
      BY <1>1, <1>2, <2>2, <3>1
    <3>3. i > 0
      BY <1>1
    <3>. QED  BY <3>1, <3>2, <3>3 DEF After
  <2>3. m \in After(0)
    BY <1>1, <1>2 DEF After
  <2>. QED  BY <2>1, <2>2, <2>3 DEF After
<1>4. m.kind # "push" => Pushes(0)' = Pushes(0)
  BY <1>3 DEF Pushes
<1>5. ASSUME m.kind = "push", NEW j \in DOMAIN toClient, j # k, toClient[j].kind = "push"
      PROVE  m.sv < toClient[j].sv
  <2>1. k < j
    BY <1>1, <1>2, <1>5
  <2>. QED  BY <1>1, <1>2, <1>5, <2>1 DEF TextsInv, PushesInOrder
<1>6. ASSUME m.kind = "push"
      PROVE  /\ m \in Pushes(0) /\ Pushes(0)' = Pushes(0) \ {m}
             /\ \A p \in Pushes(0) \ {m} : m.sv < p.sv
  <2>1. m \in Pushes(0)
    BY <1>3, <1>6 DEF Pushes
  <2>2. \A p \in Pushes(0)' : p \in Pushes(0) /\ m.sv < p.sv
    BY <1>3, <1>5, <1>6 DEF Pushes
  <2>3. m \notin Pushes(0)'
    <3>1. m.sv \in Int
      BY <1>1, <1>2, <1>6, ClientKinds DEF Versions
    <3>. QED  BY <2>2, <3>1
  <2>4. \A p \in Pushes(0) : p = m \/ p \in Pushes(0)'
    BY <1>3 DEF Pushes
  <2>. QED  BY <2>1, <2>2, <2>3, <2>4
<1>7. PushesInOrder'
  <2>. SUFFICES ASSUME NEW i \in DOMAIN toClient', NEW j \in DOMAIN toClient', i < j,
                       toClient'[i].kind = "push", toClient'[j].kind = "push"
                PROVE  toClient'[i].sv < toClient'[j].sv
    BY DEF PushesInOrder
  <2>1. PICK a \in DOMAIN toClient : Kept(k, i, a) /\ toClient'[i] = toClient[a]
    BY <1>1
  <2>2. PICK b \in DOMAIN toClient : Kept(k, j, b) /\ toClient'[j] = toClient[b]
    BY <1>1
  <2>3. /\ i \in Nat /\ j \in Nat /\ a \in Nat /\ b \in Nat /\ k \in Nat
        /\ Kept(k, i, a) /\ Kept(k, j, b) /\ i < j
    BY <1>1, <2>1, <2>2
  <2>4. a < b
    BY ONLY <2>3, KeptOrder
  <2>. QED  BY <2>1, <2>2, <2>4 DEF TextsInv, PushesInOrder
<1>8. ASSUME NEW i \in DOMAIN toClient', NEW j \in DOMAIN toClient, Kept(k, i, j),
             m.kind # "push" \/ k < j
      PROVE  Pushes(i)' = Pushes(j)
  <2>1. ASSUME NEW x \in Pushes(i)'
        PROVE  x \in Pushes(j)
    <3>1. PICK a \in DOMAIN toClient' : a > i /\ toClient'[a] = x /\ x.kind = "push"
      BY DEF Pushes, After
    <3>2. PICK b \in DOMAIN toClient : Kept(k, a, b) /\ toClient'[a] = toClient[b]
      BY <1>1
    <3>3. /\ i \in Nat /\ j \in Nat /\ a \in Nat /\ b \in Nat /\ k \in Nat
          /\ Kept(k, i, j) /\ Kept(k, a, b) /\ i < a
      BY <1>1, <1>8, <3>1, <3>2
    <3>4. j < b
      BY ONLY <3>3, KeptOrder
    <3>. QED  BY <3>1, <3>2, <3>4 DEF Pushes, After
  <2>2. ASSUME NEW x \in Pushes(j)
        PROVE  x \in Pushes(i)'
    <3>1. PICK b \in DOMAIN toClient : b > j /\ toClient[b] = x /\ x.kind = "push"
      BY DEF Pushes, After
    <3>2. b # k
      <4>1. j \in Nat /\ k \in Nat /\ b \in Nat /\ j < b
        BY <1>1, <3>1
      <4>2. b = k => m.kind = "push"
        BY <1>2, <3>1
      <4>. QED  BY <1>8, <4>1, <4>2
    <3>3. PICK a \in DOMAIN toClient' : Kept(k, a, b) /\ toClient'[a] = toClient[b]
      BY <1>1, <3>2
    <3>4. /\ i \in Nat /\ j \in Nat /\ a \in Nat /\ b \in Nat /\ k \in Nat
          /\ Kept(k, i, j) /\ Kept(k, a, b) /\ j < b
      BY <1>1, <1>8, <3>1, <3>3
    <3>5. i < a
      BY ONLY <3>4, KeptOrder
    <3>. QED  BY <3>1, <3>3, <3>5 DEF Pushes, After
  <2>. QED  BY <2>1, <2>2
<1>9. ASSUME NEW i \in AnswerAt'
      PROVE  \E j \in AnswerAt : /\ j # k /\ Kept(k, i, j) /\ toClient'[i] = toClient[j]
                                 /\ m.kind # "push" \/ k < j => Pushes(i)' = Pushes(j)
  <2>1. /\ i \in DOMAIN toClient' /\ toClient'[i].kind \in {"opened", "open_failed"}
        /\ toClient'[i].file = used.opens
    BY DEF AnswerAt
  <2>2. PICK j \in DOMAIN toClient : Kept(k, i, j) /\ toClient'[i] = toClient[j]
    BY <1>1, <2>1
  <2>3. j \in AnswerAt /\ j # k
    BY <1>1, <2>1, <2>2 DEF AnswerAt, Kept
  <2>4. m.kind # "push" \/ k < j => Pushes(i)' = Pushes(j)
    BY <1>8, <2>1, <2>2
  <2>. QED  BY <2>2, <2>3, <2>4
<1>10. \A i \in DOMAIN toClient' : \E j \in DOMAIN toClient : toClient'[i] = toClient[j]
  BY <1>1
<1>. HIDE DEF Deliverable
<1>. QED  BY <1>1, <1>2, <1>3, <1>4, <1>6, <1>7, <1>9, <1>10

\* What does not depend on the copy of the client.
LEMMA ReadSteady ==
  ASSUME TypeInv, TextsInv, NEW k \in Deliverable, toClient' = RemoveAt(toClient, k),
         UNCHANGED <<server, disk, noticed, reloads, writes, tasks, toServer, used, issued>>
  PROVE  /\ ServerInv' /\ SessionInv' /\ EditsInOrder' /\ PushesInOrder'
         /\ EditsOut' = EditsOut /\ OpenTasks' = OpenTasks /\ OpenAt' = OpenAt
         /\ WaitAt' = WaitAt
         /\ client'.text # Garbled => Clean'
         /\ client' = client /\ (toClient[k].kind = "push" => ~OvertakesText(k)) => Waits'
<1>1. /\ EditsOut' = EditsOut /\ OpenTasks' = OpenTasks /\ OpenAt' = OpenAt
      /\ WaitAt' = WaitAt /\ \A n : CalmAfter(n)' <=> CalmAfter(n)
  BY DEF EditsOut, OpenTasks, OpenAt, WaitAt, CalmAfter
<1>2. ServerInv' /\ SessionInv'
  BY DEF TextsInv, ServerInv, SessionInv
<1>3. EditsInOrder'
  BY <1>1 DEF TextsInv, EditsInOrder
<1>4. PushesInOrder' /\ \A m \in After(0)' : m \in After(0)
  BY ClientTaken
<1>5. client'.text # Garbled => Clean'
  BY <1>1, <1>4 DEF TextsInv, Clean
<1>6. ASSUME client' = client, client.file # 0, ~client.loaded,
             toClient[k].kind = "push" => ~OvertakesText(k)
      PROVE  Waits'
  <2>1. /\ k \in DOMAIN toClient /\ k \in Nat
        /\ \A j \in DOMAIN toClient : j \in Nat /\ j >= 1 /\ (j < k => j \in 1..(k - 1))
        /\ \A i \in DOMAIN toClient' : i \in Nat /\ i >= 1
    <3>1. k \in DOMAIN toClient
      BY ClientTaken
    <3>. QED  BY <3>1, TakenFrom
  <2>2. \A i \in AnswerAt' :
          \E j \in AnswerAt : /\ j # k /\ Kept(k, i, j) /\ toClient'[i] = toClient[j]
                              /\ toClient[k].kind # "push" \/ k < j => Pushes(i)' = Pushes(j)
    BY ClientTaken
  <2>3. ASSUME NEW i \in AnswerAt', NEW j \in AnswerAt' PROVE i = j
    <3>1. PICK a \in AnswerAt, b \in AnswerAt : Kept(k, i, a) /\ Kept(k, j, b)
      BY <2>2
    <3>2. a = b
      BY <1>6 DEF TextsInv, Waits
    <3>3. i \in Nat /\ j \in Nat /\ a \in Nat
      BY <2>1 DEF AnswerAt
    <3>. QED  BY <2>1, <3>1, <3>2, <3>3 DEF Kept
  <2>4. ASSUME NEW i \in AnswerAt', toClient'[i].kind = "opened"
        PROVE  /\ server.writer /\ server.base # 0
               /\ View(Pushes(i), toClient[i].sv, 0, toClient[i].text)'
    <3>1. PICK j \in AnswerAt :
            /\ j # k /\ Kept(k, i, j) /\ toClient'[i] = toClient[j]
            /\ toClient[k].kind # "push" \/ k < j => Pushes(i)' = Pushes(j)
      BY <2>2
    <3>2. /\ server.writer /\ server.base # 0
          /\ View(Pushes(j), toClient[j].sv, 0, toClient[j].text)
      BY <1>6, <2>4, <3>1 DEF TextsInv, Waits
    <3>3. toClient[k].kind = "push" => k < j
      <4>. SUFFICES ASSUME toClient[k].kind = "push", j < k PROVE FALSE
        BY <2>1, <3>1 DEF AnswerAt
      <4>1. j \in 1..(k - 1) /\ toClient[j].kind = "opened" /\ toClient[j].file = used.opens
        BY <2>1, <2>4, <3>1 DEF AnswerAt
      <4>2. client.file = used.opens
        BY <1>6 DEF TextsInv, Ids
      <4>. QED  BY <1>6, <4>1, <4>2 DEF OvertakesText
    <3>4. Pushes(i)' = Pushes(j)
      BY <3>1, <3>3
    <3>. QED  BY <1>1, <1>6, <3>1, <3>2, <3>4 DEF View
  <2>5. AnswerAt = {} => AnswerAt' = {}
    BY <2>2
  <2>6. AnswerAt' # {} => CalmAfter(0) /\ OpenTasks = {} /\ OpenAt = {} /\ WaitAt = {}
    BY <1>6, <2>2 DEF TextsInv, Waits
  <2>. QED  BY <1>1, <1>6, <2>3, <2>4, <2>5, <2>6 DEF TextsInv, Waits
<1>7. client' = client /\ ~(client.file # 0 /\ ~client.loaded) => Waits'
  BY DEF Waits
<1>. QED  BY <1>1, <1>2, <1>3, <1>4, <1>5, <1>6, <1>7

\* The editor shows what it showed before: no push was taken.
LEMMA TakenShows ==
  ASSUME TypeInv, TextsInv, NEW k \in Deliverable, toClient' = RemoveAt(toClient, k),
         UNCHANGED <<server, disk, noticed, reloads, writes, tasks, toServer, used, issued>>,
         client' = client, toClient[k].kind # "push"
  PROVE  TextsInv'
<1>1. /\ ServerInv' /\ SessionInv' /\ EditsInOrder' /\ PushesInOrder' /\ Clean' /\ Waits'
      /\ EditsOut' = EditsOut /\ OpenTasks' = OpenTasks /\ OpenAt' = OpenAt
      /\ WaitAt' = WaitAt
  BY ReadSteady DEF TextsInv, Clean
<1>2. /\ \A i \in DOMAIN toClient' : \E j \in DOMAIN toClient : toClient'[i] = toClient[j]
      /\ Pushes(0)' = Pushes(0)
      /\ \A i \in AnswerAt' : \E j \in AnswerAt : TRUE
  BY ClientTaken
<1>3. Ids'
  BY <1>2 DEF TextsInv, Ids
<1>4. Shows'
  BY <1>1, <1>2 DEF TextsInv, Shows, View
<1>. QED  BY <1>1, <1>3, <1>4 DEF TextsInv

LEMMA FinishTexts ==
  ASSUME TypeInv, TextsInv, ~outOfTurn', NEW k \in Deliverable, FinishMaterialization(k)
  PROVE  TextsInv'
<1>. USE TypesNow
<1>1. /\ toClient' = RemoveAt(toClient, k)
      /\ UNCHANGED <<server, disk, noticed, reloads, writes, tasks, toServer, used, issued>>
  BY DEF FinishMaterialization, ClientTakes
<1>2. PICK m : m = toClient[k]
  OBVIOUS
<1>3. m.kind \in {"opened", "open_failed"} /\ m.kind # "push"
  BY <1>2 DEF FinishMaterialization
<1>4. /\ k \in DOMAIN toClient /\ m \in ClientMsg /\ m \in After(0)
      /\ \A i \in DOMAIN toClient' : \E j \in DOMAIN toClient : toClient'[i] = toClient[j]
      /\ Pushes(0)' = Pushes(0)
      /\ \A i \in AnswerAt' : \E j \in AnswerAt : j # k
  BY <1>1, <1>2, <1>3, ClientTaken
<1>5. CASE m.file # client.file
  <2>1. client' = client
    BY <1>2, <1>5 DEF FinishMaterialization
  <2>. QED  BY <1>1, <1>2, <1>3, <2>1, TakenShows
<1>6. CASE m.file = client.file
  <2>1. client.file # 0 /\ m.file = used.opens
    <3>1. m.file \in Files
      BY <1>3, <1>4, ClientKinds
    <3>. QED  BY <1>6, <3>1 DEF TextsInv, Ids, Files
  <2>2. k \in AnswerAt
    BY <1>2, <1>3, <1>4, <2>1 DEF AnswerAt
  <2>3. ~client.loaded /\ ~client.conflict
    BY <2>2 DEF TextsInv, Shows, Ids
  <2>4. /\ OpenTasks = {} /\ OpenAt = {} /\ WaitAt = {} /\ CalmAfter(0)
        /\ \A j \in AnswerAt : j = k
        /\ m.kind = "opened" => /\ server.writer /\ server.base # 0
                                /\ View(Pushes(k), m.sv, 0, m.text)
    BY <1>2, <2>1, <2>2, <2>3 DEF TextsInv, Waits
  <2>5. AnswerAt' = {} /\ EditsOut = {} /\ \A i \in DOMAIN toServer : toServer[i].kind # "close"
    <3>1. \A i \in DOMAIN toServer : i > 0
      <4>1. DOMAIN toServer = 1..Len(toServer) /\ Len(toServer) \in Nat
        OBVIOUS
      <4>. QED  BY <4>1
    <3>2. \A i \in DOMAIN toServer : toServer[i].kind # "close"
      BY <2>4, <3>1 DEF CalmAfter
    <3>3. EditsOut = {}
      BY <2>4, NoCalmEdits
    <3>. QED  BY <1>4, <2>4, <3>2, <3>3
  <2>6. Pushes(0) = Pushes(k)
    <3>1. \A j \in DOMAIN toClient : j > 0 /\ (j < k => j \in 1..(k - 1))
      BY <1>1, <1>4, TakenFrom
    <3>2. ~OvertakesPush(k)
      BY DEF FinishMaterialization
    <3>3. \A j \in DOMAIN toClient : toClient[j].kind = "push" => j > k
      <4>1. \A j \in 1..(k - 1) : toClient[j].kind # "push"
        BY <1>2, <1>6, <3>2 DEF OvertakesPush
      <4>2. \A j \in DOMAIN toClient : j \in Nat /\ (j < k => j \in 1..(k - 1))
        BY <1>1, <1>4, TakenFrom
      <4>3. k \in Nat
        BY <1>4, <4>2
      <4>. QED  BY <1>2, <1>3, <4>1, <4>2, <4>3
    <3>. QED  BY <3>1, <3>3 DEF Pushes, After
  <2>7. /\ ServerInv' /\ SessionInv' /\ EditsInOrder' /\ PushesInOrder'
        /\ EditsOut' = EditsOut /\ OpenTasks' = OpenTasks /\ OpenAt' = OpenAt
        /\ WaitAt' = WaitAt
        /\ client'.text # Garbled => Clean'
    BY <1>1, ReadSteady
  <2>8. CASE m.kind = "opened"
    <3>1. /\ client'.loaded /\ client'.file = client.file /\ client'.conflict = client.conflict
          /\ client'.sv = m.sv /\ client'.cv = 0 /\ client'.text = m.text
      BY <1>2, <1>6, <2>8 DEF FinishMaterialization, ClientBuffer
    <3>2. Clean'
      BY <1>4, <2>7, <2>8, <3>1 DEF TextsInv, Clean
    <3>3. Ids'
      BY <1>1, <1>4, <2>1, <3>1 DEF TextsInv, Ids
    <3>4. Waits'
      BY <3>1 DEF Waits
    <3>5. View(Pushes(0), client.sv, client.cv, client.text)'
      BY <1>1, <1>4, <2>4, <2>6, <2>7, <2>8, <3>1 DEF View
    <3>6. Shows'
      BY <1>1, <2>4, <2>5, <2>7, <2>8, <3>1, <3>5 DEF Shows
    <3>. QED  BY <2>7, <3>2, <3>3, <3>4, <3>6 DEF TextsInv
  <2>9. CASE m.kind = "open_failed"
    <3>1. client' = NoBuffer
      BY <1>2, <1>6, <2>9 DEF FinishMaterialization
    <3>2. client'.file = 0 /\ ~client'.loaded /\ ~client'.conflict /\ client'.text = Empty
      BY <3>1 DEF NoBuffer
    <3>3. Clean'
      BY <2>7, <3>2, BufferAssumption
    <3>4. Ids'
      BY <1>1, <1>4, <3>2 DEF TextsInv, Ids
    <3>5. Waits' /\ Shows'
      BY <3>2 DEF Waits, Shows
    <3>. QED  BY <2>7, <3>3, <3>4, <3>5 DEF TextsInv
  <2>. QED  BY <1>3, <2>8, <2>9
<1>. QED  BY <1>5, <1>6

LEMMA SaveReportedTexts ==
  ASSUME TypeInv, TextsInv, NEW k \in Deliverable, SaveReported(k)
  PROVE  TextsInv'
<1>1. /\ toClient' = RemoveAt(toClient, k) /\ client' = client /\ toClient[k].kind # "push"
      /\ UNCHANGED <<server, disk, noticed, reloads, writes, tasks, toServer, used, issued>>
  BY DEF SaveReported, ClientTakes
<1>. QED  BY <1>1, TakenShows

LEMMA PushTexts ==
  ASSUME TypeInv, TextsInv, ~outOfTurn', NEW k \in Deliverable, HandleBufferUpdatedPush(k)
  PROVE  TextsInv'
<1>. USE TypesNow
<1>1. /\ toClient' = RemoveAt(toClient, k)
      /\ UNCHANGED <<server, disk, noticed, reloads, writes, tasks, toServer, used, issued>>
  BY DEF HandleBufferUpdatedPush, ClientTakes
<1>2. PICK m : m = toClient[k]
  OBVIOUS
<1>3. m.kind = "push" /\ ~OvertakesText(k)
  BY <1>2 DEF HandleBufferUpdatedPush
<1>4. /\ k \in DOMAIN toClient /\ m \in ClientMsg /\ m \in After(0)
      /\ \A i \in DOMAIN toClient' : \E j \in DOMAIN toClient : toClient'[i] = toClient[j]
      /\ Pushes(0)' = Pushes(0) \ {m} /\ m \in Pushes(0)
      /\ \A p \in Pushes(0) \ {m} : m.sv < p.sv
      /\ \A i \in AnswerAt' : \E j \in AnswerAt : j # k
  BY <1>1, <1>2, <1>3, ClientTaken
<1>5. /\ ServerInv' /\ SessionInv' /\ EditsInOrder' /\ PushesInOrder'
      /\ EditsOut' = EditsOut /\ OpenTasks' = OpenTasks /\ OpenAt' = OpenAt
      /\ WaitAt' = WaitAt
      /\ client'.text # Garbled => Clean'
      /\ client' = client => Waits'
  BY <1>1, <1>3, ReadSteady
<1>6. CASE ~client.loaded
  <2>1. client' = client
    BY <1>6 DEF HandleBufferUpdatedPush
  <2>2. Clean'
    BY <1>5, <2>1 DEF TextsInv, Clean
  <2>3. Ids'
    BY <1>1, <1>4, <2>1 DEF TextsInv, Ids
  <2>4. Shows'
    BY <1>6, <2>1 DEF Shows
  <2>. QED  BY <1>5, <2>1, <2>2, <2>3, <2>4 DEF TextsInv
<1>7. CASE client.loaded
  <2>1. /\ OpenTasks = {} /\ OpenAt = {} /\ WaitAt = {} /\ AnswerAt = {}
        /\ server.writer /\ server.base # 0
        /\ \A i \in DOMAIN toServer : toServer[i].kind # "close"
        /\ ViewOf(Pushes(0), server, EditsOut, client.conflict, client.sv, client.cv, client.text)
        /\ \A e \in EditsOut : /\ e.sv = client.sv /\ client.cv = used.edits
                               /\ e.cv = used.edits => e.to = client.text
    BY <1>7 DEF TextsInv, Shows, View
  <2>2. AnswerAt' = {}
    BY <1>4, <2>1
  <2>3. m.cv = server.cv
    BY <1>4, <2>1 DEF ViewOf
  <2>4. client.sv \in Int /\ server.sv \in Int /\ \A p \in Pushes(0) : p.sv \in Int
    <3>1. client.sv \in Int /\ server.sv \in Int
      BY DEF ClientBuffer, ServerBuffer, Versions
    <3>2. \A p \in Pushes(0) : p.sv \in Versions
      BY PushesKnown
    <3>. QED  BY <3>1, <3>2 DEF Versions
  <2>5. PICK told \in BOOLEAN : told = client.conflict
    BY DEF ClientBuffer
  <2>6. PICK P, s, E, sv, cv, text :
          /\ P = Pushes(0) /\ s = server /\ E = EditsOut
          /\ sv = client.sv /\ cv = client.cv /\ text = client.text
    OBVIOUS
  <2>7. /\ ViewOf(P, s, E, told, sv, cv, text) /\ sv \in Int /\ m \in P /\ s.sv \in Int
        /\ \A p \in P : p.sv \in Int
        /\ \A p \in P \ {m} : m.sv < p.sv
    BY <1>4, <2>1, <2>4, <2>5, <2>6
  <2>8. CASE client.cv = m.cv
    <3>1. m.from = client.text
      <4>1. Earliest(Pushes(0), m)
        <5>1. \A p \in Pushes(0) : p = m \/ m.sv < p.sv
          BY <1>4
        <5>. QED  BY <1>4, <2>4, <5>1 DEF Earliest
      <4>. QED  BY <1>4, <2>1, <2>3, <2>8, <4>1 DEF ViewOf
    <3>2. Applied(client.text, m) = m.to
      BY <3>1 DEF Applied
    <3>3. client' = [client EXCEPT !.sv = m.sv, !.text = Applied(@, m)]
      BY <1>2, <1>7, <2>8 DEF HandleBufferUpdatedPush
    <3>4. /\ client'.loaded /\ client'.file = client.file /\ client'.conflict = client.conflict
          /\ client'.sv = m.sv /\ client'.cv = client.cv /\ client'.text = m.to
      BY <1>7, <3>2, <3>3 DEF ClientBuffer
    <3>5. Clean'
      BY <1>3, <1>4, <1>5, <3>4 DEF TextsInv, Clean
    <3>6. Ids'
      BY <1>1, <1>4, <1>7, <3>4 DEF TextsInv, Ids
    <3>7. EditsOut = {}
      BY <1>7, <2>3, <2>8, NoEditsOut
    <3>8. ViewOf(P \ {m}, s, E, told, m.sv, cv, m.to)
      <4>1. cv = s.cv
        BY <2>3, <2>6, <2>8
      <4>2. cv \in {s.cv}
        BY <4>1
      <4>3. PICK Q, v, to : Q = P \ {m} /\ v = m.sv /\ to = m.to
        OBVIOUS
      <4>4. ViewOf(Q, s, E, told, v, cv, to)
        <5>1. /\ told \in BOOLEAN /\ s.sv \in Int /\ sv \in Int /\ m \in P
              /\ (\A p \in P : p.sv \in Int) /\ \A p \in P \ {m} : m.sv < p.sv
              /\ ViewOf(P, s, E, told, sv, cv, text)
          BY <2>7
        <5>. QED  BY ONLY <5>1, <4>2, <4>3, ViewTaken
      <4>. QED  BY <4>3, <4>4
    <3>9. View(Pushes(0), client.sv, client.cv, client.text)'
      BY <1>1, <1>4, <1>5, <2>5, <2>6, <3>4, <3>8 DEF View
    <3>10. Waits'
      BY <3>4 DEF Waits
    <3>11. Shows'
      BY <1>1, <1>5, <2>1, <2>2, <3>4, <3>7, <3>9 DEF Shows
    <3>. QED  BY <1>5, <3>5, <3>6, <3>10, <3>11 DEF TextsInv
  <2>9. CASE client.cv # m.cv
    <3>1. client' = [client EXCEPT !.conflict = TRUE]
      BY <1>2, <1>7, <2>9 DEF HandleBufferUpdatedPush, Conflict
    <3>2. /\ client'.loaded /\ client'.file = client.file /\ client'.conflict = TRUE
          /\ client'.sv = client.sv /\ client'.cv = client.cv /\ client'.text = client.text
      BY <1>7, <3>1 DEF ClientBuffer
    <3>3. Clean'
      BY <1>5, <3>2 DEF TextsInv, Clean
    <3>4. Ids'
      BY <1>1, <1>4, <1>7, <3>2 DEF TextsInv, Ids
    <3>5. ViewOf(P \ {m}, s, E, TRUE, sv, cv, text)
      <4>1. cv # s.cv
        BY <2>3, <2>6, <2>9
      <4>. QED  BY <2>7, <4>1, ViewMissed
    <3>6. View(Pushes(0), client.sv, client.cv, client.text)'
      BY <1>1, <1>4, <1>5, <2>6, <3>2, <3>5 DEF View
    <3>7. Waits'
      BY <3>2 DEF Waits
    <3>8. Shows'
      BY <1>1, <1>5, <2>1, <2>2, <3>2, <3>6 DEF Shows
    <3>. QED  BY <1>5, <3>3, <3>4, <3>7, <3>8 DEF TextsInv
  <2>. QED  BY <2>8, <2>9
<1>. QED  BY <1>6, <1>7

-----------------------------------------------------------------------------
\* Versions do their work.

LEMMA InitTexts == Init => TextsInv
<1>. SUFFICES ASSUME Init PROVE TextsInv
  OBVIOUS
<1>1. /\ ~client.loaded /\ ~client.conflict /\ client.file = 0 /\ client.text = Empty
      /\ server.tracked = FALSE /\ server.text = Empty /\ server.read = Empty
      /\ server.base = 0 /\ server.fileVersion = 0 /\ server.diff = {} /\ server.saves = <<>>
      /\ server.waiting = <<>> /\ server.cv = 0
      /\ reloads = {} /\ writes = {} /\ tasks = {} /\ used.opens = 0 /\ used.edits = 0
      /\ disk \in Texts
  BY DEF Init, NoBuffer, Untracked
<1>2. DOMAIN toServer = {} /\ DOMAIN toClient = {} /\ DOMAIN server.waiting = {}
  BY <1>1 DEF Init
<1>3. EditsOut = {} /\ After(0) = {}
  BY <1>2 DEF EditsOut, After, ToSet
<1>4. Clean
  BY <1>1, <1>3, BufferAssumption DEF Clean
<1>5. ServerInv /\ SessionInv /\ PushesInOrder
  BY <1>1, <1>2 DEF ServerInv, SessionInv, PushesInOrder
<1>6. Ids
  BY <1>1, <1>2 DEF Ids
<1>7. EditsInOrder
  BY <1>1, <1>2, <1>3 DEF EditsInOrder
<1>8. Waits /\ Shows
  BY <1>1 DEF Waits, Shows
<1>. QED  BY <1>4, <1>5, <1>6, <1>7, <1>8 DEF TextsInv

LEMMA ClientTexts ==
  ASSUME ~outOfTurn', TypeInv, TextsInv, Client
  PROVE  TextsInv'
<1>1. ASSUME NEW i \in Deliverable,
             FinishMaterialization(i) \/ HandleBufferUpdatedPush(i) \/ SaveReported(i)
      PROVE  TextsInv'
  BY <1>1, FinishTexts, PushTexts, SaveReportedTexts
<1>2. ClientHandles => TextsInv'
  BY <1>1 DEF ClientHandles
<1>. QED  BY <1>2, ClientOpensTexts, ClientSavesTexts, ClientClosesTexts, ClientEditsTexts,
             RequestSentTexts DEF Client

LEMMA DaemonTexts ==
  ASSUME ~outOfTurn', TypeInv, Blank, TextsInv, Daemon
  PROVE  TextsInv'
<1>1. DaemonHandles => TextsInv'
  BY HandleOpenTexts, HandleEditTexts, HandleSaveTexts, HandleCloseTexts DEF DaemonHandles
<1>2. Loading => TextsInv'
  BY LoadReadsTexts, FileLoadedTexts, FailedToLoadTexts DEF Loading
<1>3. Reloading => TextsInv'
  BY WatcherTexts, ApplyDiffTexts, FileUpdatedTexts DEF Reloading
<1>4. (\E s \in Saves : SaveRuns(s)) => TextsInv'
  BY SaveRunsTexts
<1>. QED  BY <1>1, <1>2, <1>3, <1>4 DEF Daemon

LEMMA IdleTexts ==
  ASSUME TextsInv, UNCHANGED vars
  PROVE  TextsInv'
<1>1. UNCHANGED <<client, server, disk, noticed, reloads, writes, tasks, toServer, toClient,
                  used, issued, asked>>
  BY DEF vars
<1>2. /\ EditsOut' = EditsOut /\ OpenTasks' = OpenTasks /\ OpenAt' = OpenAt
      /\ WaitAt' = WaitAt /\ AnswerAt' = AnswerAt
      /\ \A k : After(k)' = After(k) /\ Pushes(k)' = Pushes(k) /\ CalmAfter(k)' = CalmAfter(k)
  BY <1>1 DEF EditsOut, OpenTasks, OpenAt, WaitAt, AnswerAt, After, Pushes, CalmAfter
<1>3. Clean' /\ ServerInv' /\ SessionInv' /\ Ids' /\ EditsInOrder' /\ PushesInOrder'
  BY <1>1, <1>2
     DEF TextsInv, Clean, ServerInv, SessionInv, Ids, EditsInOrder, PushesInOrder
<1>4. Waits' /\ Shows'
  BY <1>1, <1>2 DEF TextsInv, Waits, Shows, View
<1>. QED  BY <1>3, <1>4 DEF TextsInv

LEMMA StaysOut ==
  ASSUME TypeInv, [Next]_vars, outOfTurn
  PROVE  outOfTurn'
<1>1. outOfTurn \in BOOLEAN
  BY DEF TypeInv, BufferTypeOK
<1>2. Client => outOfTurn'
  BY <1>1 DEF Client, ClientOpens, ClientSaves, ClientCloses, ClientEdits, RequestSent,
              ClientHandles, FinishMaterialization, HandleBufferUpdatedPush, SaveReported
<1>3. Daemon => outOfTurn'
  <2>1. DaemonHandles \/ Loading => outOfTurn'
    BY DEF DaemonHandles, HandleOpenBuffer, HandleBufferEdit, HandleSaveBuffer,
           HandleCloseBuffer, Loading, LoadReads, FileLoaded, FailedToLoad
  <2>2. Reloading \/ (\E s \in Saves : SaveRuns(s)) => outOfTurn'
    BY DEF Reloading, WatcherReads, ApplyDiffResult, FileUpdated, SaveRuns, SaveWrites,
           FileSaved, FailedToSave
  <2>. QED  BY <2>1, <2>2 DEF Daemon
<1>4. (\E text \in Texts : ExternalWrite(text)) \/ UNCHANGED vars => outOfTurn'
  BY DEF ExternalWrite, vars
<1>. QED  BY <1>2, <1>3, <1>4 DEF Next

LEMMA TextsHold == BufferSpec => [](outOfTurn \/ TextsInv)
<1>1. TypeInv /\ Blank /\ (outOfTurn \/ TextsInv) /\ [Next]_vars => (outOfTurn \/ TextsInv)'
  <2>. SUFFICES ASSUME TypeInv, Blank, TextsInv, [Next]_vars, ~outOfTurn' PROVE TextsInv'
    BY StaysOut
  <2>1. CASE UNCHANGED vars
    BY <2>1, IdleTexts
  <2>2. CASE Client
    BY <2>2, ClientTexts
  <2>3. CASE Daemon
    BY <2>3, DaemonTexts
  <2>4. CASE \E text \in Texts : ExternalWrite(text)
    BY <2>4, ExternalTexts
  <2>. QED  BY <2>1, <2>2, <2>3, <2>4 DEF Next
<1>. QED  BY <1>1, InitTexts, TypesInvariant, BlankInvariant, PTL DEF BufferSpec

\* GarbledOutOfTurn: the versions that apply_client_edit, handle_buffer_updated_push and
\* apply_diff_result compare keep every edit and every push from the wrong text, until a push
\* and the text of the buffer are handled the other way round than they were sent, or a save
\* comes before the text.
THEOREM VersionsDoTheirWork == BufferSpec => []GarbledOutOfTurn
<1>1. outOfTurn \/ TextsInv => GarbledOutOfTurn
  BY DEF TextsInv, Clean, GarbledOutOfTurn
<1>. QED  BY <1>1, TextsHold, PTL

\* DivergenceIsTold: handle_buffer_edit drops a stale edit in silence, but the push that made
\* it stale always reaches the editor and does not fit it, unless it comes out of turn.
THEOREM StaleEditsAreTold == BufferSpec => []DivergenceIsTold
<1>1. outOfTurn \/ TextsInv => DivergenceIsTold
  <2>. SUFFICES ASSUME TextsInv, toServer = <<>>, toClient = <<>>, client.loaded,
                       ~client.conflict
                PROVE  client.text = server.text
    BY DEF DivergenceIsTold, Quiet
  <2>1. DOMAIN toServer = {} /\ DOMAIN toClient = {}
    OBVIOUS
  <2>2. EditsOut = {} /\ Pushes(0) = {}
    BY <2>1 DEF EditsOut, ToSet, Pushes, After
  <2>3. ViewOf({}, server, {}, client.conflict, client.sv, client.cv, client.text)
    BY <2>2 DEF TextsInv, Shows, View
  <2>. QED  BY <2>3 DEF ViewOf
<1>. QED  BY <1>1, TextsHold, PTL

-----------------------------------------------------------------------------
\* Where a save is.

LEMMA PlaceFrom ==
  ASSUME NEW s, Place(s), s \in SaveTasks' => s \in SaveTasks,
         SaveAt(s) = {} => SaveAt(s)' = {}, One(SaveAt(s)) => One(SaveAt(s)'),
         QueuedAt(s) = {} => QueuedAt(s)' = {}, One(QueuedAt(s)) => One(QueuedAt(s)'),
         SavedAt(s) = {} => SavedAt(s)' = {}, One(SavedAt(s)) => One(SavedAt(s)'),
         WritesOf(s) = {} => WritesOf(s)' = {},
         used'.saves = used.saves, asked[s] # {} => asked'[s] # {}
  PROVE  Place(s)'
  BY DEF Place

\* The daemon has taken d of the messages.
LEMMA PlaceTaken ==
  ASSUME NEW s, NEW d \in {0, 1},
         \A i \in DOMAIN toServer' : /\ i \in Int /\ i + d \in DOMAIN toServer
                                     /\ toServer'[i] = toServer[i + d]
  PROVE  /\ SaveAt(s) = {} => SaveAt(s)' = {}
         /\ One(SaveAt(s)) => One(SaveAt(s)')
         /\ \A i \in SaveAt(s)' : i \in Int /\ i + d \in SaveAt(s)
<1>1. \A i \in SaveAt(s)' : i \in Int /\ i + d \in SaveAt(s)
  BY DEF SaveAt
<1>2. ASSUME One(SaveAt(s)), NEW i \in SaveAt(s)', NEW j \in SaveAt(s)'
      PROVE  i = j
  <2>1. i + d = j + d /\ i \in Int /\ j \in Int
    BY <1>1, <1>2 DEF One
  <2>. QED  BY <2>1
<1>3. One(SaveAt(s)) => One(SaveAt(s)')
  BY <1>2 DEF One
<1>. QED  BY <1>1, <1>3

\* The daemon has taken a message, or none.
LEMMA TakenBy ==
  ASSUME TypeInv, toServer' = toServer \/ (toServer # <<>> /\ toServer' = Tail(toServer))
  PROVE  \E d \in {0, 1} : \A i \in DOMAIN toServer' :
           i \in Int /\ i + d \in DOMAIN toServer /\ toServer'[i] = toServer[i + d]
<1>1. toServer \in Seq(ServerMsg)
  BY TypesNow
<1>2. CASE toServer' = toServer
  <2>1. \A i \in DOMAIN toServer' : i \in Int /\ i + 0 = i
    BY <1>1, <1>2
  <2>. QED  BY <1>2, <2>1
<1>3. CASE toServer # <<>> /\ toServer' = Tail(toServer)
  <2>. DEFINE t == Tail(toServer)
  <2>1. /\ DOMAIN t = 1..(Len(toServer) - 1)
        /\ \A i \in DOMAIN t : i + 1 \in DOMAIN toServer /\ t[i] = toServer[i + 1]
    BY <1>1, <1>3, Beheaded
  <2>. HIDE DEF t
  <2>2. toServer' = t
    BY <1>3 DEF t
  <2>. QED  BY <2>1, <2>2
<1>. QED  BY <1>2, <1>3

\* The daemon has sent something, or nothing.
LEMMA SentBy ==
  ASSUME TypeInv, NEW S, NEW u \in Seq(S), toClient' = toClient \o u
  PROVE  /\ \A i \in DOMAIN toClient : i \in DOMAIN toClient' /\ toClient'[i] = toClient[i]
         /\ \A i \in DOMAIN toClient' : \/ i \in DOMAIN toClient /\ toClient'[i] = toClient[i]
                                        \/ \E j \in DOMAIN u : toClient'[i] = u[j]
<1>. DEFINE t == toClient \o u
<1>1. toClient \in Seq(ClientMsg \union S) /\ u \in Seq(ClientMsg \union S)
  BY TypesNow
<1>2. /\ DOMAIN toClient = 1..Len(toClient)
      /\ \A i \in 1..Len(toClient) : i \in DOMAIN t /\ t[i] = toClient[i]
      /\ \A i \in DOMAIN u : t[Len(toClient) + i] = u[i]
      /\ \A i \in DOMAIN t : i \in 1..Len(toClient) \/ \E j \in DOMAIN u : i = Len(toClient) + j
  BY <1>1, Joined
<1>3. toClient' = t
  OBVIOUS
<1>. HIDE DEF t
<1>. QED  BY <1>2, <1>3

\* A step of the daemon, or of the file, that takes no save and answers none.
LEMMA WroteSteady ==
  ASSUME TypeInv, WroteInv,
         client' = client, tasks' = tasks, asked' = asked,
         used'.opens = used.opens, used'.saves = used.saves, server'.saves = server.saves,
         \A w \in writes' : \E x \in writes : x.save = w.save /\ x.text = w.text,
         toServer' = toServer \/ (toServer # <<>> /\ toServer' = Tail(toServer)),
         \/ toClient' = toClient
         \/ \E S : \E u \in Seq(S) :
              /\ toClient' = toClient \o u
              /\ \A i \in DOMAIN u : u[i].kind \in {"opened", "open_failed", "push"}
  PROVE  WroteInv'
<1>a. PICK d \in {0, 1} : \A i \in DOMAIN toServer' :
        i \in Int /\ i + d \in DOMAIN toServer /\ toServer'[i] = toServer[i + d]
  BY TakenBy
<1>b. /\ DOMAIN toClient \subseteq DOMAIN toClient'
      /\ \A i \in DOMAIN toClient : i \in DOMAIN toClient' /\ toClient'[i] = toClient[i]
      /\ \A i \in DOMAIN toClient' : \/ i \in DOMAIN toClient /\ toClient'[i] = toClient[i]
                                     \/ toClient'[i].kind \in {"opened", "open_failed", "push"}
  <2>1. CASE toClient' = toClient
    BY <2>1
  <2>2. CASE \E S : \E u \in Seq(S) :
               /\ toClient' = toClient \o u
               /\ \A i \in DOMAIN u : u[i].kind \in {"opened", "open_failed", "push"}
    BY <2>2, SentBy
  <2>. QED  BY <2>1, <2>2
<1>1. ToSet(toServer') \subseteq ToSet(toServer) /\ EditsOut' \subseteq EditsOut
  BY <1>a DEF ToSet, EditsOut
<1>2. ASSUME NEW s \in Saves PROVE Place(s)'
  <2>1. /\ SaveAt(s) = {} => SaveAt(s)' = {}
        /\ One(SaveAt(s)) => One(SaveAt(s)')
    BY <1>a, PlaceTaken
  <2>2. QueuedAt(s)' = QueuedAt(s) /\ SavedAt(s)' = SavedAt(s)
    BY <1>b DEF QueuedAt, SavedAt
  <2>3. WritesOf(s) = {} => WritesOf(s)' = {}
    BY DEF WritesOf
  <2>4. SaveTasks' = SaveTasks /\ Place(s)
    BY DEF SaveTasks, WroteInv, OnePlace
  <2>. QED  BY <2>1, <2>2, <2>3, <2>4, PlaceFrom
<1>3. OnePlace'
  BY <1>2 DEF WroteInv, OnePlace, OneTask
<1>4. SaveMsgs' \subseteq SaveMsgs
  <2>1. \A m \in After(0)' : m \in After(0) \/ m.kind \in {"opened", "open_failed", "push"}
    BY <1>b DEF After
  <2>. QED  BY <1>1, <2>1 DEF SaveMsgs
<1>5. Asking'
  BY <1>4 DEF WroteInv, Asking
<1>6. EditsShown'
  <2>1. ASSUME NEW i \in DOMAIN toServer', NEW j \in DOMAIN toServer', i < j,
               toServer'[i].kind = "save", toServer'[j].kind = "edit"
        PROVE  toServer'[j].from \in asked[toServer'[i].save]
    <3>1. i + d < j + d
      BY <1>a, <2>1
    <3>. QED  BY <1>a, <2>1, <3>1 DEF WroteInv, EditsShown
  <2>. QED  BY <1>1, <2>1 DEF WroteInv, EditsShown
<1>7. ASSUME NEW I, I \subseteq DOMAIN toClient, NEW J, I \subseteq J, NEW text, NEW s,
             Told(text, s, I)
      PROVE  \/ text \in asked'[s] \/ client'.conflict
             \/ \E i \in J : toClient'[i].kind = "push" /\ toClient'[i].to = text
  BY <1>b, <1>7 DEF Told
<1>8. WritesTold'
  <2>. SUFFICES ASSUME NEW m \in ToSet(server.saves), m.file = client.file,
                       NEW w \in WritesOf(m.save)'
                PROVE  Told(w.text, m.save, DOMAIN toClient)'
    BY DEF WritesTold
  <2>1. PICK x \in WritesOf(m.save) : x.text = w.text
    BY DEF WritesOf
  <2>2. Told(w.text, m.save, DOMAIN toClient)
    BY <2>1 DEF WroteInv, WritesTold
  <2>3. PICK text, s, I, J : /\ text = w.text /\ s = m.save
                             /\ I = DOMAIN toClient /\ J = DOMAIN toClient'
    OBVIOUS
  <2>4. Told(text, s, I) /\ I \subseteq DOMAIN toClient /\ I \subseteq J
    BY <1>b, <2>2, <2>3
  <2>5. \/ text \in asked'[s] \/ client'.conflict
        \/ \E i \in J : toClient'[i].kind = "push" /\ toClient'[i].to = text
    BY <1>b, <2>4 DEF Told
  <2>. QED  BY <2>3, <2>5 DEF Told
<1>9. AnswersTold'
  <2>. SUFFICES ASSUME NEW i \in DOMAIN toClient', TakesSuccess(toClient[i])'
                PROVE  Told(toClient[i].wrote, toClient[i].save, Before(i))'
    BY DEF AnswersTold
  <2>1. i \in DOMAIN toClient /\ toClient'[i] = toClient[i] /\ TakesSuccess(toClient[i])
    BY <1>b DEF TakesSuccess
  <2>2. PICK text, s : text = toClient[i].wrote /\ s = toClient[i].save
    OBVIOUS
  <2>3. Told(text, s, Before(i))
    BY <2>1, <2>2 DEF WroteInv, AnswersTold
  <2>4. Before(i) \subseteq DOMAIN toClient /\ Before(i) \subseteq Before(i)'
    BY DEF Before
  <2>5. Told(text, s, Before(i))'
    BY <1>7, <2>3, <2>4 DEF Told
  <2>. QED  BY <2>1, <2>2, <2>5
<1>. QED  BY <1>3, <1>5, <1>6, <1>8, <1>9 DEF WroteInv

-----------------------------------------------------------------------------
\* What a save wrote: the steps that take no save and answer none.

LEMMA FilesWrote ==
  ASSUME TypeInv, WroteInv,
         \/ LoadReads \/ WatcherReads
         \/ \E text \in Texts : ExternalWrite(text)
         \/ \E text \in reloads : FileUpdated(text)
  PROVE  WroteInv'
<1>. USE TypesNow
<1>1. /\ client' = client /\ tasks' = tasks /\ asked' = asked /\ writes' = writes
      /\ toServer' = toServer /\ toClient' = toClient
  BY DEF LoadReads, WatcherReads, ExternalWrite, FileUpdated
<1>2. used'.opens = used.opens /\ used'.saves = used.saves
  BY DEF LoadReads, WatcherReads, ExternalWrite, FileUpdated
<1>3. server'.saves = server.saves
  <2>1. CASE LoadReads
    BY <2>1 DEF LoadReads, ServerBuffer
  <2>2. ASSUME NEW text \in reloads, FileUpdated(text)
        PROVE  server'.saves = server.saves
    <3>1. \/ server' = server
          \/ \E d : server' = [server EXCEPT !.fileVersion = issued + 1, !.diff = d]
      BY <2>2 DEF FileUpdated
    <3>. QED  BY <3>1 DEF ServerBuffer
  <2>3. CASE server' = server
    BY <2>3
  <2>. QED  BY <2>1, <2>2, <2>3 DEF WatcherReads, ExternalWrite
<1>4. \A w \in writes' : \E x \in writes : x.save = w.save /\ x.text = w.text
  BY <1>1
<1>. QED  BY <1>1, <1>2, <1>3, <1>4, WroteSteady

LEMMA SaveWritesWrote ==
  ASSUME TypeInv, WroteInv, NEW w \in writes, SaveWrites(w)
  PROVE  WroteInv'
<1>1. w \in WriteTask
  BY TypesNow
<1>2. [w EXCEPT !.written = TRUE].text = w.text /\ [w EXCEPT !.written = TRUE].save = w.save
  BY <1>1 DEF WriteTask
<1>3. \A x \in writes' : \E y \in writes : y.save = x.save /\ y.text = x.text
  BY <1>2 DEF SaveWrites
<1>. QED  BY <1>3, WroteSteady DEF SaveWrites

LEMMA HandleEditWrote ==
  ASSUME TypeInv, WroteInv, HandleBufferEdit
  PROVE  WroteInv'
<1>1. toServer # <<>> /\ toServer' = Tail(toServer)
  BY DEF HandleBufferEdit, Received
<1>2. server'.saves = server.saves
  <2>1. \/ server' = server
        \/ \E c, v, x : server' = [server EXCEPT !.cv = c, !.version = v, !.text = x]
    BY DEF HandleBufferEdit
  <2>. QED  BY <2>1, TypesNow DEF ServerBuffer
<1>3. \A w \in writes' : \E x \in writes : x.save = w.save /\ x.text = w.text
  BY DEF HandleBufferEdit
<1>. QED  BY <1>1, <1>2, <1>3, WroteSteady DEF HandleBufferEdit

LEMMA HandleCloseWrote ==
  ASSUME TypeInv, WroteInv, HandleCloseBuffer
  PROVE  WroteInv'
<1>1. toServer # <<>> /\ toServer' = Tail(toServer)
  BY DEF HandleCloseBuffer, Received
<1>2. server'.saves = server.saves
  <2>1. [server EXCEPT !.writer = FALSE].saves = server.saves
    BY TypesNow DEF ServerBuffer
  <2>2. \/ server' = server
        \/ server' = CleanedUpIfIdle([server EXCEPT !.writer = FALSE])
    BY DEF HandleCloseBuffer
  <2>. QED  BY <2>1, <2>2, CleanedSaves
<1>3. \A w \in writes' : \E x \in writes : x.save = w.save /\ x.text = w.text
  BY DEF HandleCloseBuffer
<1>. QED  BY <1>1, <1>2, <1>3, WroteSteady DEF HandleCloseBuffer

LEMMA HandleOpenWrote ==
  ASSUME TypeInv, Blank, WroteInv, HandleOpenBuffer
  PROVE  WroteInv'
<1>. USE TypesNow
<1>1. toServer # <<>> /\ toServer' = Tail(toServer)
  BY DEF HandleOpenBuffer, Received
<1>2. PICK m : m = Head(toServer)
  OBVIOUS
<1>3. m.file \in Files
  BY <1>2, ReceivedType, ServerKinds DEF HandleOpenBuffer
<1>4. \A w \in writes' : \E x \in writes : x.save = w.save /\ x.text = w.text
  BY DEF HandleOpenBuffer
<1>5. CASE ~server.tracked
  <2>1. PICK q : server' = [Untracked EXCEPT !.tracked = TRUE, !.writer = TRUE,
                              !.version = issued + 1, !.loading = "reading",
                              !.waiting = q]
    BY <1>5 DEF HandleOpenBuffer
  <2>2. server'.saves = Untracked.saves
    BY <2>1 DEF Untracked
  <2>3. server'.saves = server.saves
    BY <1>5, <2>2 DEF Blank
  <2>4. toClient' = toClient
    BY <1>5 DEF HandleOpenBuffer
  <2>. QED  BY <1>1, <1>4, <2>3, <2>4, WroteSteady DEF HandleOpenBuffer
<1>6. CASE server.tracked /\ server.base = 0
  <2>1. PICK q : server' = [server EXCEPT !.writer = TRUE, !.waiting = q]
    BY <1>6 DEF HandleOpenBuffer
  <2>2. server'.saves = server.saves
    BY <2>1 DEF ServerBuffer
  <2>3. toClient' = toClient
    BY <1>6 DEF HandleOpenBuffer
  <2>. QED  BY <1>1, <1>4, <2>2, <2>3, WroteSteady DEF HandleOpenBuffer
<1>7. CASE server.tracked /\ server.base # 0
  <2>1. server' = [server EXCEPT !.writer = TRUE] /\ Send(<<Opened(m.file, server)>>)
    BY <1>2, <1>7 DEF HandleOpenBuffer
  <2>2. server'.saves = server.saves
    BY <2>1 DEF ServerBuffer
  <2>3. PICK a : a = Opened(m.file, server)
    OBVIOUS
  <2>4. a \in ClientMsg /\ a.kind = "opened"
    <3>1. server.text \in AnyText /\ server.sv \in Versions
      BY DEF ServerBuffer
    <3>2. a \in ClientMsg
      BY <1>3, <2>3, <3>1, OpenedType
    <3>. QED  BY <2>3, <3>2 DEF Opened
  <2>5. PICK u : u = <<a>>
    OBVIOUS
  <2>6. /\ u \in Seq(ClientMsg) /\ toClient' = toClient \o u
        /\ \A i \in DOMAIN u : u[i].kind \in {"opened", "open_failed", "push"}
    <3>1. u \in Seq(ClientMsg) /\ \A i \in DOMAIN u : u[i] = a
      BY <2>4, <2>5
    <3>. QED  BY <2>1, <2>3, <2>4, <2>5, <3>1 DEF Send
  <2>. QED  BY <1>1, <1>4, <2>2, <2>6, WroteSteady DEF HandleOpenBuffer
<1>. QED  BY <1>5, <1>6, <1>7

LEMMA FileLoadedWrote ==
  ASSUME TypeInv, TextsInv, WroteInv, FileLoaded
  PROVE  WroteInv'
<1>. DEFINE nobody == <<>>
            b == [server EXCEPT !.text = server.read, !.version = issued + 1,
                   !.base = issued + 1, !.fileVersion = issued + 1,
                   !.loading = "no", !.read = Empty, !.waiting = nobody]
            u == [i \in DOMAIN server.waiting |-> Opened(server.waiting[i], b)]
<1>1. server' = b /\ toClient' = toClient \o u
  BY DEF FileLoaded, Send
<1>. HIDE DEF nobody
<1>2. b.saves = server.saves
  BY TypesNow DEF ServerBuffer
<1>. HIDE DEF b
<1>3. u \in Seq(Range(u)) /\ \A i \in DOMAIN u : u[i].kind = "opened"
  <2>1. server.waiting \in Seq(Files)
    BY TypesNow DEF ServerBuffer
  <2>2. u \in [DOMAIN server.waiting -> Range(u)]
    BY DEF Range
  <2>3. \A i \in DOMAIN u : u[i].kind = "opened"
    BY DEF Opened
  <2>. HIDE DEF u
  <2>. QED  BY <2>1, <2>2, <2>3, Mapped
<1>. HIDE DEF u
<1>4. \A w \in writes' : \E x \in writes : x.save = w.save /\ x.text = w.text
  BY DEF FileLoaded
<1>5. \E S : \E v \in Seq(S) :
        /\ toClient' = toClient \o v
        /\ \A i \in DOMAIN v : v[i].kind \in {"opened", "open_failed", "push"}
  BY <1>1, <1>3
<1>. QED  BY <1>1, <1>2, <1>4, <1>5, WroteSteady DEF FileLoaded

LEMMA FailedToLoadWrote ==
  ASSUME TypeInv, TextsInv, WroteInv, FailedToLoad
  PROVE  WroteInv'
<1>. DEFINE failed == [i \in DOMAIN server.waiting |-> OpenFailed(server.waiting[i])]
            unsaved == [i \in DOMAIN server.saves |->
                          SaveAnswer(server.saves[i], FALSE, Empty)]
<1>1. /\ server' = Untracked /\ toClient' = toClient \o (failed \o unsaved)
      /\ server.loading = "reading"
  BY DEF FailedToLoad, Send
<1>2. server.saves = <<>> /\ Untracked.saves = server.saves
  BY <1>1, UntrackedFields DEF TextsInv, ServerInv
<1>3. failed \in Seq(Range(failed)) /\ \A i \in DOMAIN failed : failed[i].kind = "open_failed"
  <2>1. server.waiting \in Seq(Files)
    BY TypesNow DEF ServerBuffer
  <2>2. failed \in [DOMAIN server.waiting -> Range(failed)]
    BY DEF Range
  <2>3. \A i \in DOMAIN failed : failed[i].kind = "open_failed"
    BY DEF OpenFailed
  <2>. HIDE DEF failed
  <2>. QED  BY <2>1, <2>2, <2>3, Mapped
<1>4. unsaved = <<>>
  BY <1>2
<1>. HIDE DEF failed, unsaved
<1>5. failed \o unsaved = failed
  BY <1>3, <1>4
<1>6. \A w \in writes' : \E x \in writes : x.save = w.save /\ x.text = w.text
  BY DEF FailedToLoad
<1>7. \E S : \E v \in Seq(S) :
        /\ toClient' = toClient \o v
        /\ \A i \in DOMAIN v : v[i].kind \in {"opened", "open_failed", "push"}
  BY <1>1, <1>3, <1>5
<1>. QED  BY <1>1, <1>2, <1>6, <1>7, WroteSteady DEF FailedToLoad

LEMMA ApplyDiffWrote ==
  ASSUME TypeInv, WroteInv, ApplyDiffResult
  PROVE  WroteInv'
<1>1. PICK d \in server.diff :
        \/ /\ server' = [server EXCEPT !.diff = {}, !.sv = issued + 1,
                           !.text = Applied(@, d), !.version = d.version,
                           !.base = d.version]
           /\ Send(PushOf(d, issued + 1))
        \/ /\ server' = [server EXCEPT !.diff = {}]
           /\ UNCHANGED <<issued, toClient>>
  BY DEF ApplyDiffResult
<1>2. server'.saves = server.saves
  BY <1>1, TypesNow DEF ServerBuffer
<1>3. \A w \in writes' : \E x \in writes : x.save = w.save /\ x.text = w.text
  BY DEF ApplyDiffResult
<1>4. ASSUME Send(PushOf(d, issued + 1))
      PROVE  \E S : \E v \in Seq(S) :
               /\ toClient' = toClient \o v
               /\ \A i \in DOMAIN v : v[i].kind \in {"opened", "open_failed", "push"}
  <2>1. PICK p : p = [kind |-> "push", from |-> d.from, to |-> d.to, sv |-> issued + 1,
                      cv |-> server.cv]
    OBVIOUS
  <2>2. toClient' = toClient \o <<p>> \/ toClient' = toClient \o <<>>
    BY <1>4, <2>1 DEF Send, PushOf, Push
  <2>3. p.kind = "push"
    BY <2>1
  <2>4. /\ <<p>> \in Seq({p}) /\ \A i \in DOMAIN <<p>> : <<p>>[i] = p
        /\ <<>> \in Seq({p}) /\ \A i \in DOMAIN <<>> : FALSE
    OBVIOUS
  <2>. QED  BY <2>2, <2>3, <2>4
<1>5. toClient' = toClient \/ \E S : \E v \in Seq(S) :
        /\ toClient' = toClient \o v
        /\ \A i \in DOMAIN v : v[i].kind \in {"opened", "open_failed", "push"}
  BY <1>1, <1>4
<1>. QED  BY <1>2, <1>3, <1>5, WroteSteady DEF ApplyDiffResult

-----------------------------------------------------------------------------
\* What a save wrote: a save is taken, dispatched and answered.

\* The daemon holds a text that the editor has shown, or will be told of.
LEMMA DispatchTold ==
  ASSUME TypeInv, TextsInv, client.loaded, NEW s, client.text \in asked[s],
         \A e \in EditsOut : e.from \in asked[s]
  PROVE  Told(server.text, s, DOMAIN toClient)
<1>. USE TypesNow
<1>1. /\ ViewOf(Pushes(0), server, EditsOut, client.conflict, client.sv, client.cv, client.text)
      /\ \A e \in EditsOut : e.sv = client.sv
  BY DEF TextsInv, Shows, View
<1>2. CASE Pushes(0) # {}
  <2>1. PICK p \in Pushes(0) : p.to = server.text
    BY <1>1, <1>2 DEF ViewOf
  <2>2. PICK i \in DOMAIN toClient : toClient[i] = p /\ p.kind = "push"
    BY DEF Pushes, After
  <2>. QED  BY <2>1, <2>2 DEF Told
<1>3. CASE Pushes(0) = {} /\ client.sv # server.sv
  BY <1>1, <1>3 DEF ViewOf, Told
<1>4. CASE client.sv = server.sv /\ EditsOut = {}
  BY <1>1, <1>4 DEF ViewOf, Told
<1>5. CASE client.sv = server.sv /\ EditsOut # {}
  <2>1. PICK e \in EditsOut : \A f \in EditsOut : e.cv <= f.cv
    BY <1>5 DEF TextsInv, EditsInOrder
  <2>2. e.from = server.text
    BY <1>1, <1>5, <2>1 DEF TextsInv, EditsInOrder
  <2>. QED  BY <2>1, <2>2 DEF Told
<1>. QED  BY <1>2, <1>3, <1>4, <1>5

\* The save s that the editor waits for is at one place.
LEMMA PlacesNow ==
  ASSUME TypeInv, WroteInv
  PROVE  /\ \A m \in tasks : m.kind = "save" =>
              m.save \in Saves /\ m.save \in SaveTasks /\ m \in SaveMsgs
         /\ \A i \in DOMAIN toServer : toServer[i].kind = "save" =>
              /\ toServer[i].save \in Saves /\ i \in SaveAt(toServer[i].save)
              /\ toServer[i] \in SaveMsgs
         /\ \A i \in DOMAIN server.saves :
              /\ server.saves[i].save \in Saves /\ i \in QueuedAt(server.saves[i].save)
              /\ server.saves[i] \in SaveMsgs /\ server.saves[i].kind = "save"
         /\ \A i \in DOMAIN toClient : toClient[i].kind = "saved" =>
              /\ toClient[i].save \in Saves /\ i \in SavedAt(toClient[i].save)
              /\ toClient[i] \in SaveMsgs
         /\ \A w \in writes : w.save \in Saves /\ w \in WritesOf(w.save)
         /\ \A s \in Saves : Place(s)
         /\ \A m \in SaveMsgs : /\ m.save \in Saves /\ m.save <= used.saves
                                /\ asked[m.save] # {} /\ m.file \in Files
                                /\ m.file = client.file =>
                                     client.loaded /\ client.text \in asked[m.save]
<1>. USE TypesNow
<1>1. \A s \in Saves : Place(s)
  BY DEF WroteInv, OnePlace
<1>2. ASSUME NEW m \in tasks, m.kind = "save"
      PROVE  m.save \in Saves /\ m.save \in SaveTasks /\ m \in SaveMsgs /\ m.file \in Files
  BY <1>2 DEF SaveTasks, SaveMsgs, Request, OpenMsg, SaveRequest
<1>3. ASSUME NEW i \in DOMAIN toServer, toServer[i].kind = "save"
      PROVE  /\ toServer[i].save \in Saves /\ i \in SaveAt(toServer[i].save)
             /\ toServer[i] \in SaveMsgs /\ toServer[i].file \in Files
  <2>1. toServer[i] \in ServerMsg
    OBVIOUS
  <2>2. toServer[i].save \in Saves /\ toServer[i].file \in Files
    BY <1>3, <2>1, ServerKinds
  <2>. QED  BY <1>3, <2>2 DEF SaveAt, SaveMsgs, ToSet
<1>4. ASSUME NEW i \in DOMAIN server.saves
      PROVE  /\ server.saves[i].save \in Saves /\ i \in QueuedAt(server.saves[i].save)
             /\ server.saves[i] \in SaveMsgs /\ server.saves[i].kind = "save"
             /\ server.saves[i].file \in Files
  <2>1. server.saves \in Seq(SaveRequest)
    BY DEF ServerBuffer
  <2>2. server.saves[i] \in SaveRequest
    BY <2>1
  <2>. QED  BY <2>2 DEF QueuedAt, SaveMsgs, ToSet, SaveRequest
<1>5. ASSUME NEW i \in DOMAIN toClient, toClient[i].kind = "saved"
      PROVE  /\ toClient[i].save \in Saves /\ i \in SavedAt(toClient[i].save)
             /\ toClient[i] \in SaveMsgs /\ toClient[i].file \in Files
  <2>1. toClient[i] \in ClientMsg /\ i > 0
    OBVIOUS
  <2>2. toClient[i].save \in Saves /\ toClient[i].file \in Files
    BY <1>5, <2>1, ClientKinds
  <2>. QED  BY <1>5, <2>1, <2>2 DEF SavedAt, SaveMsgs, After
<1>6. \A w \in writes : w.save \in Saves /\ w \in WritesOf(w.save)
  BY DEF WritesOf, WriteTask
<1>7. ASSUME NEW m \in SaveMsgs
      PROVE  m.save \in Saves /\ m.save <= used.saves /\ asked[m.save] # {} /\ m.file \in Files
  <2>1. CASE m \in tasks
    <3>1. m.kind = "save"
      BY <2>1 DEF SaveMsgs, Request, OpenMsg, SaveRequest
    <3>. QED  BY <1>1, <1>2, <2>1, <3>1 DEF Place
  <2>2. CASE m \in ToSet(toServer)
    <3>1. PICK i \in DOMAIN toServer : toServer[i] = m
      BY <2>2 DEF ToSet
    <3>2. m \in ServerMsg
      BY <3>1
    <3>3. m.kind = "save"
      BY <3>2, ServerKinds DEF SaveMsgs
    <3>. QED  BY <1>1, <1>3, <3>1, <3>3 DEF Place
  <2>3. CASE m \in ToSet(server.saves)
    <3>1. PICK i \in DOMAIN server.saves : server.saves[i] = m
      BY <2>3 DEF ToSet
    <3>. QED  BY <1>1, <1>4, <3>1 DEF Place
  <2>4. CASE m \in After(0)
    <3>1. PICK i \in DOMAIN toClient : toClient[i] = m
      BY <2>4 DEF After
    <3>2. m \in ClientMsg
      BY <3>1
    <3>3. m.kind = "saved"
      BY <3>2, ClientKinds DEF SaveMsgs
    <3>. QED  BY <1>1, <1>5, <3>1, <3>3 DEF Place
  <2>. QED  BY <2>1, <2>2, <2>3, <2>4 DEF SaveMsgs
<1>8. ASSUME NEW m \in SaveMsgs, m.file = client.file
      PROVE  client.loaded /\ client.text \in asked[m.save]
  BY <1>7, <1>8 DEF WroteInv, Asking
<1>. QED  BY <1>1, <1>2, <1>3, <1>4, <1>5, <1>6, <1>7, <1>8

LEMMA SaveTakenWrote ==
  ASSUME TypeInv, TextsInv, WroteInv, HandleSaveBuffer, server.writer
  PROVE  WroteInv'
<1>. USE TypesNow
<1>1. PICK m : m = Head(toServer)
  OBVIOUS
<1>2. /\ toServer # <<>> /\ toServer' = Tail(toServer) /\ m.kind = "save"
      /\ UNCHANGED <<client, tasks, used, asked>>
  BY <1>1 DEF HandleSaveBuffer, Received
<1>3. /\ 1 \in DOMAIN toServer /\ toServer[1] = m
      /\ \A i \in DOMAIN toServer' : /\ i \in Nat /\ i >= 1 /\ i + 1 \in DOMAIN toServer
                                     /\ toServer'[i] = toServer[i + 1]
      /\ \A i \in DOMAIN toServer' : i \in Int
      /\ EditsOut' \subseteq EditsOut
  <2>1. /\ 1 \in DOMAIN toServer /\ toServer[1] = m
        /\ \A i \in DOMAIN toServer' : /\ i \in Nat /\ i + 1 \in DOMAIN toServer
                                       /\ toServer'[i] = toServer[i + 1]
        /\ EditsOut' \subseteq EditsOut
    BY <1>1, <1>2, Taken
  <2>2. \A i \in DOMAIN toServer' : i >= 1
    <3>1. toServer' \in Seq(ServerMsg)
      BY <1>2
    <3>. QED  BY <3>1
  <2>. QED  BY <2>1, <2>2
<1>5. /\ server' = [server EXCEPT !.saves = Append(server.saves, m)]
      /\ writes' = writes \union Dispatched(m) /\ toClient' = toClient
  BY <1>1 DEF HandleSaveBuffer
<1>6. PICK k \in Saves : k = m.save
  BY <1>2, <1>3, PlacesNow
<1>7. /\ 1 \in SaveAt(k) /\ m \in SaveMsgs /\ QueuedAt(k) = {} /\ SavedAt(k) = {}
      /\ WritesOf(k) = {} /\ k \notin SaveTasks /\ One(SaveAt(k))
      /\ k <= used.saves /\ asked[k] # {}
  <2>1. 1 \in SaveAt(k) /\ m \in SaveMsgs /\ Place(k)
    BY <1>2, <1>3, <1>6, PlacesNow
  <2>. QED  BY <2>1 DEF Place
<1>a. PICK n \in Nat : Grown(server.saves, server'.saves, m, n)
  <2>1. server.saves \in Seq(SaveRequest) /\ m \in SaveRequest
    BY <1>2, <1>3, ServerKinds DEF ServerBuffer
  <2>2. server'.saves = Append(server.saves, m)
    BY <1>5 DEF ServerBuffer
  <2>. QED  BY ONLY <2>1, <2>2, AppendedAt
<1>8. /\ DOMAIN server.saves = 1..n /\ DOMAIN server'.saves = 1..(n + 1)
      /\ \A i \in 1..n : server'.saves[i] = server.saves[i]
      /\ server'.saves[n + 1] = m
      /\ \A i \in 1..(n + 1) : i \in 1..n \/ i = n + 1
      /\ \A i \in 1..n : i \in 1..(n + 1)
  BY ONLY <1>a DEF Grown
<1>9. StartSave(m).save = k /\ StartSave(m).text = server.text
  BY <1>6 DEF StartSave
<1>10. SaveTasks' = SaveTasks /\ \A s \in Saves : SavedAt(s)' = SavedAt(s)
  BY <1>2, <1>5 DEF SaveTasks, SavedAt
<1>11. Place(k)'
  <2>1. ASSUME NEW i \in SaveAt(k)' PROVE FALSE
    <3>1. i + 1 \in SaveAt(k) /\ i >= 1 /\ i \in Nat
      BY <1>3 DEF SaveAt
    <3>2. i + 1 = 1
      BY <1>7, <3>1 DEF One
    <3>. QED  BY <3>1, <3>2
  <2>2. \A i \in QueuedAt(k)' : i = n + 1
    BY <1>7, <1>8 DEF QueuedAt
  <2>. QED  BY <1>2, <1>7, <1>10, <2>1, <2>2 DEF Place, One
<1>12. ASSUME NEW s \in Saves, s # k PROVE Place(s)'
  <2>1. SaveAt(s) = {} => SaveAt(s)' = {}
    BY <1>3 DEF SaveAt
  <2>2. One(SaveAt(s)) => One(SaveAt(s)')
    BY <1>3, PlaceTaken
  <2>3. QueuedAt(s)' = QueuedAt(s)
    <3>1. \A i \in 1..n : i \in 1..(n + 1)
      OBVIOUS
    <3>2. \A i \in QueuedAt(s)' : i \in QueuedAt(s)
      BY <1>6, <1>8, <1>12 DEF QueuedAt
    <3>3. \A i \in QueuedAt(s) : i \in QueuedAt(s)'
      BY <1>8, <3>1 DEF QueuedAt
    <3>. QED  BY <3>2, <3>3
  <2>4. WritesOf(s) = {} => WritesOf(s)' = {}
    BY <1>5, <1>9, <1>12 DEF WritesOf, Dispatched
  <2>5. Place(s)
    BY PlacesNow
  <2>. QED  BY <1>2, <1>10, <2>1, <2>2, <2>3, <2>4, <2>5, PlaceFrom
<1>13. OnePlace'
  BY <1>2, <1>11, <1>12 DEF WroteInv, OnePlace, OneTask
<1>14. ToSet(server'.saves) = ToSet(server.saves) \union {m}
  <2>1. n + 1 \in 1..(n + 1) /\ \A i \in 1..n : i \in 1..(n + 1)
    OBVIOUS
  <2>. QED  BY <1>8, <2>1 DEF ToSet
<1>15. SaveMsgs' \subseteq SaveMsgs
  <2>1. ToSet(toServer') \subseteq ToSet(toServer)
    BY <1>3 DEF ToSet
  <2>2. After(0)' = After(0)
    BY <1>5 DEF After
  <2>. QED  BY <1>2, <1>7, <1>14, <2>1, <2>2 DEF SaveMsgs
<1>16. Asking'
  BY <1>2, <1>15 DEF WroteInv, Asking
<1>17. EditsShown'
  <2>1. ASSUME NEW i \in DOMAIN toServer', NEW j \in DOMAIN toServer', i < j,
               toServer'[i].kind = "save", toServer'[j].kind = "edit"
        PROVE  toServer'[j].from \in asked[toServer'[i].save]
    <3>1. /\ i + 1 \in DOMAIN toServer /\ toServer'[i] = toServer[i + 1]
          /\ j + 1 \in DOMAIN toServer /\ toServer'[j] = toServer[j + 1]
      BY <1>3
    <3>2. i + 1 < j + 1
      BY <1>3, <2>1
    <3>. QED  BY <2>1, <3>1, <3>2 DEF WroteInv, EditsShown
  <2>2. ASSUME NEW e \in EditsOut' PROVE e.from \in asked[m.save]
    <3>1. PICK j \in DOMAIN toServer' : toServer'[j] = e /\ e.kind = "edit"
      BY DEF EditsOut, ToSet
    <3>2. 1 < j + 1 /\ j + 1 \in DOMAIN toServer /\ toServer[j + 1] = e
      BY <1>3, <3>1
    <3>. QED  BY <1>2, <1>3, <3>1, <3>2 DEF WroteInv, EditsShown
  <2>. QED  BY <1>2, <1>3, <1>14, <2>1, <2>2 DEF WroteInv, EditsShown
<1>18. WritesTold'
  <2>. SUFFICES ASSUME NEW x \in ToSet(server'.saves), x.file = client'.file,
                       NEW w \in WritesOf(x.save)'
                PROVE  Told(w.text, x.save, DOMAIN toClient)'
    BY DEF WritesTold
  <2>1. CASE x = m
    <3>1. w = StartSave(m) /\ server.saves = <<>>
      BY <1>5, <1>6, <1>7, <2>1 DEF WritesOf, Dispatched
    <3>2. client.loaded /\ client.text \in asked[k]
      BY <1>2, <1>6, <1>7, <2>1, PlacesNow
    <3>3. ASSUME NEW e \in EditsOut PROVE e.from \in asked[k]
      <4>1. PICK j \in DOMAIN toServer : toServer[j] = e /\ e.kind = "edit"
        BY DEF EditsOut, ToSet
      <4>2. 1 < j
        BY <1>2, <1>3, <4>1
      <4>. QED  BY <1>2, <1>3, <1>6, <4>1, <4>2 DEF WroteInv, EditsShown
    <3>4. Told(server.text, k, DOMAIN toClient)
      BY <3>2, <3>3, DispatchTold
    <3>. QED  BY <1>2, <1>5, <1>6, <1>9, <2>1, <3>1, <3>4 DEF Told
  <2>2. CASE x # m
    <3>1. x \in ToSet(server.saves)
      BY <1>14, <2>2
    <3>2. x.save # k
      BY <1>7, <3>1 DEF ToSet, QueuedAt
    <3>3. w \in WritesOf(x.save)
      BY <1>5, <1>9, <3>2 DEF WritesOf, Dispatched
    <3>4. Told(w.text, x.save, DOMAIN toClient)
      BY <1>2, <3>1, <3>3 DEF WroteInv, WritesTold
    <3>. QED  BY <1>2, <1>5, <3>4 DEF Told
  <2>. QED  BY <2>1, <2>2
<1>19. AnswersTold'
  <2>. SUFFICES ASSUME NEW i \in DOMAIN toClient, TakesSuccess(toClient[i])'
                PROVE  Told(toClient[i].wrote, toClient[i].save, Before(i))'
    BY <1>5 DEF AnswersTold
  <2>1. TakesSuccess(toClient[i])
    BY <1>2, <1>5 DEF TakesSuccess
  <2>2. Told(toClient[i].wrote, toClient[i].save, Before(i))
    BY <2>1 DEF WroteInv, AnswersTold
  <2>. QED  BY <1>2, <1>5, <2>2 DEF Told, Before
<1>. QED  BY <1>13, <1>16, <1>17, <1>18, <1>19 DEF WroteInv

\* A daemon that no editor has open refuses the save.
LEMMA SaveRefusedWrote ==
  ASSUME TypeInv, TextsInv, WroteInv, HandleSaveBuffer, ~server.writer
  PROVE  WroteInv'
<1>. USE TypesNow
<1>1. PICK m : m = Head(toServer)
  OBVIOUS
<1>2. /\ toServer # <<>> /\ toServer' = Tail(toServer) /\ m.kind = "save"
      /\ UNCHANGED <<client, server, writes, tasks, used, asked>>
  BY <1>1 DEF HandleSaveBuffer, Received
<1>3. /\ 1 \in DOMAIN toServer /\ toServer[1] = m
      /\ \A i \in DOMAIN toServer' : /\ i \in Nat /\ i + 1 \in DOMAIN toServer
                                     /\ toServer'[i] = toServer[i + 1]
      /\ \A i \in DOMAIN toServer' : i \in Int
      /\ EditsOut' \subseteq EditsOut
  BY <1>1, <1>2, Taken
<1>4. \A i \in DOMAIN toServer' : i >= 1
  <2>1. toServer' \in Seq(ServerMsg)
    BY <1>2
  <2>. QED  BY <2>1
<1>5. PICK k \in Saves : k = m.save
  BY <1>2, <1>3, PlacesNow
<1>6. /\ 1 \in SaveAt(k) /\ m \in SaveMsgs /\ QueuedAt(k) = {} /\ SavedAt(k) = {}
      /\ k \notin SaveTasks /\ One(SaveAt(k)) /\ WritesOf(k) = {}
      /\ k <= used.saves /\ asked[k] # {}
  <2>1. 1 \in SaveAt(k) /\ m \in SaveMsgs /\ Place(k)
    BY <1>2, <1>3, <1>5, PlacesNow
  <2>. QED  BY <2>1 DEF Place
<1>7. PICK a : a = SaveAnswer(m, FALSE, Empty)
  OBVIOUS
<1>8. a.kind = "saved" /\ a.save = k /\ a.file = m.file /\ ~a.ok
  BY <1>5, <1>7 DEF SaveAnswer
<1>9. PICK n \in Nat : Grown(toClient, toClient', a, n)
  <2>1. a \in ClientMsg
    <3>1. m \in SaveRequest
      BY <1>2, <1>3, ServerKinds
    <3>. QED  BY <1>7, <3>1, AnswerType DEF AnyText
  <2>2. toClient' = toClient \o <<a>>
    BY <1>1, <1>7 DEF HandleSaveBuffer, Send
  <2>3. toClient \o <<a>> = Append(toClient, a)
    BY <2>1
  <2>4. toClient \in Seq(ClientMsg) /\ toClient' = Append(toClient, a) /\ a \in ClientMsg
    BY <2>1, <2>2, <2>3
  <2>. QED  BY ONLY <2>4, AppendedAt
<1>10. /\ DOMAIN toClient = 1..n /\ DOMAIN toClient' = 1..(n + 1)
       /\ \A i \in 1..n : toClient'[i] = toClient[i]
       /\ toClient'[n + 1] = a
       /\ \A i \in 1..(n + 1) : i \in 1..n \/ i = n + 1
       /\ \A i \in 1..n : i \in 1..(n + 1)
  BY ONLY <1>9 DEF Grown
<1>11. \A s \in Saves : /\ QueuedAt(s)' = QueuedAt(s) /\ SaveTasks' = SaveTasks
                        /\ WritesOf(s)' = WritesOf(s)
  BY <1>2 DEF QueuedAt, SaveTasks, WritesOf
<1>12. Place(k)'
  <2>1. ASSUME NEW i \in SaveAt(k)' PROVE FALSE
    <3>1. i + 1 \in SaveAt(k) /\ i >= 1 /\ i \in Nat
      BY <1>3, <1>4 DEF SaveAt
    <3>2. i + 1 = 1
      BY <1>6, <3>1 DEF One
    <3>. QED  BY <3>1, <3>2
  <2>2. \A i \in SavedAt(k)' : i = n + 1
    BY <1>6, <1>10 DEF SavedAt
  <2>. QED  BY <1>2, <1>6, <1>11, <2>1, <2>2 DEF Place, One
<1>13. ASSUME NEW s \in Saves, s # k PROVE Place(s)'
  <2>1. SavedAt(s)' = SavedAt(s)
    <3>1. \A i \in SavedAt(s)' : i \in SavedAt(s)
      BY <1>8, <1>10, <1>13 DEF SavedAt
    <3>2. \A i \in SavedAt(s) : i \in SavedAt(s)'
      BY <1>10 DEF SavedAt
    <3>. QED  BY <3>1, <3>2
  <2>2. SaveAt(s) = {} => SaveAt(s)' = {}
    BY <1>3 DEF SaveAt
  <2>3. One(SaveAt(s)) => One(SaveAt(s)')
    <3>1. 1 \in {0, 1} /\ \A i \in DOMAIN toServer' : /\ i \in Int /\ i + 1 \in DOMAIN toServer
                                                      /\ toServer'[i] = toServer[i + 1]
      BY <1>3
    <3>. QED  BY <3>1, PlaceTaken
  <2>4. Place(s)
    BY PlacesNow
  <2>. QED  BY <1>2, <1>11, <2>1, <2>2, <2>3, <2>4, PlaceFrom
<1>14. OnePlace'
  BY <1>2, <1>12, <1>13 DEF WroteInv, OnePlace, OneTask
<1>15. \A x \in SaveMsgs' : x \in SaveMsgs \/ x = a
  <2>1. ToSet(toServer') \subseteq ToSet(toServer)
    BY <1>3 DEF ToSet
  <2>2. \A x \in After(0)' : x \in After(0) \/ x = a
    BY <1>10 DEF After
  <2>. QED  BY <1>2, <2>1, <2>2 DEF SaveMsgs
<1>16. Asking'
  BY <1>2, <1>6, <1>8, <1>15 DEF WroteInv, Asking
<1>17. EditsShown'
  <2>1. ASSUME NEW i \in DOMAIN toServer', NEW j \in DOMAIN toServer', i < j,
               toServer'[i].kind = "save", toServer'[j].kind = "edit"
        PROVE  toServer'[j].from \in asked[toServer'[i].save]
    <3>1. i + 1 < j + 1
      BY <1>3, <2>1
    <3>. QED  BY <1>3, <2>1, <3>1 DEF WroteInv, EditsShown
  <2>. QED  BY <1>2, <1>3, <2>1 DEF WroteInv, EditsShown
<1>18. WritesTold'
  <2>. SUFFICES ASSUME NEW x \in ToSet(server.saves), x.file = client.file,
                       NEW w \in WritesOf(x.save)
                PROVE  Told(w.text, x.save, DOMAIN toClient)'
    BY <1>2 DEF WritesTold, WritesOf
  <2>1. Told(w.text, x.save, DOMAIN toClient)
    BY DEF WroteInv, WritesTold
  <2>. QED  BY <1>2, <1>10, <2>1 DEF Told
<1>19. AnswersTold'
  <2>. SUFFICES ASSUME NEW i \in DOMAIN toClient', TakesSuccess(toClient[i])'
                PROVE  Told(toClient[i].wrote, toClient[i].save, Before(i))'
    BY DEF AnswersTold
  <2>1. i \in DOMAIN toClient /\ toClient'[i] = toClient[i] /\ TakesSuccess(toClient[i])
    BY <1>2, <1>8, <1>10 DEF TakesSuccess
  <2>2. Told(toClient[i].wrote, toClient[i].save, Before(i))
    BY <2>1 DEF WroteInv, AnswersTold
  <2>. QED  BY <1>2, <1>10, <2>1, <2>2 DEF Told, Before
<1>. QED  BY <1>14, <1>16, <1>17, <1>18, <1>19 DEF WroteInv

LEMMA HandleSaveWrote ==
  ASSUME TypeInv, TextsInv, WroteInv, HandleSaveBuffer
  PROVE  WroteInv'
  BY SaveTakenWrote, SaveRefusedWrote

LEMMA SaveEndsWrote ==
  ASSUME TypeInv, TextsInv, WroteInv, NEW w \in writes, NEW ok \in BOOLEAN, SaveEnds(w, ok),
         UNCHANGED <<client, tasks, toServer, used, asked>>
  PROVE  WroteInv'
<1>. USE TypesNow
<1>1. CASE ~(server.saves # <<>> /\ Head(server.saves).save = w.save)
  <2>1. writes' = writes \ {w} /\ server' = server /\ toClient' = toClient
    BY <1>1 DEF SaveEnds
  <2>2. \A x \in writes' : \E y \in writes : y.save = x.save /\ y.text = x.text
    BY <2>1
  <2>. QED  BY <2>1, <2>2, WroteSteady
<1>2. CASE server.saves # <<>> /\ Head(server.saves).save = w.save
  <2>. DEFINE done == IF ok THEN [server EXCEPT !.base = w.version,
                                                !.fileVersion = w.version]
                      ELSE server
              rest == Tail(server.saves)
              b == [done EXCEPT !.saves = rest]
              a == SaveAnswer(Head(server.saves), ok, w.text)
  <2>1. server.saves \in Seq(SaveRequest) /\ w.text \in AnyText
    BY DEF ServerBuffer, WriteTask
  <2>2. /\ rest \in Seq(SaveRequest) /\ Head(server.saves) = server.saves[1]
        /\ 1 \in DOMAIN server.saves /\ DOMAIN rest = 1..(Len(server.saves) - 1)
        /\ \A i \in DOMAIN rest : i + 1 \in DOMAIN server.saves /\ rest[i] = server.saves[i + 1]
    BY <1>2, <2>1, Beheaded
  <2>3. /\ server' = CleanedUpIfIdle(b)
        /\ writes' = (writes \ {w}) \union Promoted(rest)
        /\ toClient' = toClient \o <<a>>
    BY <1>2 DEF SaveEnds, Send
  <2>4. PICK h : h = Head(server.saves)
    OBVIOUS
  <2>5. PICK k \in Saves : k = h.save
    BY <2>2, <2>4, PlacesNow
  <2>6. a \in ClientMsg /\ a = SaveAnswer(h, ok, w.text)
    BY <2>1, <2>2, <2>4, AnswerType
  <2>7. /\ a.kind = "saved" /\ a.save = k /\ a.file = h.file /\ a.ok = ok
        /\ a.wrote = w.text
    BY <2>5, <2>6 DEF SaveAnswer
  <2>8. b.saves = rest
    BY DEF ServerBuffer
  <2>. HIDE DEF rest, a, done, b
  <2>9. rest # <<>> => 1 \in DOMAIN rest /\ Head(rest) = rest[1]
    BY <2>2
  <2>10. server'.saves = rest
    BY <2>3, <2>8, CleanedSaves
  <2>11. \A i \in DOMAIN rest : /\ i \in Nat /\ i >= 1 /\ i + 1 \in DOMAIN server.saves
                                /\ rest[i] = server.saves[i + 1]
    BY <2>2
  <2>a. PICK n \in Nat : Grown(toClient, toClient', a, n)
    <3>1. toClient \o <<a>> = Append(toClient, a)
      BY <2>6
    <3>2. toClient \in Seq(ClientMsg) /\ toClient' = Append(toClient, a) /\ a \in ClientMsg
      BY <2>3, <2>6, <3>1
    <3>. QED  BY ONLY <3>2, AppendedAt
  <2>12. /\ DOMAIN toClient = 1..n /\ DOMAIN toClient' = 1..(n + 1)
         /\ \A i \in 1..n : toClient'[i] = toClient[i]
         /\ toClient'[n + 1] = a
         /\ \A i \in 1..(n + 1) : i \in 1..n \/ i = n + 1
         /\ \A i \in 1..n : i \in 1..(n + 1)
    BY ONLY <2>a DEF Grown
  <2>13. /\ QueuedAt(k) = {1} /\ SaveAt(k) = {} /\ SavedAt(k) = {} /\ k \notin SaveTasks
         /\ k <= used.saves /\ asked[k] # {} /\ h \in SaveMsgs
    <3>1. 1 \in QueuedAt(k) /\ Place(k) /\ h \in SaveMsgs
      BY <2>2, <2>4, <2>5, PlacesNow
    <3>. QED  BY <3>1 DEF Place, One
  <2>14. \A s \in Saves : SaveAt(s)' = SaveAt(s) /\ SaveTasks' = SaveTasks
    BY DEF SaveAt, SaveTasks
  <2>15. \A s \in Saves : \A i \in QueuedAt(s)' : i \in Nat /\ i >= 1 /\ i + 1 \in QueuedAt(s)
    BY <2>10, <2>11 DEF QueuedAt
  <2>16. \A x \in Promoted(rest) : /\ rest # <<>> /\ x.save = rest[1].save
                                   /\ x.text = server.text /\ QueuedAt(x.save) # {}
    <3>1. \A x \in Promoted(rest) : /\ rest # <<>> /\ x.save = rest[1].save
                                    /\ x.text = server.text
      BY <2>9 DEF Promoted, StartSave
    <3>2. rest # <<>> => QueuedAt(rest[1].save) # {}
      BY <2>9, <2>11 DEF QueuedAt
    <3>. QED  BY <3>1, <3>2
  <2>17. Place(k)'
    <3>1. QueuedAt(k)' = {}
      BY <2>13, <2>15
    <3>2. \A i \in SavedAt(k)' : i = n + 1
      BY <2>12, <2>13 DEF SavedAt
    <3>. QED  BY <2>13, <2>14, <3>1, <3>2 DEF Place, One
  <2>18. ASSUME NEW s \in Saves, s # k PROVE Place(s)'
    <3>1. SavedAt(s)' = SavedAt(s)
      <4>1. \A i \in SavedAt(s)' : i \in SavedAt(s)
        BY <2>7, <2>12, <2>18 DEF SavedAt
      <4>2. \A i \in SavedAt(s) : i \in SavedAt(s)'
        BY <2>12 DEF SavedAt
      <4>. QED  BY <4>1, <4>2
    <3>2. Place(s)
      BY PlacesNow
    <3>3. QueuedAt(s) = {} => QueuedAt(s)' = {}
      BY <2>15
    <3>4. One(QueuedAt(s)')
      <4>1. ASSUME NEW i \in QueuedAt(s)', NEW j \in QueuedAt(s)' PROVE i = j
        <5>1. i + 1 = j + 1 /\ i \in Nat /\ j \in Nat
          BY <2>15, <3>2 DEF Place, One
        <5>. QED  BY <5>1
      <4>. QED  BY <4>1 DEF One
    <3>5. WritesOf(s)' # {} => WritesOf(s) # {} \/ QueuedAt(s) # {}
      BY <2>3, <2>16 DEF WritesOf
    <3>. QED  BY <2>14, <3>1, <3>2, <3>3, <3>4, <3>5 DEF Place
  <2>19. OnePlace'
    BY <2>17, <2>18 DEF WroteInv, OnePlace, OneTask
  <2>20. ToSet(rest) \subseteq ToSet(server.saves)
    BY <2>11 DEF ToSet
  <2>21. \A m \in SaveMsgs' : m \in SaveMsgs \/ m = a
    <3>1. \A m \in After(0)' : m \in After(0) \/ m = a
      BY <2>12 DEF After
    <3>. QED  BY <2>10, <2>20, <3>1 DEF SaveMsgs
  <2>22. Asking'
    <3>1. h.file <= used.opens /\ (h.file = client.file => client.loaded)
      BY <2>13 DEF WroteInv, Asking
    <3>. QED  BY <2>7, <2>21, <3>1 DEF WroteInv, Asking
  <2>23. EditsShown'
    BY <2>10, <2>20 DEF WroteInv, EditsShown, EditsOut
  <2>24. WritesTold'
    <3>. SUFFICES ASSUME NEW m \in ToSet(rest), m.file = client.file,
                         NEW x \in WritesOf(m.save)'
                  PROVE  Told(x.text, m.save, DOMAIN toClient)'
      BY <2>10 DEF WritesTold
    <3>1. m \in ToSet(server.saves)
      BY <2>20
    <3>2. CASE x \in WritesOf(m.save)
      <4>1. Told(x.text, m.save, DOMAIN toClient)
        BY <3>1, <3>2 DEF WroteInv, WritesTold
      <4>. QED  BY <2>12, <4>1 DEF Told
    <3>3. CASE x \notin WritesOf(m.save)
      <4>1. x.text = server.text
        BY <2>3, <2>16, <3>3 DEF WritesOf
      <4>2. m \in SaveMsgs
        BY <3>1, PlacesNow DEF ToSet
      <4>3. client.loaded /\ client.text \in asked[m.save]
        BY <4>2, PlacesNow
      <4>4. \A e \in EditsOut : e.from \in asked[m.save]
        BY <3>1 DEF WroteInv, EditsShown
      <4>5. PICK s : s = m.save
        OBVIOUS
      <4>6. Told(server.text, s, DOMAIN toClient)
        BY <4>3, <4>4, <4>5, DispatchTold
      <4>. QED  BY <2>12, <4>1, <4>5, <4>6 DEF Told
    <3>. QED  BY <3>2, <3>3
  <2>25. AnswersTold'
    <3>. SUFFICES ASSUME NEW i \in DOMAIN toClient', TakesSuccess(toClient[i])'
                  PROVE  Told(toClient[i].wrote, toClient[i].save, Before(i))'
      BY DEF AnswersTold
    <3>1. CASE i \in 1..n
      <4>1. i \in DOMAIN toClient /\ toClient'[i] = toClient[i] /\ TakesSuccess(toClient[i])
        BY <2>12, <3>1 DEF TakesSuccess
      <4>2. Told(toClient[i].wrote, toClient[i].save, Before(i))
        BY <4>1 DEF WroteInv, AnswersTold
      <4>. QED  BY <2>12, <4>1, <4>2 DEF Told, Before
    <3>2. CASE i = n + 1
      <4>1. h.file = client.file
        BY <2>7, <2>12, <3>2 DEF TakesSuccess
      <4>2. h \in ToSet(server.saves) /\ w \in WritesOf(h.save)
        BY <1>2, <2>2, <2>4 DEF ToSet, WritesOf
      <4>3. Told(w.text, h.save, DOMAIN toClient)
        BY <4>1, <4>2 DEF WroteInv, WritesTold
      <4>4. \A j \in 1..n : j < n + 1
        OBVIOUS
      <4>. QED  BY <2>5, <2>7, <2>12, <3>2, <4>3, <4>4 DEF Told, Before
    <3>. QED  BY <2>12, <3>1, <3>2
  <2>. QED  BY <2>19, <2>22, <2>23, <2>24, <2>25 DEF WroteInv
<1>. QED  BY <1>1, <1>2

-----------------------------------------------------------------------------
\* What a save wrote: the client sends.

\* What was told stays told, to an editor that is still there.
LEMMA ToldStays ==
  ASSUME TypeInv, WroteInv, UNCHANGED <<server, writes, toClient>>,
         \A m \in SaveMsgs : m.file = client'.file =>
           m.file = client.file /\ (client.conflict => client'.conflict),
         \A m \in SaveMsgs : asked[m.save] \subseteq asked'[m.save]
  PROVE  WritesTold' /\ AnswersTold'
<1>1. WritesTold'
  <2>. SUFFICES ASSUME NEW m \in ToSet(server.saves), m.file = client'.file,
                       NEW w \in WritesOf(m.save)
                PROVE  Told(w.text, m.save, DOMAIN toClient)'
    BY DEF WritesTold, WritesOf
  <2>1. m \in SaveMsgs
    BY PlacesNow DEF ToSet
  <2>2. Told(w.text, m.save, DOMAIN toClient)
    BY <2>1 DEF WroteInv, WritesTold
  <2>. QED  BY <2>1, <2>2 DEF Told
<1>2. AnswersTold'
  <2>. SUFFICES ASSUME NEW i \in DOMAIN toClient, TakesSuccess(toClient[i])'
                PROVE  Told(toClient[i].wrote, toClient[i].save, Before(i))'
    BY DEF AnswersTold
  <2>1. toClient[i].kind = "saved" /\ toClient[i].file = client'.file /\ toClient[i].ok
    BY DEF TakesSuccess
  <2>2. toClient[i] \in SaveMsgs
    BY <2>1, PlacesNow
  <2>3. TakesSuccess(toClient[i]) /\ (client.conflict => client'.conflict)
    BY <2>1, <2>2 DEF TakesSuccess
  <2>4. Told(toClient[i].wrote, toClient[i].save, Before(i))
    BY <2>3 DEF WroteInv, AnswersTold
  <2>. QED  BY <2>2, <2>3, <2>4 DEF Told, Before
<1>. QED  BY <1>1, <1>2

LEMMA ClientOpensWrote ==
  ASSUME TypeInv, WroteInv, ClientOpens
  PROVE  WroteInv'
<1>. USE TypesNow
<1>. DEFINE o == [kind |-> "open", file |-> used.opens + 1]
<1>1. /\ tasks' = tasks \union {o}
      /\ UNCHANGED <<server, writes, toServer, toClient, asked>>
  BY DEF ClientOpens
<1>2. o.kind = "open" /\ o.kind # "save" /\ o.kind # "saved"
  OBVIOUS
<1>. HIDE DEF o
<1>3. client'.file = used.opens + 1 /\ ~client'.loaded
  BY DEF ClientOpens, NoBuffer
<1>4. used'.opens = used.opens + 1 /\ used'.saves = used.saves /\ used.opens \in Nat
  BY DEF ClientOpens
<1>5. ASSUME NEW s \in Saves PROVE Place(s)'
  <2>1. /\ SaveAt(s)' = SaveAt(s) /\ QueuedAt(s)' = QueuedAt(s) /\ SavedAt(s)' = SavedAt(s)
        /\ WritesOf(s)' = WritesOf(s) /\ SaveTasks' = SaveTasks
    BY <1>1, <1>2 DEF SaveAt, QueuedAt, SavedAt, WritesOf, SaveTasks
  <2>2. Place(s)
    BY PlacesNow
  <2>. QED  BY <1>1, <1>4, <2>1, <2>2, PlaceFrom
<1>6. OnePlace'
  BY <1>1, <1>2, <1>5 DEF WroteInv, OnePlace, OneTask
<1>7. \A m \in SaveMsgs' : m \in SaveMsgs
  BY <1>1, <1>2 DEF SaveMsgs, After
<1>8. \A m \in SaveMsgs : m.file \in Nat /\ m.file <= used.opens
  BY PlacesNow DEF WroteInv, Asking, Files
<1>9. \A m \in SaveMsgs : m.file <= used'.opens /\ m.file # client'.file
  <2>1. \A n \in Nat : \A f \in Nat : f <= n => f <= n + 1 /\ f # n + 1
    OBVIOUS
  <2>. QED  BY <1>3, <1>4, <1>8, <2>1
<1>10. Asking'
  BY <1>3, <1>7, <1>9 DEF Asking
<1>11. EditsShown'
  BY <1>1 DEF WroteInv, EditsShown, EditsOut
<1>12. WritesTold' /\ AnswersTold'
  BY <1>1, <1>9, ToldStays
<1>. QED  BY <1>6, <1>10, <1>11, <1>12 DEF WroteInv

LEMMA ClientClosesWrote ==
  ASSUME TypeInv, WroteInv, ClientCloses
  PROVE  WroteInv'
<1>. USE TypesNow
<1>. DEFINE c == [kind |-> "close"]
<1>1. /\ toServer' = Append(toServer, c) /\ c.kind = "close"
      /\ UNCHANGED <<server, writes, tasks, toClient, used, asked>>
  BY DEF ClientCloses
<1>. HIDE DEF c
<1>2. client'.file = 0 /\ ~client'.loaded
  BY DEF ClientCloses, NoBuffer
<1>3. /\ \A i \in DOMAIN toServer' : \/ i \in DOMAIN toServer /\ toServer'[i] = toServer[i]
                                     \/ toServer'[i] = c
      /\ EditsOut' = EditsOut
  <2>1. {x \in {c} : x.kind = "edit"} = {}
    BY <1>1
  <2>2. EditsOut' = EditsOut \union {x \in {c} : x.kind = "edit"}
    BY <1>1, RequestAppended
  <2>. QED  BY <1>1, <2>1, <2>2, RequestAppended
<1>4. ASSUME NEW s \in Saves PROVE Place(s)'
  <2>1. /\ SaveAt(s)' \subseteq SaveAt(s) /\ QueuedAt(s)' = QueuedAt(s)
        /\ SavedAt(s)' = SavedAt(s) /\ WritesOf(s)' = WritesOf(s) /\ SaveTasks' = SaveTasks
    BY <1>1, <1>3 DEF SaveAt, QueuedAt, SavedAt, WritesOf, SaveTasks
  <2>2. Place(s) /\ (One(SaveAt(s)) => One(SaveAt(s)'))
    BY <2>1, PlacesNow DEF One
  <2>. QED  BY <1>1, <2>1, <2>2, PlaceFrom
<1>5. OnePlace'
  BY <1>1, <1>4 DEF WroteInv, OnePlace, OneTask
<1>6. \A m \in SaveMsgs' : m \in SaveMsgs
  BY <1>1, <1>3 DEF SaveMsgs, After, ToSet
<1>7. \A m \in SaveMsgs : m.file # client'.file
  BY <1>2, PlacesNow DEF Files
<1>8. Asking'
  BY <1>1, <1>2, <1>6, <1>7 DEF WroteInv, Asking
<1>9. EditsShown'
  BY <1>1, <1>3 DEF WroteInv, EditsShown
<1>10. WritesTold' /\ AnswersTold'
  BY <1>1, <1>7, ToldStays
<1>. QED  BY <1>5, <1>8, <1>9, <1>10 DEF WroteInv

LEMMA ClientSavesWrote ==
  ASSUME TypeInv, WroteInv, ~outOfTurn', TextsInv, ClientSaves
  PROVE  WroteInv'
<1>. USE TypesNow
<1>. DEFINE m == [kind |-> "save", save |-> used.saves + 1, file |-> client.file]
<1>1. /\ tasks' = tasks \union {m} /\ client.loaded /\ used.saves < MaxSaves
      /\ asked' = [asked EXCEPT ![used.saves + 1] = {client.text}]
      /\ UNCHANGED <<client, server, writes, toServer, toClient>>
  <2>1. client.loaded
    BY DEF ClientSaves, ClientBuffer
  <2>. QED  BY <2>1 DEF ClientSaves
<1>2. used'.opens = used.opens /\ used'.saves = used.saves + 1 /\ used.saves \in Nat
  BY DEF ClientSaves
<1>3. PICK k \in Saves : k = used.saves + 1
  BY <1>1, <1>2 DEF Saves
<1>4. m.kind = "save" /\ m.save = k /\ m.file = client.file
  BY <1>3
<1>. HIDE DEF m
<1>5. asked'[k] = {client.text} /\ \A s \in Saves : s # k => asked'[s] = asked[s]
  BY <1>1, <1>3
<1>6. \A s \in Saves : /\ SaveAt(s)' = SaveAt(s) /\ QueuedAt(s)' = QueuedAt(s)
                       /\ SavedAt(s)' = SavedAt(s) /\ WritesOf(s)' = WritesOf(s)
                       /\ (s \in SaveTasks' <=> s \in SaveTasks \/ s = k)
  BY <1>1, <1>4 DEF SaveAt, QueuedAt, SavedAt, WritesOf, SaveTasks
<1>7. ~(k <= used.saves) /\ \A s \in Saves : s <= used.saves => s <= used'.saves
  BY <1>2, <1>3 DEF Saves
<1>8. Place(k)'
  <2>1. /\ SaveAt(k) = {} /\ QueuedAt(k) = {} /\ SavedAt(k) = {} /\ WritesOf(k) = {}
        /\ k \notin SaveTasks
    BY <1>7, PlacesNow DEF Place
  <2>2. k <= used'.saves /\ asked'[k] # {}
    BY <1>2, <1>3, <1>5
  <2>. QED  BY <1>6, <2>1, <2>2 DEF Place, One
<1>9. ASSUME NEW s \in Saves, s # k PROVE Place(s)'
  <2>1. Place(s)
    BY PlacesNow
  <2>. QED  BY <1>5, <1>6, <1>7, <1>9, <2>1 DEF Place
<1>10. OnePlace'
  <2>1. \A x \in tasks : x.kind = "save" => x.save # k
    BY <1>7, PlacesNow DEF Place
  <2>2. OneTask'
    BY <1>1, <1>4, <2>1 DEF WroteInv, OnePlace, OneTask
  <2>. QED  BY <1>8, <1>9, <2>2 DEF OnePlace
<1>11. \A x \in SaveMsgs' : x \in SaveMsgs \/ x = m
  BY <1>1 DEF SaveMsgs, After
<1>12. \A x \in SaveMsgs : x.save \in Saves /\ x.save # k /\ asked'[x.save] = asked[x.save]
  BY <1>5, <1>7, PlacesNow
<1>13. Asking'
  <2>1. client.file <= used.opens
    BY DEF TextsInv, Ids
  <2>2. \A s \in Saves : asked'[s] # {} => client.text \in asked'[s]
    BY <1>1, <1>5 DEF WroteInv, Asking
  <2>. QED  BY <1>1, <1>2, <1>4, <1>11, <2>1, <2>2 DEF WroteInv, Asking
<1>14. EditsShown'
  <2>1. \A i \in DOMAIN toServer : toServer[i].kind = "save" =>
          asked'[toServer[i].save] = asked[toServer[i].save]
    BY <1>12, PlacesNow
  <2>2. \A x \in ToSet(server.saves) : asked'[x.save] = asked[x.save]
    BY <1>12, PlacesNow DEF ToSet
  <2>. QED  BY <1>1, <2>1, <2>2 DEF WroteInv, EditsShown, EditsOut
<1>15. WritesTold' /\ AnswersTold'
  BY <1>1, <1>12, ToldStays
<1>. QED  BY <1>10, <1>13, <1>14, <1>15 DEF WroteInv

LEMMA ClientEditsWrote ==
  ASSUME TypeInv, WroteInv, NEW text \in Texts, ClientEdits(text)
  PROVE  WroteInv'
<1>. USE TypesNow
<1>. DEFINE e == [kind |-> "edit", from |-> client.text, to |-> text, sv |-> client.sv,
                  cv |-> used.edits + 1]
<1>1. /\ client.loaded /\ toServer' = Append(toServer, e) /\ asked' = Show(asked, text)
      /\ UNCHANGED <<server, writes, tasks, toClient>>
  BY DEF ClientEdits
<1>2. /\ client'.file = client.file /\ client'.loaded /\ client'.conflict = client.conflict
      /\ client'.text = text
  BY <1>1 DEF ClientEdits, ClientBuffer
<1>3. used'.opens = used.opens /\ used'.saves = used.saves
  BY DEF ClientEdits
<1>4. e.kind = "edit" /\ e.from = client.text
  OBVIOUS
<1>. HIDE DEF e
<1>5. /\ \A i \in DOMAIN toServer' : \/ i \in DOMAIN toServer /\ toServer'[i] = toServer[i]
                                     \/ i = Len(toServer) + 1 /\ toServer'[i] = e
      /\ \A i \in DOMAIN toServer : i \in Nat /\ i <= Len(toServer)
      /\ Len(toServer) \in Nat
      /\ \A x \in EditsOut' : x \in EditsOut \/ x = e
  BY <1>1, RequestAppended
<1>6. \A s \in Saves : /\ asked'[s] # {} <=> asked[s] # {}
                       /\ asked[s] \subseteq asked'[s]
                       /\ asked'[s] # {} => text \in asked'[s]
  BY <1>1 DEF Show
<1>7. ASSUME NEW s \in Saves PROVE Place(s)'
  <2>1. /\ SaveAt(s)' \subseteq SaveAt(s) /\ QueuedAt(s)' = QueuedAt(s)
        /\ SavedAt(s)' = SavedAt(s) /\ WritesOf(s)' = WritesOf(s) /\ SaveTasks' = SaveTasks
    BY <1>1, <1>4, <1>5 DEF SaveAt, QueuedAt, SavedAt, WritesOf, SaveTasks
  <2>2. Place(s) /\ (One(SaveAt(s)) => One(SaveAt(s)'))
    BY <2>1, PlacesNow DEF One
  <2>. QED  BY <1>3, <1>6, <2>1, <2>2, PlaceFrom
<1>8. OnePlace'
  BY <1>1, <1>7 DEF WroteInv, OnePlace, OneTask
<1>9. \A m \in SaveMsgs' : m \in SaveMsgs
  BY <1>1, <1>4, <1>5 DEF SaveMsgs, After, ToSet
<1>10. Asking'
  BY <1>1, <1>2, <1>3, <1>6, <1>9 DEF WroteInv, Asking
<1>11. \A m \in SaveMsgs : /\ m.save \in Saves /\ asked[m.save] \subseteq asked'[m.save]
                           /\ client.text \in asked'[m.save]
  BY <1>1, <1>6, PlacesNow DEF WroteInv, Asking
<1>12. EditsShown'
  <2>1. ASSUME NEW i \in DOMAIN toServer', NEW j \in DOMAIN toServer', i < j,
               toServer'[i].kind = "save", toServer'[j].kind = "edit"
        PROVE  toServer'[j].from \in asked'[toServer'[i].save]
    <3>1. i \in DOMAIN toServer /\ toServer'[i] = toServer[i]
      <4>1. CASE i = Len(toServer) + 1
        BY <1>4, <1>5, <2>1, <4>1
      <4>. QED  BY <1>5, <4>1
    <3>2. toServer[i] \in SaveMsgs
      BY <2>1, <3>1, PlacesNow
    <3>3. CASE j \in DOMAIN toServer /\ toServer'[j] = toServer[j]
      BY <1>11, <2>1, <3>1, <3>2, <3>3 DEF WroteInv, EditsShown
    <3>4. CASE toServer'[j] = e
      BY <1>4, <1>11, <3>1, <3>2, <3>4
    <3>. QED  BY <1>5, <3>3, <3>4
  <2>2. ASSUME NEW m \in ToSet(server.saves), NEW x \in EditsOut'
        PROVE  x.from \in asked'[m.save]
    <3>1. m \in SaveMsgs
      BY PlacesNow DEF ToSet
    <3>. QED  BY <1>4, <1>5, <1>11, <3>1 DEF WroteInv, EditsShown
  <2>. QED  BY <1>1, <2>1, <2>2 DEF EditsShown
<1>13. WritesTold' /\ AnswersTold'
  BY <1>1, <1>2, <1>11, ToldStays
<1>. QED  BY <1>8, <1>10, <1>12, <1>13 DEF WroteInv

LEMMA RequestSentWrote ==
  ASSUME TypeInv, WroteInv, NEW m \in tasks, RequestSent(m)
  PROVE  WroteInv'
<1>. USE TypesNow
<1>1. /\ tasks' = tasks \ {m} /\ toServer' = Append(toServer, m)
      /\ UNCHANGED <<client, server, writes, toClient, used, asked>>
  BY DEF RequestSent
<1>2. /\ m.kind \in {"open", "save"}
      /\ \A x \in tasks' : x \in tasks /\ x # m
      /\ \A x \in tasks : x = m \/ x \in tasks'
  BY <1>1 DEF Request, OpenMsg, SaveRequest
<1>3. /\ \A i \in DOMAIN toServer' : \/ i \in DOMAIN toServer /\ toServer'[i] = toServer[i]
                                     \/ i = Len(toServer) + 1 /\ toServer'[i] = m
      /\ \A i \in DOMAIN toServer : i \in Nat /\ i <= Len(toServer)
      /\ Len(toServer) \in Nat
      /\ EditsOut' = EditsOut
  <2>1. {x \in {m} : x.kind = "edit"} = {}
    BY <1>2
  <2>2. EditsOut' = EditsOut \union {x \in {m} : x.kind = "edit"}
    BY <1>1, RequestAppended
  <2>. QED  BY <1>1, <2>1, <2>2, RequestAppended
<1>4. ASSUME NEW s \in Saves PROVE Place(s)'
  <2>1. /\ QueuedAt(s)' = QueuedAt(s) /\ SavedAt(s)' = SavedAt(s)
        /\ WritesOf(s)' = WritesOf(s) /\ SaveTasks' \subseteq SaveTasks
    BY <1>1, <1>2 DEF QueuedAt, SavedAt, WritesOf, SaveTasks
  <2>2. Place(s)
    BY PlacesNow
  <2>3. CASE m.kind = "save" /\ m.save = s
    <3>1. s \in SaveTasks /\ s \notin SaveTasks'
      <4>1. \A x \in tasks : x.kind = "save" /\ x.save = s => x = m
        BY <2>3 DEF WroteInv, OnePlace, OneTask
      <4>. QED  BY <1>2, <2>3, <4>1 DEF SaveTasks
    <3>2. SaveAt(s) = {} /\ QueuedAt(s) = {} /\ SavedAt(s) = {} /\ WritesOf(s) = {}
      BY <2>2, <3>1 DEF Place
    <3>3. \A i \in SaveAt(s)' : i = Len(toServer) + 1
      BY <1>3, <3>2 DEF SaveAt
    <3>. QED  BY <1>1, <2>1, <2>2, <3>1, <3>2, <3>3 DEF Place, One
  <2>4. CASE ~(m.kind = "save" /\ m.save = s)
    <3>1. SaveAt(s)' \subseteq SaveAt(s)
      BY <1>3, <2>4 DEF SaveAt
    <3>2. One(SaveAt(s)) => One(SaveAt(s)')
      BY <3>1 DEF One
    <3>. QED  BY <1>1, <2>1, <2>2, <3>1, <3>2, PlaceFrom
  <2>. QED  BY <2>3, <2>4
<1>5. OnePlace'
  BY <1>2, <1>4 DEF WroteInv, OnePlace, OneTask
<1>6. \A x \in SaveMsgs' : x \in SaveMsgs
  BY <1>1, <1>3 DEF SaveMsgs, After, ToSet
<1>7. Asking'
  BY <1>1, <1>6 DEF WroteInv, Asking
<1>8. EditsShown'
  <2>1. ASSUME NEW i \in DOMAIN toServer', NEW j \in DOMAIN toServer', i < j,
               toServer'[i].kind = "save", toServer'[j].kind = "edit"
        PROVE  toServer'[j].from \in asked[toServer'[i].save]
    <3>1. j \in DOMAIN toServer /\ toServer'[j] = toServer[j]
      BY <1>2, <1>3, <2>1
    <3>2. i \in DOMAIN toServer /\ toServer'[i] = toServer[i]
      BY <1>3, <2>1, <3>1
    <3>. QED  BY <2>1, <3>1, <3>2 DEF WroteInv, EditsShown
  <2>. QED  BY <1>1, <1>3, <2>1 DEF WroteInv, EditsShown
<1>9. WritesTold' /\ AnswersTold'
  BY <1>1, ToldStays
<1>. QED  BY <1>5, <1>7, <1>8, <1>9 DEF WroteInv

-----------------------------------------------------------------------------
\* What a save wrote: the client takes an answer or a push.

LEMMA Shifted ==
  ASSUME TypeInv, TextsInv, NEW k \in Deliverable, toClient' = RemoveAt(toClient, k),
         used' = used
  PROVE  /\ k \in DOMAIN toClient /\ k \in Nat /\ toClient[k] \in ClientMsg
         /\ \A i \in DOMAIN toClient' :
              /\ i \in Nat
              /\ \E j \in DOMAIN toClient : Kept(k, i, j) /\ toClient'[i] = toClient[j]
         /\ \A j \in DOMAIN toClient :
              /\ j \in Nat
              /\ j # k => \E i \in DOMAIN toClient' : Kept(k, i, j) /\ toClient'[i] = toClient[j]
         /\ \A m \in After(0)' : m \in After(0)
         /\ \A s : /\ \A i \in SavedAt(s)' : \E j \in SavedAt(s) : j # k
                   /\ SavedAt(s) = {} => SavedAt(s)' = {}
                   /\ One(SavedAt(s)) => One(SavedAt(s)')
<1>1. k \in DOMAIN toClient /\ \A m \in After(0)' : m \in After(0)
  BY ClientTaken
<1>2. /\ k \in Nat /\ toClient[k] \in ClientMsg
      /\ \A j \in DOMAIN toClient : j \in Nat
      /\ \A i \in DOMAIN toClient' :
           /\ i \in Nat
           /\ \E j \in DOMAIN toClient : Kept(k, i, j) /\ toClient'[i] = toClient[j]
      /\ \A j \in DOMAIN toClient : j # k =>
           \E i \in DOMAIN toClient' : Kept(k, i, j) /\ toClient'[i] = toClient[j]
  BY <1>1, TakenFrom
<1>3. ASSUME NEW s, NEW i \in SavedAt(s)'
      PROVE  \E j \in SavedAt(s) : i \in Nat /\ j \in Nat /\ j # k /\ Kept(k, i, j)
  <2>1. i \in DOMAIN toClient' /\ toClient'[i].kind = "saved" /\ toClient'[i].save = s
    BY DEF SavedAt
  <2>2. PICK j \in DOMAIN toClient : Kept(k, i, j) /\ toClient'[i] = toClient[j]
    BY <1>2, <2>1
  <2>3. i \in Nat /\ j \in Nat
    BY <1>2, <2>1
  <2>4. j # k
    BY <1>2, <2>2, <2>3 DEF Kept
  <2>. QED  BY <2>1, <2>2, <2>3, <2>4 DEF SavedAt
<1>4. ASSUME NEW s, One(SavedAt(s))
      PROVE  One(SavedAt(s)')
  <2>. SUFFICES ASSUME NEW i \in SavedAt(s)', NEW n \in SavedAt(s)' PROVE i = n
    BY DEF One
  <2>1. PICK j \in SavedAt(s) : i \in Nat /\ j \in Nat /\ Kept(k, i, j)
    BY <1>3
  <2>2. PICK o \in SavedAt(s) : n \in Nat /\ o \in Nat /\ Kept(k, n, o)
    BY <1>3
  <2>3. j = o
    BY <1>4 DEF One
  <2>. QED  BY <1>2, <2>1, <2>2, <2>3 DEF Kept
<1>5. ASSUME NEW s
      PROVE  /\ \A i \in SavedAt(s)' : \E j \in SavedAt(s) : j # k
             /\ SavedAt(s) = {} => SavedAt(s)' = {}
             /\ One(SavedAt(s)) => One(SavedAt(s)')
  BY <1>3, <1>4
<1>. QED  BY <1>1, <1>2, <1>5

\* What was told stays told, to an editor that is still there, of the saves that are
\* not reported in this step.
LEMMA ToldStaysTaken ==
  ASSUME TypeInv, TextsInv, WroteInv, NEW k \in Deliverable,
         toClient' = RemoveAt(toClient, k), used' = used, UNCHANGED <<server, writes>>,
         \A m \in SaveMsgs :
           /\ toClient[k].kind = "saved" => m.save # toClient[k].save
           /\ m.file = client'.file
           => /\ m.file = client.file /\ (client.conflict => client'.conflict)
              /\ asked[m.save] \subseteq asked'[m.save]
              /\ toClient[k].kind = "push" =>
                   client'.conflict \/ toClient[k].to \in asked'[m.save]
  PROVE  WritesTold' /\ AnswersTold'
<1>1. /\ k \in DOMAIN toClient /\ k \in Nat
      /\ \A i \in DOMAIN toClient' :
           /\ i \in Nat
           /\ \E j \in DOMAIN toClient : Kept(k, i, j) /\ toClient'[i] = toClient[j]
      /\ \A j \in DOMAIN toClient :
           /\ j \in Nat
           /\ j # k => \E i \in DOMAIN toClient' : Kept(k, i, j) /\ toClient'[i] = toClient[j]
  BY Shifted
<1>2. ASSUME NEW I, NEW J, NEW text, NEW s, Told(text, s, I),
             \A j \in I : j # k =>
               \E i \in J : toClient'[i] = toClient[j],
             asked[s] \subseteq asked'[s], client.conflict => client'.conflict,
             toClient[k].kind = "push" => client'.conflict \/ toClient[k].to \in asked'[s]
      PROVE  \/ text \in asked'[s] \/ client'.conflict
             \/ \E j \in J : toClient'[j].kind = "push" /\ toClient'[j].to = text
  <2>1. CASE text \in asked[s] \/ client.conflict
    BY <1>2, <2>1
  <2>2. ASSUME NEW i \in I, toClient[i].kind = "push", toClient[i].to = text
        PROVE  \/ text \in asked'[s] \/ client'.conflict
               \/ \E j \in J : toClient'[j].kind = "push" /\ toClient'[j].to = text
    <3>1. CASE i = k
      BY <1>2, <2>2, <3>1
    <3>2. CASE i # k
      BY <1>2, <2>2, <3>2
    <3>. QED  BY <3>1, <3>2
  <2>. QED  BY <1>2, <2>1, <2>2 DEF Told
<1>3. WritesTold'
  <2>. SUFFICES ASSUME NEW m \in ToSet(server.saves), m.file = client'.file,
                       NEW w \in WritesOf(m.save)
                PROVE  Told(w.text, m.save, DOMAIN toClient)'
    BY DEF WritesTold, WritesOf
  <2>1. m \in SaveMsgs /\ QueuedAt(m.save) # {} /\ Place(m.save)
    BY PlacesNow DEF ToSet
  <2>2. toClient[k].kind = "saved" => m.save # toClient[k].save
    BY <1>1, <2>1 DEF Place, SavedAt
  <2>3. PICK text, s : text = w.text /\ s = m.save
    OBVIOUS
  <2>4. Told(text, s, DOMAIN toClient)
    BY <2>1, <2>2, <2>3 DEF WroteInv, WritesTold
  <2>5. PICK I, J : I = DOMAIN toClient /\ J = DOMAIN toClient'
    OBVIOUS
  <2>6. /\ Told(text, s, I) /\ \A j \in I : j # k => \E i \in J : toClient'[i] = toClient[j]
        /\ asked[s] \subseteq asked'[s] /\ (client.conflict => client'.conflict)
        /\ toClient[k].kind = "push" => client'.conflict \/ toClient[k].to \in asked'[s]
    BY <1>1, <2>1, <2>2, <2>3, <2>4, <2>5
  <2>7. \/ text \in asked'[s] \/ client'.conflict
        \/ \E j \in J : toClient'[j].kind = "push" /\ toClient'[j].to = text
    BY <1>2, <2>6
  <2>. QED  BY <2>3, <2>5, <2>7 DEF Told
<1>4. AnswersTold'
  <2>. SUFFICES ASSUME NEW n \in DOMAIN toClient', TakesSuccess(toClient[n])'
                PROVE  Told(toClient[n].wrote, toClient[n].save, Before(n))'
    BY DEF AnswersTold
  <2>1. PICK m : m = toClient'[n]
    OBVIOUS
  <2>2. PICK o \in DOMAIN toClient : Kept(k, n, o) /\ toClient[o] = m
    BY <1>1, <2>1
  <2>3. /\ n \in Nat /\ o \in Nat /\ m.kind = "saved" /\ m.file = client'.file /\ m.ok
    BY <1>1, <2>1, <2>2 DEF TakesSuccess
  <2>4. m \in SaveMsgs /\ o \in SavedAt(m.save) /\ Place(m.save)
    BY <2>2, <2>3, PlacesNow
  <2>5. toClient[k].kind = "saved" => m.save # toClient[k].save
    <3>1. ASSUME toClient[k].kind = "saved", m.save = toClient[k].save PROVE FALSE
      <4>1. k \in SavedAt(m.save)
        BY <1>1, <3>1 DEF SavedAt
      <4>2. o = k
        BY <2>4, <4>1 DEF Place, One
      <4>. QED  BY <1>1, <2>2, <2>3, <4>2 DEF Kept
    <3>. QED  BY <3>1
  <2>6. TakesSuccess(toClient[o])
    BY <2>2, <2>3, <2>4, <2>5 DEF TakesSuccess
  <2>7. PICK text, s : text = m.wrote /\ s = m.save
    OBVIOUS
  <2>8. Told(text, s, Before(o))
    BY <2>2, <2>6, <2>7 DEF WroteInv, AnswersTold
  <2>9. PICK I, J : I = Before(o) /\ J = Before(n)'
    OBVIOUS
  <2>10. ASSUME NEW j \in I, j # k
         PROVE  \E i \in J : toClient'[i] = toClient[j]
    <3>1. j \in DOMAIN toClient /\ j < o
      BY <2>9 DEF Before
    <3>2. PICK i \in DOMAIN toClient' : Kept(k, i, j) /\ toClient'[i] = toClient[j]
      BY <1>1, <2>10, <3>1
    <3>3. /\ k \in Nat /\ i \in Nat /\ j \in Nat /\ n \in Nat /\ o \in Nat
          /\ Kept(k, i, j) /\ Kept(k, n, o) /\ j < o
      BY <1>1, <2>2, <2>3, <3>1, <3>2
    <3>4. i < n
      BY ONLY <3>3, KeptOrder
    <3>. QED  BY <2>9, <3>2, <3>4 DEF Before
  <2>11. /\ asked[s] \subseteq asked'[s] /\ (client.conflict => client'.conflict)
         /\ toClient[k].kind = "push" => client'.conflict \/ toClient[k].to \in asked'[s]
    BY <2>3, <2>4, <2>5, <2>7
  <2>12. \/ text \in asked'[s] \/ client'.conflict
         \/ \E j \in J : toClient'[j].kind = "push" /\ toClient'[j].to = text
    BY <1>2, <2>8, <2>9, <2>10, <2>11
  <2>. QED  BY <2>1, <2>7, <2>9, <2>12 DEF Told
<1>. QED  BY <1>3, <1>4

\* The editor shows what it took: every save that is not reported yet has seen it.
LEMMA TakenWrote ==
  ASSUME TypeInv, TextsInv, WroteInv, NEW k \in Deliverable, ClientTakes(k),
         toClient[k].kind # "saved", asked' = Show(asked, client'.text),
         \A m \in SaveMsgs : m.file = client'.file =>
           /\ m.file = client.file /\ client'.loaded /\ (client.conflict => client'.conflict)
           /\ toClient[k].kind = "push" => client'.conflict \/ toClient[k].to = client'.text
  PROVE  WroteInv'
<1>1. /\ toClient' = RemoveAt(toClient, k)
      /\ UNCHANGED <<server, writes, tasks, toServer, used>>
  BY DEF ClientTakes
<1>2. \A s \in Saves : /\ asked'[s] # {} <=> asked[s] # {}
                       /\ asked[s] \subseteq asked'[s]
                       /\ asked'[s] # {} => client'.text \in asked'[s]
  BY DEF Show
<1>3. ASSUME NEW s \in Saves PROVE Place(s)'
  <2>1. /\ SaveAt(s)' = SaveAt(s) /\ QueuedAt(s)' = QueuedAt(s)
        /\ WritesOf(s)' = WritesOf(s) /\ SaveTasks' = SaveTasks
    BY <1>1 DEF SaveAt, QueuedAt, WritesOf, SaveTasks
  <2>2. /\ SavedAt(s) = {} => SavedAt(s)' = {}
        /\ One(SavedAt(s)) => One(SavedAt(s)')
    BY <1>1, Shifted
  <2>3. Place(s)
    BY PlacesNow
  <2>. QED  BY <1>1, <1>2, <2>1, <2>2, <2>3, PlaceFrom
<1>4. OnePlace'
  BY <1>1, <1>3 DEF WroteInv, OnePlace, OneTask
<1>5. \A m \in SaveMsgs' : m \in SaveMsgs
  <2>1. \A m \in After(0)' : m \in After(0)
    BY <1>1, Shifted
  <2>. QED  BY <1>1, <2>1 DEF SaveMsgs
<1>6. Asking'
  BY <1>1, <1>2, <1>5 DEF WroteInv, Asking
<1>7. \A m \in SaveMsgs : m.save \in Saves /\ asked[m.save] \subseteq asked'[m.save]
  BY <1>2, PlacesNow
<1>8. EditsShown'
  <2>1. \A i \in DOMAIN toServer : toServer[i].kind = "save" => toServer[i] \in SaveMsgs
    BY PlacesNow
  <2>2. \A m \in ToSet(server.saves) : m \in SaveMsgs
    BY PlacesNow DEF ToSet
  <2>3. EditsOut' = EditsOut
    BY <1>1 DEF EditsOut
  <2>. QED  BY <1>1, <1>7, <2>1, <2>2, <2>3 DEF WroteInv, EditsShown
<1>9. \A m \in SaveMsgs :
        /\ toClient[k].kind = "saved" => m.save # toClient[k].save
        /\ m.file = client'.file
        => /\ m.file = client.file /\ (client.conflict => client'.conflict)
           /\ asked[m.save] \subseteq asked'[m.save]
           /\ toClient[k].kind = "push" =>
                client'.conflict \/ toClient[k].to \in asked'[m.save]
  BY <1>2, <1>7, PlacesNow
<1>10. WritesTold' /\ AnswersTold'
  BY <1>1, <1>9, ToldStaysTaken
<1>. QED  BY <1>4, <1>6, <1>8, <1>10 DEF WroteInv

LEMMA FinishWrote ==
  ASSUME TypeInv, TextsInv, WroteInv, NEW k \in Deliverable, FinishMaterialization(k)
  PROVE  WroteInv'
<1>. USE TypesNow
<1>1. PICK m : m = toClient[k]
  OBVIOUS
<1>2. /\ m.kind \in {"opened", "open_failed"} /\ asked' = Show(asked, client'.text)
      /\ ClientTakes(k)
  BY <1>1 DEF FinishMaterialization
<1>3. k \in DOMAIN toClient /\ m \in ClientMsg
  BY <1>1, <1>2, ClientTaken DEF ClientTakes
<1>4. CASE m.file # client.file
  <2>1. client' = client
    BY <1>1, <1>4 DEF FinishMaterialization
  <2>2. \A x \in SaveMsgs : x.file = client.file => client.loaded
    BY PlacesNow
  <2>. QED  BY <1>1, <1>2, <2>1, <2>2, TakenWrote
<1>5. CASE m.file = client.file
  <2>1. client.file # 0 /\ m.file = used.opens
    <3>1. m.file \in Files
      BY <1>2, <1>3, ClientKinds
    <3>. QED  BY <1>5, <3>1 DEF TextsInv, Ids, Files
  <2>2. k \in AnswerAt
    BY <1>1, <1>2, <1>3, <2>1 DEF AnswerAt
  <2>3. ~client.loaded
    BY <2>2 DEF TextsInv, Shows
  <2>4. client'.file = client.file \/ client'.file = 0
    BY <1>1, <1>2, <1>5 DEF FinishMaterialization, NoBuffer, ClientBuffer
  <2>5. \A x \in SaveMsgs : x.file # client.file /\ x.file # 0
    BY <2>3, PlacesNow DEF Files
  <2>. QED  BY <1>1, <1>2, <2>4, <2>5, TakenWrote
<1>. QED  BY <1>4, <1>5

LEMMA PushWrote ==
  ASSUME TypeInv, TextsInv, WroteInv, NEW k \in Deliverable,
         HandleBufferUpdatedPush(k)
  PROVE  WroteInv'
<1>. USE TypesNow
<1>1. PICK m : m = toClient[k]
  OBVIOUS
<1>2. m.kind = "push" /\ asked' = Show(asked, client'.text) /\ ClientTakes(k)
  BY <1>1 DEF HandleBufferUpdatedPush
<1>3. CASE ~client.loaded
  <2>1. client' = client
    BY <1>3 DEF HandleBufferUpdatedPush
  <2>2. \A x \in SaveMsgs : x.file # client.file
    BY <1>3, PlacesNow
  <2>. QED  BY <1>1, <1>2, <2>1, <2>2, TakenWrote
<1>4. CASE client.loaded /\ client.cv # m.cv
  <2>1. client' = [client EXCEPT !.conflict = TRUE]
    BY <1>1, <1>4 DEF HandleBufferUpdatedPush, Conflict
  <2>2. client'.loaded /\ client'.file = client.file /\ client'.conflict = TRUE
    BY <1>4, <2>1 DEF ClientBuffer
  <2>. QED  BY <1>1, <1>2, <2>2, TakenWrote
<1>5. CASE client.loaded /\ client.cv = m.cv
  <2>1. m \in Pushes(0) /\ \A p \in Pushes(0) \ {m} : m.sv < p.sv
    BY <1>1, <1>2, ClientTaken DEF ClientTakes
  <2>2. ViewOf(Pushes(0), server, EditsOut, client.conflict, client.sv, client.cv, client.text)
    BY <1>5 DEF TextsInv, Shows, View
  <2>3. \A p \in Pushes(0) : p.sv \in Versions
    BY PushesKnown
  <2>4. Earliest(Pushes(0), m)
    BY <2>1, <2>3 DEF Earliest, Versions
  <2>5. m.from = client.text
    BY <1>5, <2>1, <2>2, <2>4 DEF ViewOf
  <2>6. client' = [client EXCEPT !.sv = m.sv, !.text = m.to]
    BY <1>1, <1>5, <2>5 DEF HandleBufferUpdatedPush, Applied
  <2>7. /\ client'.loaded /\ client'.file = client.file /\ client'.conflict = client.conflict
        /\ client'.text = m.to
    BY <1>5, <2>6 DEF ClientBuffer
  <2>. QED  BY <1>1, <1>2, <2>7, TakenWrote
<1>. QED  BY <1>3, <1>4, <1>5

\* The editor is told of a save, and nobody waits for it any more.
LEMMA SaveReportedWrote ==
  ASSUME TypeInv, TextsInv, WroteInv, NEW n \in Deliverable, SaveReported(n)
  PROVE  WroteInv'
<1>. USE TypesNow
<1>1. /\ toClient' = RemoveAt(toClient, n) /\ toClient[n].kind = "saved"
      /\ asked' = [asked EXCEPT ![toClient[n].save] = {}]
      /\ UNCHANGED <<client, server, writes, tasks, toServer, used>>
  BY DEF SaveReported, ClientTakes
<1>2. n \in DOMAIN toClient
  BY <1>1, Shifted
<1>3. PICK k \in Saves : k = toClient[n].save
  BY <1>1, <1>2, PlacesNow
<1>4. asked'[k] = {} /\ \A s \in Saves : s # k => asked'[s] = asked[s]
  BY <1>1, <1>3
<1>5. /\ SaveAt(k) = {} /\ QueuedAt(k) = {} /\ k \notin SaveTasks /\ SavedAt(k) = {n}
      /\ k <= used.saves
  <2>1. n \in SavedAt(k) /\ Place(k)
    BY <1>1, <1>2, <1>3, PlacesNow
  <2>. QED  BY <2>1 DEF Place, One
<1>6. \A s \in Saves : /\ \A i \in SavedAt(s)' : \E j \in SavedAt(s) : j # n
                       /\ SavedAt(s) = {} => SavedAt(s)' = {}
                       /\ One(SavedAt(s)) => One(SavedAt(s)')
  BY <1>1, Shifted
<1>7. \A s \in Saves : /\ SaveAt(s)' = SaveAt(s) /\ QueuedAt(s)' = QueuedAt(s)
                       /\ WritesOf(s)' = WritesOf(s) /\ SaveTasks' = SaveTasks
  BY <1>1 DEF SaveAt, QueuedAt, WritesOf, SaveTasks
<1>8. Place(k)'
  <2>1. SavedAt(k)' = {}
    BY <1>5, <1>6
  <2>. QED  BY <1>1, <1>5, <1>7, <2>1 DEF Place, One
<1>9. ASSUME NEW s \in Saves, s # k PROVE Place(s)'
  <2>1. Place(s)
    BY PlacesNow
  <2>. QED  BY <1>1, <1>4, <1>6, <1>7, <1>9, <2>1, PlaceFrom
<1>10. OnePlace'
  BY <1>1, <1>8, <1>9 DEF WroteInv, OnePlace, OneTask
<1>11. \A m \in SaveMsgs' : m \in SaveMsgs
  <2>1. \A m \in After(0)' : m \in After(0)
    BY <1>1, Shifted
  <2>. QED  BY <1>1, <2>1 DEF SaveMsgs
<1>12. Asking'
  BY <1>1, <1>4, <1>11 DEF WroteInv, Asking
<1>13. EditsShown'
  <2>1. \A i \in DOMAIN toServer : toServer[i].kind = "save" =>
          asked'[toServer[i].save] = asked[toServer[i].save]
    BY <1>4, <1>5, PlacesNow
  <2>2. \A m \in ToSet(server.saves) : asked'[m.save] = asked[m.save]
    BY <1>4, <1>5, PlacesNow DEF ToSet
  <2>3. EditsOut' = EditsOut
    BY <1>1 DEF EditsOut
  <2>. QED  BY <1>1, <2>1, <2>2, <2>3 DEF WroteInv, EditsShown
<1>14. \A m \in SaveMsgs :
        /\ toClient[n].kind = "saved" => m.save # toClient[n].save
        /\ m.file = client'.file
        => /\ m.file = client.file /\ (client.conflict => client'.conflict)
           /\ asked[m.save] \subseteq asked'[m.save]
           /\ toClient[n].kind = "push" =>
                client'.conflict \/ toClient[n].to \in asked'[m.save]
  BY <1>1, <1>3, <1>4, PlacesNow
<1>15. WritesTold' /\ AnswersTold'
  BY <1>1, <1>14, ToldStaysTaken
<1>. QED  BY <1>10, <1>12, <1>13, <1>15 DEF WroteInv

-----------------------------------------------------------------------------
\* What a save wrote.

LEMMA InitWrote ==
  ASSUME Init
  PROVE  WroteInv
<1>1. /\ tasks = {} /\ writes = {} /\ server.saves = <<>> /\ ~client.loaded
      /\ toServer = <<>> /\ toClient = <<>>
  BY DEF Init, NoBuffer, Untracked
<1>2. DOMAIN toServer = {} /\ DOMAIN toClient = {} /\ DOMAIN server.saves = {}
  BY <1>1
<1>3. OnePlace
  BY <1>1, <1>2 DEF OnePlace, OneTask, Place, One, SaveTasks, SaveAt, QueuedAt, SavedAt,
                    WritesOf
<1>4. SaveMsgs = {} /\ ToSet(server.saves) = {}
  BY <1>1, <1>2 DEF SaveMsgs, ToSet, After
<1>. QED  BY <1>1, <1>2, <1>3, <1>4
             DEF WroteInv, Asking, EditsShown, WritesTold, AnswersTold

LEMMA IdleWrote ==
  ASSUME TypeInv, WroteInv, UNCHANGED vars
  PROVE  WroteInv'
<1>1. \A w \in writes' : \E x \in writes : x.save = w.save /\ x.text = w.text
  BY DEF vars
<1>. QED  BY <1>1, WroteSteady DEF vars

LEMMA ClientWrote ==
  ASSUME ~outOfTurn', TypeInv, TextsInv, WroteInv, Client
  PROVE  WroteInv'
<1>1. ASSUME NEW i \in Deliverable,
             FinishMaterialization(i) \/ HandleBufferUpdatedPush(i) \/ SaveReported(i)
      PROVE  WroteInv'
  BY <1>1, FinishWrote, PushWrote, SaveReportedWrote
<1>2. ClientHandles => WroteInv'
  BY <1>1 DEF ClientHandles
<1>. QED  BY <1>2, ClientOpensWrote, ClientSavesWrote, ClientClosesWrote, ClientEditsWrote,
             RequestSentWrote DEF Client

LEMMA DaemonWrote ==
  ASSUME TypeInv, Blank, TextsInv, WroteInv, Daemon
  PROVE  WroteInv'
<1>1. DaemonHandles => WroteInv'
  BY HandleOpenWrote, HandleEditWrote, HandleSaveWrote, HandleCloseWrote DEF DaemonHandles
<1>2. Loading => WroteInv'
  BY FilesWrote, FileLoadedWrote, FailedToLoadWrote DEF Loading
<1>3. Reloading => WroteInv'
  BY FilesWrote, ApplyDiffWrote DEF Reloading
<1>4. ASSUME NEW w \in writes, SaveWrites(w) \/ FileSaved(w) \/ FailedToSave(w)
      PROVE  WroteInv'
  <2>1. CASE SaveWrites(w)
    BY <2>1, SaveWritesWrote
  <2>2. CASE FileSaved(w)
    BY <2>2, SaveEndsWrote DEF FileSaved
  <2>3. CASE FailedToSave(w)
    BY <2>3, SaveEndsWrote DEF FailedToSave
  <2>. QED  BY <1>4, <2>1, <2>2, <2>3
<1>5. (\E s \in Saves : SaveRuns(s)) => WroteInv'
  BY <1>4 DEF SaveRuns
<1>. QED  BY <1>1, <1>2, <1>3, <1>5 DEF Daemon

\* SavedUnlessTold: handle_save_buffer writes what the daemon holds when
\* complete_active_buffer_mutation dispatches the save, perhaps long after it was asked for.
\* Whoever is told that it succeeded has shown that text, was told of a conflict, or has still
\* to take the push that leads to that text, unless something came out of turn.
THEOREM SavesAreShown == BufferSpec => []SavedUnlessTold
<1>1. TypeInv /\ Blank /\ (outOfTurn \/ TextsInv) /\ (outOfTurn \/ WroteInv) /\ [Next]_vars
      => (outOfTurn \/ WroteInv)'
  <2>. SUFFICES ASSUME TypeInv, Blank, TextsInv, WroteInv, [Next]_vars, ~outOfTurn'
                PROVE  WroteInv'
    BY StaysOut
  <2>1. CASE UNCHANGED vars
    BY <2>1, IdleWrote
  <2>2. CASE Client
    BY <2>2, ClientWrote
  <2>3. CASE Daemon
    BY <2>3, DaemonWrote
  <2>4. CASE \E text \in Texts : ExternalWrite(text)
    BY <2>4, FilesWrote
  <2>. QED  BY <2>1, <2>2, <2>3, <2>4 DEF Next
<1>2. TypeInv /\ (outOfTurn \/ WroteInv) => SavedUnlessTold
  <2>. SUFFICES ASSUME TypeInv, WroteInv, NEW i \in Deliverable, TakesSuccess(toClient[i])
                PROVE  \/ toClient[i].wrote \in asked[toClient[i].save] \/ client.conflict
                       \/ LearnsFromPush(i)
    BY DEF SavedUnlessTold
  <2>1. i \in DOMAIN toClient
    BY DEF Deliverable
  <2>2. Told(toClient[i].wrote, toClient[i].save, Before(i))
    BY <2>1 DEF WroteInv, AnswersTold
  <2>3. Before(i) \subseteq 1..(i - 1)
    <3>1. DOMAIN toClient = 1..Len(toClient) /\ Len(toClient) \in Nat
      BY TypesNow
    <3>. QED  BY <2>1, <3>1 DEF Before
  <2>. QED  BY <2>2, <2>3 DEF Told, LearnsFromPush
<1>3. Init => WroteInv
  BY InitWrote
<1>. QED  BY <1>1, <1>2, <1>3, TypesInvariant, BlankInvariant, TextsHold, PTL DEF BufferSpec

=============================================================================
