-------------------------- MODULE RemotePty_proofs --------------------------
(***************************************************************************)
(* Type correctness of remote terminals; that every PTY and every exit of  *)
(* a live connection finds its pane; that a shell reads what was typed in  *)
(* its order, and a pane shows what its shell prints without a gap.        *)
(***************************************************************************)
EXTENDS RemotePty, TLAPS, SequenceTheorems

\* What goes to the daemon is a sequence of messages.
LEMMA SentType ==
    ASSUME PtyTypeOK, NEW g, NEW msgs \in Seq(Message)
    PROVE  Sent(g, msgs) \in [Generation -> Seq(Message)]
<1>1. CASE g \in Generation
  <2>1. up[g] \o msgs \in Seq(Message)
    BY <1>1 DEF PtyTypeOK
  <2>. QED  BY <2>1 DEF Sent, PtyTypeOK
<1>2. CASE g \notin Generation
  BY <1>2 DEF Sent, PtyTypeOK
<1>. QED  BY <1>1, <1>2

\* What the daemon pushes is a sequence of pushes.
LEMMA PushedType ==
    ASSUME PtyTypeOK, NEW g, NEW msg \in Push
    PROVE  Pushed(g, msg) \in [Generation -> Seq(Push)]
<1>1. CASE g \in Generation
  <2>1. Append(events[g], msg) \in Seq(Push)
    BY <1>1 DEF PtyTypeOK
  <2>. QED  BY <2>1 DEF Pushed, PtyTypeOK
<1>2. CASE g \notin Generation
  BY <1>2 DEF Pushed, PtyTypeOK
<1>. QED  BY <1>1, <1>2

\* An action that leaves the connections alone.
LEMMA TypeFrom ==
    ASSUME PtyTypeOK, UNCHANGED linkVars,
           nextPty' \in Nat \ {0},
           up' \in [Generation -> Seq(Message)],
           events' \in [Generation -> Seq(Push)],
           pty' \in [Pane -> Terminal],
           pane' \in [Pane -> EventLoop],
           \A p \in Pane : pane'[p].request # "none" => pane'[p].client # 0
    PROVE  PtyTypeOK'
  BY DEF PtyTypeOK, linkVars, Opened

\* One pane changes.
LEMMA PaneType ==
    ASSUME PtyTypeOK, NEW p \in Pane, NEW r \in EventLoop,
           r.request # "none" => r.client # 0,
           pane' = [pane EXCEPT ![p] = r]
    PROVE  /\ pane' \in [Pane -> EventLoop]
           /\ \A q \in Pane : pane'[q].request # "none" => pane'[q].client # 0
  BY DEF PtyTypeOK, Opened

LEMMA OverType ==
    ASSUME NEW r \in EventLoop
    PROVE  /\ Over(r) \in EventLoop
           /\ Over(r).client = r.client
           /\ Over(r).request = r.request
           /\ Over(r).closed
<1>. DEFINE nothing == <<>>
            blank == <<>>
<1>1. nothing \in Seq(Nat) /\ blank \in Seq(Pane \X Nat)
  OBVIOUS
<1>. DEFINE over == [r EXCEPT !.id = 0, !.closed = TRUE, !.pending = nothing,
                               !.typed = 0, !.shown = blank]
<1>2. Over(r) = over
  BY DEF Over
<1>. HIDE DEF nothing, blank
<1>3. over \in EventLoop
  BY <1>1 DEF EventLoop
<1>4. over.client = r.client /\ over.request = r.request /\ over.closed
  BY DEF EventLoop
<1>. QED  BY <1>2, <1>3, <1>4

\* A shell that has read nothing and printed nothing yet.
LEMMA SilentType ==
    ASSUME NEW t \in Terminal, NEW st \in {"exited", "killed"}
    PROVE  [t EXCEPT !.state = st, !.made = 0, !.got = <<>>] \in Terminal
<1>. DEFINE nothing == <<>>
<1>1. nothing \in Seq(Nat)
  OBVIOUS
<1>. HIDE DEF nothing
<1>2. [t EXCEPT !.state = st, !.made = 0, !.got = nothing] \in Terminal
  BY <1>1 DEF Terminal
<1>. QED  BY <1>2 DEF nothing

LEMMA NoPtyType == NoPty \in Terminal
<1>. DEFINE nothing == <<>>
<1>1. nothing \in Seq(Nat)
  OBVIOUS
<1>. HIDE DEF nothing
<1>2. [state |-> "none", id |-> 0, made |-> 0, got |-> nothing] \in Terminal
  BY <1>1 DEF Terminal
<1>. QED  BY <1>2 DEF nothing, NoPty

LEMMA DroppedType ==
    ASSUME PtyTypeOK, NEW S
    PROVE  Dropped(S) \in [Pane -> Terminal]
<1>. SUFFICES ASSUME NEW p \in Pane
              PROVE  Dropped(S)[p] \in Terminal
  BY DEF Dropped
<1>1. pty[p] \in Terminal
  BY DEF PtyTypeOK
<1>2. pty[p].state = "running" =>
        Dropped(S)[p] \in {pty[p], [pty[p] EXCEPT !.state = "killed", !.made = 0, !.got = <<>>]}
  BY DEF Dropped
<1>3. pty[p].state # "running" => Dropped(S)[p] \in {pty[p], NoPty}
  BY DEF Dropped
<1>. QED  BY <1>1, <1>2, <1>3, SilentType, NoPtyType

LEMMA HeadType ==
    ASSUME PtyTypeOK, NEW g \in Generation
    PROVE  /\ up[g] # <<>> => Head(up[g]) \in Message /\ Tail(up[g]) \in Seq(Message)
           /\ events[g] # <<>> => /\ Head(events[g]) \in Push
                                  /\ Tail(events[g]) \in Seq(Push)
  BY DEF PtyTypeOK

LEMMA ReceivesType ==
    ASSUME PtyTypeOK, NEW g \in Generation, NEW type, Receives(g, type)
    PROVE  /\ Head(up[g]) \in Message
           /\ Head(up[g]).type = type
           /\ up' \in [Generation -> Seq(Message)]
<1>1. Head(up[g]) \in Message /\ Tail(up[g]) \in Seq(Message)
  BY HeadType DEF Receives
<1>. QED  BY <1>1 DEF Receives, PtyTypeOK

-----------------------------------------------------------------------------
\* The pane.

LEMMA OpenPaneType ==
    ASSUME PtyTypeOK, NEW p \in Pane, OpenPane(p)
    PROVE  PtyTypeOK'
<1>1. up' \in [Generation -> Seq(Message)]
  <2>1. <<CreateMsg(p)>> \in Seq(Message)
    BY DEF CreateMsg, Message
  <2>. QED  BY <2>1, SentType DEF OpenPane
<1>. DEFINE r == [pane[p] EXCEPT !.client = generation, !.request = "asked"]
<1>2. r \in EventLoop /\ r.client # 0
  BY DEF OpenPane, PtyTypeOK, EventLoop
<1>3. pane' = [pane EXCEPT ![p] = r]
  BY DEF OpenPane
<1>. HIDE DEF r
<1>4. /\ pane' \in [Pane -> EventLoop]
      /\ \A q \in Pane : pane'[q].request # "none" => pane'[q].client # 0
  BY <1>2, <1>3, PaneType
<1>. QED  BY <1>1, <1>4, TypeFrom DEF OpenPane, PtyTypeOK

LEMMA WritesType ==
    ASSUME NEW id \in Nat, NEW inputs \in Seq(Nat)
    PROVE  Writes(id, inputs) \in Seq(Message)
<1>1. \A i \in DOMAIN inputs : WriteMsg(id, inputs[i]) \in Message
  BY DEF WriteMsg, Message
<1>2. DOMAIN inputs = 1..Len(inputs) /\ Len(inputs) \in Nat
  OBVIOUS
<1>. QED  BY <1>1, <1>2 DEF Writes

LEMMA PtyCreatedType ==
    ASSUME PtyTypeOK, NEW p \in Pane, PtyCreated(p)
    PROVE  PtyTypeOK'
<1>1. pane[p] \in EventLoop
  BY DEF PtyTypeOK
<1>2. up' \in [Generation -> Seq(Message)]
  <2>1. pane[p].reply \in Nat /\ <<Bootstrap>> \o pane[p].pending \in Seq(Nat)
    BY <1>1 DEF EventLoop, Bootstrap
  <2>. QED  BY <2>1, WritesType, SentType DEF PtyCreated
<1>. DEFINE nothing == <<>>
            r == [pane[p] EXCEPT !.request = "held", !.id = pane[p].reply, !.reply = 0,
                                 !.pending = nothing]
<1>3. pane' = [pane EXCEPT ![p] = r]
  BY DEF PtyCreated
<1>4. nothing \in Seq(Nat)
  OBVIOUS
<1>5. r \in EventLoop /\ r.client # 0
  <2>1. pane[p].client # 0
    BY DEF PtyCreated, PtyTypeOK, Opened
  <2>. HIDE DEF nothing
  <2>. QED  BY <1>1, <1>4, <2>1 DEF EventLoop
<1>. HIDE DEF r
<1>6. /\ pane' \in [Pane -> EventLoop]
      /\ \A q \in Pane : pane'[q].request # "none" => pane'[q].client # 0
  BY <1>3, <1>5, PaneType
<1>. QED  BY <1>2, <1>6, TypeFrom DEF PtyCreated, PtyTypeOK

\* The pane gives up.
LEMMA GivesUpType ==
    ASSUME PtyTypeOK, NEW p \in Pane, Opened(p),
           \/ BootstrapFails(p)
           \/ Fails(p)
    PROVE  PtyTypeOK'
<1>1. pane[p] \in EventLoop /\ Over(pane[p]) \in EventLoop
  BY OverType DEF PtyTypeOK
<1>2. pane[p].client # 0 /\ Over(pane[p]).client = pane[p].client
  BY <1>1, OverType DEF PtyTypeOK
<1>3. CASE BootstrapFails(p)
  <2>. DEFINE r == [Over(pane[p]) EXCEPT !.request = "held", !.reply = 0, !.exited = TRUE]
  <2>1. r \in EventLoop /\ r.client # 0
    BY <1>1, <1>2 DEF EventLoop
  <2>2. pane' = [pane EXCEPT ![p] = r]
    BY <1>3 DEF BootstrapFails
  <2>. HIDE DEF r
  <2>. QED  BY <1>3, <2>1, <2>2, PaneType, TypeFrom DEF BootstrapFails, PtyTypeOK
<1>4. CASE Fails(p)
  <2>. DEFINE r == [Over(pane[p]) EXCEPT !.request = "refused", !.exited = TRUE]
  <2>1. r \in EventLoop /\ r.client # 0
    BY <1>1, <1>2 DEF EventLoop
  <2>2. pane' = [pane EXCEPT ![p] = r]
    BY <1>4 DEF Fails
  <2>. HIDE DEF r
  <2>. QED  BY <1>4, <2>1, <2>2, PaneType, TypeFrom DEF Fails, PtyTypeOK
<1>. QED  BY <1>3, <1>4

LEMMA InputType ==
    ASSUME PtyTypeOK, NEW p \in Pane, Input(p)
    PROVE  PtyTypeOK'
<1>. DEFINE n == pane[p].typed + 1
            r1 == [pane[p] EXCEPT !.typed = n, !.pending = Append(@, n)]
            r2 == [pane[p] EXCEPT !.typed = n]
<1>1. pane[p] \in EventLoop /\ n \in Nat /\ pane[p].client # 0
  BY DEF PtyTypeOK, EventLoop, Input, Opened
<1>2. \/ up' = up
      \/ up' = Sent(pane[p].client, <<WriteMsg(pane[p].id, n)>>)
  BY DEF Input
<1>3. up' \in [Generation -> Seq(Message)]
  <2>1. <<WriteMsg(pane[p].id, n)>> \in Seq(Message)
    BY <1>1 DEF WriteMsg, Message, EventLoop
  <2>2. Sent(pane[p].client, <<WriteMsg(pane[p].id, n)>>)
          \in [Generation -> Seq(Message)]
    BY <2>1, SentType
  <2>. QED  BY <1>2, <2>2 DEF PtyTypeOK
<1>4. /\ r1 \in EventLoop /\ r1.client # 0
      /\ r2 \in EventLoop /\ r2.client # 0
  <2>1. Append(pane[p].pending, n) \in Seq(Nat)
    BY <1>1 DEF EventLoop
  <2>. QED  BY <1>1, <2>1 DEF EventLoop
<1>5. \/ pane' = [pane EXCEPT ![p] = r1]
      \/ pane' = [pane EXCEPT ![p] = r2]
  BY DEF Input
<1>. HIDE DEF r1, r2
<1>6. /\ pane' \in [Pane -> EventLoop]
      /\ \A q \in Pane : pane'[q].request # "none" => pane'[q].client # 0
  BY <1>4, <1>5, PaneType
<1>. QED  BY <1>3, <1>6, TypeFrom DEF Input, PtyTypeOK

LEMMA ShutdownType ==
    ASSUME PtyTypeOK, NEW p \in Pane, Shutdown(p)
    PROVE  PtyTypeOK'
<1>1. pane[p] \in EventLoop /\ Over(pane[p]) \in EventLoop
  BY OverType DEF PtyTypeOK
<1>2. up' \in [Generation -> Seq(Message)]
  <2>1. <<CloseMsg(pane[p].id)>> \in Seq(Message)
    BY <1>1 DEF CloseMsg, Message, EventLoop
  <2>. QED  BY <2>1, SentType DEF Shutdown, PtyTypeOK
<1>3. pane' \in [Pane -> EventLoop]
  BY <1>1 DEF Shutdown, PtyTypeOK
<1>4. \A q \in Pane : pane'[q].request # "none" => pane'[q].client # 0
  <2>1. Over(pane[p]).client = pane[p].client
    BY <1>1, OverType
  <2>. QED  BY <2>1 DEF Shutdown, PtyTypeOK, Opened
<1>. QED  BY <1>2, <1>3, <1>4, TypeFrom DEF Shutdown, PtyTypeOK

-----------------------------------------------------------------------------
\* Pushes.

LEMMA OutputArrivesType ==
    ASSUME PtyTypeOK, NEW g \in Generation, OutputArrives(g)
    PROVE  PtyTypeOK'
<1>1. Head(events[g]) \in Push /\ Tail(events[g]) \in Seq(Push)
  BY HeadType DEF OutputArrives
<1>2. events' \in [Generation -> Seq(Push)]
  BY <1>1 DEF OutputArrives, PtyTypeOK
<1>3. ASSUME NEW q \in Pane
      PROVE  /\ pane'[q] \in EventLoop
             /\ pane'[q].client = pane[q].client
             /\ pane'[q].request = pane[q].request
  <2>1. pane[q] \in EventLoop
    BY DEF PtyTypeOK
  <2>2. Append(pane[q].shown, <<Head(events[g]).of, Head(events[g]).chunk>>)
          \in Seq(Pane \X Nat)
    BY <1>1, <2>1 DEF Push, EventLoop
  <2>. QED  BY <2>1, <2>2 DEF OutputArrives, EventLoop
<1>4. pane' \in [Pane -> EventLoop]
  BY <1>3 DEF OutputArrives
<1>. QED  BY <1>2, <1>3, <1>4, TypeFrom DEF OutputArrives, PtyTypeOK, Opened

LEMMA ExitArrivesType ==
    ASSUME PtyTypeOK, NEW g \in Generation, ExitArrives(g)
    PROVE  PtyTypeOK'
<1>. DEFINE e == Head(events[g])
            heard == IF connected THEN {p \in Pane : Listening(p, e)} ELSE {}
<1>1. e \in Push /\ Tail(events[g]) \in Seq(Push)
  BY HeadType DEF ExitArrives
<1>2. events' \in [Generation -> Seq(Push)]
  BY <1>1 DEF ExitArrives, PtyTypeOK
<1>3. up' \in [Generation -> Seq(Message)]
  <2>1. CloseMsg(e.id) \in Message
    BY <1>1 DEF CloseMsg, Message, Push
  <2>2. \A h \in Generation : Append(up[h], CloseMsg(e.id)) \in Seq(Message)
    BY <2>1 DEF PtyTypeOK
  <2>. QED  BY <2>2 DEF ExitArrives, PtyTypeOK
<1>4. ASSUME NEW q \in Pane
      PROVE  /\ pane'[q] \in EventLoop
             /\ pane'[q].client = pane[q].client
             /\ pane'[q].request = pane[q].request
  <2>1. /\ pane[q] \in EventLoop
        /\ Over(pane[q]) \in EventLoop
        /\ Over(pane[q]).client = pane[q].client
        /\ Over(pane[q]).request = pane[q].request
    BY OverType DEF PtyTypeOK
  <2>2. pane' = Notified(e, heard)
    BY DEF ExitArrives
  <2>. HIDE DEF e, heard
  <2>. QED  BY <2>1, <2>2 DEF Notified, EventLoop
<1>5. pane' \in [Pane -> EventLoop]
  BY <1>4 DEF ExitArrives, Notified
<1>. QED  BY <1>2, <1>3, <1>4, <1>5, TypeFrom DEF ExitArrives, PtyTypeOK, Opened

-----------------------------------------------------------------------------
\* The daemon.

LEMMA CreatePtyType ==
    ASSUME PtyTypeOK, NEW g \in Generation, CreatePty(g)
    PROVE  PtyTypeOK'
<1>. DEFINE p == Head(up[g]).pane
<1>1. p \in Pane /\ up' \in [Generation -> Seq(Message)]
  BY ReceivesType DEF CreatePty, Message
<1>2. nextPty \in Nat \ {0} /\ nextPty' \in Nat \ {0}
  BY DEF CreatePty, PtyTypeOK
<1>3. \/ pty' = [pty EXCEPT ![p] = [pty[p] EXCEPT !.state = "running", !.id = nextPty]]
      \/ pty' = pty
  BY DEF CreatePty
<1>4. \/ pane' = Answered(p, "created", nextPty)
      \/ pane' = Answered(p, "failed", 0)
  BY DEF CreatePty
<1>. HIDE DEF p
<1>5. pty' \in [Pane -> Terminal]
  <2>1. pty[p] \in Terminal
    BY <1>1 DEF PtyTypeOK
  <2>2. [pty[p] EXCEPT !.state = "running", !.id = nextPty] \in Terminal
    BY <1>2, <2>1 DEF Terminal
  <2>. QED  BY <1>1, <1>3, <2>2 DEF PtyTypeOK
<1>6. /\ pane' \in [Pane -> EventLoop]
      /\ \A q \in Pane : pane'[q].request # "none" => pane'[q].client # 0
  <2>1. CASE pane' = pane
    BY <2>1 DEF PtyTypeOK, Opened
  <2>2. CASE pane' # pane
    <3>. DEFINE r1 == [pane[p] EXCEPT !.request = "created", !.reply = nextPty]
                r2 == [pane[p] EXCEPT !.request = "failed", !.reply = 0]
    <3>1. pane[p] \in EventLoop /\ pane[p].client # 0
      BY <1>1, <1>4, <2>2 DEF Answered, PtyTypeOK, Opened
    <3>2. /\ r1 \in EventLoop /\ r1.client # 0
          /\ r2 \in EventLoop /\ r2.client # 0
      BY <1>2, <3>1 DEF EventLoop
    <3>3. \/ pane' = [pane EXCEPT ![p] = r1]
          \/ pane' = [pane EXCEPT ![p] = r2]
      BY <1>4, <2>2 DEF Answered
    <3>. HIDE DEF r1, r2
    <3>. QED  BY <1>1, <3>2, <3>3, PaneType
  <2>. QED  BY <2>1, <2>2
<1>. QED  BY <1>1, <1>2, <1>5, <1>6, TypeFrom DEF CreatePty, PtyTypeOK

LEMMA WritePtyType ==
    ASSUME PtyTypeOK, NEW g \in Generation, WritePty(g)
    PROVE  PtyTypeOK'
<1>1. Head(up[g]) \in Message /\ up' \in [Generation -> Seq(Message)]
  BY ReceivesType DEF WritePty
<1>2. Head(up[g]).input \in Nat
  BY <1>1, ReceivesType DEF WritePty, Message
<1>3. pty' \in [Pane -> Terminal]
  <2>1. ASSUME NEW q \in Pane
        PROVE  pty'[q] \in Terminal
    <3>1. pty[q] \in Terminal
      BY DEF PtyTypeOK
    <3>2. Append(pty[q].got, Head(up[g]).input) \in Seq(Nat)
      BY <1>2, <3>1 DEF Terminal
    <3>. QED  BY <3>1, <3>2 DEF WritePty, Terminal
  <2>. QED  BY <2>1 DEF WritePty
<1>. QED  BY <1>1, <1>3, TypeFrom DEF WritePty, PtyTypeOK, Opened

LEMMA ClosePtyType ==
    ASSUME PtyTypeOK, NEW g \in Generation, ClosePty(g)
    PROVE  PtyTypeOK'
  BY ReceivesType, DroppedType, TypeFrom DEF ClosePty, PtyTypeOK, Opened

\* The reader threads.
LEMMA ReaderType ==
    ASSUME PtyTypeOK, NEW p \in Pane,
           ShellPrints(p) \/ ShellExits(p) \/ ReaderEnds(p)
    PROVE  PtyTypeOK'
<1>1. pty[p] \in Terminal
  BY DEF PtyTypeOK
<1>2. OutputPush(p) \in Push /\ ExitedPush(p) \in Push
  BY <1>1 DEF OutputPush, ExitedPush, Push, Terminal
<1>3. events' \in [Generation -> Seq(Push)]
  BY <1>2, PushedType DEF ShellPrints, ShellExits, ReaderEnds
<1>4. pty' \in [Pane -> Terminal]
  <2>1. ASSUME NEW t \in Terminal, pty' = [pty EXCEPT ![p] = t]
        PROVE  pty' \in [Pane -> Terminal]
    BY <2>1 DEF PtyTypeOK
  <2>2. CASE ShellPrints(p)
    <3>. DEFINE t == [pty[p] EXCEPT !.made = @ + 1]
    <3>1. t \in Terminal
      BY <1>1 DEF Terminal
    <3>2. pty' = [pty EXCEPT ![p] = t]
      BY <2>2 DEF ShellPrints
    <3>. HIDE DEF t
    <3>. QED  BY <2>1, <3>1, <3>2
  <2>3. CASE ShellExits(p)
    <3>. DEFINE t == [pty[p] EXCEPT !.state = "exited", !.made = 0, !.got = <<>>]
    <3>1. t \in Terminal
      BY <1>1, SilentType
    <3>2. pty' = [pty EXCEPT ![p] = t]
      BY <2>3 DEF ShellExits
    <3>. HIDE DEF t
    <3>. QED  BY <2>1, <3>1, <3>2
  <2>4. CASE ReaderEnds(p)
    BY <2>1, <2>4, NoPtyType DEF ReaderEnds
  <2>. QED  BY <2>2, <2>3, <2>4
<1>. QED  BY <1>3, <1>4, TypeFrom
          DEF ShellPrints, ShellExits, ReaderEnds, PtyTypeOK, Opened

-----------------------------------------------------------------------------
\* Connections.

LEMMA ConnectionType ==
    ASSUME PtyTypeOK,
           \/ Connect \/ Restart \/ DaemonDies
           \/ \E g \in Generation : LinkCut(g) \/ Deregister(g)
    PROVE  PtyTypeOK'
<1>1. CASE Connect
  <2>1. generation + 1 \in Generation
    BY <1>1, PtyAssumption DEF Connect, Generation, PtyTypeOK
  <2>2. generation' \in 0..MaxGeneration /\ generation' # 0
    BY <1>1, <2>1, PtyAssumption DEF Connect, Generation, PtyTypeOK
  <2>. QED  BY <1>1, <2>1, <2>2 DEF Connect, PtyTypeOK, Opened
<1>2. CASE Restart
  <2>1. generation \in Generation
    BY <1>2, PtyAssumption DEF Restart, Generation, PtyTypeOK
  <2>2. up' \in [Generation -> Seq(Message)]
    <3>. DEFINE nothing == <<>>
    <3>1. nothing \in Seq(Message)
      OBVIOUS
    <3>2. up' = [up EXCEPT ![generation] = nothing]
      BY <1>2 DEF Restart, Cut
    <3>. HIDE DEF nothing
    <3>. QED  BY <3>1, <3>2 DEF PtyTypeOK
  <2>. QED  BY <1>2, <2>1, <2>2 DEF Restart, Cut, PtyTypeOK, Opened
<1>3. CASE DaemonDies
  <2>. QED  BY <1>3, NoPtyType DEF DaemonDies, PtyTypeOK, Opened
<1>4. ASSUME NEW g \in Generation, LinkCut(g)
      PROVE  PtyTypeOK'
  BY <1>4 DEF LinkCut, Cut, PtyTypeOK, Opened
<1>5. ASSUME NEW g \in Generation, Deregister(g)
      PROVE  PtyTypeOK'
  BY <1>5, DroppedType DEF Deregister, PtyTypeOK, Opened
<1>. QED  BY <1>1, <1>2, <1>3, <1>4, <1>5

LEMMA StreamEndsType ==
    ASSUME PtyTypeOK, NEW g \in Generation, StreamEnds(g)
    PROVE  PtyTypeOK'
<1>1. PICK dead : pane' = [p \in Pane |->
          LET r == IF pane[p].client = g /\ pane[p].request = "asked"
                   THEN [pane[p] EXCEPT !.request = "failed"] ELSE pane[p]
          IN  IF p \in dead /\ Opened(p) THEN [r EXCEPT !.exited = TRUE] ELSE r]
  BY DEF StreamEnds
<1>2. ASSUME NEW q \in Pane
      PROVE  /\ pane'[q] \in EventLoop
             /\ pane'[q].client = pane[q].client
             /\ pane'[q].request # "none" => pane[q].request # "none"
  <2>1. pane[q] \in EventLoop
    BY DEF PtyTypeOK
  <2>. QED  BY <1>1, <2>1 DEF EventLoop
<1>3. pane' \in [Pane -> EventLoop]
  BY <1>1, <1>2
<1>4. events' \in [Generation -> Seq(Push)]
  BY DEF StreamEnds, PtyTypeOK
<1>5. connected' \in BOOLEAN /\ (connected' => connected)
  BY DEF StreamEnds, PtyTypeOK
<1>. QED  BY <1>2, <1>3, <1>4, <1>5 DEF StreamEnds, PtyTypeOK, Opened

-----------------------------------------------------------------------------
LEMMA InitTypes ==
    ASSUME Init
    PROVE  PtyTypeOK
<1>. DEFINE nothing == <<>>
            idle == [client |-> 0, request |-> "none", reply |-> 0, id |-> 0,
                     closed |-> FALSE, pending |-> nothing, typed |-> 0,
                     shown |-> nothing, exited |-> FALSE, missed |-> FALSE]
<1>1. nothing \in Seq(Nat) /\ nothing \in Seq(Pane \X Nat)
  OBVIOUS
<1>2. pane = [p \in Pane |-> idle]
  BY DEF Init
<1>3. idle \in EventLoop /\ idle.request = "none"
  <2>. HIDE DEF nothing
  <2>. QED  BY <1>1, PtyAssumption DEF EventLoop
<1>. HIDE DEF idle
<1>4. /\ pane \in [Pane -> EventLoop] /\ \A p \in Pane : ~Opened(p)
      /\ pty \in [Pane -> Terminal]
  BY <1>2, <1>3, NoPtyType DEF Init, Opened
<1>5. /\ up \in [Generation -> Seq(Message)]
      /\ events \in [Generation -> Seq(Push)]
  BY DEF Init
<1>6. generation \in 0..MaxGeneration
  BY PtyAssumption DEF Init
<1>7. link \in [Generation -> {"unborn", "up", "cut", "gone"}]
  BY DEF Init
<1>8. connected \in BOOLEAN /\ ~connected
  BY DEF Init
<1>9. streaming \in SUBSET Generation
  BY DEF Init
<1>10. nextPty \in Nat \ {0}
  BY DEF Init
<1>. QED  BY <1>4, <1>5, <1>6, <1>7, <1>8, <1>9, <1>10 DEF PtyTypeOK

LEMMA NextTypes ==
    ASSUME PtyTypeOK, [Next]_vars
    PROVE  PtyTypeOK'
<1>1. ASSUME NEW p \in Pane,
             \/ OpenPane(p) \/ Resumes(p) \/ CreateTimesOut(p)
             \/ Input(p) \/ Shutdown(p)
             \/ ShellPrints(p) \/ ShellExits(p) \/ ReaderEnds(p)
      PROVE  PtyTypeOK'
  BY <1>1, OpenPaneType, PtyCreatedType, GivesUpType, InputType, ShutdownType,
     ReaderType
  DEF Resumes, BootstrapFails, PtyNotCreated, CreateTimesOut, Opened
<1>2. ASSUME NEW g \in Generation, Arrives(g) \/ Handles(g)
      PROVE  PtyTypeOK'
  BY <1>2, OutputArrivesType, ExitArrivesType, CreatePtyType, WritePtyType, ClosePtyType
  DEF Arrives, Handles
<1>3. ASSUME NEW g \in Generation, LinkCut(g) \/ StreamEnds(g) \/ Deregister(g)
      PROVE  PtyTypeOK'
  BY <1>3, ConnectionType, StreamEndsType
<1>4. CASE Connect \/ Restart \/ DaemonDies
  BY <1>4, ConnectionType
<1>5. CASE UNCHANGED vars
  BY <1>5 DEF vars, linkVars, PtyTypeOK, Opened
<1>. QED  BY <1>1, <1>2, <1>3, <1>4, <1>5 DEF Next

\* Every state of the program is well typed; a pane that asked for its PTY has a
\* client.
THEOREM TypesHold == Spec => []PtyTypeOK
<1>1. Init => PtyTypeOK
  BY InitTypes
<1>2. PtyTypeOK /\ [Next]_vars => PtyTypeOK'
  BY NextTypes
<1>. QED  BY <1>1, <1>2, PTL DEF Spec

-----------------------------------------------------------------------------
\* The inductive invariant: what panes, PTYs, messages and pushes say of one another.

\* The exit of the shell of p is on its way.
ExitComes(p) ==
    \E i \in DOMAIN events[pane[p].client] :
        LET e == events[pane[p].client][i] IN e.type = "exited" /\ e.of = p

\* A link is up for the present connection at most, and a link that is not up carries
\* nothing to the daemon.  No pane is ahead of the connections.
LinksInOrder ==
    /\ \A g \in Generation :
          /\ link[g] = "up" => g = generation /\ connected
          /\ link[g] # "up" => up[g] = <<>>
    /\ \A p \in Pane : pane[p].client <= generation

\* A request on its way is the only one of its pane, which still waits or has given
\* up, and has no PTY.
CreatesInOrder ==
    \A g \in Generation : \A i \in DOMAIN up[g] :
        up[g][i].type = "create" =>
            /\ pane[up[g][i].pane].client = g
            /\ pane[up[g][i].pane].request \in {"asked", "refused"}
            /\ pty[up[g][i].pane].state = "none"
            /\ \A j \in DOMAIN up[g] :
                  up[g][j].type = "create" /\ up[g][j].pane = up[g][i].pane => i = j

\* A push comes over the connection of the pane that the PTY was made for.  While that
\* is up, an exit names the PTY that this pane knows.
PushesInOrder ==
    \A g \in Generation : \A i \in DOMAIN events[g] :
        LET p == events[g][i].of IN
        /\ pane[p].client = g
        /\ link[g] = "up" /\ events[g][i].type = "exited" =>
              /\ pane[p].request # "asked"
              /\ pane[p].request = "created" => pane[p].reply = events[g][i].id
              /\ pane[p].id # 0 => pane[p].id = events[g][i].id

\* How far a pane is.
StepsInOrder(p) ==
    /\ ~Opened(p) => /\ pane[p].client = 0 /\ pane[p].id = 0 /\ ~pane[p].exited
                     /\ pty[p].state = "none"
    /\ pane[p].id # 0 => pane[p].request = "held"
    /\ pty[p].state # "none" => pty[p].id # 0
    /\ pane[p].exited /\ OnLine(p) => pane[p].request \in {"held", "refused"}

\* The PTY a pane knows, or will be told, is its own.
KnowsItsOwn(p) ==
    OnLine(p) /\ pty[p].state # "none" =>
        /\ pane[p].request \notin {"asked", "failed"}
        /\ pane[p].request = "created" => pane[p].reply = pty[p].id
        /\ pane[p].id # 0 => pane[p].id = pty[p].id

\* ForgottenOnlyUnanswered, of one pane.
Owned(p) ==
    OnLine(p) /\ InTable(p) =>
        \/ pane[p].request \in {"created", "refused"}
        \/ pane[p].id = pty[p].id
        \/ ClosesSoon(p)

\* ExitedMeansGone, of one pane.
Gone(p) ==
    pane[p].exited /\ OnLine(p) /\ pty[p].state = "running" =>
        ClosesSoon(p) \/ pane[p].request = "refused"

\* ExitIsHeard, of one pane, and before it knows the id.
Heard(p) ==
    /\ OnLine(p)
    /\ pane[p].id # 0 \/ pane[p].request = "created"
    /\ pty[p].state \in {"none", "exited"}
    => pane[p].missed \/ ExitComes(p)

PaneInv(p) ==
    StepsInOrder(p) /\ KnowsItsOwn(p) /\ Owned(p) /\ Gone(p) /\ Heard(p)

PtyInv ==
    /\ PtyTypeOK
    /\ LinksInOrder
    /\ CreatesInOrder
    /\ PushesInOrder
    /\ \A p \in Pane : PaneInv(p)

-----------------------------------------------------------------------------
\* The three frame conditions under which what is in flight keeps its order.

\* No message was added but what is no create.
UpFrom ==
    \A g \in Generation : \E d \in {0, 1} : \A i \in DOMAIN up'[g] :
        up'[g][i].type = "create" =>
            i + d \in DOMAIN up[g] /\ up[g][i + d] = up'[g][i]

\* No close was lost of a connection that is up.
ClosesKept ==
    \A g \in Generation : link'[g] = "up" => \A i \in DOMAIN up[g] :
        up[g][i].type = "close" => \E j \in DOMAIN up'[g] : up'[g][j] = up[g][i]

\* No push was added.
EventsFrom ==
    \A g \in Generation : \A i \in DOMAIN events'[g] :
        \E j \in DOMAIN events[g] : events[g][j] = events'[g][i]

\* No exit was lost of a connection that is up.
ExitsKept ==
    \A g \in Generation : link'[g] = "up" => \A i \in DOMAIN events[g] :
        events[g][i].type = "exited" =>
            \E j \in DOMAIN events'[g] : events'[g][j] = events[g][i]

LEMMA SentKeeps ==
    ASSUME PtyTypeOK, NEW g \in 0..MaxGeneration, NEW msgs \in Seq(Message),
           \A k \in DOMAIN msgs : msgs[k].type # "create",
           up' = Sent(g, msgs), link' = link
    PROVE  /\ UpFrom
           /\ ClosesKept
           /\ \A h \in Generation : link[h] # "up" => up'[h] = up[h]
<1>1. CASE g \in Generation /\ link[g] = "up"
  <2>1. up[g] \in Seq(Message) /\ up'[g] = up[g] \o msgs
    BY <1>1 DEF Sent, PtyTypeOK
  <2>2. \A h \in Generation : h # g => up'[h] = up[h]
    BY <1>1 DEF Sent, PtyTypeOK
  <2>3. /\ DOMAIN up[g] = 1..Len(up[g]) /\ Len(up[g]) \in Nat
        /\ DOMAIN msgs = 1..Len(msgs) /\ Len(msgs) \in Nat
        /\ DOMAIN up'[g] = 1..(Len(up[g]) + Len(msgs))
        /\ \A i \in DOMAIN up'[g] :
              up'[g][i] = IF i <= Len(up[g]) THEN up[g][i] ELSE msgs[i - Len(up[g])]
    <3>1. DOMAIN (up[g] \o msgs) = 1..Len(up[g] \o msgs)
      BY <2>1
    <3>. QED  BY <2>1, <3>1, ConcatProperties
  <2>4. ASSUME NEW i \in DOMAIN up'[g], up'[g][i].type = "create"
        PROVE  i \in DOMAIN up[g] /\ up[g][i] = up'[g][i]
    <3>1. CASE i <= Len(up[g])
      BY <2>3, <3>1
    <3>2. CASE ~(i <= Len(up[g]))
      <4>1. i - Len(up[g]) \in DOMAIN msgs
        BY <2>3, <3>2
      <4>. QED  BY <2>3, <2>4, <3>2, <4>1
    <3>. QED  BY <3>1, <3>2
  <2>5. UpFrom
    <3>1. \A h \in Generation : \A i \in DOMAIN up'[h] :
            up'[h][i].type = "create" => i \in DOMAIN up[h] /\ up[h][i] = up'[h][i]
      BY <2>2, <2>4
    <3>2. \A h \in Generation : \A i \in DOMAIN up'[h] :
            up'[h][i].type = "create" => i + 0 = i
      <4>1. \A h \in Generation : \A i \in DOMAIN up[h] : i \in Nat
        BY DEF PtyTypeOK
      <4>. QED  BY <3>1, <4>1
    <3>. QED  BY <3>1, <3>2 DEF UpFrom
  <2>6. ClosesKept
    <3>1. \A i \in DOMAIN up[g] : i \in DOMAIN up'[g] /\ up'[g][i] = up[g][i]
      BY <2>3
    <3>. QED  BY <2>2, <3>1 DEF ClosesKept
  <2>. QED  BY <1>1, <2>2, <2>5, <2>6
<1>2. CASE ~(g \in Generation /\ link[g] = "up")
  <2>1. up' = up
    BY <1>2 DEF Sent
  <2>2. \A h \in Generation : \A i \in DOMAIN up[h] : i \in Nat /\ i + 0 = i
    BY DEF PtyTypeOK
  <2>. QED  BY <2>1, <2>2 DEF UpFrom, ClosesKept
<1>. QED  BY <1>1, <1>2

\* The same of messages left alone.
LEMMA UpAlone ==
    ASSUME PtyTypeOK, up' = up
    PROVE  UpFrom /\ ClosesKept
<1>1. \A h \in Generation : \A i \in DOMAIN up[h] : i \in Nat /\ i + 0 = i
  BY DEF PtyTypeOK
<1>. QED  BY <1>1 DEF UpFrom, ClosesKept

LEMMA EventsAlone ==
    ASSUME events' = events
    PROVE  EventsFrom /\ ExitsKept
  BY DEF EventsFrom, ExitsKept

\* A message taken from the head.
LEMMA TakenKeeps ==
    ASSUME PtyTypeOK, NEW g \in Generation, NEW type, Receives(g, type)
    PROVE  /\ UpFrom
           /\ type # "close" => ClosesKept
           /\ \A h \in Generation : h # g => up'[h] = up[h]
           /\ \A i \in DOMAIN up'[g] :
                 i + 1 \in DOMAIN up[g] /\ up[g][i + 1] = up'[g][i] /\ i + 1 # 1
           /\ \A i \in DOMAIN up[g] :
                 i # 1 => i - 1 \in DOMAIN up'[g] /\ up'[g][i - 1] = up[g][i]
           /\ 1 \in DOMAIN up[g] /\ up[g][1] = Head(up[g])
<1>1. /\ up[g] \in Seq(Message) /\ up[g] # <<>> /\ up'[g] = Tail(up[g])
      /\ Head(up[g]).type = type
  BY DEF Receives, PtyTypeOK
<1>2. \A h \in Generation : h # g => up'[h] = up[h]
  BY DEF Receives, PtyTypeOK
<1>3. /\ Len(up[g]) \in Nat \ {0} /\ DOMAIN up[g] = 1..Len(up[g])
      /\ DOMAIN up'[g] = 1..(Len(up[g]) - 1)
      /\ \A i \in DOMAIN up'[g] : up'[g][i] = up[g][i + 1]
      /\ up[g][1] = Head(up[g])
  <2>1. /\ Len(Tail(up[g])) = Len(up[g]) - 1 /\ Tail(up[g]) \in Seq(Message)
        /\ \A i \in 1..Len(Tail(up[g])) : Tail(up[g])[i] = up[g][i + 1]
    BY <1>1, HeadTailProperties
  <2>2. Len(up[g]) \in Nat \ {0} /\ DOMAIN up[g] = 1..Len(up[g])
    BY <1>1
  <2>3. DOMAIN Tail(up[g]) = 1..Len(Tail(up[g]))
    BY <2>1
  <2>4. Head(up[g]) = up[g][1]
    BY <1>1
  <2>. QED  BY <1>1, <2>1, <2>2, <2>3, <2>4
<1>4. \A i \in DOMAIN up'[g] :
         i + 1 \in DOMAIN up[g] /\ up[g][i + 1] = up'[g][i] /\ i + 1 # 1
  BY <1>3
<1>5. \A i \in DOMAIN up[g] :
         i # 1 => i - 1 \in DOMAIN up'[g] /\ up'[g][i - 1] = up[g][i]
  <2>. SUFFICES ASSUME NEW i \in DOMAIN up[g], i # 1
                PROVE  i - 1 \in DOMAIN up'[g] /\ up'[g][i - 1] = up[g][i]
    OBVIOUS
  <2>1. i - 1 \in DOMAIN up'[g] /\ (i - 1) + 1 = i
    BY <1>3
  <2>. QED  BY <1>3, <2>1
<1>6. UpFrom
  <2>1. \A h \in Generation : \A i \in DOMAIN up[h] : i \in Nat /\ i + 0 = i
    BY DEF PtyTypeOK
  <2>. QED  BY <1>2, <1>4, <2>1 DEF UpFrom
<1>7. type # "close" => ClosesKept
  BY <1>1, <1>2, <1>3, <1>5 DEF ClosesKept
<1>. QED  BY <1>2, <1>3, <1>4, <1>5, <1>6, <1>7

\* Requests stay in order unless a pane asks or its PTY is made.
LEMMA CreatesKept ==
    ASSUME PtyTypeOK, PtyTypeOK', CreatesInOrder, UpFrom,
           \A g \in Generation : \A i \in DOMAIN up'[g] :
              up'[g][i].type = "create" /\ up'[g][i].pane \in Pane =>
                LET q == up'[g][i].pane IN
                /\ pane'[q].client = pane[q].client
                /\ pane[q].request \in {"asked", "refused"} =>
                      pane'[q].request \in {"asked", "refused"}
                /\ pty[q].state = "none" => pty'[q].state = "none"
    PROVE  CreatesInOrder'
<1>. SUFFICES ASSUME NEW g \in Generation, NEW i \in DOMAIN up'[g],
                     up'[g][i].type = "create"
              PROVE  /\ pane'[up'[g][i].pane].client = g
                     /\ pane'[up'[g][i].pane].request \in {"asked", "refused"}
                     /\ pty'[up'[g][i].pane].state = "none"
                     /\ \A j \in DOMAIN up'[g] :
                           up'[g][j].type = "create" /\ up'[g][j].pane = up'[g][i].pane
                             => i = j
  BY DEF CreatesInOrder
<1>1. PICK d \in {0, 1} : \A k \in DOMAIN up'[g] :
          up'[g][k].type = "create" =>
            k + d \in DOMAIN up[g] /\ up[g][k + d] = up'[g][k]
  BY DEF UpFrom
<1>2. i + d \in DOMAIN up[g] /\ up[g][i + d] = up'[g][i]
  BY <1>1
<1>3. up'[g][i].pane \in Pane
  <2>1. up[g][i + d] \in Message
    BY <1>2 DEF PtyTypeOK
  <2>. QED  BY <1>2, <2>1 DEF Message
<1>4. ASSUME NEW j \in DOMAIN up'[g], up'[g][j].type = "create",
             up'[g][j].pane = up'[g][i].pane
      PROVE  i = j
  <2>1. j + d \in DOMAIN up[g] /\ up[g][j + d] = up'[g][j]
    BY <1>1, <1>4
  <2>2. i + d = j + d
    BY <1>2, <1>4, <2>1 DEF CreatesInOrder
  <2>3. i \in Int /\ j \in Int
    BY DEF PtyTypeOK
  <2>. QED  BY <2>2, <2>3
<1>. QED  BY <1>2, <1>3, <1>4 DEF CreatesInOrder

\* Pushes stay in order unless a pane asks or is answered, or a reader thread pushes.
LEMMA PushesKept ==
    ASSUME PtyTypeOK, PushesInOrder, EventsFrom,
           \A g \in Generation : link'[g] = "up" /\ link[g] # "up" =>
              \A q \in Pane : pane[q].client # g,
           \A q \in Pane :
              /\ pane'[q].client = pane[q].client
              /\ pane'[q].request = "asked" => pane[q].request = "asked"
              /\ pane'[q].request = "created" =>
                    /\ pane[q].request = "created"
                    /\ pane'[q].reply = pane[q].reply
              /\ pane'[q].id # 0 =>
                    \/ pane'[q].id = pane[q].id
                    \/ pane[q].request = "created" /\ pane'[q].id = pane[q].reply
    PROVE  PushesInOrder'
<1>. SUFFICES ASSUME NEW g \in Generation, NEW i \in DOMAIN events'[g]
              PROVE  LET p == events'[g][i].of IN
                     /\ pane'[p].client = g
                     /\ link'[g] = "up" /\ events'[g][i].type = "exited" =>
                           /\ pane'[p].request # "asked"
                           /\ pane'[p].request = "created" =>
                                 pane'[p].reply = events'[g][i].id
                           /\ pane'[p].id # 0 => pane'[p].id = events'[g][i].id
  BY DEF PushesInOrder
<1>1. PICK j \in DOMAIN events[g] : events[g][j] = events'[g][i]
  BY DEF EventsFrom
<1>2. events[g][j].of \in Pane
  <2>1. events[g][j] \in Push
    BY DEF PtyTypeOK
  <2>. QED  BY <2>1 DEF Push
<1>3. pane[events[g][j].of].client = g
  BY DEF PushesInOrder
<1>4. link'[g] = "up" => link[g] = "up"
  BY <1>2, <1>3
<1>. QED  BY <1>1, <1>2, <1>3, <1>4 DEF PushesInOrder

\* What the messages and pushes in flight still promise one pane.
LEMMA PromisesKept ==
    ASSUME PtyTypeOK, PtyTypeOK', ClosesKept, ExitsKept,
           NEW q \in Pane, OnLine(q)',
           pane'[q].client = pane[q].client
    PROVE  /\ pty'[q].id = pty[q].id /\ ClosesSoon(q) => ClosesSoon(q)'
           /\ ExitComes(q) => ExitComes(q)'
<1>1. pane[q].client \in Generation /\ link'[pane[q].client] = "up"
  BY DEF OnLine
<1>2. ASSUME pty'[q].id = pty[q].id, ClosesSoon(q)
      PROVE  ClosesSoon(q)'
  <2>1. PICK i \in DOMAIN up[pane[q].client] :
            up[pane[q].client][i] = CloseMsg(pty[q].id)
    BY <1>2 DEF ClosesSoon
  <2>2. up[pane[q].client][i].type = "close"
    BY <2>1 DEF CloseMsg
  <2>3. PICK j \in DOMAIN up'[pane[q].client] :
            up'[pane[q].client][j] = up[pane[q].client][i]
    BY <1>1, <2>2 DEF ClosesKept
  <2>. QED  BY <1>2, <2>1, <2>3 DEF ClosesSoon, CloseMsg
<1>3. ASSUME ExitComes(q)
      PROVE  ExitComes(q)'
  <2>1. PICK i \in DOMAIN events[pane[q].client] :
            /\ events[pane[q].client][i].type = "exited"
            /\ events[pane[q].client][i].of = q
    BY <1>3 DEF ExitComes
  <2>2. PICK j \in DOMAIN events'[pane[q].client] :
            events'[pane[q].client][j] = events[pane[q].client][i]
    BY <1>1, <2>1 DEF ExitsKept
  <2>. QED  BY <2>1, <2>2 DEF ExitComes
<1>. QED  BY <1>2, <1>3

\* A pane to which nothing happens, while its connection does not come up.
LEMMA PaneAlone ==
    ASSUME PtyTypeOK, PtyTypeOK', ClosesKept, ExitsKept,
           NEW q \in Pane, PaneInv(q), OnLine(q)' => OnLine(q),
           pane'[q].client = pane[q].client, pane'[q].request = pane[q].request,
           pane'[q].reply = pane[q].reply, pane'[q].id = pane[q].id,
           pane'[q].exited = pane[q].exited, pane[q].missed => pane'[q].missed,
           pty'[q].state = pty[q].state, pty'[q].id = pty[q].id
    PROVE  PaneInv(q)'
<1>1. OnLine(q)' => /\ ClosesSoon(q) => ClosesSoon(q)'
                    /\ ExitComes(q) => ExitComes(q)'
  BY PromisesKept
<1>2. StepsInOrder(q)'
  BY DEF PaneInv, StepsInOrder, Opened
<1>3. KnowsItsOwn(q)'
  BY DEF PaneInv, KnowsItsOwn
<1>4. Owned(q)'
  BY <1>1 DEF PaneInv, Owned, InTable
<1>5. Gone(q)'
  BY <1>1 DEF PaneInv, Gone
<1>6. Heard(q)'
  BY <1>1 DEF PaneInv, Heard
<1>. QED  BY <1>2, <1>3, <1>4, <1>5, <1>6 DEF PaneInv

\* A pane whose connection is down keeps to its steps only.
LEMMA OffLine ==
    ASSUME NEW q \in Pane, StepsInOrder(q)', ~OnLine(q)'
    PROVE  PaneInv(q)'
  BY DEF PaneInv, KnowsItsOwn, Owned, Gone, Heard

\* Over, field by field.
LEMMA OverFields ==
    ASSUME NEW r \in EventLoop
    PROVE  /\ Over(r) \in EventLoop
           /\ Over(r).client = r.client /\ Over(r).request = r.request
           /\ Over(r).reply = r.reply /\ Over(r).id = 0
           /\ Over(r).exited = r.exited /\ Over(r).missed = r.missed
<1>. DEFINE nothing == <<>>
            blank == <<>>
            over == [r EXCEPT !.id = 0, !.closed = TRUE, !.pending = nothing,
                               !.typed = 0, !.shown = blank]
<1>1. Over(r) = over
  BY DEF Over
<1>. HIDE DEF nothing, blank
<1>2. /\ over.client = r.client /\ over.request = r.request
      /\ over.reply = r.reply /\ over.id = 0
      /\ over.exited = r.exited /\ over.missed = r.missed
  BY DEF EventLoop
<1>. QED  BY <1>1, <1>2, OverType

-----------------------------------------------------------------------------
\* The pane.

LEMMA OpenPaneKeeps ==
    ASSUME PtyInv, PtyTypeOK', NEW p \in Pane, OpenPane(p)
    PROVE  PtyInv'
<1>. USE DEF PtyInv
<1>1. /\ generation \in Generation /\ pane[p] \in EventLoop
      /\ ~Opened(p) /\ pane[p].client = 0
      /\ up[generation] \in Seq(Message)
  BY PtyAssumption
     DEF OpenPane, PtyTypeOK, Generation, PaneInv, StepsInOrder
<1>2. /\ pane'[p].client = generation /\ pane'[p].request = "asked"
      /\ pane'[p].id = pane[p].id /\ pane'[p].exited = pane[p].exited
      /\ \A q \in Pane : q # p => pane'[q] = pane[q]
  BY <1>1 DEF OpenPane, PtyTypeOK, EventLoop
<1>3. LinksInOrder'
  BY <1>1, <1>2 DEF LinksInOrder, OpenPane, linkVars, Sent, PtyTypeOK, Generation
<1>4. \A h \in Generation : \A i \in DOMAIN up[h] :
         up[h][i].type = "create" => up[h][i].pane # p
  <2>1. \A h \in Generation : h # 0
    BY PtyAssumption DEF Generation
  <2>. QED  BY <1>1, <2>1 DEF CreatesInOrder
<1>5. ASSUME link[generation] = "up"
      PROVE  CreatesInOrder' /\ ClosesKept
  <2>1. up'[generation] = Append(up[generation], CreateMsg(p))
    <3>1. up' = Sent(generation, <<CreateMsg(p)>>) /\ CreateMsg(p) \in Message
      BY DEF OpenPane, CreateMsg, Message
    <3>2. up[generation] \o <<CreateMsg(p)>> = Append(up[generation], CreateMsg(p))
      BY <1>1, <3>1
    <3>. QED  BY <1>1, <1>5, <3>1, <3>2 DEF Sent, PtyTypeOK
  <2>2. \A h \in Generation : h # generation => up'[h] = up[h]
    BY <1>1, <1>5 DEF OpenPane, Sent, PtyTypeOK
  <2>3. /\ DOMAIN up[generation] = 1..Len(up[generation])
        /\ DOMAIN up'[generation] = 1..(Len(up[generation]) + 1)
        /\ Len(up[generation]) \in Nat
        /\ \A i \in DOMAIN up[generation] : up'[generation][i] = up[generation][i]
        /\ up'[generation][Len(up[generation]) + 1] = CreateMsg(p)
    BY <1>1, <2>1 DEF CreateMsg, Message
  <2>4. CreateMsg(p).pane = p /\ CreateMsg(p).type = "create"
    BY DEF CreateMsg
  <2>5. \A h \in Generation : \A i \in DOMAIN up'[h] :
          \/ i \in DOMAIN up[h] /\ up'[h][i] = up[h][i]
          \/ h = generation /\ i = Len(up[generation]) + 1 /\ up'[h][i] = CreateMsg(p)
    BY <2>2, <2>3
  <2>6. ASSUME NEW h \in Generation, NEW i \in DOMAIN up'[h],
               up'[h][i].type = "create"
        PROVE  /\ pane'[up'[h][i].pane].client = h
               /\ pane'[up'[h][i].pane].request \in {"asked", "refused"}
               /\ pty'[up'[h][i].pane].state = "none"
               /\ \A j \in DOMAIN up'[h] :
                     up'[h][j].type = "create" /\ up'[h][j].pane = up'[h][i].pane
                       => i = j
    <3>1. CASE i \in DOMAIN up[h] /\ up'[h][i] = up[h][i]
      <4>1. up[h][i].pane # p /\ up[h][i].pane \in Pane
        <5>1. up[h][i] \in Message
          BY <3>1 DEF PtyTypeOK
        <5>. QED  BY <1>4, <2>6, <3>1, <5>1 DEF Message
      <4>2. /\ pane[up[h][i].pane].client = h
            /\ pane[up[h][i].pane].request \in {"asked", "refused"}
            /\ pty[up[h][i].pane].state = "none"
            /\ \A j \in DOMAIN up[h] :
                  up[h][j].type = "create" /\ up[h][j].pane = up[h][i].pane => i = j
        BY <2>6, <3>1 DEF CreatesInOrder
      <4>3. \A j \in DOMAIN up'[h] :
               up'[h][j].type = "create" /\ up'[h][j].pane = up'[h][i].pane => i = j
        BY <2>4, <2>5, <3>1, <4>1, <4>2
      <4>4. pane'[up[h][i].pane] = pane[up[h][i].pane] /\ pty' = pty
        BY <1>2, <4>1 DEF OpenPane
      <4>. QED  BY <3>1, <4>2, <4>3, <4>4
    <3>2. CASE h = generation /\ i = Len(up[generation]) + 1 /\ up'[h][i] = CreateMsg(p)
      <4>1. pty[p].state = "none"
        BY <1>1 DEF PaneInv, StepsInOrder
      <4>2. up'[h][i].pane = p /\ pty' = pty
        BY <2>4, <3>2 DEF OpenPane
      <4>3. \A j \in DOMAIN up'[h] :
               up'[h][j].type = "create" /\ up'[h][j].pane = p => i = j
        BY <1>4, <2>5, <3>2
      <4>. QED  BY <1>2, <3>2, <4>1, <4>2, <4>3
    <3>. QED  BY <2>5, <3>1, <3>2
  <2>7. CreatesInOrder'
    BY <2>6 DEF CreatesInOrder
  <2>8. ClosesKept
    <3>1. \A i \in DOMAIN up[generation] : i \in DOMAIN up'[generation]
      BY <2>3
    <3>. QED  BY <2>2, <2>3, <3>1 DEF ClosesKept
  <2>. QED  BY <2>7, <2>8
<1>6. ASSUME link[generation] # "up"
      PROVE  CreatesInOrder' /\ ClosesKept
  <2>1. up' = up
    BY <1>6 DEF OpenPane, Sent
  <2>2. ASSUME NEW h \in Generation, NEW i \in DOMAIN up[h], up[h][i].type = "create"
        PROVE  up[h][i].pane \in Pane
    <3>1. up[h][i] \in Message
      BY DEF PtyTypeOK
    <3>. QED  BY <2>2, <3>1 DEF Message
  <2>3. ASSUME NEW h \in Generation, NEW i \in DOMAIN up[h], up[h][i].type = "create"
        PROVE  pane'[up[h][i].pane] = pane[up[h][i].pane]
    BY <1>2, <1>4, <2>2, <2>3
  <2>4. pty' = pty
    BY DEF OpenPane
  <2>5. CreatesInOrder'
    BY <2>1, <2>3, <2>4 DEF CreatesInOrder
  <2>. QED  BY <2>1, <2>5, UpAlone
<1>7. CreatesInOrder' /\ ClosesKept
  BY <1>5, <1>6
<1>8. PushesInOrder'
  <2>1. ASSUME NEW h \in Generation, NEW i \in DOMAIN events[h]
        PROVE  events[h][i].of \in Pane /\ events[h][i].of # p
    <3>1. events[h][i] \in Push /\ h # 0
      BY PtyAssumption DEF PtyTypeOK, Generation
    <3>. QED  BY <1>1, <3>1 DEF PushesInOrder, Push
  <2>2. \A h \in Generation : \A i \in DOMAIN events[h] :
           pane'[events[h][i].of] = pane[events[h][i].of]
    BY <1>2, <2>1
  <2>3. events' = events /\ link' = link
    BY DEF OpenPane, linkVars
  <2>. QED  BY <2>2, <2>3 DEF PushesInOrder
<1>9. ASSUME NEW q \in Pane
      PROVE  PaneInv(q)'
  <2>1. CASE q = p
    <3>1. pty'[p].state = "none" /\ pane'[p].id = 0 /\ ~pane'[p].exited
      BY <1>1, <1>2 DEF PaneInv, StepsInOrder, OpenPane
    <3>. QED  BY <1>2, <2>1, <3>1
              DEF PaneInv, StepsInOrder, KnowsItsOwn, Owned, Gone, Heard, Opened, InTable
  <2>2. CASE q # p
    <3>1. OnLine(q)' => OnLine(q)
      BY <1>2, <2>2 DEF OnLine, OpenPane, linkVars
    <3>. QED  BY <1>2, <1>7, <2>2, <3>1, PaneAlone, EventsAlone DEF OpenPane
  <2>. QED  BY <2>1, <2>2
<1>. QED  BY <1>3, <1>7, <1>8, <1>9

\* An action of one pane that sends no request and makes no PTY.
LEMMA PaneKeeps ==
    ASSUME PtyInv, PtyTypeOK', NEW p \in Pane,
           UNCHANGED linkVars, pty' = pty, events' = events, UpFrom, ClosesKept,
           \A h \in Generation : link[h] # "up" => up'[h] = up[h],
           \A q \in Pane : q # p => pane'[q] = pane[q],
           pane'[p].client = pane[p].client,
           pane[p].request \in {"asked", "refused"} =>
              pane'[p].request \in {"asked", "refused"},
           pane'[p].request = "asked" => pane[p].request = "asked",
           pane'[p].request = "created" =>
              pane[p].request = "created" /\ pane'[p].reply = pane[p].reply,
           pane'[p].id # 0 =>
              \/ pane'[p].id = pane[p].id
              \/ pane[p].request = "created" /\ pane'[p].id = pane[p].reply,
           PaneInv(p)'
    PROVE  PtyInv'
<1>. USE DEF PtyInv
<1>1. LinksInOrder'
  BY DEF LinksInOrder, linkVars
<1>2. CreatesInOrder'
  BY CreatesKept
<1>3. PushesInOrder'
  BY PushesKept, EventsAlone DEF linkVars
<1>4. ASSUME NEW q \in Pane, q # p
      PROVE  PaneInv(q)'
  <2>1. OnLine(q)' => OnLine(q)
    BY <1>4 DEF OnLine, linkVars
  <2>. QED  BY <1>4, <2>1, PaneAlone, EventsAlone
<1>. QED  BY <1>1, <1>2, <1>3, <1>4

LEMMA PtyCreatedKeeps ==
    ASSUME PtyInv, PtyTypeOK', NEW p \in Pane, PtyCreated(p)
    PROVE  PtyInv'
<1>. DEFINE msgs == Writes(pane[p].reply, <<Bootstrap>> \o pane[p].pending)
<1>1. /\ PtyTypeOK /\ PaneInv(p)
      /\ pane[p] \in EventLoop /\ pane[p].request = "created"
      /\ pane[p].client \in 0..MaxGeneration
  BY DEF PtyInv, PtyTypeOK, PtyCreated, EventLoop
<1>2. /\ pane'[p].client = pane[p].client /\ pane'[p].request = "held"
      /\ pane'[p].id = pane[p].reply
      /\ pane'[p].missed = pane[p].missed /\ pane'[p].exited = pane[p].exited
      /\ \A q \in Pane : q # p => pane'[q] = pane[q]
  <2>. DEFINE nothing == <<>>
              r == [pane[p] EXCEPT !.request = "held", !.id = pane[p].reply, !.reply = 0,
                                   !.pending = nothing]
  <2>1. pane' = [pane EXCEPT ![p] = r]
    BY DEF PtyCreated
  <2>2. /\ r.client = pane[p].client /\ r.request = "held" /\ r.id = pane[p].reply
        /\ r.missed = pane[p].missed /\ r.exited = pane[p].exited
    <3>. HIDE DEF nothing
    <3>. QED  BY <1>1 DEF EventLoop
  <2>. HIDE DEF r
  <2>. QED  BY <1>1, <2>1, <2>2 DEF PtyTypeOK
<1>3. msgs \in Seq(Message) /\ \A k \in DOMAIN msgs : msgs[k].type # "create"
  <2>1. pane[p].reply \in Nat /\ <<Bootstrap>> \o pane[p].pending \in Seq(Nat)
    BY <1>1 DEF EventLoop, Bootstrap
  <2>2. msgs \in Seq(Message)
    BY <2>1, WritesType
  <2>3. \A k \in DOMAIN msgs : msgs[k].type # "create"
    BY DEF Writes, WriteMsg
  <2>. QED  BY <2>2, <2>3
<1>4. UNCHANGED linkVars /\ pty' = pty /\ events' = events /\ link' = link
  BY DEF PtyCreated, linkVars
<1>5. /\ UpFrom /\ ClosesKept
      /\ \A h \in Generation : link[h] # "up" => up'[h] = up[h]
  <2>1. up' = Sent(pane[p].client, msgs)
    BY DEF PtyCreated
  <2>. HIDE DEF msgs
  <2>. QED  BY <1>1, <1>3, <1>4, <2>1, SentKeeps
<1>6. PaneInv(p)'
  <2>1. OnLine(p)' <=> OnLine(p)
    BY <1>2, <1>4 DEF OnLine
  <2>2. OnLine(p) => (ExitComes(p) => ExitComes(p)')
    BY <1>1, <1>2, <1>5, <2>1, <1>4, EventsAlone, PromisesKept
  <2>3. OnLine(p) /\ pty[p].state # "none" => pane'[p].id = pty'[p].id
    BY <1>1, <1>2, <1>4 DEF PaneInv, KnowsItsOwn
  <2>4. OnLine(p) => ~pane'[p].exited
    BY <1>1, <1>2 DEF PaneInv, StepsInOrder
  <2>5. StepsInOrder(p)'
    BY <1>1, <1>2, <1>4 DEF PaneInv, StepsInOrder, Opened
  <2>6. KnowsItsOwn(p)' /\ Owned(p)'
    BY <1>2, <1>4, <2>1, <2>3 DEF KnowsItsOwn, Owned, InTable
  <2>7. Gone(p)'
    BY <2>1, <2>4 DEF Gone
  <2>8. Heard(p)'
    BY <1>1, <1>2, <1>4, <2>1, <2>2 DEF PaneInv, Heard
  <2>. QED  BY <2>5, <2>6, <2>7, <2>8 DEF PaneInv
<1>. QED  BY <1>1, <1>2, <1>4, <1>5, <1>6, PaneKeeps

LEMMA GivesUpKeeps ==
    ASSUME PtyInv, PtyTypeOK', NEW p \in Pane,
           \/ BootstrapFails(p)
           \/ Fails(p) /\ pane[p].request \in {"asked", "failed"}
    PROVE  PtyInv'
<1>1. PtyTypeOK /\ PaneInv(p) /\ pane[p] \in EventLoop
  BY DEF PtyInv, PtyTypeOK
<1>2. /\ Over(pane[p]) \in EventLoop
      /\ Over(pane[p]).client = pane[p].client /\ Over(pane[p]).id = 0
  BY <1>1, OverFields
<1>3. /\ UNCHANGED linkVars /\ pty' = pty /\ events' = events /\ up' = up
      /\ link' = link
  BY DEF BootstrapFails, Fails, linkVars
<1>4. /\ pane'[p].client = pane[p].client /\ pane'[p].id = 0
      /\ \A q \in Pane : q # p => pane'[q] = pane[q]
  <2>. DEFINE over == Over(pane[p])
              r1 == [over EXCEPT !.request = "held", !.reply = 0, !.exited = TRUE]
              r2 == [over EXCEPT !.request = "refused", !.exited = TRUE]
  <2>1. pane' = [pane EXCEPT ![p] = r1] \/ pane' = [pane EXCEPT ![p] = r2]
    BY DEF BootstrapFails, Fails
  <2>2. /\ r1.client = over.client /\ r1.id = over.id
        /\ r2.client = over.client /\ r2.id = over.id
    <3>. HIDE DEF over
    <3>1. over \in EventLoop
      BY <1>2 DEF over
    <3>. QED  BY <3>1 DEF EventLoop
  <2>. HIDE DEF r1, r2
  <2>. QED  BY <1>1, <1>2, <2>1, <2>2 DEF PtyTypeOK
<1>5. CASE BootstrapFails(p)
  <2>1. pane'[p].request = "held" /\ pane[p].request = "created"
    BY <1>1, <1>2, <1>5 DEF BootstrapFails, PtyTypeOK, EventLoop
  <2>2. ~OnLine(p)'
    BY <1>3, <1>4, <1>5 DEF BootstrapFails, OnLine
  <2>3. StepsInOrder(p)'
    BY <1>1, <1>3, <1>4, <2>1 DEF PaneInv, StepsInOrder, Opened
  <2>4. PaneInv(p)'
    BY <2>2, <2>3, OffLine
  <2>. QED  BY <1>1, <1>3, <1>4, <2>1, <2>4, UpAlone, PaneKeeps
<1>6. CASE Fails(p) /\ pane[p].request \in {"asked", "failed"}
  <2>1. pane'[p].request = "refused"
    BY <1>1, <1>2, <1>6 DEF Fails, PtyTypeOK, EventLoop
  <2>2. PaneInv(p)'
    BY <1>1, <1>3, <1>4, <2>1
       DEF PaneInv, StepsInOrder, KnowsItsOwn, Owned, Gone, Heard, Opened
  <2>. QED  BY <1>1, <1>3, <1>4, <2>1, <2>2, UpAlone, PaneKeeps
<1>. QED  BY <1>5, <1>6

LEMMA InputKeeps ==
    ASSUME PtyInv, PtyTypeOK', NEW p \in Pane, Input(p)
    PROVE  PtyInv'
<1>1. PtyTypeOK /\ PaneInv(p) /\ pane[p] \in EventLoop
  BY DEF PtyInv, PtyTypeOK
<1>2. /\ UNCHANGED linkVars /\ pty' = pty /\ events' = events /\ link' = link
  BY DEF Input, linkVars
<1>3. /\ pane'[p].client = pane[p].client /\ pane'[p].request = pane[p].request
      /\ pane'[p].reply = pane[p].reply /\ pane'[p].id = pane[p].id
      /\ pane'[p].exited = pane[p].exited /\ pane'[p].missed = pane[p].missed
      /\ \A q \in Pane : q # p => pane'[q] = pane[q]
  <2>. DEFINE n == pane[p].typed + 1
              more == Append(pane[p].pending, n)
              r1 == [pane[p] EXCEPT !.typed = n, !.pending = more]
              r2 == [pane[p] EXCEPT !.typed = n]
  <2>1. pane' = [pane EXCEPT ![p] = r1] \/ pane' = [pane EXCEPT ![p] = r2]
    BY DEF Input
  <2>2. ASSUME NEW r \in {r1, r2}
        PROVE  /\ r.client = pane[p].client /\ r.request = pane[p].request
               /\ r.reply = pane[p].reply /\ r.id = pane[p].id
               /\ r.exited = pane[p].exited /\ r.missed = pane[p].missed
    <3>. HIDE DEF n, more
    <3>. QED  BY <1>1, <2>2 DEF EventLoop
  <2>. HIDE DEF r1, r2
  <2>. QED  BY <1>1, <2>1, <2>2 DEF PtyTypeOK
<1>4. /\ UpFrom /\ ClosesKept
      /\ \A h \in Generation : link[h] # "up" => up'[h] = up[h]
  <2>. DEFINE msg == WriteMsg(pane[p].id, pane[p].typed + 1)
  <2>1. up' = up \/ up' = Sent(pane[p].client, <<msg>>)
    BY DEF Input
  <2>2. msg \in Message /\ msg.type # "create" /\ pane[p].client \in 0..MaxGeneration
    BY <1>1 DEF WriteMsg, Message, EventLoop
  <2>. HIDE DEF msg
  <2>3. <<msg>> \in Seq(Message) /\ \A k \in DOMAIN <<msg>> : <<msg>>[k].type # "create"
    BY <2>2
  <2>4. CASE up' = up
    BY <1>1, <2>4, UpAlone
  <2>5. CASE up' = Sent(pane[p].client, <<msg>>)
    BY <1>1, <1>2, <2>2, <2>3, <2>5, SentKeeps
  <2>. QED  BY <2>1, <2>4, <2>5
<1>5. PaneInv(p)'
  <2>1. OnLine(p)' => OnLine(p)
    BY <1>2, <1>3 DEF OnLine
  <2>. QED  BY <1>1, <1>2, <1>3, <1>4, <2>1, EventsAlone, PaneAlone
<1>. QED  BY <1>1, <1>2, <1>3, <1>4, <1>5, PaneKeeps

LEMMA ShutdownKeeps ==
    ASSUME PtyInv, PtyTypeOK', NEW p \in Pane, Shutdown(p)
    PROVE  PtyInv'
<1>1. PtyTypeOK /\ PaneInv(p) /\ pane[p] \in EventLoop
  BY DEF PtyInv, PtyTypeOK
<1>2. /\ UNCHANGED linkVars /\ pty' = pty /\ events' = events /\ link' = link
  BY DEF Shutdown, linkVars
<1>3. /\ pane'[p].client = pane[p].client /\ pane'[p].request = pane[p].request
      /\ pane'[p].reply = pane[p].reply /\ pane'[p].id = 0
      /\ pane'[p].exited = pane[p].exited /\ pane'[p].missed = pane[p].missed
      /\ \A q \in Pane : q # p => pane'[q] = pane[q]
  BY <1>1, OverFields DEF Shutdown, PtyTypeOK
<1>. DEFINE msg == CloseMsg(pane[p].id)
<1>4. /\ msg \in Message /\ msg.type # "create"
      /\ pane[p].client \in 0..MaxGeneration
      /\ up' = IF pane[p].id = 0 THEN up ELSE Sent(pane[p].client, <<msg>>)
  BY <1>1 DEF CloseMsg, Message, EventLoop, Shutdown
<1>5. /\ UpFrom /\ ClosesKept
      /\ \A h \in Generation : link[h] # "up" => up'[h] = up[h]
  <2>. HIDE DEF msg
  <2>1. <<msg>> \in Seq(Message) /\ \A k \in DOMAIN <<msg>> : <<msg>>[k].type # "create"
    BY <1>4
  <2>2. CASE pane[p].id = 0
    BY <1>1, <1>4, <2>2, UpAlone
  <2>3. CASE pane[p].id # 0
    BY <1>1, <1>2, <1>4, <2>1, <2>3, SentKeeps
  <2>. QED  BY <2>2, <2>3
<1>6. PaneInv(p)'
  <2>1. OnLine(p)' <=> OnLine(p)
    BY <1>2, <1>3 DEF OnLine
  <2>2. OnLine(p) => /\ ClosesSoon(p) => ClosesSoon(p)'
                     /\ ExitComes(p) => ExitComes(p)'
    BY <1>1, <1>2, <1>3, <1>5, <2>1, EventsAlone, PromisesKept
  <2>3. ASSUME OnLine(p), pane[p].id # 0, pane[p].id = pty[p].id
        PROVE  ClosesSoon(p)'
    <3>1. /\ pane[p].client \in Generation /\ up[pane[p].client] \in Seq(Message)
          /\ up'[pane[p].client] = up[pane[p].client] \o <<msg>>
      BY <1>1, <1>4, <2>3 DEF OnLine, Sent, PtyTypeOK
    <3>2. \E i \in DOMAIN up'[pane[p].client] : up'[pane[p].client][i] = msg
      <4>. HIDE DEF msg
      <4>1. up[pane[p].client] \o <<msg>> = Append(up[pane[p].client], msg)
        BY <1>4, <3>1
      <4>2. Len(up[pane[p].client]) + 1 \in DOMAIN Append(up[pane[p].client], msg)
        BY <1>4, <3>1
      <4>. QED  BY <1>4, <3>1, <4>1, <4>2
    <3>. QED  BY <1>2, <1>3, <2>3, <3>2 DEF ClosesSoon, CloseMsg
  <2>4. StepsInOrder(p)'
    BY <1>1, <1>2, <1>3, <2>1 DEF PaneInv, StepsInOrder, Opened
  <2>5. KnowsItsOwn(p)'
    BY <1>1, <1>2, <1>3, <2>1 DEF PaneInv, KnowsItsOwn
  <2>6. Owned(p)'
    BY <1>1, <1>2, <1>3, <2>1, <2>2, <2>3 DEF PaneInv, StepsInOrder, Owned, InTable
  <2>7. Gone(p)'
    BY <1>1, <1>2, <1>3, <2>1, <2>2 DEF PaneInv, Gone
  <2>8. Heard(p)'
    BY <1>1, <1>2, <1>3, <2>1, <2>2 DEF PaneInv, Heard
  <2>. QED  BY <2>4, <2>5, <2>6, <2>7, <2>8 DEF PaneInv
<1>. QED  BY <1>1, <1>2, <1>3, <1>5, <1>6, PaneKeeps

-----------------------------------------------------------------------------
\* Pushes.

LEMMA PushTaken ==
    ASSUME PtyTypeOK, NEW g \in Generation, events[g] # <<>>,
           events' = [events EXCEPT ![g] = Tail(@)]
    PROVE  /\ EventsFrom
           /\ Head(events[g]).type # "exited" => ExitsKept
           /\ \A h \in Generation : h # g => events'[h] = events[h]
           /\ \A i \in DOMAIN events[g] :
                 i # 1 => \E j \in DOMAIN events'[g] : events'[g][j] = events[g][i]
           /\ 1 \in DOMAIN events[g] /\ events[g][1] = Head(events[g])
<1>1. events[g] \in Seq(Push) /\ events'[g] = Tail(events[g])
  BY DEF PtyTypeOK
<1>2. \A h \in Generation : h # g => events'[h] = events[h]
  BY DEF PtyTypeOK
<1>3. /\ Len(events[g]) \in Nat \ {0} /\ DOMAIN events[g] = 1..Len(events[g])
      /\ DOMAIN events'[g] = 1..(Len(events[g]) - 1)
      /\ \A i \in DOMAIN events'[g] : events'[g][i] = events[g][i + 1]
      /\ events[g][1] = Head(events[g])
  <2>1. /\ Len(Tail(events[g])) = Len(events[g]) - 1 /\ Tail(events[g]) \in Seq(Push)
        /\ \A i \in 1..Len(Tail(events[g])) : Tail(events[g])[i] = events[g][i + 1]
    BY <1>1, HeadTailProperties
  <2>2. Len(events[g]) \in Nat \ {0} /\ DOMAIN events[g] = 1..Len(events[g])
    BY <1>1
  <2>3. DOMAIN Tail(events[g]) = 1..Len(Tail(events[g]))
    BY <2>1
  <2>4. Head(events[g]) = events[g][1]
    BY <1>1
  <2>. QED  BY <1>1, <2>1, <2>2, <2>3, <2>4
<1>4. \A i \in DOMAIN events[g] :
         i # 1 => \E j \in DOMAIN events'[g] : events'[g][j] = events[g][i]
  <2>. SUFFICES ASSUME NEW i \in DOMAIN events[g], i # 1
                PROVE  \E j \in DOMAIN events'[g] : events'[g][j] = events[g][i]
    OBVIOUS
  <2>1. i - 1 \in DOMAIN events'[g] /\ (i - 1) + 1 = i
    BY <1>3
  <2>. QED  BY <1>3, <2>1
<1>5. EventsFrom
  <2>1. \A i \in DOMAIN events'[g] : i + 1 \in DOMAIN events[g]
    BY <1>3
  <2>. QED  BY <1>2, <1>3, <2>1 DEF EventsFrom
<1>6. Head(events[g]).type # "exited" => ExitsKept
  BY <1>2, <1>3, <1>4 DEF ExitsKept
<1>7. 1 \in DOMAIN events[g]
  BY <1>3
<1>. QED  BY <1>2, <1>3, <1>4, <1>5, <1>6, <1>7

LEMMA OutputArrivesKeeps ==
    ASSUME PtyInv, PtyTypeOK', NEW g \in Generation, OutputArrives(g)
    PROVE  PtyInv'
<1>. USE DEF PtyInv
<1>1. UNCHANGED linkVars /\ pty' = pty /\ up' = up /\ link' = link
  BY DEF OutputArrives, linkVars
<1>2. EventsFrom /\ ExitsKept
  <2>1. events[g] # <<>> /\ Head(events[g]).type # "exited"
    BY DEF OutputArrives
  <2>2. events' = [events EXCEPT ![g] = Tail(@)]
    BY DEF OutputArrives
  <2>. QED  BY <2>1, <2>2, PushTaken
<1>3. ASSUME NEW q \in Pane
      PROVE  /\ pane'[q].client = pane[q].client /\ pane'[q].request = pane[q].request
             /\ pane'[q].reply = pane[q].reply /\ pane'[q].id = pane[q].id
             /\ pane'[q].exited = pane[q].exited /\ pane'[q].missed = pane[q].missed
  <2>. DEFINE e == Head(events[g])
              more == Append(pane[q].shown, <<e.of, e.chunk>>)
              r == [pane[q] EXCEPT !.shown = more]
  <2>1. pane'[q] = pane[q] \/ pane'[q] = r
    BY DEF OutputArrives
  <2>2. pane[q] \in EventLoop
    BY DEF PtyTypeOK
  <2>. HIDE DEF more
  <2>. QED  BY <2>1, <2>2 DEF EventLoop
<1>4. LinksInOrder'
  BY <1>1, <1>3 DEF LinksInOrder, linkVars
<1>5. CreatesInOrder'
  BY <1>1, <1>3, UpAlone, CreatesKept
<1>6. PushesInOrder'
  BY <1>1, <1>2, <1>3, PushesKept
<1>7. ASSUME NEW q \in Pane
      PROVE  PaneInv(q)'
  <2>1. OnLine(q)' => OnLine(q)
    BY <1>1, <1>3 DEF OnLine
  <2>. QED  BY <1>1, <1>2, <1>3, <2>1, UpAlone, PaneAlone
<1>. QED  BY <1>4, <1>5, <1>6, <1>7

\* Closes appended here and there.
LEMMA ClosesAppended ==
    ASSUME PtyTypeOK, NEW msg \in Message, msg.type # "create",
           \A h \in Generation : up'[h] = up[h] \/ up'[h] = Append(up[h], msg)
    PROVE  UpFrom /\ ClosesKept
<1>1. ASSUME NEW h \in Generation
      PROVE  /\ \A i \in DOMAIN up'[h] : up'[h][i].type = "create" =>
                   i \in DOMAIN up[h] /\ up[h][i] = up'[h][i]
             /\ \A i \in DOMAIN up[h] : i \in DOMAIN up'[h] /\ up'[h][i] = up[h][i]
             /\ \A i \in DOMAIN up[h] : i \in Nat /\ i + 0 = i
  <2>1. up[h] \in Seq(Message)
    BY DEF PtyTypeOK
  <2>2. CASE up'[h] = up[h]
    BY <2>1, <2>2
  <2>3. CASE up'[h] = Append(up[h], msg)
    <3>1. /\ DOMAIN up[h] = 1..Len(up[h]) /\ Len(up[h]) \in Nat
          /\ DOMAIN up'[h] = 1..(Len(up[h]) + 1)
          /\ \A i \in DOMAIN up[h] : up'[h][i] = up[h][i]
          /\ up'[h][Len(up[h]) + 1] = msg
      BY <2>1, <2>3
    <3>2. \A i \in DOMAIN up'[h] : i \in DOMAIN up[h] \/ i = Len(up[h]) + 1
      BY <3>1
    <3>3. \A i \in DOMAIN up[h] : i \in DOMAIN up'[h]
      BY <3>1
    <3>. QED  BY <3>1, <3>2, <3>3
  <2>. QED  BY <1>1, <2>2, <2>3
<1>2. UpFrom
  BY <1>1 DEF UpFrom
<1>3. ClosesKept
  BY <1>1 DEF ClosesKept
<1>. QED  BY <1>2, <1>3

LEMMA ExitArrivesKeeps ==
    ASSUME PtyInv, PtyTypeOK', NEW g \in Generation, ExitArrives(g)
    PROVE  PtyInv'
<1>. USE DEF PtyInv
<1>. DEFINE e == Head(events[g])
            heard == IF connected THEN {p \in Pane : Listening(p, e)} ELSE {}
<1>1. UNCHANGED linkVars /\ pty' = pty /\ link' = link /\ e.type = "exited"
  BY DEF ExitArrives, linkVars
<1>2. /\ EventsFrom
      /\ \A h \in Generation : h # g => events'[h] = events[h]
      /\ \A i \in DOMAIN events[g] :
            i # 1 => \E j \in DOMAIN events'[g] : events'[g][j] = events[g][i]
      /\ 1 \in DOMAIN events[g] /\ events[g][1] = e
      /\ e \in Push
  <2>1. events[g] # <<>> /\ events' = [events EXCEPT ![g] = Tail(@)]
    BY DEF ExitArrives
  <2>. QED  BY <2>1, PushTaken, HeadType
<1>3. pane' = Notified(e, heard)
  BY DEF ExitArrives
<1>4. \A q \in Pane : q \in heard <=> connected /\ pane[q].id # 0 /\ pane[q].id = e.id
  BY DEF Listening
<1>5. \A h \in Generation :
         up'[h] = IF link[h] = "up" /\ \E q \in heard : pane[q].client = h
                  THEN Append(up[h], CloseMsg(e.id)) ELSE up[h]
  BY DEF ExitArrives
<1>. HIDE DEF heard, e
<1>6. ASSUME NEW q \in Pane
      PROVE  /\ pane'[q].client = pane[q].client /\ pane'[q].request = pane[q].request
             /\ pane'[q].reply = pane[q].reply
             /\ q \in heard => pane'[q].id = 0
             /\ q \notin heard => /\ pane'[q].id = pane[q].id
                                  /\ pane'[q].exited = pane[q].exited
                                  /\ pane[q].missed => pane'[q].missed
             /\ q \notin heard /\ q = e.of /\ pane[q].request = "created" =>
                   pane'[q].missed
  <2>. DEFINE over == Over(pane[q])
  <2>1. pane[q] \in EventLoop
    BY DEF PtyTypeOK
  <2>2. /\ over \in EventLoop /\ over.client = pane[q].client
        /\ over.request = pane[q].request /\ over.reply = pane[q].reply /\ over.id = 0
    BY <2>1, OverFields
  <2>3. pane'[q] = IF q \in heard THEN [over EXCEPT !.exited = TRUE]
                   ELSE IF q = e.of /\ pane[q].request \in {"asked", "created"}
                   THEN [pane[q] EXCEPT !.missed = TRUE]
                   ELSE pane[q]
    BY <1>3 DEF Notified
  <2>. HIDE DEF over
  <2>. QED  BY <2>1, <2>2, <2>3 DEF EventLoop
<1>7. UpFrom /\ ClosesKept
  <2>1. CloseMsg(e.id) \in Message /\ CloseMsg(e.id).type # "create"
    BY <1>2 DEF CloseMsg, Message, Push
  <2>. QED  BY <1>5, <2>1, ClosesAppended
<1>8. LinksInOrder'
  BY <1>1, <1>5, <1>6 DEF LinksInOrder, linkVars
<1>9. CreatesInOrder'
  BY <1>1, <1>6, <1>7, CreatesKept
<1>10. PushesInOrder'
  BY <1>1, <1>2, <1>6, PushesKept
<1>11. ASSUME NEW q \in Pane
       PROVE  PaneInv(q)'
  <2>1. PaneInv(q) /\ (OnLine(q)' <=> OnLine(q))
    BY <1>1, <1>6 DEF OnLine
  <2>2. StepsInOrder(q)'
    BY <1>1, <1>4, <1>6, <2>1 DEF PaneInv, StepsInOrder, Opened
  <2>3. KnowsItsOwn(q)'
    BY <1>1, <1>6, <2>1 DEF PaneInv, KnowsItsOwn
  <2>4. OnLine(q) /\ ClosesSoon(q) => ClosesSoon(q)'
    <3>1. OnLine(q) => pane[q].client \in Generation /\ link'[pane[q].client] = "up"
      BY <1>1 DEF OnLine
    <3>. QED  BY <1>1, <1>6, <1>7, <3>1 DEF ClosesSoon, ClosesKept, CloseMsg
  <2>5. CASE q \in heard
    <3>1. pane[q].request = "held" /\ pane[q].id # 0 /\ pane[q].id = e.id
      BY <1>4, <2>1, <2>5 DEF PaneInv, StepsInOrder
    <3>2. ASSUME OnLine(q), pty[q].state # "none"
          PROVE  ClosesSoon(q)'
      <4>1. /\ pane[q].client \in Generation /\ up[pane[q].client] \in Seq(Message)
            /\ up'[pane[q].client] = Append(up[pane[q].client], CloseMsg(e.id))
        BY <1>5, <2>5, <3>2 DEF OnLine, PtyTypeOK
      <4>2. pty'[q].id = e.id
        BY <1>1, <2>1, <3>1, <3>2 DEF PaneInv, KnowsItsOwn
      <4>3. CloseMsg(e.id) \in Message
        BY <1>2 DEF CloseMsg, Message, Push
      <4>4. /\ Len(up[pane[q].client]) + 1 \in DOMAIN up'[pane[q].client]
            /\ up'[pane[q].client][Len(up[pane[q].client]) + 1] = CloseMsg(e.id)
        BY <4>1, <4>3
      <4>. QED  BY <1>6, <4>2, <4>4 DEF ClosesSoon
    <3>3. Owned(q)' /\ Gone(q)'
      BY <1>1, <2>1, <3>2 DEF Owned, Gone, InTable
    <3>4. Heard(q)'
      BY <1>6, <2>5, <3>1 DEF Heard
    <3>. QED  BY <2>2, <2>3, <3>3, <3>4 DEF PaneInv
  <2>6. CASE q \notin heard
    <3>1. Owned(q)' /\ Gone(q)'
      BY <1>1, <1>6, <2>1, <2>4, <2>6 DEF PaneInv, Owned, Gone, InTable
    <3>2. ASSUME OnLine(q), ExitComes(q), pane[q].id # 0 \/ pane[q].request = "created"
          PROVE  pane'[q].missed \/ ExitComes(q)'
      <4>1. /\ pane[q].client \in Generation /\ link[pane[q].client] = "up"
            /\ connected
        BY <3>2 DEF OnLine, LinksInOrder
      <4>2. PICK i \in DOMAIN events[pane[q].client] :
                /\ events[pane[q].client][i].type = "exited"
                /\ events[pane[q].client][i].of = q
        BY <3>2 DEF ExitComes
      <4>3. CASE pane[q].client = g /\ i = 1
        <5>1. /\ pane[q].request = "created" => pane[q].reply = e.id
              /\ pane[q].id # 0 => pane[q].id = e.id
              /\ e.of = q
          BY <1>2, <4>1, <4>2, <4>3 DEF PushesInOrder
        <5>. QED  BY <1>4, <1>6, <2>6, <3>2, <4>1, <5>1
      <4>4. CASE ~(pane[q].client = g /\ i = 1)
        <5>1. PICK j \in DOMAIN events'[pane[q].client] :
                  events'[pane[q].client][j] = events[pane[q].client][i]
          BY <1>2, <4>1, <4>4
        <5>. QED  BY <1>6, <4>2, <5>1 DEF ExitComes
      <4>. QED  BY <4>3, <4>4
    <3>3. Heard(q)'
      BY <1>1, <1>6, <2>1, <2>6, <3>2 DEF PaneInv, Heard
    <3>. QED  BY <2>2, <2>3, <3>1, <3>3 DEF PaneInv
  <2>. QED  BY <2>5, <2>6
<1>. QED  BY <1>8, <1>9, <1>10, <1>11

-----------------------------------------------------------------------------
\* The daemon.

LEMMA CreatePtyKeeps ==
    ASSUME PtyInv, PtyTypeOK', NEW g \in Generation, CreatePty(g)
    PROVE  PtyInv'
<1>. USE DEF PtyInv
<1>1. Receives(g, "create") /\ UNCHANGED linkVars /\ link' = link /\ events' = events
  BY DEF CreatePty, linkVars
<1>0. PICK p \in Pane : p = Head(up[g]).pane
  <2>1. Head(up[g]).pane \in Pane
    BY <1>1, ReceivesType DEF Message
  <2>. QED  BY <2>1
<1>2. /\ pane[p] \in EventLoop /\ pty[p] \in Terminal
      /\ nextPty \in Nat \ {0} /\ up[g] # <<>>
  BY <1>1 DEF PtyTypeOK, Receives
<1>3. /\ UpFrom /\ ClosesKept
      /\ \A h \in Generation : h # g => up'[h] = up[h]
      /\ \A i \in DOMAIN up'[g] :
            i + 1 \in DOMAIN up[g] /\ up[g][i + 1] = up'[g][i] /\ i + 1 # 1
      /\ 1 \in DOMAIN up[g] /\ up[g][1] = Head(up[g])
  BY <1>1, TakenKeeps
<1>4. /\ link[g] = "up" /\ pane[p].client = g /\ pty[p].state = "none"
      /\ pane[p].request \in {"asked", "refused"}
      /\ \A j \in DOMAIN up[g] : up[g][j].type = "create" /\ up[g][j].pane = p => j = 1
  <2>1. up[g][1].type = "create" /\ up[g][1].pane = p
    BY <1>0, <1>1, <1>3 DEF Receives
  <2>2. link[g] = "up"
    BY <1>2 DEF LinksInOrder
  <2>. QED  BY <1>3, <2>1, <2>2 DEF CreatesInOrder
<1>5. /\ \A q \in Pane : q # p => pane'[q] = pane[q] /\ pty'[q] = pty[q]
      /\ pane'[p].client = g /\ pane'[p].id = pane[p].id
      /\ pane'[p].exited = pane[p].exited
      /\ \/ /\ pty'[p].state = "running" /\ pty'[p].id = nextPty
            /\ \/ /\ pane[p].request = "asked"
                  /\ pane'[p].request = "created" /\ pane'[p].reply = nextPty
               \/ pane[p].request # "asked" /\ pane'[p] = pane[p]
         \/ /\ pty'[p] = pty[p]
            /\ \/ pane[p].request = "asked" /\ pane'[p].request = "failed"
               \/ pane[p].request # "asked" /\ pane'[p] = pane[p]
  <2>1. \/ /\ pty' = [pty EXCEPT ![p].state = "running", ![p].id = nextPty]
           /\ pane' = Answered(p, "created", nextPty)
        \/ pty' = pty /\ pane' = Answered(p, "failed", 0)
    BY <1>0 DEF CreatePty
  <2>2. CASE /\ pty' = [pty EXCEPT ![p].state = "running", ![p].id = nextPty]
             /\ pane' = Answered(p, "created", nextPty)
    <3>1. /\ \A q \in Pane : q # p => pty'[q] = pty[q]
          /\ pty'[p].state = "running" /\ pty'[p].id = nextPty
      BY <1>2, <2>2 DEF PtyTypeOK, Terminal
    <3>. QED  BY <1>2, <1>4, <2>2, <3>1 DEF Answered, PtyTypeOK, EventLoop
  <2>3. CASE pty' = pty /\ pane' = Answered(p, "failed", 0)
    BY <1>2, <1>4, <2>3 DEF Answered, PtyTypeOK, EventLoop
  <2>. QED  BY <2>1, <2>2, <2>3
<1>6. LinksInOrder'
  <2>1. \A h \in Generation : link[h] # "up" => up'[h] = up[h]
    BY <1>3, <1>4
  <2>2. \A q \in Pane : pane'[q].client = pane[q].client
    BY <1>4, <1>5
  <2>3. generation' = generation /\ connected' = connected
    BY <1>1 DEF linkVars
  <2>. QED  BY <1>1, <2>1, <2>2, <2>3 DEF LinksInOrder
<1>7. CreatesInOrder'
  <2>1. ASSUME NEW h \in Generation, NEW i \in DOMAIN up'[h],
               up'[h][i].type = "create", up'[h][i].pane \in Pane
        PROVE  up'[h][i].pane # p
    <3>1. CASE h = g
      BY <1>3, <1>4, <2>1, <3>1
    <3>2. CASE h # g
      BY <1>3, <1>4, <2>1, <3>2 DEF CreatesInOrder
    <3>. QED  BY <3>1, <3>2
  <2>2. ASSUME NEW h \in Generation, NEW i \in DOMAIN up'[h],
               up'[h][i].type = "create", up'[h][i].pane \in Pane
        PROVE  /\ pane'[up'[h][i].pane] = pane[up'[h][i].pane]
               /\ pty'[up'[h][i].pane] = pty[up'[h][i].pane]
    BY <1>5, <2>1, <2>2
  <2>. QED  BY <1>3, <2>2, CreatesKept
<1>8. PushesInOrder'
  <2>. SUFFICES ASSUME NEW h \in Generation, NEW i \in DOMAIN events[h],
                       NEW q, q = events[h][i].of
                PROVE  /\ pane'[q].client = h
                       /\ link[h] = "up" /\ events[h][i].type = "exited" =>
                             /\ pane'[q].request # "asked"
                             /\ pane'[q].request = "created" =>
                                   pane'[q].reply = events[h][i].id
                             /\ pane'[q].id # 0 => pane'[q].id = events[h][i].id
    BY <1>1 DEF PushesInOrder
  <2>1. q \in Pane
    <3>1. events[h][i] \in Push
      BY DEF PtyTypeOK
    <3>. QED  BY <3>1 DEF Push
  <2>2. /\ pane[q].client = h
        /\ link[h] = "up" /\ events[h][i].type = "exited" =>
              /\ pane[q].request # "asked"
              /\ pane[q].request = "created" => pane[q].reply = events[h][i].id
              /\ pane[q].id # 0 => pane[q].id = events[h][i].id
    BY DEF PushesInOrder
  <2>. QED  BY <1>4, <1>5, <2>1, <2>2
<1>9. ASSUME NEW q \in Pane
      PROVE  PaneInv(q)'
  <2>1. CASE q = p
    <3>1. /\ pane[p].id = 0 /\ PaneInv(p) /\ OnLine(p)
          /\ pane[p].exited => pane[p].request = "refused"
      BY <1>2, <1>4 DEF PaneInv, StepsInOrder, OnLine
    <3>2. StepsInOrder(p)'
      BY <1>2, <1>4, <1>5, <3>1 DEF PaneInv, StepsInOrder, Opened
    <3>3. KnowsItsOwn(p)' /\ Owned(p)' /\ Gone(p)' /\ Heard(p)'
      BY <1>4, <1>5, <3>1 DEF KnowsItsOwn, Owned, Gone, Heard, InTable
    <3>. QED  BY <2>1, <3>2, <3>3 DEF PaneInv
  <2>2. CASE q # p
    <3>1. pane'[q] = pane[q] /\ pty'[q] = pty[q] /\ PaneInv(q)
      BY <1>5, <2>2
    <3>2. OnLine(q)' => OnLine(q)
      BY <1>1, <3>1 DEF OnLine
    <3>. QED  BY <1>1, <1>3, <3>1, <3>2, EventsAlone, PaneAlone
  <2>. QED  BY <2>1, <2>2
<1>. QED  BY <1>6, <1>7, <1>8, <1>9

LEMMA WritePtyKeeps ==
    ASSUME PtyInv, PtyTypeOK', NEW g \in Generation, WritePty(g)
    PROVE  PtyInv'
<1>. USE DEF PtyInv
<1>1. /\ Receives(g, "write") /\ UNCHANGED linkVars /\ link' = link
      /\ events' = events /\ pane' = pane
  BY DEF WritePty, linkVars
<1>2. /\ UpFrom /\ ClosesKept
      /\ \A h \in Generation : h # g => up'[h] = up[h]
      /\ up[g] # <<>>
  BY <1>1, TakenKeeps DEF Receives
<1>3. \A q \in Pane : pty'[q].state = pty[q].state /\ pty'[q].id = pty[q].id
  <2>. SUFFICES ASSUME NEW q \in Pane
                PROVE  pty'[q].state = pty[q].state /\ pty'[q].id = pty[q].id
    OBVIOUS
  <2>. DEFINE more == Append(pty[q].got, Head(up[g]).input)
              t == [pty[q] EXCEPT !.got = more]
  <2>1. (pty'[q] = pty[q] \/ pty'[q] = t) /\ pty[q] \in Terminal
    BY DEF WritePty, PtyTypeOK
  <2>. HIDE DEF more
  <2>. QED  BY <2>1 DEF Terminal
<1>4. LinksInOrder'
  <2>1. \A h \in Generation : link[h] # "up" => up'[h] = up[h]
    BY <1>2 DEF LinksInOrder
  <2>. QED  BY <1>1, <2>1 DEF LinksInOrder, linkVars
<1>5. CreatesInOrder'
  BY <1>1, <1>2, <1>3, CreatesKept
<1>6. PushesInOrder'
  BY <1>1 DEF PushesInOrder
<1>7. ASSUME NEW q \in Pane
      PROVE  PaneInv(q)'
  <2>1. OnLine(q)' => OnLine(q)
    BY <1>1 DEF OnLine
  <2>. QED  BY <1>1, <1>2, <1>3, <2>1, EventsAlone, PaneAlone
<1>. QED  BY <1>4, <1>5, <1>6, <1>7

\* A dropped PTY is killed, or goes at once if its reader thread has ended.
LEMMA DroppedFields ==
    ASSUME PtyTypeOK, NEW S, NEW q \in Pane
    PROVE  \/ Dropped(S)[q] = pty[q] /\ (q \in S => ~InTable(q))
           \/ /\ q \in S /\ pty[q].state = "running"
              /\ Dropped(S)[q].state = "killed" /\ Dropped(S)[q].id = pty[q].id
           \/ /\ q \in S /\ pty[q].state = "exited"
              /\ Dropped(S)[q].state = "none" /\ Dropped(S)[q].id = 0
<1>. DEFINE nothing == <<>>
            t == [pty[q] EXCEPT !.state = "killed", !.made = 0, !.got = nothing]
<1>1. pty[q] \in Terminal
  BY DEF PtyTypeOK
<1>2. Dropped(S)[q] =
        IF q \in S /\ pty[q].state = "running" THEN t
        ELSE IF q \in S /\ pty[q].state = "exited" THEN NoPty ELSE pty[q]
  BY DEF Dropped
<1>3. t.state = "killed" /\ t.id = pty[q].id
  <2>. HIDE DEF nothing
  <2>. QED  BY <1>1 DEF Terminal
<1>4. NoPty.state = "none" /\ NoPty.id = 0
  BY DEF NoPty
<1>. QED  BY <1>2, <1>3, <1>4 DEF InTable

LEMMA ClosePtyKeeps ==
    ASSUME PtyInv, PtyTypeOK', NEW g \in Generation, ClosePty(g)
    PROVE  PtyInv'
<1>. USE DEF PtyInv
<1>. DEFINE found == Found(g, Head(up[g]).id)
<1>1. /\ Receives(g, "close") /\ UNCHANGED linkVars /\ link' = link
      /\ events' = events /\ pane' = pane /\ pty' = Dropped(found)
  BY DEF ClosePty, linkVars
<1>2. /\ UpFrom
      /\ \A h \in Generation : h # g => up'[h] = up[h]
      /\ \A i \in DOMAIN up[g] :
            i # 1 => i - 1 \in DOMAIN up'[g] /\ up'[g][i - 1] = up[g][i]
      /\ up[g][1] = Head(up[g]) /\ up[g] # <<>>
  BY <1>1, TakenKeeps DEF Receives
<1>3. \A q \in Pane :
         q \in found <=> pane[q].client = g /\ pty[q].id = Head(up[g]).id /\ InTable(q)
  BY DEF Found
<1>. HIDE DEF found
<1>4. ASSUME NEW q \in Pane
      PROVE  \/ pty'[q] = pty[q] /\ (q \in found => ~InTable(q))
             \/ /\ q \in found /\ pty[q].state = "running"
                /\ pty'[q].state = "killed" /\ pty'[q].id = pty[q].id
             \/ /\ q \in found /\ pty[q].state = "exited"
                /\ pty'[q].state = "none" /\ pty'[q].id = 0
  BY <1>1, DroppedFields
<1>5. LinksInOrder'
  <2>1. \A h \in Generation : link[h] # "up" => up'[h] = up[h]
    BY <1>2 DEF LinksInOrder
  <2>. QED  BY <1>1, <2>1 DEF LinksInOrder, linkVars
<1>6. CreatesInOrder'
  <2>1. \A q \in Pane : pty[q].state = "none" => pty'[q].state = "none"
    BY <1>4
  <2>. QED  BY <1>1, <1>2, <2>1, CreatesKept
<1>7. PushesInOrder'
  BY <1>1 DEF PushesInOrder
<1>8. ASSUME NEW q \in Pane
      PROVE  PaneInv(q)'
  <2>1. /\ PaneInv(q) /\ (OnLine(q)' <=> OnLine(q))
        /\ ExitComes(q)' <=> ExitComes(q)
    BY <1>1 DEF OnLine, ExitComes
  <2>2. ASSUME OnLine(q), ClosesSoon(q), InTable(q), q \notin found
        PROVE  ClosesSoon(q)'
    <3>1. PICK i \in DOMAIN up[pane[q].client] :
              up[pane[q].client][i] = CloseMsg(pty[q].id)
      BY <2>2 DEF ClosesSoon
    <3>2. pane[q].client \in Generation
      BY <2>2 DEF OnLine
    <3>3. ~(pane[q].client = g /\ i = 1)
      <4>1. CloseMsg(pty[q].id).id = pty[q].id
        BY DEF CloseMsg
      <4>. QED  BY <1>2, <1>3, <2>2, <3>1, <4>1
    <3>4. PICK j \in DOMAIN up'[pane[q].client] :
              up'[pane[q].client][j] = up[pane[q].client][i]
      BY <1>2, <3>1, <3>2, <3>3
    <3>5. pty'[q] = pty[q]
      BY <1>4, <2>2
    <3>. QED  BY <1>1, <3>1, <3>4, <3>5 DEF ClosesSoon, CloseMsg
  <2>3. StepsInOrder(q)'
    BY <1>1, <1>4, <2>1 DEF PaneInv, StepsInOrder, Opened
  <2>4. KnowsItsOwn(q)'
    BY <1>1, <1>4, <2>1 DEF PaneInv, KnowsItsOwn
  <2>5. Owned(q)'
    BY <1>1, <1>4, <2>1, <2>2 DEF PaneInv, Owned, InTable
  <2>6. Gone(q)'
    BY <1>1, <1>4, <2>1, <2>2 DEF PaneInv, Gone, InTable
  <2>7. Heard(q)'
    BY <1>1, <1>4, <2>1 DEF PaneInv, Heard
  <2>. QED  BY <2>3, <2>4, <2>5, <2>6, <2>7 DEF PaneInv
<1>. QED  BY <1>5, <1>6, <1>7, <1>8

LEMMA PushedAt ==
    ASSUME PtyTypeOK, NEW g \in Generation, NEW msg \in Push,
           events' = Pushed(g, msg), link' = link
    PROVE  /\ ExitsKept
           /\ \A h \in Generation : \A i \in DOMAIN events'[h] :
                 \/ i \in DOMAIN events[h] /\ events'[h][i] = events[h][i]
                 \/ h = g /\ link[g] = "up" /\ events'[h][i] = msg
           /\ link[g] = "up" => \E i \in DOMAIN events'[g] : events'[g][i] = msg
<1>1. CASE link[g] = "up"
  <2>1. /\ events[g] \in Seq(Push) /\ events'[g] = Append(events[g], msg)
        /\ \A h \in Generation : h # g => events'[h] = events[h]
    BY <1>1 DEF Pushed, PtyTypeOK
  <2>2. /\ DOMAIN events[g] = 1..Len(events[g]) /\ Len(events[g]) \in Nat
        /\ DOMAIN events'[g] = 1..(Len(events[g]) + 1)
        /\ \A i \in DOMAIN events[g] : events'[g][i] = events[g][i]
        /\ events'[g][Len(events[g]) + 1] = msg
    BY <2>1
  <2>3. /\ \A i \in DOMAIN events'[g] : i \in DOMAIN events[g] \/ i = Len(events[g]) + 1
        /\ \A i \in DOMAIN events[g] : i \in DOMAIN events'[g]
        /\ Len(events[g]) + 1 \in DOMAIN events'[g]
    BY <2>2
  <2>. QED  BY <1>1, <2>1, <2>2, <2>3 DEF ExitsKept
<1>2. CASE link[g] # "up"
  BY <1>2 DEF Pushed, ExitsKept
<1>. QED  BY <1>1, <1>2

\* The reader thread of a PTY.
LEMMA ReaderKeeps ==
    ASSUME PtyInv, PtyTypeOK', NEW p \in Pane,
           ShellPrints(p) \/ ShellExits(p) \/ ReaderEnds(p)
    PROVE  PtyInv'
<1>. USE DEF PtyInv
<1>1. /\ UNCHANGED linkVars /\ link' = link /\ up' = up /\ pane' = pane
      /\ pty[p] \in Terminal /\ pty[p].state # "none"
  BY DEF ShellPrints, ShellExits, ReaderEnds, linkVars, PtyTypeOK
<1>2. pane[p].client \in Generation /\ Opened(p)
  <2>1. pane[p].client \in 0..MaxGeneration /\ Opened(p) /\ pane[p].client # 0
    BY <1>1 DEF PaneInv, StepsInOrder, PtyTypeOK, EventLoop
  <2>. QED  BY <2>1, PtyAssumption DEF Generation
<1>3. PICK msg \in Push :
          /\ events' = Pushed(pane[p].client, msg)
          /\ msg.of = p /\ msg.id = pty[p].id
          /\ msg.type = IF ShellPrints(p) THEN "output" ELSE "exited"
  <2>1. OutputPush(p) \in Push /\ ExitedPush(p) \in Push
    BY <1>1 DEF OutputPush, ExitedPush, Push, Terminal
  <2>2. /\ OutputPush(p).of = p /\ OutputPush(p).id = pty[p].id
        /\ OutputPush(p).type = "output"
        /\ ExitedPush(p).of = p /\ ExitedPush(p).id = pty[p].id
        /\ ExitedPush(p).type = "exited"
    BY DEF OutputPush, ExitedPush
  <2>3. CASE ShellPrints(p)
    BY <2>1, <2>2, <2>3 DEF ShellPrints
  <2>4. CASE ~ShellPrints(p)
    BY <2>1, <2>2, <2>4 DEF ShellExits, ReaderEnds
  <2>. QED  BY <2>3, <2>4
<1>4. /\ ExitsKept
      /\ \A h \in Generation : \A i \in DOMAIN events'[h] :
            \/ i \in DOMAIN events[h] /\ events'[h][i] = events[h][i]
            \/ h = pane[p].client /\ link[h] = "up" /\ events'[h][i] = msg
      /\ link[pane[p].client] = "up" =>
            \E i \in DOMAIN events'[pane[p].client] : events'[pane[p].client][i] = msg
  BY <1>1, <1>2, <1>3, PushedAt
<1>5. /\ \A q \in Pane : q # p => pty'[q] = pty[q]
      /\ ShellPrints(p) => pty'[p].state = "running" /\ pty[p].state = "running"
      /\ ~ShellPrints(p) =>
            \/ pty[p].state = "running" /\ pty'[p].state = "exited"
            \/ pty[p].state = "killed" /\ pty'[p].state = "none"
      /\ pty'[p].state # "none" => pty'[p].id = pty[p].id
  <2>. DEFINE nothing == <<>>
              t1 == [pty[p] EXCEPT !.made = @ + 1]
              t2 == [pty[p] EXCEPT !.state = "exited", !.made = 0, !.got = nothing]
  <2>1. /\ t1.state = pty[p].state /\ t1.id = pty[p].id
        /\ t2.state = "exited" /\ t2.id = pty[p].id /\ NoPty.state = "none"
    <3>. HIDE DEF nothing
    <3>. QED  BY <1>1 DEF Terminal, NoPty
  <2>2. \/ ShellPrints(p) /\ pty[p].state = "running" /\ pty' = [pty EXCEPT ![p] = t1]
        \/ ~ShellPrints(p) /\ pty[p].state = "running" /\ pty' = [pty EXCEPT ![p] = t2]
        \/ ~ShellPrints(p) /\ pty[p].state = "killed" /\ pty' = [pty EXCEPT ![p] = NoPty]
    BY DEF ShellPrints, ShellExits, ReaderEnds
  <2>. HIDE DEF t1, t2
  <2>. QED  BY <2>1, <2>2 DEF PtyTypeOK
<1>6. LinksInOrder'
  BY <1>1 DEF LinksInOrder, linkVars
<1>7. CreatesInOrder'
  <2>1. ASSUME NEW h \in Generation, NEW i \in DOMAIN up[h], up[h][i].type = "create"
        PROVE  up[h][i].pane # p
    BY <1>1, <2>1 DEF CreatesInOrder
  <2>2. ASSUME NEW h \in Generation, NEW i \in DOMAIN up[h],
               up[h][i].type = "create", up[h][i].pane \in Pane
        PROVE  pty'[up[h][i].pane] = pty[up[h][i].pane]
    BY <1>5, <2>1, <2>2
  <2>. QED  BY <1>1, <2>2, UpAlone, CreatesKept
<1>8. PushesInOrder'
  <2>1. OnLine(p) => /\ pane[p].request # "asked"
                     /\ pane[p].request = "created" => pane[p].reply = pty[p].id
                     /\ pane[p].id # 0 => pane[p].id = pty[p].id
    BY <1>1 DEF PaneInv, KnowsItsOwn
  <2>2. ASSUME NEW h \in Generation, NEW i \in DOMAIN events'[h]
        PROVE  LET q == events'[h][i].of IN
               /\ pane[q].client = h
               /\ link[h] = "up" /\ events'[h][i].type = "exited" =>
                     /\ pane[q].request # "asked"
                     /\ pane[q].request = "created" => pane[q].reply = events'[h][i].id
                     /\ pane[q].id # 0 => pane[q].id = events'[h][i].id
    <3>1. CASE i \in DOMAIN events[h] /\ events'[h][i] = events[h][i]
      BY <3>1 DEF PushesInOrder
    <3>2. CASE h = pane[p].client /\ link[h] = "up" /\ events'[h][i] = msg
      BY <1>2, <1>3, <2>1, <3>2 DEF OnLine
    <3>. QED  BY <1>4, <3>1, <3>2
  <2>. QED  BY <1>1, <2>2 DEF PushesInOrder
<1>9. ASSUME NEW q \in Pane
      PROVE  PaneInv(q)'
  <2>0. PaneInv(q) /\ (OnLine(q)' <=> OnLine(q))
    BY <1>1 DEF OnLine
  <2>1. CASE q = p /\ ~ShellPrints(p)
    <3>1. pty'[p].state \in {"exited", "none"}
      BY <1>5, <2>1
    <3>2. OnLine(p) => ExitComes(p)'
      BY <1>1, <1>2, <1>3, <1>4, <2>1 DEF OnLine, ExitComes
    <3>3. OnLine(p) /\ ClosesSoon(p) /\ pty'[p].state # "none" => ClosesSoon(p)'
      BY <1>1, <1>5 DEF ClosesSoon
    <3>4. StepsInOrder(p)'
      BY <1>1, <1>2, <1>5, <2>0, <2>1 DEF PaneInv, StepsInOrder, Opened
    <3>5. KnowsItsOwn(p)'
      BY <1>1, <1>5, <2>0, <2>1 DEF PaneInv, KnowsItsOwn
    <3>6. Owned(p)'
      BY <1>1, <1>5, <2>0, <2>1, <3>3 DEF PaneInv, Owned, InTable
    <3>7. Gone(p)' /\ Heard(p)'
      BY <2>0, <2>1, <3>1, <3>2 DEF Gone, Heard
    <3>. QED  BY <2>1, <3>4, <3>5, <3>6, <3>7 DEF PaneInv
  <2>2. CASE ~(q = p /\ ~ShellPrints(p))
    <3>1. pty'[q].state = pty[q].state /\ pty'[q].id = pty[q].id
      BY <1>5, <2>2
    <3>. QED  BY <1>1, <1>4, <2>0, <3>1, UpAlone, PaneAlone
  <2>. QED  BY <2>1, <2>2
<1>. QED  BY <1>6, <1>7, <1>8, <1>9

-----------------------------------------------------------------------------
\* Connections.

LEMMA ConnectKeeps ==
    ASSUME PtyInv, PtyTypeOK', Connect
    PROVE  PtyInv'
<1>. USE DEF PtyInv
<1>1. /\ generation \in Nat /\ generation + 1 \in Generation
      /\ generation' = generation + 1 /\ connected' /\ ~connected
      /\ up' = up /\ events' = events /\ pty' = pty /\ pane' = pane
  BY PtyAssumption DEF Connect, Generation, PtyTypeOK
<1>2. \A h \in Generation :
         /\ link[h] # "up"
         /\ link'[h] = IF h = generation + 1 THEN "up" ELSE link[h]
  BY <1>1 DEF Connect, LinksInOrder, PtyTypeOK
<1>3. \A q \in Pane : /\ pane[q].client \in 0..MaxGeneration
                      /\ pane[q].client <= generation
  BY DEF PtyTypeOK, EventLoop, LinksInOrder
<1>4. \A q \in Pane : pane[q].client # generation + 1 /\ pane[q].client <= generation + 1
  BY <1>1, <1>3, PtyAssumption
<1>5. LinksInOrder'
  BY <1>1, <1>2, <1>4 DEF LinksInOrder
<1>6. CreatesInOrder'
  BY <1>1 DEF CreatesInOrder
<1>7. PushesInOrder'
  BY <1>1, <1>2, <1>4, EventsAlone, PushesKept
<1>8. ASSUME NEW q \in Pane
      PROVE  PaneInv(q)'
  <2>1. OnLine(q)' => OnLine(q)
    BY <1>1, <1>2, <1>4 DEF OnLine
  <2>. QED  BY <1>1, <2>1, UpAlone, EventsAlone, PaneAlone
<1>. QED  BY <1>5, <1>6, <1>7, <1>8

\* Connections that go down, with what they carried.
LEMMA DownKeeps ==
    ASSUME PtyInv, PtyTypeOK', generation' = generation,
           \A h \in Generation :
              IF link'[h] = "up"
              THEN /\ link[h] = "up" /\ up'[h] = up[h] /\ events'[h] = events[h]
                   /\ connected' = connected
              ELSE up'[h] = <<>>,
           EventsFrom,
           \A q \in Pane :
              /\ pane'[q].client = pane[q].client
              /\ \/ pane'[q].request = pane[q].request
                 \/ pane[q].request = "asked" /\ pane'[q].request = "failed"
              /\ pane'[q].reply = pane[q].reply /\ pane'[q].id = pane[q].id
              /\ pane'[q].exited => pane[q].exited \/ Opened(q)
              /\ pty[q].state = "none" => pty'[q].state = "none"
              /\ pty'[q].state # "none" => pty'[q].id = pty[q].id,
           \A q \in Pane : OnLine(q)' => pane'[q] = pane[q] /\ pty'[q] = pty[q]
    PROVE  PtyInv'
<1>. USE DEF PtyInv
<1>1. LinksInOrder'
  BY DEF LinksInOrder
<1>2. UpFrom /\ ClosesKept
  <2>1. \A h \in Generation : up'[h] = up[h] \/ up'[h] = <<>>
    OBVIOUS
  <2>2. \A h \in Generation : \A i \in DOMAIN up[h] : i \in Nat /\ i + 0 = i
    BY DEF PtyTypeOK
  <2>3. UpFrom
    BY <2>1, <2>2 DEF UpFrom
  <2>. QED  BY <2>3 DEF ClosesKept
<1>3. ExitsKept
  BY DEF ExitsKept
<1>4. CreatesInOrder'
  <2>1. ASSUME NEW h \in Generation, NEW i \in DOMAIN up'[h],
               up'[h][i].type = "create", NEW q \in Pane, q = up'[h][i].pane
        PROVE  /\ pane'[q].client = pane[q].client
               /\ pane[q].request \in {"asked", "refused"} =>
                     pane'[q].request \in {"asked", "refused"}
               /\ pty[q].state = "none" => pty'[q].state = "none"
    <3>1. link'[h] = "up" /\ up'[h] = up[h]
      BY <2>1
    <3>2. OnLine(q)'
      BY <2>1, <3>1 DEF CreatesInOrder, OnLine
    <3>. QED  BY <3>2
  <2>. QED  BY <1>2, <2>1, CreatesKept
<1>5. PushesInOrder'
  BY PushesKept
<1>6. ASSUME NEW q \in Pane
      PROVE  PaneInv(q)'
  <2>1. OnLine(q)' => OnLine(q)
    BY DEF OnLine
  <2>2. CASE OnLine(q)'
    BY <1>2, <1>3, <2>1, <2>2, PaneAlone
  <2>3. CASE ~OnLine(q)'
    <3>1. StepsInOrder(q)'
      BY <2>3 DEF PaneInv, StepsInOrder, Opened
    <3>. QED  BY <2>3, <3>1, OffLine
  <2>. QED  BY <2>2, <2>3
<1>. QED  BY <1>1, <1>4, <1>5, <1>6

LEMMA CutKeeps ==
    ASSUME PtyInv, PtyTypeOK', Restart \/ \E g \in Generation : LinkCut(g)
    PROVE  PtyInv'
<1>1. PICK g \in Generation : Cut(g) /\ (connected' = connected \/ g = generation)
  <2>1. CASE Restart
    <3>1. generation \in Generation
      BY <2>1, PtyAssumption DEF Restart, PtyInv, PtyTypeOK, Generation
    <3>. QED  BY <2>1, <3>1 DEF Restart
  <2>2. CASE \E g \in Generation : LinkCut(g)
    BY <2>2 DEF LinkCut
  <2>. QED  BY <2>1, <2>2
<1>2. /\ events' = events /\ pty' = pty /\ pane' = pane /\ generation' = generation
  BY DEF Restart, LinkCut
<1>3. \A h \in Generation :
         /\ link'[h] = "up" <=> link[h] = "up" /\ h # g
         /\ up'[h] = IF h = g THEN <<>> ELSE up[h]
  BY <1>1 DEF Cut, PtyInv, PtyTypeOK
<1>4. \A h \in Generation :
         IF link'[h] = "up"
         THEN /\ link[h] = "up" /\ up'[h] = up[h] /\ events'[h] = events[h]
              /\ connected' = connected
         ELSE up'[h] = <<>>
  BY <1>1, <1>2, <1>3 DEF PtyInv, LinksInOrder
<1>5. \A q \in Pane : pty[q].state # "none" => pty'[q].id = pty[q].id
  BY <1>2
<1>. QED  BY <1>2, <1>4, EventsAlone, DownKeeps

LEMMA StreamEndsKeeps ==
    ASSUME PtyInv, PtyTypeOK', NEW g \in Generation, StreamEnds(g)
    PROVE  PtyInv'
<1>1. /\ link[g] # "up" /\ link' = link /\ up' = up /\ pty' = pty
      /\ generation' = generation /\ connected' = (connected /\ g # generation)
      /\ \A h \in Generation : events'[h] = IF h = g THEN <<>> ELSE events[h]
  BY DEF StreamEnds, PtyInv, PtyTypeOK
<1>2. PICK dead \in SUBSET Pane :
          /\ dead # {} => connected /\ g = generation
          /\ pane' = [p \in Pane |->
               LET r == IF pane[p].client = g /\ pane[p].request = "asked"
                        THEN [pane[p] EXCEPT !.request = "failed"] ELSE pane[p]
               IN  IF p \in dead /\ Opened(p) THEN [r EXCEPT !.exited = TRUE] ELSE r]
  BY DEF StreamEnds
<1>3. \A h \in Generation :
         IF link'[h] = "up"
         THEN /\ link[h] = "up" /\ up'[h] = up[h] /\ events'[h] = events[h]
              /\ connected' = connected
         ELSE up'[h] = <<>>
  BY <1>1 DEF PtyInv, LinksInOrder, PtyTypeOK
<1>4. EventsFrom
  BY <1>1 DEF EventsFrom
<1>5. ASSUME NEW q \in Pane
      PROVE  /\ pane'[q].client = pane[q].client
             /\ \/ pane'[q].request = pane[q].request
                \/ pane[q].request = "asked" /\ pane'[q].request = "failed"
             /\ pane'[q].reply = pane[q].reply /\ pane'[q].id = pane[q].id
             /\ pane'[q].exited => pane[q].exited \/ Opened(q)
             /\ pane[q].client # g /\ q \notin dead => pane'[q] = pane[q]
  <2>1. pane[q] \in EventLoop
    BY DEF PtyInv, PtyTypeOK
  <2>. QED  BY <1>2, <2>1 DEF EventLoop
<1>6. ASSUME NEW q \in Pane, OnLine(q)'
      PROVE  pane'[q] = pane[q]
  <2>1. pane[q].client \in Generation /\ link[pane[q].client] = "up"
    BY <1>1, <1>5, <1>6 DEF OnLine
  <2>2. pane[q].client # g /\ pane[q].client = generation
    BY <1>1, <2>1 DEF PtyInv, LinksInOrder
  <2>. QED  BY <1>2, <1>5, <2>2
<1>. QED  BY <1>1, <1>3, <1>4, <1>5, <1>6, DownKeeps

LEMMA DeregisterKeeps ==
    ASSUME PtyInv, PtyTypeOK', NEW g \in Generation, Deregister(g)
    PROVE  PtyInv'
<1>. DEFINE mine == {p \in Pane : pane[p].client = g}
<1>1. /\ link[g] = "cut" /\ up' = up /\ events' = events /\ pane' = pane
      /\ generation' = generation /\ connected' = connected /\ pty' = Dropped(mine)
      /\ \A h \in Generation : link'[h] = IF h = g THEN "gone" ELSE link[h]
  BY DEF Deregister, PtyInv, PtyTypeOK
<1>2. \A h \in Generation :
         IF link'[h] = "up"
         THEN /\ link[h] = "up" /\ up'[h] = up[h] /\ events'[h] = events[h]
              /\ connected' = connected
         ELSE up'[h] = <<>>
  BY <1>1 DEF PtyInv, LinksInOrder
<1>3. ASSUME NEW q \in Pane
      PROVE  /\ pty[q].state = "none" => pty'[q].state = "none"
             /\ pty'[q].state # "none" => pty'[q].id = pty[q].id
             /\ pane[q].client # g => pty'[q] = pty[q]
  <2>1. q \in mine <=> pane[q].client = g
    OBVIOUS
  <2>. HIDE DEF mine
  <2>. QED  BY <1>1, <2>1, DroppedFields DEF PtyInv
<1>4. \A q \in Pane : OnLine(q)' => pane'[q] = pane[q] /\ pty'[q] = pty[q]
  BY <1>1, <1>3 DEF OnLine
<1>. QED  BY <1>1, <1>2, <1>3, <1>4, EventsAlone, DownKeeps

LEMMA DaemonDiesKeeps ==
    ASSUME PtyInv, PtyTypeOK', DaemonDies
    PROVE  PtyInv'
<1>1. /\ events' = events /\ pane' = pane /\ generation' = generation
      /\ \A h \in Generation : link'[h] # "up" /\ up'[h] = <<>>
      /\ \A q \in Pane : pty'[q].state = "none"
  BY DEF DaemonDies, NoPty
<1>2. \A q \in Pane : ~OnLine(q)'
  BY <1>1 DEF OnLine
<1>. QED  BY <1>1, <1>2, EventsAlone, DownKeeps

-----------------------------------------------------------------------------
LEMMA InitEstablishes ==
    ASSUME Init
    PROVE  PtyInv
<1>1. \A g \in Generation : /\ link[g] = "unborn" /\ up[g] = <<>> /\ events[g] = <<>>
  BY DEF Init
<1>2. \A p \in Pane : /\ pane[p].client = 0 /\ pane[p].request = "none" /\ pane[p].id = 0
                      /\ ~pane[p].exited /\ pty[p].state = "none"
  <2>. DEFINE nothing == <<>>
              idle == [client |-> 0, request |-> "none", reply |-> 0, id |-> 0,
                       closed |-> FALSE, pending |-> nothing, typed |-> 0,
                       shown |-> nothing, exited |-> FALSE, missed |-> FALSE]
  <2>1. \A p \in Pane : pane[p] = idle
    BY DEF Init
  <2>2. \A p \in Pane : pty[p].state = "none"
    BY DEF Init, NoPty
  <2>3. /\ idle.client = 0 /\ idle.request = "none" /\ idle.id = 0 /\ ~idle.exited
    <3>. HIDE DEF nothing
    <3>. QED  OBVIOUS
  <2>. HIDE DEF idle
  <2>. QED  BY <2>1, <2>2, <2>3
<1>3. LinksInOrder
  BY <1>1, <1>2 DEF LinksInOrder, Init
<1>4. CreatesInOrder /\ PushesInOrder
  BY <1>1 DEF CreatesInOrder, PushesInOrder
<1>5. ASSUME NEW p \in Pane
      PROVE  PaneInv(p)
  BY <1>1, <1>2 DEF PaneInv, StepsInOrder, KnowsItsOwn, Owned, Gone, Heard, OnLine,
     InTable
<1>. QED  BY <1>3, <1>4, <1>5, InitTypes DEF PtyInv

LEMMA NextKeeps ==
    ASSUME PtyInv, [Next]_vars
    PROVE  PtyInv'
<1>0. PtyTypeOK'
  BY NextTypes DEF PtyInv
<1>1. ASSUME NEW p \in Pane,
             \/ OpenPane(p) \/ Resumes(p) \/ CreateTimesOut(p)
             \/ Input(p) \/ Shutdown(p)
             \/ ShellPrints(p) \/ ShellExits(p) \/ ReaderEnds(p)
      PROVE  PtyInv'
  BY <1>0, <1>1, OpenPaneKeeps, PtyCreatedKeeps, GivesUpKeeps, InputKeeps,
     ShutdownKeeps, ReaderKeeps
     DEF Resumes, PtyNotCreated, CreateTimesOut
<1>2. ASSUME NEW g \in Generation, Arrives(g) \/ Handles(g)
      PROVE  PtyInv'
  BY <1>0, <1>2, OutputArrivesKeeps, ExitArrivesKeeps, CreatePtyKeeps, WritePtyKeeps,
     ClosePtyKeeps
     DEF Arrives, Handles
<1>3. ASSUME NEW g \in Generation, LinkCut(g) \/ StreamEnds(g) \/ Deregister(g)
      PROVE  PtyInv'
  BY <1>0, <1>3, CutKeeps, StreamEndsKeeps, DeregisterKeeps
<1>4. CASE Connect \/ Restart \/ DaemonDies
  BY <1>0, <1>4, ConnectKeeps, CutKeeps, DaemonDiesKeeps
<1>5. CASE UNCHANGED vars
  <2>1. \A q \in Pane : PaneInv(q)'
    BY <1>5 DEF PtyInv, PaneInv, StepsInOrder, KnowsItsOwn, Owned, Gone, Heard,
       ExitComes, ClosesSoon, OnLine, Opened, InTable, vars, linkVars
  <2>. QED  BY <1>0, <1>5, <2>1
            DEF PtyInv, LinksInOrder, CreatesInOrder, PushesInOrder, vars, linkVars
<1>. QED  BY <1>1, <1>2, <1>3, <1>4, <1>5 DEF Next

LEMMA PtyInvariant == Spec => []PtyInv
<1>1. Init => PtyInv
  BY InitEstablishes
<1>2. PtyInv /\ [Next]_vars => PtyInv'
  BY NextKeeps
<1>. QED  BY <1>1, <1>2, PTL DEF Spec

\* Of a live connection only such PTYs are forgotten whose pane gave up its request or
\* was shut down before it had the answer; the others have an open pane that knows the
\* id, or will be told it, or a close on its way.
THEOREM OnlyUnansweredAreForgotten == Spec => []ForgottenOnlyUnanswered
<1>1. PtyInv => ForgottenOnlyUnanswered
  BY DEF PtyInv, PtyTypeOK, EventLoop, PaneInv, Owned, HasOwner, ForgottenOnlyUnanswered
<1>. QED  BY <1>1, PtyInvariant, PTL

\* A terminal that counts as exited has no shell that will run on, so its session may be
\* started again.
THEOREM ExitedAreGone == Spec => []ExitedMeansGone
<1>1. PtyInv => ExitedMeansGone
  BY DEF PtyInv, PaneInv, Gone, ExitedMeansGone
<1>. QED  BY <1>1, PtyInvariant, PTL

\* The end of its shell is on its way to every pane that holds the id, unless it came
\* too early.
THEOREM ExitsAreHeard == Spec => []ExitIsHeard
<1>1. PtyInv => ExitIsHeard
  BY DEF PtyInv, PaneInv, Heard, ExitIsHeard, ExitComes
<1>. QED  BY <1>1, PtyInvariant, PTL

-----------------------------------------------------------------------------
\* What is typed and what is printed.

\* The ids that belong to a pane: its PTY's, the one it knows, the one it is told.
Ids(p) == {pty[p].id, pane[p].id, pane[p].reply} \ {0}

IsWrite(m, n) == m.type = "write" /\ m.id = n
IsOutput(e, p) == e.type = "output" /\ e.of = p

\* On one connection ids are given once, and none on its way is ahead of the daemon.
IdsInOrder ==
    /\ \A p, q \in Pane :
          p # q /\ pane[p].client = pane[q].client => Ids(p) \cap Ids(q) = {}
    /\ \A p \in Pane : OnLine(p) => \A n \in Ids(p) : n < nextPty
    /\ \A g \in Generation : \A i \in DOMAIN up[g] :
          up[g][i].type = "write" => up[g][i].id < nextPty

\* A pane that waits has kept all that was typed; one that has no PTY takes no more.
Typing(p) ==
    /\ ~Opened(p) => pane[p].reply = 0 /\ ~pane[p].closed
    /\ pane[p].request = "created" => pane[p].reply # 0
    /\ pane[p].request \in {"none", "asked", "created", "failed"} =>
          /\ Len(pane[p].pending) = pane[p].typed
          /\ \A i \in 1..pane[p].typed : pane[p].pending[i] = i
    /\ pane[p].request = "refused" \/ (pane[p].request = "held" /\ pane[p].id = 0) =>
          pane[p].closed
    /\ pty[p].state = "none" => pty[p].id = 0
    /\ pty[p].state # "running" => Len(pty[p].got) = 0

\* The writes on their way continue what the shell has read, without a gap.
InputComes(p) ==
    LET g == pane[p].client
        n == pty[p].id
        read == Len(pty[p].got)
        W == {i \in DOMAIN up[g] : IsWrite(up[g][i], n)}
    IN  OnLine(p) /\ pty[p].state = "running" =>
          /\ \A i \in W : up[g][i].input >= read
          /\ \A i, j \in W : up[g][i].input = up[g][j].input => i = j
          /\ \A i \in W : up[g][i].input > read =>
                \E j \in W : j < i /\ up[g][j].input + 1 = up[g][i].input
          /\ pane[p].id = n =>
                /\ read <= pane[p].typed + 1
                /\ \A i \in W : up[g][i].input <= pane[p].typed
                /\ read <= pane[p].typed => \E i \in W : up[g][i].input = pane[p].typed

\* Nothing was written to a PTY whose pane waits for the id.
Unwritten(p) ==
    OnLine(p) /\ pane[p].request = "created" =>
        /\ \A i \in DOMAIN up[pane[p].client] :
              ~IsWrite(up[pane[p].client][i], pane[p].reply)
        /\ Len(pty[p].got) = 0

\* InputInOrder, of one pane.
ReadInOrder(p) == \A i \in DOMAIN pty[p].got : pty[p].got[i] = i - 1

InputOf(p) == Typing(p) /\ InputComes(p) /\ Unwritten(p) /\ ReadInOrder(p)

InputInv == IdsInOrder /\ \A p \in Pane : InputOf(p)

\* The numbers of the chunks that p has shown of its own shell, and of those on
\* their way.
Seen(p) ==
    {pane[p].shown[i][2] : i \in {j \in DOMAIN pane[p].shown : pane[p].shown[j][1] = p}}
Coming(p) ==
    {events[pane[p].client][i].chunk :
        i \in {j \in DOMAIN events[pane[p].client] :
                  IsOutput(events[pane[p].client][j], p)}}

\* A push carries the id of the pane it is for, which asks no longer.
PushFits(g, e) ==
    /\ e.id # 0
    /\ pane[e.of].request = "created" => pane[e.of].reply = e.id
    /\ pane[e.of].id # 0 => pane[e.of].id = e.id
    /\ \A p \in Pane : p # e.of /\ pane[p].client = g => e.id \notin Ids(p)
    /\ link[g] = "up" => e.id < nextPty
    /\ \A j \in DOMAIN up[g] : up[g][j].type = "create" => up[g][j].pane # e.of

PushIds == \A g \in Generation : \A i \in DOMAIN events[g] : PushFits(g, events[g][i])

\* A pane shows its own shell, or one of another connection.
ShownInOrder(p) ==
    /\ pane[p].id = 0 => Len(pane[p].shown) = 0
    /\ \A i \in DOMAIN pane[p].shown :
          LET q == pane[p].shown[i][1] IN
          /\ pane[q].client # 0
          /\ q # p => pane[q].client # pane[p].client
          /\ i > 1 /\ q = p /\ pane[p].shown[i - 1][1] = p /\ pane[p].client = generation =>
                pane[p].shown[i][2] = pane[p].shown[i - 1][2] + 1

\* The chunks on their way come in the order printed.
ChunksInOrder(p) ==
    \A i, j \in DOMAIN events[pane[p].client] :
        LET es == events[pane[p].client] IN
        i < j /\ IsOutput(es[i], p) /\ IsOutput(es[j], p) => es[i].chunk < es[j].chunk

\* Those shown and those on their way follow each other without a gap, up to the last
\* one printed.
OutputComes(p) ==
    /\ pane[p].client \in Generation => ChunksInOrder(p)
    /\ pane[p].client \in Generation /\ pane[p].client = generation /\ connected =>
          /\ \A i, j \in DOMAIN pane[p].shown :
                /\ i < j
                /\ pane[p].shown[i][1] = p
                /\ pane[p].shown[j][1] = p
                => pane[p].shown[i][2] < pane[p].shown[j][2]
          /\ \A s \in Seen(p), c \in Coming(p) : s < c
          /\ \A s, c \in Seen(p) \cup Coming(p) : s < c => s + 1 \in Seen(p) \cup Coming(p)
    /\ OnLine(p) /\ pty[p].state = "running" =>
          \A s \in Seen(p) \cup Coming(p) :
              /\ s <= pty[p].made
              /\ s < pty[p].made => s + 1 \in Seen(p) \cup Coming(p)

OutputInv ==
    /\ PushIds
    /\ \A p \in Pane : ShownInOrder(p) /\ OutputComes(p)

-----------------------------------------------------------------------------
\* The frame conditions under which what is typed keeps its order.

\* The writes to PTY n move up the queue or stay.
SameWrites(g, n) ==
    \E d \in {0, 1} :
        /\ \A i \in DOMAIN up'[g] : IsWrite(up'[g][i], n) =>
              i + d \in DOMAIN up[g] /\ up[g][i + d] = up'[g][i]
        /\ \A i \in DOMAIN up[g] : IsWrite(up[g][i], n) =>
              i - d \in DOMAIN up'[g] /\ up'[g][i - d] = up[g][i]

\* A pane keeps what it typed, unless it closes; or its request fails.
PaneKept(q) ==
    /\ pane'[q].client = pane[q].client
    /\ \/ /\ pane'[q].request = pane[q].request
          /\ pane'[q].reply = pane[q].reply
          /\ pane'[q].id = pane[q].id
          /\ pane'[q].closed = pane[q].closed
          /\ pane'[q].pending = pane[q].pending
          /\ pane'[q].typed = pane[q].typed
       \/ /\ pane[q].request # "none"
          /\ pane'[q].request \in {pane[q].request, "held", "refused"}
          /\ pane'[q].reply \in {pane[q].reply, 0}
          /\ pane'[q].request = "created" => pane'[q].reply = pane[q].reply
          /\ pane'[q].id = 0
          /\ pane'[q].closed
          /\ Len(pane'[q].pending) = 0
          /\ pane'[q].typed = 0
       \/ /\ pane[q].request = "asked" /\ pane'[q].request = "failed"
          /\ pane'[q].reply \in {pane[q].reply, 0}
          /\ pane'[q].id = pane[q].id
          /\ pane'[q].closed = pane[q].closed
          /\ pane'[q].pending = pane[q].pending
          /\ pane'[q].typed = pane[q].typed

\* A PTY keeps what it read, or its shell ends.
PtyKept(q) ==
    \/ /\ pty'[q].state = pty[q].state
       /\ pty'[q].id = pty[q].id
       /\ pty'[q].got = pty[q].got
    \/ /\ pty'[q].state # "running"
       /\ pty'[q].id \in {pty[q].id, 0}
       /\ pty'[q].state = "none" => pty'[q].id = 0
       /\ Len(pty'[q].got) = 0

WritesFor(q) ==
    OnLine(q)' =>
        /\ OnLine(q)
        /\ pty[q].state = "running" => SameWrites(pane[q].client, pty[q].id)
        /\ pane[q].request = "created" => SameWrites(pane[q].client, pane[q].reply)

LEMMA InputComesKept ==
    ASSUME PtyTypeOK, PtyTypeOK', NEW q \in Pane, InputComes(q),
           PaneKept(q), PtyKept(q), WritesFor(q),
           pty[q].state # "none" => pty[q].id # 0
    PROVE  InputComes(q)'
<1>. DEFINE g == pane[q].client
            n == pty[q].id
            read == Len(pty[q].got)
<1>. SUFFICES ASSUME OnLine(q)', pty'[q].state = "running"
              PROVE  InputComes(q)'
  BY DEF InputComes
<1>1. /\ OnLine(q) /\ pty[q].state = "running" /\ n # 0
      /\ pty'[q].id = n /\ pty'[q].got = pty[q].got /\ pane'[q].client = g
      /\ SameWrites(g, n) /\ g \in Generation
  BY DEF PaneKept, PtyKept, WritesFor, OnLine
<1>2. PICK d \in {0, 1} :
        /\ \A i \in DOMAIN up'[g] : IsWrite(up'[g][i], n) =>
              i + d \in DOMAIN up[g] /\ up[g][i + d] = up'[g][i]
        /\ \A i \in DOMAIN up[g] : IsWrite(up[g][i], n) =>
              i - d \in DOMAIN up'[g] /\ up'[g][i - d] = up[g][i]
  BY <1>1 DEF SameWrites
<1>3. /\ \A i \in DOMAIN up[g] : i \in Int
      /\ \A i \in DOMAIN up'[g] : i \in Int
  BY <1>1 DEF PtyTypeOK
<1>4. pane'[q].id = n => pane[q].id = n /\ pane'[q].typed = pane[q].typed
  BY <1>1 DEF PaneKept
<1>. DEFINE u == up[g]
            v == up'[g]
            W == {i \in DOMAIN u : IsWrite(u[i], n)}
            V == {i \in DOMAIN v : IsWrite(v[i], n)}
<1>5. /\ \A i \in W : u[i].input >= read
      /\ \A i, j \in W : u[i].input = u[j].input => i = j
      /\ \A i \in W : u[i].input > read =>
            \E j \in W : j < i /\ u[j].input + 1 = u[i].input
      /\ pane[q].id = n =>
            /\ read <= pane[q].typed + 1
            /\ \A i \in W : u[i].input <= pane[q].typed
            /\ read <= pane[q].typed => \E i \in W : u[i].input = pane[q].typed
  BY <1>1 DEF InputComes
<1>6. /\ \A i \in V : i + d \in W /\ u[i + d] = v[i]
      /\ \A i \in W : i - d \in V /\ v[i - d] = u[i]
  BY <1>2
<1>7. \A i \in W : (i - d) + d = i
  BY <1>3
<1>8. /\ \A i \in V : v[i].input >= read
      /\ \A i, j \in V : v[i].input = v[j].input => i = j
      /\ \A i \in V : v[i].input > read =>
            \E j \in V : j < i /\ v[j].input + 1 = v[i].input
      /\ pane[q].id = n =>
            /\ read <= pane[q].typed + 1
            /\ \A i \in V : v[i].input <= pane[q].typed
            /\ read <= pane[q].typed => \E i \in V : v[i].input = pane[q].typed
  <2>1. \A i \in V : v[i].input >= read
    BY <1>5, <1>6
  <2>2. ASSUME NEW i \in V, NEW j \in V, v[i].input = v[j].input
        PROVE  i = j
    <3>1. i + d = j + d
      BY <1>5, <1>6, <2>2
    <3>. QED  BY <1>3, <3>1
  <2>3. ASSUME NEW i \in V, v[i].input > read
        PROVE  \E j \in V : j < i /\ v[j].input + 1 = v[i].input
    <3>1. PICK k \in W : k < i + d /\ u[k].input + 1 = u[i + d].input
      BY <1>5, <1>6, <2>3
    <3>2. k - d \in V /\ v[k - d].input + 1 = v[i].input
      BY <1>6, <3>1
    <3>3. k - d < i
      BY <1>3, <3>1
    <3>. QED  BY <3>2, <3>3
  <2>4. ASSUME pane[q].id = n, NEW i \in V
        PROVE  v[i].input <= pane[q].typed
    BY <1>5, <1>6, <2>4
  <2>5. ASSUME pane[q].id = n, read <= pane[q].typed
        PROVE  \E i \in V : v[i].input = pane[q].typed
    <3>1. PICK k \in W : u[k].input = pane[q].typed
      BY <1>5, <2>5
    <3>. QED  BY <1>6, <3>1
  <2>. QED  BY <1>5, <2>1, <2>2, <2>3, <2>4, <2>5
<1>. QED  BY <1>1, <1>4, <1>8 DEF InputComes

LEMMA InputFrame ==
    ASSUME PtyTypeOK, PtyTypeOK', NEW q \in Pane, InputOf(q), StepsInOrder(q),
           PaneKept(q), PtyKept(q), WritesFor(q)
    PROVE  InputOf(q)'
<1>1. InputComes(q)'
  BY InputComesKept DEF InputOf, StepsInOrder
<1>2. Typing(q)'
  <2>1. /\ Len(pane'[q].pending) = 0 /\ pane'[q].typed = 0 =>
             \A i \in 1..pane'[q].typed : pane'[q].pending[i] = i
    OBVIOUS
  <2>. QED  BY <2>1 DEF InputOf, Typing, PaneKept, PtyKept, Opened
<1>3. Unwritten(q)'
  <2>. SUFFICES ASSUME OnLine(q)', pane'[q].request = "created"
                PROVE  /\ \A i \in DOMAIN up'[pane'[q].client] :
                              ~IsWrite(up'[pane'[q].client][i], pane'[q].reply)
                       /\ Len(pty'[q].got) = 0
    BY DEF Unwritten, IsWrite
  <2>1. /\ pane[q].request = "created" /\ pane'[q].reply = pane[q].reply
        /\ pane'[q].client = pane[q].client /\ OnLine(q)
        /\ SameWrites(pane[q].client, pane[q].reply)
    BY DEF PaneKept, WritesFor
  <2>2. Len(pty'[q].got) = 0
    BY <2>1 DEF InputOf, Unwritten, PtyKept
  <2>. QED  BY <2>1, <2>2 DEF InputOf, Unwritten, SameWrites
<1>4. ReadInOrder(q)'
  <2>1. pty'[q].got \in Seq(Nat)
    BY DEF PtyTypeOK, Terminal
  <2>2. Len(pty'[q].got) = 0 => DOMAIN pty'[q].got = {}
    BY <2>1
  <2>. QED  BY <2>2 DEF InputOf, ReadInOrder, PtyKept
<1>. QED  BY <1>1, <1>2, <1>3, <1>4 DEF InputOf

\* No new id, and no write but with a known one.
LEMMA IdsFrame ==
    ASSUME PtyTypeOK, PtyTypeOK', IdsInOrder, nextPty' \in {nextPty, nextPty + 1},
           \A q \in Pane : /\ pane'[q].client = pane[q].client
                           /\ pane'[q].id \in {pane[q].id, pane[q].reply, 0}
                           /\ pane'[q].reply \in {pane[q].reply, 0}
                           /\ pty'[q].id \in {pty[q].id, 0}
                           /\ OnLine(q)' => OnLine(q),
           \A g \in Generation : \A i \in DOMAIN up'[g] : up'[g][i].type = "write" =>
              \/ up'[g][i].id < nextPty
              \/ \E j \in DOMAIN up[g] : up[g][j] = up'[g][i]
    PROVE  IdsInOrder'
<1>1. \A q \in Pane : Ids(q)' \subseteq Ids(q)
  BY DEF Ids
<1>2. ASSUME NEW n \in Nat, n < nextPty PROVE n < nextPty'
  BY <1>2 DEF PtyTypeOK
<1>3. ASSUME NEW q \in Pane PROVE Ids(q) \subseteq Nat
  <2>1. pty[q] \in Terminal /\ pane[q] \in EventLoop
    BY DEF PtyTypeOK
  <2>. QED  BY <2>1 DEF Ids, Terminal, EventLoop
<1>4. ASSUME NEW g \in Generation, NEW i \in DOMAIN up'[g], up'[g][i].type = "write"
      PROVE  up'[g][i].id < nextPty'
  <2>1. up'[g][i] \in Message
    BY DEF PtyTypeOK
  <2>2. up'[g][i].id \in Nat
    BY <1>4, <2>1 DEF Message
  <2>. QED  BY <1>2, <1>4, <2>2 DEF IdsInOrder
<1>5. ASSUME NEW q \in Pane, OnLine(q)', NEW n \in Ids(q)'
      PROVE  n < nextPty'
  BY <1>1, <1>2, <1>3, <1>5 DEF IdsInOrder
<1>. QED  BY <1>1, <1>4, <1>5 DEF IdsInOrder

\* The queues after a send, a receipt, or nothing.
LEMMA UpSame ==
    ASSUME PtyTypeOK, up' = up
    PROVE  \A g \in Generation, n \in Nat : SameWrites(g, n)
<1>1. \A h \in Generation : \A i \in DOMAIN up[h] : i \in Nat /\ i + 0 = i /\ i - 0 = i
  BY DEF PtyTypeOK
<1>. QED  BY <1>1 DEF SameWrites

\* Where the messages of an enlarged queue come from.
LEMMA Enlarged ==
    ASSUME NEW S, NEW s \in Seq(S), NEW t \in Seq(S)
    PROVE  /\ \A i \in DOMAIN (s \o t) :
                 \/ i \in DOMAIN s /\ (s \o t)[i] = s[i]
                 \/ i \notin DOMAIN s /\ i - Len(s) \in DOMAIN t
                    /\ (s \o t)[i] = t[i - Len(s)]
           /\ \A i \in DOMAIN s : i \in DOMAIN (s \o t) /\ (s \o t)[i] = s[i]
           /\ \A i \in DOMAIN t :
                 Len(s) + i \in DOMAIN (s \o t) /\ (s \o t)[Len(s) + i] = t[i]
<1>1. /\ DOMAIN s = 1..Len(s) /\ Len(s) \in Nat
      /\ DOMAIN t = 1..Len(t) /\ Len(t) \in Nat
      /\ DOMAIN (s \o t) = 1..(Len(s) + Len(t))
      /\ \A i \in 1..(Len(s) + Len(t)) :
            (s \o t)[i] = IF i <= Len(s) THEN s[i] ELSE t[i - Len(s)]
  BY ConcatProperties
<1>2. ASSUME NEW i \in DOMAIN t
      PROVE  Len(s) + i \in DOMAIN (s \o t) /\ (s \o t)[Len(s) + i] = t[i]
  <2>1. /\ Len(s) + i \in 1..(Len(s) + Len(t)) /\ ~(Len(s) + i <= Len(s))
        /\ (Len(s) + i) - Len(s) = i
    BY <1>1
  <2>. QED  BY <1>1, <2>1
<1>. QED  BY <1>1, <1>2

LEMMA SentSame ==
    ASSUME PtyTypeOK, NEW g \in 0..MaxGeneration, NEW msgs \in Seq(Message),
           up' = Sent(g, msgs), NEW n \in Nat,
           \A k \in DOMAIN msgs : ~IsWrite(msgs[k], n)
    PROVE  \A h \in Generation : SameWrites(h, n)
<1>1. CASE g \in Generation /\ link[g] = "up"
  <2>1. up[g] \in Seq(Message) /\ up'[g] = up[g] \o msgs
    BY <1>1 DEF Sent, PtyTypeOK
  <2>2. \A h \in Generation : h # g => up'[h] = up[h]
    BY <1>1 DEF Sent, PtyTypeOK
  <2>3. \A h \in Generation : \A i \in DOMAIN up[h] : i \in Nat /\ i + 0 = i /\ i - 0 = i
    BY DEF PtyTypeOK
  <2>4. /\ \A i \in DOMAIN up'[g] : IsWrite(up'[g][i], n) =>
              i \in DOMAIN up[g] /\ up[g][i] = up'[g][i]
        /\ \A i \in DOMAIN up[g] : i \in DOMAIN up'[g] /\ up'[g][i] = up[g][i]
    BY <2>1, Enlarged
  <2>5. SameWrites(g, n)
    <3>1. /\ \A i \in DOMAIN up'[g] : IsWrite(up'[g][i], n) =>
              i + 0 \in DOMAIN up[g] /\ up[g][i + 0] = up'[g][i]
          /\ \A i \in DOMAIN up[g] : IsWrite(up[g][i], n) =>
              i - 0 \in DOMAIN up'[g] /\ up'[g][i - 0] = up[g][i]
      BY <1>1, <2>3, <2>4
    <3>. QED  BY <3>1 DEF SameWrites
  <2>6. ASSUME NEW h \in Generation, h # g PROVE SameWrites(h, n)
    BY <2>2, <2>3, <2>6 DEF SameWrites
  <2>. QED  BY <2>5, <2>6
<1>2. CASE ~(g \in Generation /\ link[g] = "up")
  BY <1>2, UpSame DEF Sent
<1>. QED  BY <1>1, <1>2

\* The messages that are new in a queue are those that were sent.
LEMMA SentFrom ==
    ASSUME PtyTypeOK, NEW g \in 0..MaxGeneration, NEW msgs \in Seq(Message),
           up' = Sent(g, msgs), NEW h \in Generation, NEW i \in DOMAIN up'[h]
    PROVE  \/ \E j \in DOMAIN up[h] : up[h][j] = up'[h][i]
           \/ h = g /\ link[g] = "up" /\ \E k \in DOMAIN msgs : msgs[k] = up'[h][i]
<1>1. CASE h = g /\ link[g] = "up"
  <2>1. up[g] \in Seq(Message) /\ up'[g] = up[g] \o msgs
    BY <1>1 DEF Sent, PtyTypeOK
  <2>. QED  BY <1>1, <2>1, Enlarged
<1>2. CASE ~(h = g /\ link[g] = "up")
  BY <1>2 DEF Sent, PtyTypeOK
<1>. QED  BY <1>1, <1>2

LEMMA TakenSame ==
    ASSUME PtyTypeOK, NEW g \in Generation, NEW type, Receives(g, type),
           NEW n \in Nat, ~IsWrite(Head(up[g]), n)
    PROVE  \A h \in Generation : SameWrites(h, n)
<1>1. /\ \A h \in Generation : h # g => up'[h] = up[h]
      /\ \A i \in DOMAIN up'[g] : i + 1 \in DOMAIN up[g] /\ up[g][i + 1] = up'[g][i]
      /\ \A i \in DOMAIN up[g] :
            i # 1 => i - 1 \in DOMAIN up'[g] /\ up'[g][i - 1] = up[g][i]
      /\ up[g][1] = Head(up[g])
  BY TakenKeeps
<1>2. \A h \in Generation : \A i \in DOMAIN up[h] : i \in Nat /\ i + 0 = i /\ i - 0 = i
  BY DEF PtyTypeOK
<1>3. SameWrites(g, n)
  BY <1>1 DEF SameWrites
<1>4. ASSUME NEW h \in Generation, h # g PROVE SameWrites(h, n)
  BY <1>1, <1>2, <1>4 DEF SameWrites
<1>. QED  BY <1>3, <1>4

\* Nothing is typed, and nothing is sent but closes.
QuietInput ==
    /\ \A q \in Pane : PaneKept(q) /\ PtyKept(q) /\ WritesFor(q)
    /\ \A g \in Generation : \A i \in DOMAIN up'[g] : up'[g][i].type # "close" =>
          \E j \in DOMAIN up[g] : up[g][j] = up'[g][i]

\* A pane keeps what it shows, unless it closes.
ShownStays ==
    \A q \in Pane :
        \/ pane'[q].id = pane[q].id /\ pane'[q].shown = pane[q].shown
        \/ pane'[q].id = 0 /\ Len(pane'[q].shown) = 0

LEMMA QuietKeepsInput ==
    ASSUME PtyInv, PtyTypeOK', InputInv, QuietInput,
           \/ nextPty' \in {nextPty, nextPty + 1}
           \/ \A g \in Generation : link'[g] # "up" /\ up'[g] = <<>>
    PROVE  InputInv'
<1>1. ASSUME NEW q \in Pane PROVE InputOf(q)'
  BY InputFrame DEF QuietInput, InputInv, PtyInv, PaneInv
<1>2. \A q \in Pane : /\ pane'[q].client = pane[q].client
                      /\ pane'[q].id \in {pane[q].id, pane[q].reply, 0}
                      /\ pane'[q].reply \in {pane[q].reply, 0}
                      /\ pty'[q].id \in {pty[q].id, 0}
                      /\ OnLine(q)' => OnLine(q)
  BY DEF QuietInput, PaneKept, PtyKept, WritesFor
<1>3. IdsInOrder'
  <2>1. CASE nextPty' \in {nextPty, nextPty + 1}
    BY <1>2, <2>1, IdsFrame DEF PtyInv, InputInv, QuietInput
  <2>2. CASE \A g \in Generation : link'[g] # "up" /\ up'[g] = <<>>
    <3>1. \A q \in Pane : ~OnLine(q)' /\ Ids(q)' \subseteq Ids(q)
      BY <1>2, <2>2 DEF OnLine, Ids
    <3>2. \A g \in Generation : DOMAIN up'[g] = {}
      BY <2>2
    <3>. QED  BY <1>2, <3>1, <3>2 DEF InputInv, IdsInOrder
  <2>. QED  BY <2>1, <2>2
<1>. QED  BY <1>1, <1>3 DEF InputInv

\* All that a closed event loop has forgotten.
LEMMA OverForgets ==
    ASSUME NEW r \in EventLoop
    PROVE  /\ Over(r).closed /\ Over(r).typed = 0 /\ Len(Over(r).pending) = 0
           /\ Len(Over(r).shown) = 0
<1>. DEFINE nothing == <<>>
            blank == <<>>
            over == [r EXCEPT !.id = 0, !.closed = TRUE, !.pending = nothing,
                               !.typed = 0, !.shown = blank]
<1>1. Over(r) = over /\ Len(nothing) = 0 /\ Len(blank) = 0
  BY DEF Over
<1>. HIDE DEF nothing, blank
<1>2. /\ over.closed /\ over.typed = 0 /\ over.pending = nothing
      /\ over.shown = blank
  BY DEF EventLoop
<1>. QED  BY <1>1, <1>2

\* What a dropped PTY has forgotten.
LEMMA DroppedForgets ==
    ASSUME PtyTypeOK, NEW S, pty' = Dropped(S), NEW q \in Pane
    PROVE  PtyKept(q)
<1>. DEFINE nothing == <<>>
            t == [pty[q] EXCEPT !.state = "killed", !.made = 0, !.got = nothing]
<1>1. pty[q] \in Terminal /\ Len(nothing) = 0
  BY DEF PtyTypeOK
<1>2. pty'[q] = IF q \in S /\ pty[q].state = "running" THEN t
                ELSE IF q \in S /\ pty[q].state = "exited" THEN NoPty ELSE pty[q]
  BY DEF Dropped
<1>3. t.state = "killed" /\ t.id = pty[q].id /\ t.got = nothing
  <2>. HIDE DEF nothing
  <2>. QED  BY <1>1 DEF Terminal
<1>4. NoPty.state = "none" /\ NoPty.id = 0 /\ Len(NoPty.got) = 0
  BY DEF NoPty
<1>. HIDE DEF t
<1>. QED  BY <1>1, <1>2, <1>3, <1>4 DEF PtyKept

\* The queue of one connection stays, or grows by messages that are no writes to n.
LEMMA QueueSame ==
    ASSUME PtyTypeOK, NEW g \in Generation, up'[g] = up[g], NEW n
    PROVE  SameWrites(g, n)
<1>1. \A i \in DOMAIN up[g] : i \in Nat /\ i + 0 = i /\ i - 0 = i
  BY DEF PtyTypeOK
<1>. QED  BY <1>1 DEF SameWrites

LEMMA QueueGrows ==
    ASSUME PtyTypeOK, NEW g \in Generation, NEW msg \in Message,
           up'[g] = Append(up[g], msg), NEW n, ~IsWrite(msg, n)
    PROVE  /\ SameWrites(g, n)
           /\ \A i \in DOMAIN up'[g] :
                 up'[g][i] = msg \/ \E j \in DOMAIN up[g] : up[g][j] = up'[g][i]
<1>1. /\ DOMAIN up[g] = 1..Len(up[g]) /\ Len(up[g]) \in Nat
      /\ DOMAIN up'[g] = 1..(Len(up[g]) + 1)
      /\ \A i \in DOMAIN up[g] : up'[g][i] = up[g][i]
      /\ up'[g][Len(up[g]) + 1] = msg
  <2>1. up[g] \in Seq(Message)
    BY DEF PtyTypeOK
  <2>. QED  BY <2>1
<1>2. \A i \in DOMAIN up[g] : i \in DOMAIN up'[g] /\ i + 0 = i /\ i - 0 = i
  BY <1>1
<1>3. \A i \in DOMAIN up'[g] : i \in DOMAIN up[g] \/ i = Len(up[g]) + 1
  BY <1>1
<1>4. SameWrites(g, n)
  <2>1. /\ \A i \in DOMAIN up'[g] : IsWrite(up'[g][i], n) =>
              i + 0 \in DOMAIN up[g] /\ up[g][i + 0] = up'[g][i]
        /\ \A i \in DOMAIN up[g] : IsWrite(up[g][i], n) =>
              i - 0 \in DOMAIN up'[g] /\ up'[g][i - 0] = up[g][i]
    BY <1>1, <1>2, <1>3
  <2>. QED  BY <2>1 DEF SameWrites
<1>. QED  BY <1>1, <1>3, <1>4

\* Queues that stay: the writes stay.
LEMMA UpQuiet ==
    ASSUME PtyTypeOK, up' = up, NEW q \in Pane, OnLine(q)' => OnLine(q)
    PROVE  WritesFor(q)
  BY QueueSame DEF WritesFor, OnLine

-----------------------------------------------------------------------------
\* The steps in which nothing is typed.

LEMMA GivesUpQuiet ==
    ASSUME PtyInv, NEW p \in Pane, Opened(p), BootstrapFails(p) \/ Fails(p)
    PROVE  QuietInput /\ ShownStays
<1>1. PtyTypeOK /\ pane[p] \in EventLoop /\ Over(pane[p]) \in EventLoop
  BY OverType DEF PtyInv, PtyTypeOK
<1>2. UNCHANGED linkVars /\ pty' = pty /\ up' = up /\ link' = link
  BY DEF BootstrapFails, Fails, linkVars
<1>. DEFINE over == Over(pane[p])
            r1 == [over EXCEPT !.request = "held", !.reply = 0, !.exited = TRUE]
            r2 == [over EXCEPT !.request = "refused", !.exited = TRUE]
<1>3. /\ over.client = pane[p].client /\ over.request = pane[p].request
      /\ over.reply = pane[p].reply /\ over.id = 0
      /\ over.closed /\ over.typed = 0 /\ Len(over.pending) = 0 /\ Len(over.shown) = 0
  BY <1>1, OverFields, OverForgets
<1>4. over \in EventLoop
  BY <1>1
<1>. HIDE DEF over
<1>5. \A r \in {r1, r2} :
         /\ r.client = over.client /\ r.request \in {"held", "refused"}
         /\ r.reply \in {over.reply, 0} /\ r.id = over.id /\ r.closed = over.closed
         /\ r.typed = over.typed /\ r.pending = over.pending /\ r.shown = over.shown
  BY <1>4 DEF EventLoop
<1>6. \E r \in {r1, r2} : pane' = [pane EXCEPT ![p] = r]
  BY DEF BootstrapFails, Fails, over
<1>. HIDE DEF r1, r2
<1>7. pane[p].request # "none" /\ \A q \in Pane \ {p} : pane'[q] = pane[q]
  BY <1>1, <1>6 DEF Opened, PtyTypeOK
<1>8. PICK r \in {r1, r2} : pane'[p] = r
  BY <1>1, <1>6 DEF PtyTypeOK
<1>9. \A q \in Pane : PaneKept(q)
  BY <1>3, <1>5, <1>7, <1>8 DEF PaneKept
<1>10. \A q \in Pane : WritesFor(q)
  BY <1>1, <1>2, <1>9, UpQuiet DEF OnLine, PaneKept
<1>11. \A q \in Pane : PtyKept(q)
  BY <1>2 DEF PtyKept
<1>12. ShownStays
  BY <1>3, <1>5, <1>7, <1>8 DEF ShownStays
<1>. QED  BY <1>2, <1>9, <1>10, <1>11, <1>12 DEF QuietInput

LEMMA ShutdownQuiet ==
    ASSUME PtyInv, NEW p \in Pane, Shutdown(p)
    PROVE  QuietInput /\ ShownStays
<1>1. PtyTypeOK /\ pane[p] \in EventLoop /\ pane[p].client \in 0..MaxGeneration
  BY DEF PtyInv, PtyTypeOK, EventLoop
<1>2. UNCHANGED linkVars /\ pty' = pty /\ link' = link
  BY DEF Shutdown, linkVars
<1>. DEFINE over == Over(pane[p])
<1>3. /\ over.client = pane[p].client /\ over.request = pane[p].request
      /\ over.reply = pane[p].reply /\ over.id = 0
      /\ over.closed /\ over.typed = 0 /\ Len(over.pending) = 0 /\ Len(over.shown) = 0
  BY <1>1, OverFields, OverForgets
<1>4. /\ pane' = [pane EXCEPT ![p] = over] /\ pane[p].request # "none"
      /\ up' = up \/ up' = Sent(pane[p].client, <<CloseMsg(pane[p].id)>>)
  BY DEF Shutdown, Opened
<1>. HIDE DEF over
<1>5. pane'[p] = over /\ \A q \in Pane \ {p} : pane'[q] = pane[q]
  BY <1>1, <1>4 DEF PtyTypeOK
<1>6. \A q \in Pane : PaneKept(q)
  BY <1>3, <1>4, <1>5 DEF PaneKept
<1>7. \A q \in Pane : PtyKept(q)
  BY <1>2 DEF PtyKept
<1>8. ShownStays
  BY <1>3, <1>5 DEF ShownStays
<1>9. CASE up' = up
  <2>1. \A q \in Pane : WritesFor(q)
    BY <1>1, <1>2, <1>6, <1>9, UpQuiet DEF OnLine, PaneKept
  <2>. QED  BY <1>6, <1>7, <1>8, <1>9, <2>1 DEF QuietInput
<1>10. CASE up' = Sent(pane[p].client, <<CloseMsg(pane[p].id)>>)
  <2>. DEFINE msgs == <<CloseMsg(pane[p].id)>>
  <2>1. msgs \in Seq(Message) /\ \A k \in DOMAIN msgs : msgs[k].type = "close"
    BY <1>1 DEF CloseMsg, Message, EventLoop
  <2>. HIDE DEF msgs
  <2>2. up' = Sent(pane[p].client, msgs)
    BY <1>10 DEF msgs
  <2>3. \A h \in Generation, n \in Nat : SameWrites(h, n)
    BY <1>1, <2>1, <2>2, SentSame DEF IsWrite
  <2>4. \A q \in Pane : WritesFor(q)
    <3>1. \A q \in Pane : pty[q].id \in Nat /\ pane[q].reply \in Nat
      BY <1>1 DEF PtyTypeOK, Terminal, EventLoop
    <3>. QED  BY <1>2, <1>6, <2>3, <3>1 DEF WritesFor, OnLine, PaneKept
  <2>5. \A h \in Generation : \A i \in DOMAIN up'[h] : up'[h][i].type # "close" =>
          \E j \in DOMAIN up[h] : up[h][j] = up'[h][i]
    BY <1>1, <2>1, <2>2, SentFrom
  <2>. QED  BY <1>6, <1>7, <1>8, <2>4, <2>5 DEF QuietInput
<1>. QED  BY <1>4, <1>9, <1>10

LEMMA ExitArrivesQuiet ==
    ASSUME PtyInv, NEW g \in Generation, ExitArrives(g)
    PROVE  QuietInput /\ ShownStays
<1>. DEFINE e == Head(events[g])
            heard == IF connected THEN {p \in Pane : Listening(p, e)} ELSE {}
<1>1. PtyTypeOK /\ e \in Push
  BY HeadType DEF PtyInv, ExitArrives
<1>2. /\ UNCHANGED linkVars /\ pty' = pty /\ link' = link
      /\ pane' = Notified(e, heard)
      /\ \A h \in Generation : up'[h] = up[h] \/ up'[h] = Append(up[h], CloseMsg(e.id))
  BY DEF ExitArrives, linkVars
<1>3. \A p \in heard : pane[p].id # 0
  BY DEF Listening
<1>4. CloseMsg(e.id) \in Message /\ CloseMsg(e.id).type = "close"
  BY <1>1 DEF CloseMsg, Message, Push
<1>. HIDE DEF e, heard
<1>5. ASSUME NEW q \in Pane
      PROVE  /\ PaneKept(q)
             /\ \/ pane'[q].id = pane[q].id /\ pane'[q].shown = pane[q].shown
                \/ pane'[q].id = 0 /\ Len(pane'[q].shown) = 0
  <2>1. pane[q] \in EventLoop
    BY <1>1 DEF PtyTypeOK
  <2>2. CASE q \in heard
    <3>. DEFINE over == Over(pane[q])
                r == [over EXCEPT !.exited = TRUE]
    <3>1. /\ over.client = pane[q].client /\ over.request = pane[q].request
          /\ over.reply = pane[q].reply /\ over.id = 0
          /\ over.closed /\ over.typed = 0 /\ Len(over.pending) = 0 /\ Len(over.shown) = 0
          /\ over \in EventLoop
      BY <2>1, OverFields, OverForgets
    <3>2. pane'[q] = r
      BY <1>2, <2>2 DEF Notified
    <3>. HIDE DEF over
    <3>3. /\ r.client = over.client /\ r.request = over.request
          /\ r.reply = over.reply /\ r.id = over.id
          /\ r.closed = over.closed /\ r.typed = over.typed
          /\ r.pending = over.pending /\ r.shown = over.shown
      BY <3>1 DEF EventLoop
    <3>. HIDE DEF r
    <3>4. pane[q].request # "none"
      BY <1>3, <2>2 DEF PtyInv, PaneInv, StepsInOrder, Opened
    <3>. QED  BY <3>1, <3>2, <3>3, <3>4 DEF PaneKept
  <2>3. CASE q \notin heard
    <3>. DEFINE r == [pane[q] EXCEPT !.missed = TRUE]
    <3>1. pane'[q] = pane[q] \/ pane'[q] = r
      BY <1>2, <2>3 DEF Notified
    <3>2. /\ r.client = pane[q].client /\ r.request = pane[q].request
          /\ r.reply = pane[q].reply /\ r.id = pane[q].id
          /\ r.closed = pane[q].closed /\ r.typed = pane[q].typed
          /\ r.pending = pane[q].pending /\ r.shown = pane[q].shown
      BY <2>1 DEF EventLoop
    <3>. HIDE DEF r
    <3>. QED  BY <3>1, <3>2 DEF PaneKept
  <2>. QED  BY <2>2, <2>3
<1>6. \A q \in Pane : PtyKept(q)
  BY <1>2 DEF PtyKept
<1>7. ASSUME NEW q \in Pane PROVE WritesFor(q)
  <2>1. OnLine(q)' => OnLine(q)
    BY <1>2, <1>5 DEF OnLine, PaneKept
  <2>2. \A h \in Generation, n \in Nat : SameWrites(h, n)
    <3>1. \A n \in Nat : ~IsWrite(CloseMsg(e.id), n)
      BY <1>4 DEF IsWrite
    <3>. QED  BY <1>1, <1>2, <1>4, <3>1, QueueSame, QueueGrows
  <2>3. pty[q].id \in Nat /\ pane[q].reply \in Nat
    BY <1>1 DEF PtyTypeOK, Terminal, EventLoop
  <2>. QED  BY <2>1, <2>2, <2>3 DEF WritesFor, OnLine
<1>8. ASSUME NEW h \in Generation, NEW i \in DOMAIN up'[h], up'[h][i].type # "close"
      PROVE  \E j \in DOMAIN up[h] : up[h][j] = up'[h][i]
  <2>1. CASE up'[h] = up[h]
    BY <2>1
  <2>2. CASE up'[h] = Append(up[h], CloseMsg(e.id))
    <3>1. ~IsWrite(CloseMsg(e.id), 0)
      BY <1>4 DEF IsWrite
    <3>2. up'[h][i] # CloseMsg(e.id)
      BY <1>4, <1>8
    <3>. QED  BY <1>1, <1>4, <2>2, <3>1, <3>2, QueueGrows
  <2>. QED  BY <1>2, <2>1, <2>2
<1>. QED  BY <1>5, <1>6, <1>7, <1>8 DEF QuietInput, ShownStays

LEMMA OutputArrivesQuiet ==
    ASSUME PtyInv, NEW g \in Generation, OutputArrives(g)
    PROVE  QuietInput
<1>1. PtyTypeOK /\ UNCHANGED linkVars /\ pty' = pty /\ link' = link /\ up' = up
  BY DEF PtyInv, OutputArrives, linkVars
<1>2. ASSUME NEW q \in Pane PROVE PaneKept(q)
  <2>. DEFINE e == Head(events[g])
              more == Append(pane[q].shown, <<e.of, e.chunk>>)
              r == [pane[q] EXCEPT !.shown = more]
  <2>1. pane'[q] = pane[q] \/ pane'[q] = r
    BY DEF OutputArrives
  <2>2. pane[q] \in EventLoop
    BY <1>1 DEF PtyTypeOK
  <2>. HIDE DEF more
  <2>. QED  BY <2>1, <2>2 DEF EventLoop, PaneKept
<1>3. \A q \in Pane : WritesFor(q)
  BY <1>1, <1>2, UpQuiet DEF OnLine, PaneKept
<1>4. \A q \in Pane : PtyKept(q)
  BY <1>1 DEF PtyKept
<1>. QED  BY <1>1, <1>2, <1>3, <1>4 DEF QuietInput

LEMMA PaneSame ==
    ASSUME pane' = pane
    PROVE  ShownStays /\ \A q \in Pane : PaneKept(q)
  BY DEF PaneKept, ShownStays

LEMMA ClosePtyQuiet ==
    ASSUME PtyInv, NEW g \in Generation, ClosePty(g)
    PROVE  QuietInput /\ ShownStays
<1>1. /\ PtyTypeOK /\ UNCHANGED linkVars /\ link' = link /\ pane' = pane
      /\ Receives(g, "close") /\ Head(up[g]).type = "close"
      /\ pty' = Dropped(Found(g, Head(up[g]).id))
  BY DEF PtyInv, ClosePty, linkVars, Receives
<1>2. \A q \in Pane : PtyKept(q)
  BY <1>1, DroppedForgets
<1>3. \A h \in Generation, n \in Nat : SameWrites(h, n)
  BY <1>1, TakenSame DEF IsWrite
<1>4. \A q \in Pane : WritesFor(q)
  <2>1. \A q \in Pane : pty[q].id \in Nat /\ pane[q].reply \in Nat
    BY <1>1 DEF PtyTypeOK, Terminal, EventLoop
  <2>. QED  BY <1>1, <1>3, <2>1 DEF WritesFor, OnLine
<1>5. \A h \in Generation : \A i \in DOMAIN up'[h] :
          \E j \in DOMAIN up[h] : up[h][j] = up'[h][i]
  BY <1>1, TakenKeeps
<1>. QED  BY <1>1, <1>2, <1>4, <1>5, PaneSame DEF QuietInput

LEMMA ReaderQuiet ==
    ASSUME PtyInv, NEW p \in Pane, ShellPrints(p) \/ ShellExits(p) \/ ReaderEnds(p)
    PROVE  QuietInput /\ ShownStays
<1>1. /\ PtyTypeOK /\ UNCHANGED linkVars /\ link' = link /\ pane' = pane /\ up' = up
      /\ pty[p] \in Terminal
  BY DEF PtyInv, PtyTypeOK, ShellPrints, ShellExits, ReaderEnds, linkVars
<1>. DEFINE nothing == <<>>
            more == pty[p].made + 1
            t1 == [pty[p] EXCEPT !.made = more]
            t2 == [pty[p] EXCEPT !.state = "exited", !.made = 0, !.got = nothing]
<1>2. /\ \A q \in Pane \ {p} : pty'[q] = pty[q]
      /\ pty'[p] \in {t1, t2, NoPty}
  BY <1>1 DEF ShellPrints, ShellExits, ReaderEnds, PtyTypeOK
<1>3. Len(nothing) = 0 /\ NoPty.state = "none" /\ NoPty.id = 0 /\ Len(NoPty.got) = 0
  BY DEF NoPty
<1>4. /\ t1.state = pty[p].state /\ t1.id = pty[p].id /\ t1.got = pty[p].got
      /\ t2.state = "exited" /\ t2.id = pty[p].id /\ t2.got = nothing
  <2>. HIDE DEF nothing, more
  <2>. QED  BY <1>1 DEF Terminal
<1>. HIDE DEF t1, t2, nothing
<1>5. \A q \in Pane : PtyKept(q)
  BY <1>2, <1>3, <1>4 DEF PtyKept
<1>6. \A q \in Pane : WritesFor(q)
  BY <1>1, UpQuiet DEF OnLine
<1>. QED  BY <1>1, <1>5, <1>6, PaneSame DEF QuietInput

\* Connections that come and go.
LEMMA LinksQuiet ==
    ASSUME PtyTypeOK, \A q \in Pane : PaneKept(q) /\ PtyKept(q),
           \A h \in Generation : \/ up'[h] = up[h]
                                 \/ up'[h] = <<>> /\ link'[h] # "up",
           \A q \in Pane : OnLine(q)' => OnLine(q)
    PROVE  QuietInput
<1>1. ASSUME NEW q \in Pane PROVE WritesFor(q)
  <2>. SUFFICES ASSUME OnLine(q)' PROVE WritesFor(q)
    BY DEF WritesFor
  <2>1. /\ OnLine(q) /\ pane[q].client \in Generation
        /\ up'[pane[q].client] = up[pane[q].client]
    BY DEF OnLine, PaneKept
  <2>. QED  BY <2>1, QueueSame DEF WritesFor
<1>2. \A h \in Generation : \A i \in DOMAIN up'[h] : \E j \in DOMAIN up[h] :
          up[h][j] = up'[h][i]
  <2>1. \A h \in Generation : up'[h] = <<>> => DOMAIN up'[h] = {}
    OBVIOUS
  <2>. QED  BY <2>1
<1>. QED  BY <1>1, <1>2 DEF QuietInput

LEMMA ConnectQuiet ==
    ASSUME PtyInv, Connect
    PROVE  QuietInput /\ ShownStays
<1>1. PtyTypeOK /\ pane' = pane /\ pty' = pty /\ up' = up
  BY DEF PtyInv, Connect
<1>2. \A q \in Pane : OnLine(q)' => OnLine(q)
  <2>1. ASSUME NEW q \in Pane PROVE pane[q].client # generation + 1
    <3>1. pane[q] \in EventLoop /\ pane[q].client <= generation /\ generation \in Nat
      BY <1>1, PtyAssumption DEF PtyInv, PtyTypeOK, LinksInOrder
    <3>2. pane[q].client \in Nat
      BY <3>1, PtyAssumption DEF EventLoop
    <3>. QED  BY <3>1, <3>2
  <2>2. \A q \in Pane : pane[q].client # generation + 1
    BY <2>1
  <2>3. \A h \in Generation : h # generation + 1 => link'[h] = link[h]
    BY <1>1 DEF Connect, PtyTypeOK
  <2>. QED  BY <1>1, <2>2, <2>3 DEF OnLine
<1>3. \A q \in Pane : PtyKept(q)
  BY <1>1 DEF PtyKept
<1>. QED  BY <1>1, <1>2, <1>3, PaneSame, LinksQuiet

LEMMA CutQuiet ==
    ASSUME PtyInv, Restart \/ \E g \in Generation : LinkCut(g)
    PROVE  QuietInput /\ ShownStays
<1>1. PtyTypeOK /\ pane' = pane /\ pty' = pty
  BY DEF PtyInv, Restart, LinkCut
<1>2. \E g \in Generation : Cut(g)
  BY PtyAssumption DEF Restart, LinkCut, PtyInv, PtyTypeOK, Generation
<1>3. \A h \in Generation : /\ link'[h] = "up" => link[h] = "up"
                            /\ up'[h] = up[h] \/ (up'[h] = <<>> /\ link'[h] # "up")
  BY <1>1, <1>2 DEF Cut, PtyTypeOK
<1>4. \A q \in Pane : PtyKept(q)
  BY <1>1 DEF PtyKept
<1>5. \A q \in Pane : OnLine(q)' => OnLine(q)
  BY <1>1, <1>3 DEF OnLine
<1>. QED  BY <1>1, <1>3, <1>4, <1>5, PaneSame, LinksQuiet

LEMMA StreamEndsQuiet ==
    ASSUME PtyInv, NEW g \in Generation, StreamEnds(g)
    PROVE  QuietInput /\ ShownStays
<1>1. PtyTypeOK /\ pty' = pty /\ up' = up /\ link' = link
  BY DEF PtyInv, StreamEnds
<1>2. PICK dead : pane' = [p \in Pane |->
               LET r == IF pane[p].client = g /\ pane[p].request = "asked"
                        THEN [pane[p] EXCEPT !.request = "failed"] ELSE pane[p]
               IN  IF p \in dead /\ Opened(p) THEN [r EXCEPT !.exited = TRUE] ELSE r]
  BY DEF StreamEnds
<1>3. ASSUME NEW q \in Pane
      PROVE  /\ PaneKept(q) /\ PtyKept(q)
             /\ pane'[q].id = pane[q].id /\ pane'[q].shown = pane[q].shown
  <2>. DEFINE r1 == [pane[q] EXCEPT !.request = "failed"]
              r2 == [pane[q] EXCEPT !.exited = TRUE]
              r3 == [r1 EXCEPT !.exited = TRUE]
  <2>1. \/ pane'[q] = pane[q] \/ pane'[q] = r2
        \/ pane[q].request = "asked" /\ pane'[q] \in {r1, r3}
    BY <1>2
  <2>2. pane[q] \in EventLoop
    BY <1>1 DEF PtyTypeOK
  <2>3. \A r \in {r1, r2, r3} :
           /\ r.client = pane[q].client /\ r.reply = pane[q].reply /\ r.id = pane[q].id
           /\ r.closed = pane[q].closed /\ r.pending = pane[q].pending
           /\ r.typed = pane[q].typed /\ r.shown = pane[q].shown
    BY <2>2 DEF EventLoop
  <2>4. r1.request = "failed" /\ r2.request = pane[q].request /\ r3.request = "failed"
    BY <2>2 DEF EventLoop
  <2>. HIDE DEF r1, r2, r3
  <2>. QED  BY <1>1, <2>1, <2>3, <2>4 DEF PaneKept, PtyKept
<1>4. \A q \in Pane : OnLine(q)' => OnLine(q)
  BY <1>1, <1>3 DEF OnLine, PaneKept
<1>. QED  BY <1>1, <1>3, <1>4, LinksQuiet DEF ShownStays

LEMMA DeregisterQuiet ==
    ASSUME PtyInv, NEW g \in Generation, Deregister(g)
    PROVE  QuietInput /\ ShownStays
<1>1. /\ PtyTypeOK /\ pane' = pane /\ up' = up /\ link' = [link EXCEPT ![g] = "gone"]
      /\ pty' = Dropped({p \in Pane : pane[p].client = g})
  BY DEF PtyInv, Deregister
<1>2. \A q \in Pane : PtyKept(q)
  BY <1>1, DroppedForgets
<1>3. \A q \in Pane : OnLine(q)' => OnLine(q)
  BY <1>1 DEF OnLine, PtyTypeOK
<1>. QED  BY <1>1, <1>2, <1>3, PaneSame, LinksQuiet

LEMMA DaemonDiesQuiet ==
    ASSUME PtyInv, DaemonDies
    PROVE  /\ QuietInput /\ ShownStays
           /\ \A g \in Generation : link'[g] # "up" /\ up'[g] = <<>>
<1>1. PtyTypeOK /\ pane' = pane
  BY DEF PtyInv, DaemonDies
<1>2. \A g \in Generation : link'[g] # "up" /\ up'[g] = <<>>
  BY DEF DaemonDies
<1>3. \A q \in Pane : PtyKept(q)
  BY DEF DaemonDies, PtyKept, NoPty
<1>4. \A q \in Pane : ~OnLine(q)'
  BY <1>2 DEF OnLine
<1>. QED  BY <1>1, <1>2, <1>3, <1>4, PaneSame, LinksQuiet

-----------------------------------------------------------------------------
\* The steps in which something is typed, or written.

\* What is written to the PTY of one pane is not written to that of another.
LEMMA WritesToOthers ==
    ASSUME PtyTypeOK, IdsInOrder, NEW p \in Pane, NEW q \in Pane, q # p,
           NEW n \in Ids(p), NEW msgs \in Seq(Message),
           \A k \in DOMAIN msgs : msgs[k].id = n,
           up' = Sent(pane[p].client, msgs), link' = link,
           pane'[q] = pane[q], pty'[q] = pty[q]
    PROVE  PaneKept(q) /\ PtyKept(q) /\ WritesFor(q)
<1>1. pty[q] \in Terminal /\ pane[q] \in EventLoop /\ pane[p] \in EventLoop
  BY DEF PtyTypeOK
<1>2. pane[p].client \in 0..MaxGeneration /\ pty[q].id \in Nat /\ pane[q].reply \in Nat
  BY <1>1 DEF Terminal, EventLoop
<1>3. ASSUME OnLine(q), NEW m \in {pty[q].id, pane[q].reply}
      PROVE  SameWrites(pane[q].client, m)
  <2>1. CASE pane[q].client = pane[p].client
    <3>1. m # n
      BY <1>3, <2>1 DEF IdsInOrder, Ids
    <3>. QED  BY <1>2, <1>3, <3>1, SentSame DEF IsWrite, OnLine
  <2>2. CASE pane[q].client # pane[p].client
    <3>1. up'[pane[q].client] = up[pane[q].client]
      BY <2>2 DEF Sent, PtyTypeOK
    <3>. QED  BY <1>3, <3>1, QueueSame DEF OnLine
  <2>. QED  BY <2>1, <2>2
<1>4. OnLine(q)' => OnLine(q)
  BY DEF OnLine
<1>. QED  BY <1>3, <1>4 DEF PaneKept, PtyKept, WritesFor

\* Of the queue that a pane writes to: old messages where they were, and then the new.
LEMMA SentAt ==
    ASSUME PtyTypeOK, NEW g \in Generation, link[g] = "up", NEW msgs \in Seq(Message),
           up' = Sent(g, msgs)
    PROVE  /\ \A i \in DOMAIN up'[g] :
                 \/ i \in DOMAIN up[g] /\ up'[g][i] = up[g][i]
                 \/ \E k \in DOMAIN msgs : i = Len(up[g]) + k /\ up'[g][i] = msgs[k]
           /\ \A i \in DOMAIN up[g] : i \in DOMAIN up'[g] /\ up'[g][i] = up[g][i]
           /\ \A k \in DOMAIN msgs : /\ Len(up[g]) + k \in DOMAIN up'[g]
                                     /\ up'[g][Len(up[g]) + k] = msgs[k]
           /\ Len(up[g]) \in Nat /\ DOMAIN up[g] = 1..Len(up[g])
<1>1. up[g] \in Seq(Message) /\ up'[g] = up[g] \o msgs
  BY DEF Sent, PtyTypeOK
<1>2. ASSUME NEW i \in DOMAIN up'[g],
             i \notin DOMAIN up[g], i - Len(up[g]) \in DOMAIN msgs
      PROVE  i = Len(up[g]) + (i - Len(up[g]))
  <2>1. i \in Int /\ Len(up[g]) \in Int
    BY <1>1
  <2>. QED  BY <2>1
<1>3. Len(up[g]) \in Nat /\ DOMAIN up[g] = 1..Len(up[g])
  BY <1>1
<1>. QED  BY <1>1, <1>2, <1>3, Enlarged

LEMMA OpenPaneInput ==
    ASSUME PtyInv, PtyTypeOK', InputInv, NEW p \in Pane, OpenPane(p)
    PROVE  InputInv'
<1>1. /\ PtyTypeOK /\ pane[p] \in EventLoop /\ link' = link /\ pty' = pty
      /\ nextPty' = nextPty /\ generation \in 0..MaxGeneration
  BY DEF PtyInv, PtyTypeOK, OpenPane, linkVars
<1>2. /\ pane'[p].client = generation /\ pane'[p].request = "asked"
      /\ pane'[p].id = pane[p].id /\ pane'[p].reply = pane[p].reply
      /\ pane'[p].closed = pane[p].closed /\ pane'[p].pending = pane[p].pending
      /\ pane'[p].typed = pane[p].typed
      /\ \A q \in Pane \ {p} : pane'[q] = pane[q]
  <2>. DEFINE r == [pane[p] EXCEPT !.client = generation, !.request = "asked"]
  <2>1. pane' = [pane EXCEPT ![p] = r]
    BY DEF OpenPane
  <2>2. /\ r.client = generation /\ r.request = "asked" /\ r.id = pane[p].id
        /\ r.reply = pane[p].reply /\ r.closed = pane[p].closed
        /\ r.pending = pane[p].pending /\ r.typed = pane[p].typed
    BY <1>1 DEF EventLoop
  <2>. HIDE DEF r
  <2>. QED  BY <1>1, <2>1, <2>2 DEF PtyTypeOK
<1>3. /\ pane[p].request = "none" /\ pane[p].id = 0 /\ pane[p].reply = 0
      /\ ~pane[p].closed /\ pty[p].state = "none" /\ pty[p].id = 0
  BY DEF OpenPane, PtyInv, PaneInv, StepsInOrder, Opened, InputInv, InputOf, Typing
<1>. DEFINE msgs == <<CreateMsg(p)>>
<1>4. /\ msgs \in Seq(Message) /\ \A k \in DOMAIN msgs : msgs[k].type = "create"
      /\ up' = Sent(generation, msgs)
  BY DEF CreateMsg, Message, OpenPane
<1>. HIDE DEF msgs
<1>5. \A h \in Generation, n \in Nat : SameWrites(h, n)
  BY <1>1, <1>4, SentSame DEF IsWrite
<1>6. ASSUME NEW q \in Pane, q # p PROVE InputOf(q)'
  <2>1. pty[q].id \in Nat /\ pane[q].reply \in Nat
    BY <1>1 DEF PtyTypeOK, Terminal, EventLoop
  <2>2. PaneKept(q) /\ PtyKept(q)
    BY <1>1, <1>2, <1>6 DEF PaneKept, PtyKept
  <2>3. WritesFor(q)
    BY <1>1, <1>2, <1>5, <1>6, <2>1 DEF WritesFor, OnLine
  <2>. QED  BY <1>1, <2>2, <2>3, InputFrame DEF InputInv, PtyInv, PaneInv
<1>7. InputOf(p)'
  <2>1. Typing(p)'
    BY <1>1, <1>2, <1>3 DEF InputInv, InputOf, Typing, Opened
  <2>2. InputComes(p)' /\ Unwritten(p)'
    BY <1>1, <1>2, <1>3 DEF InputComes, Unwritten
  <2>3. ReadInOrder(p)'
    BY <1>1 DEF InputInv, InputOf, ReadInOrder
  <2>. QED  BY <2>1, <2>2, <2>3 DEF InputOf
<1>8. IdsInOrder'
  <2>1. Ids(p)' = {}
    BY <1>1, <1>2, <1>3 DEF Ids
  <2>2. \A q \in Pane \ {p} : /\ Ids(q)' = Ids(q)
                              /\ OnLine(q)' => OnLine(q)
                              /\ pane'[q].client = pane[q].client
    BY <1>1, <1>2 DEF Ids, OnLine
  <2>3. \A h \in Generation : \A i \in DOMAIN up'[h] : up'[h][i].type = "write" =>
           \E j \in DOMAIN up[h] : up[h][j] = up'[h][i]
    <3>1. "create" # "write"
      OBVIOUS
    <3>. QED  BY <1>1, <1>4, <3>1, SentFrom
  <2>4. ASSUME NEW q \in Pane, NEW r \in Pane, q # r, pane'[q].client = pane'[r].client
        PROVE  Ids(q)' \cap Ids(r)' = {}
    <3>1. CASE q = p \/ r = p
      BY <2>1, <3>1
    <3>2. CASE q # p /\ r # p
      BY <2>2, <2>4, <3>2 DEF InputInv, IdsInOrder
    <3>. QED  BY <3>1, <3>2
  <2>6. ASSUME NEW q \in Pane, OnLine(q)', NEW n \in Ids(q)'
        PROVE  n < nextPty'
    BY <1>1, <2>1, <2>2, <2>6 DEF InputInv, IdsInOrder
  <2>5. \A h \in Generation : \A i \in DOMAIN up'[h] :
           up'[h][i].type = "write" => up'[h][i].id < nextPty'
    BY <1>1, <2>3 DEF InputInv, IdsInOrder
  <2>. QED  BY <2>4, <2>5, <2>6 DEF IdsInOrder
<1>. QED  BY <1>6, <1>7, <1>8 DEF InputInv

\* Writes with an id of the pane leave the ids in order.
LEMMA WritesKeepIds ==
    ASSUME PtyTypeOK, PtyTypeOK', IdsInOrder, NEW p \in Pane, NEW n \in Ids(p),
           NEW msgs \in Seq(Message), \A k \in DOMAIN msgs : msgs[k].id = n,
           up' = Sent(pane[p].client, msgs), link' = link, nextPty' = nextPty,
           \A q \in Pane : /\ pane'[q].client = pane[q].client
                           /\ pane'[q].id \in {pane[q].id, pane[q].reply, 0}
                           /\ pane'[q].reply \in {pane[q].reply, 0}
                           /\ pty'[q].id \in {pty[q].id, 0}
    PROVE  IdsInOrder'
<1>1. pane[p].client \in 0..MaxGeneration
  BY DEF PtyTypeOK, EventLoop
<1>2. ASSUME NEW g \in Generation, NEW i \in DOMAIN up'[g], up'[g][i].type = "write"
      PROVE  \/ up'[g][i].id < nextPty
             \/ \E j \in DOMAIN up[g] : up[g][j] = up'[g][i]
  <2>1. CASE \E j \in DOMAIN up[g] : up[g][j] = up'[g][i]
    BY <2>1
  <2>2. CASE /\ g = pane[p].client /\ link[g] = "up"
             /\ \E k \in DOMAIN msgs : msgs[k] = up'[g][i]
    <3>1. up'[g][i].id = n /\ OnLine(p)
      BY <2>2 DEF OnLine
    <3>. QED  BY <3>1 DEF IdsInOrder
  <2>. QED  BY <1>1, <2>1, <2>2, SentFrom
<1>3. \A q \in Pane : OnLine(q)' => OnLine(q)
  BY DEF OnLine
<1>. QED  BY <1>2, <1>3, IdsFrame

LEMMA PtyCreatedInput ==
    ASSUME PtyInv, PtyTypeOK', InputInv, NEW p \in Pane, PtyCreated(p)
    PROVE  InputInv'
<1>. DEFINE n == pane[p].reply
            g == pane[p].client
            inputs == <<Bootstrap>> \o pane[p].pending
            msgs == Writes(n, inputs)
<1>1. /\ PtyTypeOK /\ pane[p] \in EventLoop /\ link' = link /\ pty' = pty
      /\ nextPty' = nextPty /\ pane[p].request = "created" /\ pty[p] \in Terminal
      /\ up' = Sent(g, msgs)
  BY DEF PtyInv, PtyTypeOK, PtyCreated, linkVars
<1>2. /\ pane'[p].client = pane[p].client /\ pane'[p].request = "held"
      /\ pane'[p].id = n /\ pane'[p].reply = 0
      /\ pane'[p].closed = pane[p].closed /\ pane'[p].typed = pane[p].typed
      /\ \A q \in Pane \ {p} : pane'[q] = pane[q]
  <2>. DEFINE nothing == <<>>
              r == [pane[p] EXCEPT !.request = "held", !.id = n, !.reply = 0,
                                   !.pending = nothing]
  <2>1. pane' = [pane EXCEPT ![p] = r]
    BY DEF PtyCreated
  <2>2. /\ r.client = pane[p].client /\ r.request = "held"
        /\ r.id = n /\ r.reply = 0
        /\ r.closed = pane[p].closed /\ r.typed = pane[p].typed
    <3>. HIDE DEF nothing, n
    <3>. QED  BY <1>1 DEF EventLoop
  <2>. HIDE DEF r
  <2>. QED  BY <1>1, <2>1, <2>2 DEF PtyTypeOK
<1>3. /\ n \in Nat /\ n # 0 /\ g \in 0..MaxGeneration /\ pane[p].typed \in Nat
      /\ pane[p].pending \in Seq(Nat) /\ Len(pane[p].pending) = pane[p].typed
      /\ \A i \in 1..pane[p].typed : pane[p].pending[i] = i
      /\ n \in Ids(p)
  BY <1>1 DEF InputInv, InputOf, Typing, EventLoop, Ids
<1>4. /\ inputs \in Seq(Nat) /\ Len(inputs) = pane[p].typed + 1
      /\ \A k \in 1..(pane[p].typed + 1) : inputs[k] = k - 1
  <2>1. <<Bootstrap>> \in Seq(Nat) /\ Len(<<Bootstrap>>) = 1 /\ <<Bootstrap>>[1] = 0
    BY DEF Bootstrap
  <2>2. /\ inputs \in Seq(Nat) /\ Len(inputs) = 1 + Len(pane[p].pending)
        /\ \A k \in 1..(1 + Len(pane[p].pending)) :
              inputs[k] = IF k <= 1 THEN <<Bootstrap>>[k] ELSE pane[p].pending[k - 1]
    BY <1>3, <2>1, ConcatProperties
  <2>3. ASSUME NEW k \in 1..(pane[p].typed + 1)
        PROVE  inputs[k] = k - 1
    <3>1. CASE k = 1
      BY <1>3, <2>1, <2>2, <3>1
    <3>2. CASE k # 1
      <4>1. k - 1 \in 1..pane[p].typed /\ ~(k <= 1)
        BY <1>3, <3>2
      <4>. QED  BY <1>3, <2>2, <4>1
    <3>. QED  BY <3>1, <3>2
  <2>. HIDE DEF inputs
  <2>. QED  BY <1>3, <2>2, <2>3
<1>5. /\ msgs \in Seq(Message) /\ DOMAIN msgs = 1..(pane[p].typed + 1)
      /\ \A k \in DOMAIN msgs : /\ IsWrite(msgs[k], n) /\ msgs[k].id = n
                                /\ msgs[k].input = k - 1
  <2>. HIDE DEF inputs, n
  <2>1. DOMAIN inputs = 1..(pane[p].typed + 1)
    BY <1>4
  <2>2. msgs \in Seq(Message)
    BY <1>3, <1>4, WritesType
  <2>. QED  BY <1>4, <2>1, <2>2 DEF Writes, WriteMsg, IsWrite
<1>. HIDE DEF msgs, inputs
<1>6. ASSUME NEW q \in Pane, q # p PROVE InputOf(q)'
  <2>1. PaneKept(q) /\ PtyKept(q) /\ WritesFor(q)
    BY <1>1, <1>2, <1>3, <1>5, <1>6, WritesToOthers DEF InputInv
  <2>. QED  BY <1>1, <2>1, InputFrame DEF InputInv, PtyInv, PaneInv
<1>7. InputOf(p)'
  <2>1. Typing(p)'
    BY <1>1, <1>2, <1>3 DEF InputInv, InputOf, Typing, Opened
  <2>2. Unwritten(p)'
    BY <1>2 DEF Unwritten
  <2>3. ReadInOrder(p)'
    BY <1>1 DEF InputInv, InputOf, ReadInOrder
  <2>4. ASSUME OnLine(p)', pty'[p].state = "running"
        PROVE  InputComes(p)'
    <3>1. OnLine(p) /\ g \in Generation /\ link[g] = "up" /\ pty[p].id = n
      BY <1>1, <1>2, <2>4 DEF OnLine, PtyInv, PaneInv, KnowsItsOwn
    <3>2. Len(pty[p].got) = 0 /\ \A i \in DOMAIN up[g] : ~IsWrite(up[g][i], n)
      BY <1>1, <3>1 DEF InputInv, InputOf, Unwritten
    <3>. DEFINE L == Len(up[g])
                V == {i \in DOMAIN up'[g] : IsWrite(up'[g][i], n)}
    <3>3. /\ L \in Nat
          /\ \A i \in V : \E k \in DOMAIN msgs : i = L + k /\ up'[g][i] = msgs[k]
          /\ \A k \in DOMAIN msgs : L + k \in V /\ up'[g][L + k] = msgs[k]
      <4>1. /\ \A i \in DOMAIN up'[g] :
                 \/ i \in DOMAIN up[g] /\ up'[g][i] = up[g][i]
                 \/ \E k \in DOMAIN msgs : i = L + k /\ up'[g][i] = msgs[k]
            /\ \A k \in DOMAIN msgs : L + k \in DOMAIN up'[g] /\ up'[g][L + k] = msgs[k]
            /\ L \in Nat
        BY <1>1, <1>5, <3>1, SentAt
      <4>. HIDE DEF L
      <4>. QED  BY <1>5, <3>2, <4>1
    <3>. HIDE DEF L
    <3>4. \A i \in V : \E k \in 1..(pane[p].typed + 1) :
              i = L + k /\ up'[g][i].input = k - 1
      BY <1>5, <3>3
    <3>5. \A k \in 1..(pane[p].typed + 1) : L + k \in V /\ up'[g][L + k].input = k - 1
      BY <1>5, <3>3
    <3>. HIDE DEF V
    <3>6. \A i \in V : up'[g][i].input >= 0 /\ up'[g][i].input <= pane[p].typed
      BY <1>3, <3>4
    <3>7. ASSUME NEW i \in V, NEW j \in V, up'[g][i].input = up'[g][j].input
          PROVE  i = j
      <4>1. PICK k \in 1..(pane[p].typed + 1) : i = L + k /\ up'[g][i].input = k - 1
        BY <3>4
      <4>2. PICK l \in 1..(pane[p].typed + 1) : j = L + l /\ up'[g][j].input = l - 1
        BY <3>4
      <4>3. k = l
        BY <1>3, <3>7, <4>1, <4>2
      <4>. QED  BY <4>1, <4>2, <4>3
    <3>8. ASSUME NEW i \in V, up'[g][i].input > 0
          PROVE  \E j \in V : j < i /\ up'[g][j].input + 1 = up'[g][i].input
      <4>1. PICK k \in 1..(pane[p].typed + 1) : i = L + k /\ up'[g][i].input = k - 1
        BY <3>4
      <4>2. k - 1 \in 1..(pane[p].typed + 1) /\ L + (k - 1) < i
        BY <1>3, <3>3, <3>8, <4>1
      <4>3. L + (k - 1) \in V /\ up'[g][L + (k - 1)].input = (k - 1) - 1
        BY <3>5, <4>2
      <4>4. ((k - 1) - 1) + 1 = k - 1
        BY <4>1
      <4>5. PICK j \in V : j < i /\ up'[g][j].input = (k - 1) - 1
        BY <4>2, <4>3
      <4>. QED  BY <4>1, <4>4, <4>5
    <3>9. \E i \in V : up'[g][i].input = pane[p].typed
      <4>1. pane[p].typed + 1 \in 1..(pane[p].typed + 1)
            /\ (pane[p].typed + 1) - 1 = pane[p].typed
        BY <1>3
      <4>. QED  BY <3>5, <4>1
    <3>10. 0 <= pane[p].typed + 1
      BY <1>3
    <3>11. /\ pane'[p].client = g /\ pty'[p].id = n /\ Len(pty'[p].got) = 0
           /\ pane'[p].typed = pane[p].typed
      BY <1>1, <1>2, <3>1, <3>2
    <3>. USE DEF V
    <3>. QED  BY <3>6, <3>7, <3>8, <3>9, <3>10, <3>11 DEF InputComes
  <2>5. InputComes(p)'
    BY <2>4 DEF InputComes
  <2>. QED  BY <2>1, <2>2, <2>3, <2>5 DEF InputOf
<1>8. IdsInOrder'
  BY <1>1, <1>2, <1>3, <1>5, WritesKeepIds DEF InputInv
<1>. QED  BY <1>6, <1>7, <1>8 DEF InputInv

LEMMA InputInput ==
    ASSUME PtyInv, PtyTypeOK', InputInv, NEW p \in Pane, Input(p)
    PROVE  InputInv'
<1>1. /\ PtyTypeOK /\ pane[p] \in EventLoop /\ link' = link /\ pty' = pty
      /\ nextPty' = nextPty /\ pty[p] \in Terminal
      /\ pane[p].request # "none" /\ ~pane[p].closed
  BY DEF PtyInv, PtyTypeOK, Input, linkVars, Opened
<1>2. /\ pane[p].typed \in Nat /\ pane[p].id \in Nat /\ pane[p].pending \in Seq(Nat)
      /\ pane[p].client \in 0..MaxGeneration
  BY <1>1 DEF EventLoop
<1>3. /\ pane'[p].client = pane[p].client /\ pane'[p].request = pane[p].request
      /\ pane'[p].reply = pane[p].reply /\ pane'[p].id = pane[p].id
      /\ pane'[p].closed = pane[p].closed /\ pane'[p].typed = pane[p].typed + 1
      /\ pane[p].id = 0 =>
            pane'[p].pending = Append(pane[p].pending, pane[p].typed + 1)
      /\ \A q \in Pane \ {p} : pane'[q] = pane[q]
  <2>. DEFINE n == pane[p].typed + 1
              more == Append(pane[p].pending, n)
              r1 == [pane[p] EXCEPT !.typed = n, !.pending = more]
              r2 == [pane[p] EXCEPT !.typed = n]
  <2>1. \/ pane[p].id = 0 /\ pane' = [pane EXCEPT ![p] = r1]
        \/ pane[p].id # 0 /\ pane' = [pane EXCEPT ![p] = r2]
    BY DEF Input
  <2>2. /\ \A r \in {r1, r2} :
              /\ r.client = pane[p].client /\ r.request = pane[p].request
              /\ r.reply = pane[p].reply /\ r.id = pane[p].id
              /\ r.closed = pane[p].closed /\ r.typed = n
        /\ r1.pending = more
    <3>. HIDE DEF n, more
    <3>. QED  BY <1>1 DEF EventLoop
  <2>. HIDE DEF r1, r2
  <2>. QED  BY <1>1, <2>1, <2>2 DEF PtyTypeOK
<1>4. ReadInOrder(p)'
  BY <1>1 DEF InputInv, InputOf, ReadInOrder
<1>5. \A q \in Pane \ {p} : PaneKept(q) /\ PtyKept(q)
  BY <1>1, <1>3 DEF PaneKept, PtyKept
<1>6. CASE pane[p].id = 0
  <2>1. up' = up
    BY <1>6 DEF Input
  <2>2. ASSUME NEW q \in Pane, q # p PROVE InputOf(q)'
    <3>1. WritesFor(q)
      BY <1>1, <1>3, <2>1, <2>2, UpQuiet DEF OnLine
    <3>. QED  BY <1>1, <1>5, <2>2, <3>1, InputFrame DEF InputInv, PtyInv, PaneInv
  <2>3. /\ pane[p].request \in {"asked", "created", "failed"}
        /\ Len(pane[p].pending) = pane[p].typed
        /\ \A i \in 1..pane[p].typed : pane[p].pending[i] = i
    BY <1>1, <1>6 DEF InputInv, InputOf, Typing, EventLoop
  <2>4. /\ Len(pane'[p].pending) = pane'[p].typed
        /\ \A i \in 1..pane'[p].typed : pane'[p].pending[i] = i
    <3>. DEFINE n == pane[p].typed + 1
    <3>1. n \in Nat
      BY <1>2
    <3>. HIDE DEF n
    <3>2. /\ Len(Append(pane[p].pending, n)) = Len(pane[p].pending) + 1
          /\ \A i \in 1..Len(pane[p].pending) :
                Append(pane[p].pending, n)[i] = pane[p].pending[i]
          /\ Append(pane[p].pending, n)[Len(pane[p].pending) + 1] = n
      BY <1>2, <3>1, AppendProperties
    <3>3. \A i \in 1..(pane[p].typed + 1) : i \in 1..pane[p].typed \/ i = pane[p].typed + 1
      BY <1>2
    <3>. QED  BY <1>3, <1>6, <2>3, <3>2, <3>3 DEF n
  <2>5. Typing(p)'
    BY <1>1, <1>3, <2>3, <2>4 DEF InputInv, InputOf, Typing, Opened
  <2>6. OnLine(p)' <=> OnLine(p)
    BY <1>1, <1>3 DEF OnLine
  <2>7. Unwritten(p)'
    BY <1>1, <1>3, <2>1, <2>6 DEF InputInv, InputOf, Unwritten, IsWrite
  <2>8. InputComes(p)'
    <3>1. pty[p].state = "running" => pty[p].id # 0
      BY DEF PtyInv, PaneInv, StepsInOrder
    <3>2. InputComes(p)
      BY DEF InputInv, InputOf
    <3>3. /\ pane'[p].client = pane[p].client /\ pane'[p].id = 0
          /\ up' = up /\ pty' = pty /\ (OnLine(p)' <=> OnLine(p))
      BY <1>1, <1>3, <1>6, <2>1, <2>6
    <3>. SUFFICES ASSUME OnLine(p)', pty'[p].state = "running"
                  PROVE  InputComes(p)'
      BY DEF InputComes
    <3>4. pane'[p].id # pty[p].id /\ pty[p].state = "running" /\ OnLine(p)
      BY <3>1, <3>3
    <3>5. LET g == pane[p].client
              W == {i \in DOMAIN up[g] : IsWrite(up[g][i], pty[p].id)}
              read == Len(pty[p].got)
          IN  /\ \A i \in W : up[g][i].input >= read
              /\ \A i, j \in W : up[g][i].input = up[g][j].input => i = j
              /\ \A i \in W : up[g][i].input > read =>
                    \E j \in W : j < i /\ up[g][j].input + 1 = up[g][i].input
      BY <3>2, <3>4 DEF InputComes
    <3>. QED  BY <3>3, <3>4, <3>5 DEF InputComes
  <2>9. InputOf(p)'
    BY <1>4, <2>5, <2>7, <2>8 DEF InputOf
  <2>10. IdsInOrder'
    <3>1. \A q \in Pane : /\ pane'[q].client = pane[q].client
                          /\ pane'[q].id \in {pane[q].id, pane[q].reply, 0}
                          /\ pane'[q].reply \in {pane[q].reply, 0}
                          /\ pty'[q].id \in {pty[q].id, 0}
                          /\ OnLine(q)' => OnLine(q)
      BY <1>1, <1>3 DEF OnLine
    <3>. QED  BY <1>1, <2>1, <3>1, IdsFrame DEF InputInv
  <2>. QED  BY <2>2, <2>9, <2>10 DEF InputInv
<1>7. CASE pane[p].id # 0
  <2>. DEFINE n == pane[p].id
              g == pane[p].client
              t == pane[p].typed
              msg == WriteMsg(n, t + 1)
              msgs == <<msg>>
  <2>1. up' = Sent(g, msgs)
    BY <1>7 DEF Input
  <2>2. /\ msgs \in Seq(Message) /\ DOMAIN msgs = {1} /\ msgs[1] = msg
        /\ IsWrite(msg, n) /\ msg.id = n /\ msg.input = t + 1
        /\ n \in Ids(p)
    BY <1>2, <1>7 DEF WriteMsg, Message, IsWrite, Ids
  <2>. HIDE DEF msg, msgs
  <2>3. ASSUME NEW q \in Pane, q # p PROVE InputOf(q)'
    <3>1. PaneKept(q) /\ PtyKept(q) /\ WritesFor(q)
      BY <1>1, <1>3, <2>1, <2>2, <2>3, WritesToOthers DEF InputInv
    <3>. QED  BY <1>1, <2>3, <3>1, InputFrame DEF InputInv, PtyInv, PaneInv
  <2>4. pane[p].request = "held"
    BY <1>7 DEF PtyInv, PaneInv, StepsInOrder
  <2>5. Typing(p)' /\ Unwritten(p)'
    BY <1>1, <1>3, <1>7, <2>4 DEF InputInv, InputOf, Typing, Opened, Unwritten
  <2>6. ASSUME OnLine(p)', pty'[p].state = "running"
        PROVE  InputComes(p)'
    <3>. DEFINE read == Len(pty[p].got)
                L == Len(up[g])
                W == {i \in DOMAIN up[g] : IsWrite(up[g][i], n)}
                V == {i \in DOMAIN up'[g] : IsWrite(up'[g][i], n)}
    <3>1. OnLine(p) /\ g \in Generation /\ link[g] = "up" /\ pty[p].id = n
      BY <1>1, <1>3, <1>7, <2>6 DEF OnLine, PtyInv, PaneInv, KnowsItsOwn
    <3>2. /\ \A i \in W : up[g][i].input >= read
          /\ \A i, j \in W : up[g][i].input = up[g][j].input => i = j
          /\ \A i \in W : up[g][i].input > read =>
                \E j \in W : j < i /\ up[g][j].input + 1 = up[g][i].input
          /\ read <= t + 1
          /\ \A i \in W : up[g][i].input <= t
          /\ read <= t => \E i \in W : up[g][i].input = t
      <4>1. InputComes(p) /\ pty[p].state = "running"
        BY <1>1, <2>6 DEF InputInv, InputOf
      <4>. QED  BY <3>1, <4>1 DEF InputComes
    <3>3. /\ \A i \in DOMAIN up'[g] :
               \/ i \in DOMAIN up[g] /\ up'[g][i] = up[g][i]
               \/ i = L + 1 /\ up'[g][i] = msg
          /\ \A i \in DOMAIN up[g] : i \in DOMAIN up'[g] /\ up'[g][i] = up[g][i]
          /\ L + 1 \in DOMAIN up'[g] /\ up'[g][L + 1] = msg
          /\ L \in Nat /\ DOMAIN up[g] = 1..L
      <4>1. /\ \A i \in DOMAIN up'[g] :
                 \/ i \in DOMAIN up[g] /\ up'[g][i] = up[g][i]
                 \/ \E k \in DOMAIN msgs : i = L + k /\ up'[g][i] = msgs[k]
            /\ \A i \in DOMAIN up[g] : i \in DOMAIN up'[g] /\ up'[g][i] = up[g][i]
            /\ \A k \in DOMAIN msgs : L + k \in DOMAIN up'[g] /\ up'[g][L + k] = msgs[k]
            /\ L \in Nat /\ DOMAIN up[g] = 1..L
        BY <1>1, <2>1, <2>2, <3>1, SentAt
      <4>. HIDE DEF L
      <4>. QED  BY <2>2, <4>1
    <3>4. /\ \A i \in V : \/ i \in W /\ up'[g][i] = up[g][i]
                          \/ i = L + 1 /\ up'[g][i].input = t + 1
          /\ \A i \in W : i \in V /\ up'[g][i] = up[g][i] /\ i < L + 1
          /\ L + 1 \in V /\ up'[g][L + 1].input = t + 1
      <4>. HIDE DEF L
      <4>. QED  BY <2>2, <3>3
    <3>5. \A i \in W : up[g][i].input \in Nat
      <4>1. \A i \in DOMAIN up[g] : up[g][i] \in Message
        BY <1>1, <3>1 DEF PtyTypeOK
      <4>. QED  BY <4>1 DEF Message, IsWrite
    <3>6. read \in Nat /\ t \in Nat
      BY <1>1, <1>2 DEF Terminal
    <3>. HIDE DEF W, V, L, read, g, n, t
    <3>7. \A i \in V : up'[g][i].input >= read /\ up'[g][i].input <= t + 1
      BY <3>2, <3>4, <3>5, <3>6
    <3>8. ASSUME NEW i \in V, NEW j \in V, up'[g][i].input = up'[g][j].input
          PROVE  i = j
      BY <3>2, <3>4, <3>5, <3>6, <3>8
    <3>9. ASSUME NEW i \in V, up'[g][i].input > read
          PROVE  \E j \in V : j < i /\ up'[g][j].input + 1 = up'[g][i].input
      <4>1. CASE i \in W /\ up'[g][i] = up[g][i]
        BY <3>2, <3>4, <3>9, <4>1
      <4>2. CASE i = L + 1 /\ up'[g][i].input = t + 1
        <5>1. read <= t
          BY <3>6, <3>9, <4>2
        <5>2. PICK j \in W : up[g][j].input = t
          BY <3>2, <5>1
        <5>3. j \in V /\ j < i /\ up'[g][j].input + 1 = up'[g][i].input
          BY <3>4, <4>2, <5>2
        <5>. QED  BY <5>3
      <4>. QED  BY <3>4, <4>1, <4>2
    <3>10. read <= (t + 1) + 1
      BY <3>2, <3>6
    <3>11. \E i \in V : up'[g][i].input = t + 1
      BY <3>4
    <3>12. /\ pane'[p].client = g /\ pty'[p].id = n /\ Len(pty'[p].got) = read
           /\ pane'[p].typed = t + 1
      BY <1>1, <1>3, <3>1 DEF g, n, read, t
    <3>. USE DEF V
    <3>. QED  BY <3>7, <3>8, <3>9, <3>10, <3>11, <3>12 DEF InputComes
  <2>7. InputComes(p)'
    BY <2>6 DEF InputComes
  <2>8. InputOf(p)'
    BY <1>4, <2>5, <2>7 DEF InputOf
  <2>9. IdsInOrder'
    <3>1. \A q \in Pane : /\ pane'[q].client = pane[q].client
                          /\ pane'[q].id \in {pane[q].id, pane[q].reply, 0}
                          /\ pane'[q].reply \in {pane[q].reply, 0}
                          /\ pty'[q].id \in {pty[q].id, 0}
      BY <1>1, <1>3
    <3>. QED  BY <1>1, <2>1, <2>2, <3>1, WritesKeepIds DEF InputInv
  <2>. QED  BY <2>3, <2>8, <2>9 DEF InputInv
<1>. QED  BY <1>6, <1>7

\* What the daemon's answer makes of a pane.
LEMMA AnsweredFields ==
    ASSUME PtyTypeOK, NEW p \in Pane, NEW result \in {"created", "failed"}, NEW id \in Nat,
           pane' = Answered(p, result, id)
    PROVE  /\ \A q \in Pane \ {p} : pane'[q] = pane[q]
           /\ pane[p].request # "asked" => pane'[p] = pane[p]
           /\ pane[p].request = "asked" =>
                 pane'[p].request = result /\ pane'[p].reply = id
           /\ pane'[p].client = pane[p].client /\ pane'[p].id = pane[p].id
           /\ pane'[p].closed = pane[p].closed /\ pane'[p].pending = pane[p].pending
           /\ pane'[p].typed = pane[p].typed /\ pane'[p].shown = pane[p].shown
<1>. DEFINE r == [pane[p] EXCEPT !.request = result, !.reply = id]
<1>1. pane[p] \in EventLoop
  BY DEF PtyTypeOK
<1>2. pane' = IF pane[p].request = "asked" THEN [pane EXCEPT ![p] = r] ELSE pane
  BY DEF Answered
<1>3. /\ r.request = result /\ r.reply = id /\ r.client = pane[p].client
      /\ r.id = pane[p].id /\ r.closed = pane[p].closed /\ r.pending = pane[p].pending
      /\ r.typed = pane[p].typed /\ r.shown = pane[p].shown
  BY <1>1 DEF EventLoop
<1>. HIDE DEF r
<1>. QED  BY <1>2, <1>3 DEF PtyTypeOK

LEMMA CreatePtyInput ==
    ASSUME PtyInv, PtyTypeOK', InputInv, NEW g \in Generation, CreatePty(g)
    PROVE  InputInv'
<1>0. PICK p : p = Head(up[g]).pane
  OBVIOUS
<1>1. /\ PtyTypeOK /\ link' = link /\ Receives(g, "create") /\ nextPty' = nextPty + 1
      /\ nextPty \in Nat \ {0}
      /\ \/ /\ pty' = [pty EXCEPT ![p].state = "running", ![p].id = nextPty]
            /\ pane' = Answered(p, "created", nextPty)
         \/ pty' = pty /\ pane' = Answered(p, "failed", 0)
  BY <1>0 DEF PtyInv, PtyTypeOK, CreatePty, linkVars
<1>2. p \in Pane /\ pane[p] \in EventLoop /\ pty[p] \in Terminal
  BY <1>0, <1>1, ReceivesType DEF Message, PtyTypeOK
<1>3. /\ 1 \in DOMAIN up[g] /\ up[g][1] = Head(up[g]) /\ up[g][1].type = "create"
      /\ \A h \in Generation : h # g => up'[h] = up[h]
      /\ \A i \in DOMAIN up'[g] : \E j \in DOMAIN up[g] : up[g][j] = up'[g][i]
  BY <1>1, TakenKeeps DEF Receives
<1>4. /\ pane[p].client = g /\ pane[p].request \in {"asked", "failed", "refused"}
      /\ pty[p].state = "none"
  BY <1>0, <1>3 DEF PtyInv, CreatesInOrder
<1>5. link[g] = "up" /\ OnLine(p)
  BY <1>1, <1>3, <1>4 DEF PtyInv, LinksInOrder, OnLine
<1>6. \A h \in Generation, n \in Nat : SameWrites(h, n)
  <2>1. \A n \in Nat : ~IsWrite(Head(up[g]), n)
    BY <1>3 DEF IsWrite
  <2>. QED  BY <1>1, <2>1, TakenSame
<1>7. \A h \in Generation : \A i \in DOMAIN up'[h] :
         \E j \in DOMAIN up[h] : up[h][j] = up'[h][i]
  BY <1>3
<1>8. CASE pty' = pty /\ pane' = Answered(p, "failed", 0)
  <2>1. \A q \in Pane : PaneKept(q) /\ PtyKept(q)
    BY <1>1, <1>2, <1>8, AnsweredFields DEF PaneKept, PtyKept
  <2>2. \A q \in Pane : WritesFor(q)
    <3>1. \A q \in Pane : pty[q].id \in Nat /\ pane[q].reply \in Nat
      BY <1>1 DEF PtyTypeOK, Terminal, EventLoop
    <3>. QED  BY <1>1, <1>6, <2>1, <3>1 DEF WritesFor, OnLine, PaneKept
  <2>3. QuietInput
    BY <1>7, <2>1, <2>2 DEF QuietInput
  <2>. QED  BY <1>1, <2>3, QuietKeepsInput
<1>9. CASE /\ pty' = [pty EXCEPT ![p].state = "running", ![p].id = nextPty]
           /\ pane' = Answered(p, "created", nextPty)
  <2>1. /\ \A q \in Pane \ {p} : pane'[q] = pane[q]
        /\ pane[p].request # "asked" => pane'[p] = pane[p]
        /\ pane[p].request = "asked" =>
              pane'[p].request = "created" /\ pane'[p].reply = nextPty
        /\ pane'[p].client = pane[p].client /\ pane'[p].id = pane[p].id
        /\ pane'[p].closed = pane[p].closed /\ pane'[p].pending = pane[p].pending
        /\ pane'[p].typed = pane[p].typed
    BY <1>1, <1>2, <1>9, AnsweredFields
  <2>2. /\ pty'[p].state = "running" /\ pty'[p].id = nextPty /\ pty'[p].got = pty[p].got
        /\ \A q \in Pane \ {p} : pty'[q] = pty[q]
    <3>. DEFINE t == [pty[p] EXCEPT !.state = "running", !.id = nextPty]
    <3>1. pty' = [pty EXCEPT ![p] = t]
      BY <1>9
    <3>2. t.state = "running" /\ t.id = nextPty /\ t.got = pty[p].got
      BY <1>2 DEF Terminal
    <3>. HIDE DEF t
    <3>. QED  BY <1>1, <1>2, <3>1, <3>2 DEF PtyTypeOK
  <2>3. pane[p].id = 0 /\ Len(pty[p].got) = 0
    BY <1>2, <1>4 DEF PtyInv, PaneInv, StepsInOrder, InputInv, InputOf, Typing
  <2>4. ASSUME NEW q \in Pane, q # p PROVE InputOf(q)'
    <3>1. PaneKept(q) /\ PtyKept(q)
      BY <2>1, <2>2, <2>4 DEF PaneKept, PtyKept
    <3>2. pty[q].id \in Nat /\ pane[q].reply \in Nat
      BY <1>1 DEF PtyTypeOK, Terminal, EventLoop
    <3>3. WritesFor(q)
      BY <1>1, <1>6, <2>1, <2>4, <3>2 DEF WritesFor, OnLine
    <3>. QED  BY <1>1, <2>4, <3>1, <3>3, InputFrame DEF InputInv, PtyInv, PaneInv
  <2>5. \A i \in DOMAIN up'[g] : ~IsWrite(up'[g][i], nextPty)
    <3>1. \A i \in DOMAIN up[g] : ~IsWrite(up[g][i], nextPty)
      BY <1>1 DEF InputInv, IdsInOrder, IsWrite
    <3>. QED  BY <1>3, <3>1
  <2>6. InputOf(p)'
    <3>1. Typing(p)'
      BY <1>1, <1>2, <1>4, <2>1, <2>2, <2>3 DEF InputInv, InputOf, Typing, Opened
    <3>2. {i \in DOMAIN up'[g] : IsWrite(up'[g][i], nextPty)} = {}
      BY <2>5
    <3>3. /\ pane'[p].client = g /\ pty'[p].id = nextPty /\ Len(pty'[p].got) = 0
          /\ pane'[p].id # nextPty
      BY <1>1, <1>4, <2>1, <2>2, <2>3
    <3>4. InputComes(p)'
      BY <3>2, <3>3 DEF InputComes
    <3>5. Unwritten(p)'
      BY <1>2, <1>4, <2>1, <2>5, <3>3 DEF Unwritten
    <3>6. ReadInOrder(p)'
      BY <1>2, <2>2 DEF InputInv, InputOf, ReadInOrder
    <3>. QED  BY <3>1, <3>4, <3>5, <3>6 DEF InputOf
  <2>7. IdsInOrder'
    <3>1. /\ Ids(p)' \subseteq Ids(p) \cup {nextPty}
          /\ \A q \in Pane \ {p} : Ids(q)' = Ids(q)
          /\ \A q \in Pane : pane'[q].client = pane[q].client
          /\ \A q \in Pane : OnLine(q)' => OnLine(q)
      BY <1>1, <2>1, <2>2 DEF Ids, OnLine
    <3>2. ASSUME NEW q \in Pane PROVE Ids(q) \subseteq Nat
      <4>1. pty[q] \in Terminal /\ pane[q] \in EventLoop
        BY <1>1 DEF PtyTypeOK
      <4>. QED  BY <4>1 DEF Ids, Terminal, EventLoop
    <3>3. ASSUME NEW q \in Pane, OnLine(q)
          PROVE  \A n \in Ids(q) : n < nextPty /\ n # nextPty /\ n < nextPty + 1
      BY <1>1, <3>2, <3>3 DEF InputInv, IdsInOrder
    <3>4. ASSUME NEW q \in Pane, NEW r \in Pane, q # r,
                 pane'[q].client = pane'[r].client
          PROVE  Ids(q)' \cap Ids(r)' = {}
      <4>1. Ids(q) \cap Ids(r) = {}
        BY <3>1, <3>4 DEF InputInv, IdsInOrder
      <4>2. ASSUME q = p \/ r = p PROVE OnLine(q) /\ OnLine(r)
        BY <1>5, <3>1, <3>4, <4>2 DEF OnLine
      <4>. QED  BY <3>1, <3>3, <3>4, <4>1, <4>2
    <3>5. ASSUME NEW q \in Pane, OnLine(q)', NEW n \in Ids(q)'
          PROVE  n < nextPty'
      <4>1. OnLine(q) /\ (n \in Ids(q) \/ n = nextPty)
        BY <3>1, <3>5
      <4>2. nextPty < nextPty + 1
        BY <1>1
      <4>. QED  BY <1>1, <3>3, <4>1, <4>2
    <3>6. ASSUME NEW h \in Generation, NEW i \in DOMAIN up'[h], up'[h][i].type = "write"
          PROVE  up'[h][i].id < nextPty'
      <4>1. up'[h][i].id < nextPty
        BY <1>7, <3>6 DEF InputInv, IdsInOrder
      <4>2. up'[h][i] \in Message
        BY DEF PtyTypeOK
      <4>3. up'[h][i].id \in Nat
        BY <3>6, <4>2 DEF Message
      <4>. QED  BY <1>1, <4>1, <4>3
    <3>. QED  BY <3>4, <3>5, <3>6 DEF IdsInOrder
  <2>. QED  BY <2>4, <2>6, <2>7 DEF InputInv
<1>. QED  BY <1>1, <1>8, <1>9

LEMMA WritePtyInput ==
    ASSUME PtyInv, PtyTypeOK', InputInv, NEW g \in Generation, WritePty(g)
    PROVE  InputInv'
<1>0. PICK m : m = Head(up[g])
  OBVIOUS
<1>1. /\ PtyTypeOK /\ link' = link /\ Receives(g, "write") /\ nextPty' = nextPty
      /\ pane' = pane
      /\ pty' = [q \in Pane |->
                   IF q \in Found(g, m.id) /\ pty[q].state = "running"
                   THEN [pty[q] EXCEPT !.got = Append(@, m.input)] ELSE pty[q]]
  BY <1>0 DEF PtyInv, WritePty, linkVars
<1>2. m \in Message /\ m.type = "write"
  BY <1>0, <1>1, ReceivesType
<1>3. m.id \in Nat /\ m.input \in Nat
  BY <1>2 DEF Message
<1>4. /\ 1 \in DOMAIN up[g] /\ up[g][1] = m
      /\ \A h \in Generation : h # g => up'[h] = up[h]
      /\ \A i \in DOMAIN up'[g] : i + 1 \in DOMAIN up[g] /\ up[g][i + 1] = up'[g][i] /\ i + 1 # 1
      /\ \A i \in DOMAIN up[g] :
            i # 1 => i - 1 \in DOMAIN up'[g] /\ up'[g][i - 1] = up[g][i]
  BY <1>0, <1>1, TakenKeeps
<1>5. \A h \in Generation : \A i \in DOMAIN up'[h] :
         \E j \in DOMAIN up[h] : up[h][j] = up'[h][i]
  BY <1>4
<1>6. link[g] = "up"
  BY <1>1, <1>4 DEF PtyInv, LinksInOrder
<1>7. \A q \in Pane : OnLine(q)' <=> OnLine(q)
  BY <1>1 DEF OnLine
<1>8. ASSUME NEW q \in Pane, ~(q \in Found(g, m.id) /\ pty[q].state = "running")
      PROVE  InputOf(q)'
  <2>1. pty'[q] = pty[q] /\ PaneKept(q) /\ PtyKept(q)
    BY <1>1, <1>8 DEF PaneKept, PtyKept
  <2>2. pty[q].id \in Nat /\ pane[q].reply \in Nat
    BY <1>1 DEF PtyTypeOK, Terminal, EventLoop
  <2>3. ASSUME OnLine(q), NEW n \in Nat, pane[q].client = g => n # m.id
        PROVE  SameWrites(pane[q].client, n)
    <3>1. CASE pane[q].client = g
      <4>1. ~IsWrite(Head(up[g]), n)
        BY <1>0, <2>3, <3>1 DEF IsWrite
      <4>. QED  BY <1>1, <2>3, <3>1, <4>1, TakenSame
    <3>2. CASE pane[q].client # g
      BY <1>1, <1>4, <2>3, <3>2, QueueSame DEF OnLine
    <3>. QED  BY <3>1, <3>2
  <2>4. ASSUME pty[q].state = "running", pane[q].client = g
        PROVE  pty[q].id # m.id
    BY <1>8, <2>4 DEF Found, InTable
  <2>5. ASSUME OnLine(q), pane[q].request = "created", pane[q].client = g
        PROVE  pane[q].reply # m.id
    <3>1. ~IsWrite(m, pane[q].reply)
      BY <1>4, <2>5 DEF InputInv, InputOf, Unwritten
    <3>. QED  BY <1>2, <3>1 DEF IsWrite
  <2>6. WritesFor(q)
    BY <1>7, <2>2, <2>3, <2>4, <2>5 DEF WritesFor
  <2>. QED  BY <1>1, <2>1, <2>6, InputFrame DEF InputInv, PtyInv, PaneInv
<1>9. ASSUME NEW q \in Pane, q \in Found(g, m.id), pty[q].state = "running"
      PROVE  InputOf(q)'
  <2>. DEFINE n == m.id
              read == Len(pty[q].got)
              u == up[g]
              v == up'[g]
              typed == pane[q].typed
              W == {i \in DOMAIN u : IsWrite(u[i], n)}
              V == {i \in DOMAIN v : IsWrite(v[i], n)}
  <2>1. /\ OnLine(q) /\ pane[q].client = g /\ pty[q].id = n
        /\ pty[q] \in Terminal /\ pty[q].got \in Seq(Nat) /\ read \in Nat
    BY <1>1, <1>6, <1>9 DEF Found, OnLine, PtyTypeOK, Terminal
  <2>2. /\ pty'[q].state = "running" /\ pty'[q].id = n
        /\ pty'[q].got = Append(pty[q].got, m.input)
    <3>. DEFINE more == Append(pty[q].got, m.input)
                t == [pty[q] EXCEPT !.got = more]
    <3>1. pty'[q] = t
      BY <1>1, <1>9
    <3>2. t.state = "running" /\ t.id = n /\ t.got = more
      <4>. HIDE DEF more, n
      <4>1. n = pty[q].id
        BY <2>1 DEF n
      <4>. QED  BY <1>9, <2>1, <4>1 DEF Terminal
    <3>. HIDE DEF t
    <3>. QED  BY <3>1, <3>2
  <2>3. InputComes(q)
    BY DEF InputInv, InputOf
  <2>4. /\ \A i \in W : u[i].input >= read
        /\ \A i, j \in W : u[i].input = u[j].input => i = j
        /\ \A i \in W : u[i].input > read =>
              \E j \in W : j < i /\ u[j].input + 1 = u[i].input
        /\ pane[q].id = n =>
              /\ read <= typed + 1
              /\ \A i \in W : u[i].input <= typed
              /\ read <= typed => \E i \in W : u[i].input = typed
    BY <1>9, <2>1, <2>3 DEF InputComes
  <2>5. /\ \A i \in W : i \in Nat \ {0} /\ u[i].input \in Nat
        /\ 1 \in W /\ u[1] = m
    <3>1. u \in Seq(Message)
      BY <1>1 DEF PtyTypeOK
    <3>2. \A i \in DOMAIN u : i \in Nat \ {0} /\ u[i] \in Message
      BY <3>1
    <3>. QED  BY <1>2, <1>4, <3>2 DEF Message, IsWrite
  <2>6. /\ \A i \in V : i + 1 \in W /\ u[i + 1] = v[i] /\ i + 1 # 1
        /\ \A i \in W : i # 1 => i - 1 \in V /\ v[i - 1] = u[i]
        /\ \A i \in V : i \in Nat
    <3>1. \A i \in DOMAIN v : i \in Nat
      BY DEF PtyTypeOK
    <3>. QED  BY <1>4, <3>1
  <2>7. typed \in Nat
    BY <1>1 DEF PtyTypeOK, EventLoop
  <2>. HIDE DEF W, V, u, v, read, typed, n
  <2>8. m.input = read
    <3>1. CASE u[1].input > read
      <4>1. PICK j \in W : j < 1
        BY <2>4, <2>5, <3>1
      <4>. QED  BY <2>5, <4>1
    <3>2. CASE u[1].input = read
      BY <2>5, <3>2
    <3>. QED  BY <2>1, <2>4, <2>5, <3>1, <3>2
  <2>9. \A i \in V : v[i].input >= read + 1
    BY <2>1, <2>4, <2>5, <2>6, <2>8
  <2>10. ASSUME NEW i \in V, NEW j \in V, v[i].input = v[j].input
         PROVE  i = j
    <3>1. i + 1 = j + 1
      BY <2>4, <2>6, <2>10
    <3>. QED  BY <2>6, <3>1
  <2>11. ASSUME NEW i \in V, v[i].input > read + 1
         PROVE  \E j \in V : j < i /\ v[j].input + 1 = v[i].input
    <3>1. i + 1 \in W /\ u[i + 1] = v[i] /\ u[i + 1].input > read
      BY <2>1, <2>5, <2>6, <2>11
    <3>2. PICK j \in W : j < i + 1 /\ u[j].input + 1 = u[i + 1].input
      BY <2>4, <3>1
    <3>3. j # 1
      BY <2>1, <2>5, <2>8, <2>11, <3>1, <3>2
    <3>4. j - 1 \in V /\ v[j - 1] = u[j] /\ j - 1 < i
      BY <2>5, <2>6, <3>2, <3>3
    <3>. QED  BY <3>1, <3>2, <3>4
  <2>12. ASSUME pane[q].id = n
         PROVE  /\ read + 1 <= typed + 1
                /\ \A i \in V : v[i].input <= typed
                /\ read + 1 <= typed => \E i \in V : v[i].input = typed
    <3>1. read <= typed
      BY <2>4, <2>5, <2>8, <2>12
    <3>2. \A i \in V : v[i].input <= typed
      BY <2>4, <2>6, <2>12
    <3>3. ASSUME read + 1 <= typed PROVE \E i \in V : v[i].input = typed
      <4>1. PICK i \in W : u[i].input = typed
        BY <2>4, <2>12, <3>1
      <4>2. i # 1
        BY <2>1, <2>5, <2>7, <2>8, <3>3, <4>1
      <4>. QED  BY <2>6, <4>1, <4>2
    <3>. QED  BY <2>1, <2>7, <3>1, <3>2, <3>3
  <2>13. /\ Len(pty'[q].got) = read + 1
         /\ \A i \in 1..read : pty'[q].got[i] = pty[q].got[i]
         /\ pty'[q].got[read + 1] = read
         /\ DOMAIN pty'[q].got = 1..(read + 1)
         /\ DOMAIN pty[q].got = 1..read
    BY <1>3, <2>1, <2>2, <2>8, AppendProperties DEF read
  <2>14. InputComes(q)'
    <3>1. pane'[q].client = g /\ pane'[q].id = pane[q].id /\ pane'[q].typed = typed
      BY <1>1, <2>1 DEF typed
    <3>. USE DEF V, v
    <3>. QED  BY <2>2, <2>9, <2>10, <2>11, <2>12, <2>13, <3>1 DEF InputComes
  <2>15. ReadInOrder(q)'
    <3>1. ReadInOrder(q)
      BY DEF InputInv, InputOf
    <3>2. \A i \in 1..(read + 1) : i \in 1..read \/ i = read + 1
      BY <2>1
    <3>3. (read + 1) - 1 = read
      BY <2>1
    <3>. QED  BY <2>13, <3>1, <3>2, <3>3 DEF ReadInOrder
  <2>16. pane[q].request # "created"
    <3>1. pane[q].request = "created" => pane[q].reply = n
      BY <1>9, <2>1 DEF PtyInv, PaneInv, KnowsItsOwn
    <3>2. IsWrite(m, n)
      BY <1>2 DEF IsWrite, n
    <3>. QED  BY <1>4, <2>1, <3>1, <3>2 DEF InputInv, InputOf, Unwritten
  <2>17. Typing(q)' /\ Unwritten(q)'
    BY <1>1, <1>9, <2>2, <2>16 DEF InputInv, InputOf, Typing, Unwritten, Opened
  <2>. QED  BY <2>14, <2>15, <2>17 DEF InputOf
<1>10. IdsInOrder'
  <2>1. ASSUME NEW q \in Pane PROVE pty'[q].id = pty[q].id
    <3>. DEFINE more == Append(pty[q].got, m.input)
    <3>1. pty'[q] = pty[q] \/ pty'[q] = [pty[q] EXCEPT !.got = more]
      BY <1>1
    <3>2. pty[q] \in Terminal
      BY <1>1 DEF PtyTypeOK
    <3>. HIDE DEF more
    <3>. QED  BY <3>1, <3>2 DEF Terminal
  <2>2. \A q \in Pane : /\ pane'[q].client = pane[q].client
                        /\ pane'[q].id \in {pane[q].id, pane[q].reply, 0}
                        /\ pane'[q].reply \in {pane[q].reply, 0}
                        /\ pty'[q].id \in {pty[q].id, 0}
                        /\ OnLine(q)' => OnLine(q)
    BY <1>1, <1>7, <2>1
  <2>. QED  BY <1>1, <1>5, <2>2, IdsFrame DEF InputInv
<1>. QED  BY <1>8, <1>9, <1>10 DEF InputInv

LEMMA InitInput == Init => InputInv
<1>. SUFFICES ASSUME Init
              PROVE  InputInv
  OBVIOUS
<1>1. ASSUME NEW q \in Pane
      PROVE  /\ pane[q].client = 0 /\ pane[q].request = "none" /\ pane[q].reply = 0
             /\ pane[q].id = 0 /\ pane[q].closed = FALSE /\ pane[q].typed = 0
             /\ Len(pane[q].pending) = 0 /\ Len(pane[q].shown) = 0
             /\ pty[q].state = "none" /\ pty[q].id = 0 /\ Len(pty[q].got) = 0
             /\ DOMAIN pty[q].got = {} /\ DOMAIN pane[q].shown = {}
  BY DEF Init, NoPty
<1>2. \A g \in Generation : g # 0 /\ DOMAIN up[g] = {}
  BY PtyAssumption DEF Init, Generation
<1>3. IdsInOrder
  BY <1>1, <1>2 DEF IdsInOrder, Ids
<1>4. \A q \in Pane : ~OnLine(q)
  BY <1>1, <1>2 DEF OnLine
<1>5. ASSUME NEW q \in Pane PROVE Typing(q)
  <2>1. \A i \in 1..0 : pane[q].pending[i] = i
    OBVIOUS
  <2>2. \A i \in 1..pane[q].typed : pane[q].pending[i] = i
    BY <1>1, <2>1
  <2>3. pane[q].request = "none" /\ "none" \notin {"created", "refused", "held"}
    BY <1>1
  <2>. QED  BY <1>1, <2>2, <2>3 DEF Typing, Opened
<1>6. \A q \in Pane : InputComes(q) /\ Unwritten(q)
  BY <1>4 DEF InputComes, Unwritten
<1>7. \A q \in Pane : ReadInOrder(q)
  BY <1>1 DEF ReadInOrder
<1>. QED  BY <1>3, <1>5, <1>6, <1>7 DEF InputInv, InputOf

LEMMA NextInput ==
    ASSUME PtyInv, PtyInv', InputInv, [Next]_vars
    PROVE  InputInv'
<1>. USE DEF PtyInv
<1>1. CASE \E p \in Pane :
              \/ OpenPane(p) \/ Resumes(p) \/ CreateTimesOut(p)
              \/ Input(p) \/ Shutdown(p)
              \/ ShellPrints(p) \/ ShellExits(p) \/ ReaderEnds(p)
  <2>1. PICK p \in Pane :
              \/ OpenPane(p) \/ Resumes(p) \/ CreateTimesOut(p)
              \/ Input(p) \/ Shutdown(p)
              \/ ShellPrints(p) \/ ShellExits(p) \/ ReaderEnds(p)
    BY <1>1
  <2>2. CASE OpenPane(p)
    BY <2>2, OpenPaneInput
  <2>3. CASE PtyCreated(p)
    BY <2>3, PtyCreatedInput
  <2>4. CASE Input(p)
    BY <2>4, InputInput
  <2>5. CASE BootstrapFails(p) \/ PtyNotCreated(p) \/ CreateTimesOut(p)
    <3>1. Opened(p) /\ (BootstrapFails(p) \/ Fails(p))
      BY <2>5 DEF BootstrapFails, PtyNotCreated, CreateTimesOut, Opened
    <3>2. nextPty' = nextPty
      BY <3>1 DEF BootstrapFails, Fails
    <3>. QED  BY <3>1, <3>2, GivesUpQuiet, QuietKeepsInput
  <2>6. CASE Shutdown(p)
    BY <2>6, ShutdownQuiet, QuietKeepsInput DEF Shutdown
  <2>7. CASE ShellPrints(p) \/ ShellExits(p) \/ ReaderEnds(p)
    <3>1. nextPty' = nextPty
      BY <2>7 DEF ShellPrints, ShellExits, ReaderEnds
    <3>. QED  BY <2>7, <3>1, ReaderQuiet, QuietKeepsInput
  <2>. QED  BY <2>1, <2>2, <2>3, <2>4, <2>5, <2>6, <2>7 DEF Resumes
<1>2. CASE \E g \in Generation :
              Arrives(g) \/ Handles(g) \/ LinkCut(g) \/ StreamEnds(g) \/ Deregister(g)
  <2>1. PICK g \in Generation :
              Arrives(g) \/ Handles(g) \/ LinkCut(g) \/ StreamEnds(g) \/ Deregister(g)
    BY <1>2
  <2>2. CASE OutputArrives(g)
    BY <2>2, OutputArrivesQuiet, QuietKeepsInput DEF OutputArrives
  <2>3. CASE ExitArrives(g)
    BY <2>3, ExitArrivesQuiet, QuietKeepsInput DEF ExitArrives
  <2>4. CASE CreatePty(g)
    BY <2>4, CreatePtyInput
  <2>5. CASE WritePty(g)
    BY <2>5, WritePtyInput
  <2>6. CASE ClosePty(g)
    BY <2>6, ClosePtyQuiet, QuietKeepsInput DEF ClosePty
  <2>7. CASE LinkCut(g)
    BY <2>7, CutQuiet, QuietKeepsInput DEF LinkCut
  <2>8. CASE StreamEnds(g)
    BY <2>8, StreamEndsQuiet, QuietKeepsInput DEF StreamEnds
  <2>9. CASE Deregister(g)
    BY <2>9, DeregisterQuiet, QuietKeepsInput DEF Deregister
  <2>. QED  BY <2>1, <2>2, <2>3, <2>4, <2>5, <2>6, <2>7, <2>8, <2>9 DEF Arrives, Handles
<1>3. CASE Connect
  BY <1>3, ConnectQuiet, QuietKeepsInput DEF Connect
<1>4. CASE Restart
  BY <1>4, CutQuiet, QuietKeepsInput DEF Restart
<1>5. CASE DaemonDies
  BY <1>5, DaemonDiesQuiet, QuietKeepsInput
<1>6. CASE UNCHANGED vars
  <2>1. /\ pane' = pane /\ pty' = pty /\ up' = up /\ link' = link /\ nextPty' = nextPty
    BY <1>6 DEF vars, linkVars
  <2>2. \A q \in Pane : PaneKept(q) /\ PtyKept(q) /\ WritesFor(q)
    BY <2>1, UpQuiet DEF PaneKept, PtyKept, OnLine
  <2>3. QuietInput
    BY <2>1, <2>2 DEF QuietInput
  <2>. QED  BY <2>1, <2>3, QuietKeepsInput
<1>. QED  BY <1>1, <1>2, <1>3, <1>4, <1>5, <1>6 DEF Next

\* InputInOrder: every shell reads its bootstrap first and then what was typed, all of
\* it and in order.
THEOREM InputKeepsOrder == Spec => []InputInOrder
<1>1. Init => InputInv
  BY InitInput
<1>2. PtyInv /\ PtyInv' /\ InputInv /\ [Next]_vars => InputInv'
  BY NextInput
<1>3. InputInv => InputInOrder
  BY DEF InputInv, InputOf, ReadInOrder, InputInOrder
<1>. QED  BY <1>1, <1>2, <1>3, PtyInvariant, PTL DEF Spec

-----------------------------------------------------------------------------
\* The frame condition under which what is printed keeps its order.

\* The output of the shell of p moves up the stream or stays.
SameOutputs(g, p) ==
    \E d \in {0, 1} :
        /\ \A i \in DOMAIN events'[g] : IsOutput(events'[g][i], p) =>
              i + d \in DOMAIN events[g] /\ events[g][i + d] = events'[g][i]
        /\ \A i \in DOMAIN events[g] : IsOutput(events[g][i], p) =>
              i - d \in DOMAIN events'[g] /\ events'[g][i - d] = events[g][i]

\* A pane that shows what it showed, or nothing; of which nothing arrives and which
\* prints nothing; whose stream may end.
OutputKept(q) ==
    /\ pane'[q].client = pane[q].client
    /\ \/ pane'[q].shown = pane[q].shown /\ (pane'[q].id = 0 => pane[q].id = 0)
       \/ Len(pane'[q].shown) = 0
    /\ pane[q].client = generation' => pane[q].client = generation
    /\ pane[q].client \in Generation =>
          \/ /\ SameOutputs(pane[q].client, q)
             /\ pane[q].client = generation' /\ connected' => connected
          \/ /\ events'[pane[q].client] = <<>>
             /\ ~(pane[q].client = generation' /\ connected')
             /\ ~OnLine(q)'
    /\ OnLine(q)' /\ pty'[q].state = "running" =>
          OnLine(q) /\ pty[q].state = "running" /\ pty'[q].made = pty[q].made

LEMMA SameComing ==
    ASSUME PtyTypeOK, PtyTypeOK', NEW q \in Pane, pane[q].client \in Generation,
           pane'[q].client = pane[q].client, SameOutputs(pane[q].client, q)
    PROVE  /\ Coming(q)' = Coming(q)
           /\ ChunksInOrder(q) => ChunksInOrder(q)'
<1>. DEFINE g == pane[q].client
            u == events[g]
            v == events'[g]
<1>1. PICK d \in {0, 1} :
        /\ \A i \in DOMAIN v : IsOutput(v[i], q) => i + d \in DOMAIN u /\ u[i + d] = v[i]
        /\ \A i \in DOMAIN u : IsOutput(u[i], q) => i - d \in DOMAIN v /\ v[i - d] = u[i]
  BY DEF SameOutputs
<1>2. (\A i \in DOMAIN u : i \in Int) /\ (\A i \in DOMAIN v : i \in Int)
  BY DEF PtyTypeOK
<1>3. Coming(q) = {u[i].chunk : i \in {j \in DOMAIN u : IsOutput(u[j], q)}}
  BY DEF Coming
<1>4. Coming(q)' = {v[i].chunk : i \in {j \in DOMAIN v : IsOutput(v[j], q)}}
  BY DEF Coming, IsOutput
<1>. HIDE DEF u, v
<1>5. Coming(q)' = Coming(q)
  BY <1>1, <1>3, <1>4
<1>6. ASSUME ChunksInOrder(q) PROVE ChunksInOrder(q)'
  <2>1. ASSUME NEW i \in DOMAIN v, NEW j \in DOMAIN v,
               i < j, IsOutput(v[i], q), IsOutput(v[j], q)
        PROVE  v[i].chunk < v[j].chunk
    <3>1. /\ i + d \in DOMAIN u /\ u[i + d] = v[i]
          /\ j + d \in DOMAIN u /\ u[j + d] = v[j] /\ i + d < j + d
      BY <1>1, <1>2, <2>1
    <3>. QED  BY <1>6, <2>1, <3>1 DEF ChunksInOrder, u
  <2>. QED  BY <2>1 DEF ChunksInOrder, v, IsOutput
<1>. QED  BY <1>5, <1>6

LEMMA SeenStays ==
    ASSUME PtyTypeOK, PtyTypeOK', NEW q \in Pane
    PROVE  /\ Len(pane'[q].shown) = 0 => DOMAIN pane'[q].shown = {} /\ Seen(q)' = {}
           /\ Len(pane[q].shown) = 0 => DOMAIN pane[q].shown = {} /\ Seen(q) = {}
           /\ pane'[q].shown = pane[q].shown => Seen(q)' = Seen(q)
           /\ \A s \in Seen(q) : s \in Nat
           /\ \A s \in Seen(q)' : s \in Nat
           /\ pane[q].client \in Generation => \A c \in Coming(q) : c \in Nat
           /\ pane'[q].client \in Generation => \A c \in Coming(q)' : c \in Nat
<1>1. pane[q].shown \in Seq(Pane \X Nat) /\ pane'[q].shown \in Seq(Pane \X Nat)
  BY DEF PtyTypeOK, EventLoop
<1>2. /\ Len(pane'[q].shown) = 0 => DOMAIN pane'[q].shown = {}
      /\ Len(pane[q].shown) = 0 => DOMAIN pane[q].shown = {}
  BY <1>1
<1>3. /\ \A i \in DOMAIN pane[q].shown : pane[q].shown[i] \in Pane \X Nat
      /\ \A i \in DOMAIN pane'[q].shown : pane'[q].shown[i] \in Pane \X Nat
  BY <1>1
<1>4. /\ pane[q].client \in Generation =>
            \A i \in DOMAIN events[pane[q].client] : events[pane[q].client][i] \in Push
      /\ pane'[q].client \in Generation =>
            \A i \in DOMAIN events'[pane'[q].client] : events'[pane'[q].client][i] \in Push
  BY DEF PtyTypeOK
<1>5. /\ pane[q].client \in Generation => \A c \in Coming(q) : c \in Nat
      /\ pane'[q].client \in Generation => \A c \in Coming(q)' : c \in Nat
  BY <1>4 DEF Coming, Push
<1>. QED  BY <1>2, <1>3, <1>5 DEF Seen

LEMMA OutputFrame ==
    ASSUME PtyTypeOK, PtyTypeOK', LinksInOrder, NEW q \in Pane,
           ShownInOrder(q), OutputComes(q), OutputKept(q),
           \A r \in Pane : pane[r].client # 0 => pane'[r].client = pane[r].client
    PROVE  ShownInOrder(q)' /\ OutputComes(q)'
<1>1. ShownInOrder(q)'
  <2>1. CASE Len(pane'[q].shown) = 0
    BY <2>1, SeenStays DEF ShownInOrder
  <2>2. CASE pane'[q].shown = pane[q].shown /\ (pane'[q].id = 0 => pane[q].id = 0)
    <3>1. \A i \in DOMAIN pane[q].shown : pane[q].shown[i][1] \in Pane
      <4>1. pane[q].shown \in Seq(Pane \X Nat)
        BY DEF PtyTypeOK, EventLoop
      <4>. QED  BY <4>1
    <3>. QED  BY <2>2, <3>1 DEF ShownInOrder, OutputKept
  <2>. QED  BY <2>1, <2>2 DEF OutputKept
<1>. SUFFICES ASSUME pane[q].client \in Generation
              PROVE  OutputComes(q)'
  BY <1>1 DEF OutputComes, OutputKept, OnLine
<1>2. CASE /\ events'[pane[q].client] = <<>>
           /\ ~(pane[q].client = generation' /\ connected')
           /\ ~OnLine(q)'
  <2>1. ChunksInOrder(q)'
    <3>1. DOMAIN events'[pane'[q].client] = {}
      BY <1>2 DEF OutputKept
    <3>. QED  BY <3>1 DEF ChunksInOrder
  <2>. QED  BY <1>2, <2>1 DEF OutputComes, OutputKept
<1>3. CASE /\ SameOutputs(pane[q].client, q)
           /\ pane[q].client = generation' /\ connected' => connected
  <2>1. /\ Coming(q)' = Coming(q) /\ ChunksInOrder(q)'
        /\ pane'[q].client = pane[q].client
    BY <1>3, SameComing DEF OutputComes, OutputKept
  <2>. DEFINE Live == pane[q].client = generation /\ connected
              S == Seen(q)
              T == Seen(q)'
              C == Coming(q)
  <2>2. /\ \A s \in S : s \in Nat
        /\ \A c \in C : c \in Nat
        /\ T = S \/ T = {}
    BY SeenStays DEF OutputKept
  <2>3. Live => /\ \A s \in S, c \in C : s < c
                /\ \A s, c \in S \cup C : s < c => s + 1 \in S \cup C
    BY DEF OutputComes
  <2>4. OnLine(q) => Live
    BY DEF OnLine, LinksInOrder
  <2>5. ASSUME pane'[q].client = generation', connected'
        PROVE  /\ \A i, j \in DOMAIN pane'[q].shown :
                     /\ i < j
                     /\ pane'[q].shown[i][1] = q
                     /\ pane'[q].shown[j][1] = q
                     => pane'[q].shown[i][2] < pane'[q].shown[j][2]
               /\ \A s \in T, c \in C : s < c
               /\ \A s, c \in T \cup C : s < c => s + 1 \in T \cup C
    <3>1. Live
      BY <1>3, <2>5 DEF OutputKept
    <3>2. \A i, j \in DOMAIN pane'[q].shown :
                     /\ i < j
                     /\ pane'[q].shown[i][1] = q
                     /\ pane'[q].shown[j][1] = q
                     => pane'[q].shown[i][2] < pane'[q].shown[j][2]
      <4>1. CASE pane'[q].shown = pane[q].shown
        BY <3>1, <4>1 DEF OutputComes
      <4>2. CASE Len(pane'[q].shown) = 0
        BY <4>2, SeenStays
      <4>. QED  BY <4>1, <4>2 DEF OutputKept
    <3>. HIDE DEF S, T, C
    <3>3. \A s, c \in T \cup C : s < c => s + 1 \in T \cup C
      BY <2>2, <2>3, <3>1
    <3>. QED  BY <2>2, <2>3, <3>1, <3>2, <3>3
  <2>6. ASSUME OnLine(q)', pty'[q].state = "running"
        PROVE  \A s \in T \cup C :
                  /\ s <= pty'[q].made
                  /\ s < pty'[q].made => s + 1 \in T \cup C
    <3>1. /\ OnLine(q) /\ pty'[q].made = pty[q].made
          /\ \A s \in S \cup C : /\ s <= pty[q].made
                                 /\ s < pty[q].made => s + 1 \in S \cup C
      BY <2>6 DEF OutputComes, OutputKept
    <3>. HIDE DEF S, T, C
    <3>. QED  BY <2>2, <2>3, <2>4, <3>1
  <2>. QED  BY <2>1, <2>5, <2>6 DEF OutputComes
<1>. QED  BY <1>2, <1>3 DEF OutputKept

\* What a push says stays true.
LEMMA FitsKept ==
    ASSUME PtyTypeOK, NEW g \in Generation, NEW e \in Push, pane[e.of].client = g,
           PushFits(g, e),
           \A q \in Pane :
              /\ pane'[q].client = pane[q].client \/ Ids(q)' = {}
              /\ Ids(q)' \subseteq Ids(q)
              /\ pane'[q].request = "created" =>
                    pane[q].request = "created" /\ pane'[q].reply = pane[q].reply
              /\ pane'[q].id # 0 =>
                    \/ pane'[q].id = pane[q].id
                    \/ pane[q].request = "created" /\ pane'[q].id = pane[q].reply,
           link'[g] = "up" => link[g] = "up" /\ nextPty' \in {nextPty, nextPty + 1},
           \A i \in DOMAIN up'[g] : up'[g][i].type = "create" =>
              \/ \E j \in DOMAIN up[g] : up[g][j] = up'[g][i]
              \/ up'[g][i].pane # e.of
    PROVE  PushFits(g, e)'
<1>1. e.of \in Pane /\ e.id \in Nat
  BY DEF Push
<1>2. link'[g] = "up" => e.id < nextPty'
  <2>1. nextPty \in Nat
    BY DEF PtyTypeOK
  <2>. QED  BY <1>1, <2>1 DEF PushFits
<1>3. \A j \in DOMAIN up'[g] : up'[g][j].type = "create" => up'[g][j].pane # e.of
  BY DEF PushFits
<1>4. \A p \in Pane : p # e.of /\ pane'[p].client = g => e.id \notin Ids(p)'
  BY DEF PushFits
<1>5. /\ pane'[e.of].request = "created" => pane'[e.of].reply = e.id
      /\ pane'[e.of].id # 0 => pane'[e.of].id = e.id
  BY <1>1 DEF PushFits
<1>. QED  BY <1>2, <1>3, <1>4, <1>5 DEF PushFits

\* The streams after nothing, a push taken, and a push added.
LEMMA StreamSame ==
    ASSUME PtyTypeOK, NEW g \in Generation, events'[g] = events[g], NEW p
    PROVE  SameOutputs(g, p)
<1>1. \A i \in DOMAIN events[g] : i \in Nat /\ i + 0 = i /\ i - 0 = i
  BY DEF PtyTypeOK
<1>. QED  BY <1>1 DEF SameOutputs

LEMMA StreamTaken ==
    ASSUME PtyTypeOK, NEW g \in Generation, events[g] # <<>>,
           events' = [events EXCEPT ![g] = Tail(@)]
    PROVE  /\ \A h \in Generation : h # g => events'[h] = events[h]
           /\ \A i \in DOMAIN events'[g] :
                 i + 1 \in DOMAIN events[g] /\ events[g][i + 1] = events'[g][i]
           /\ \A i \in DOMAIN events[g] :
                 i # 1 => i - 1 \in DOMAIN events'[g] /\ events'[g][i - 1] = events[g][i]
           /\ 1 \in DOMAIN events[g] /\ events[g][1] = Head(events[g])
           /\ Head(events[g]) \in Push
           /\ \A p : ~IsOutput(Head(events[g]), p) =>
                 \A h \in Generation : SameOutputs(h, p)
<1>1. events[g] \in Seq(Push) /\ events'[g] = Tail(events[g])
  BY DEF PtyTypeOK
<1>2. \A h \in Generation : h # g => events'[h] = events[h]
  BY DEF PtyTypeOK
<1>3. /\ Len(events[g]) \in Nat \ {0} /\ DOMAIN events[g] = 1..Len(events[g])
      /\ DOMAIN events'[g] = 1..(Len(events[g]) - 1)
      /\ \A i \in DOMAIN events'[g] : events'[g][i] = events[g][i + 1]
      /\ events[g][1] = Head(events[g])
  <2>1. /\ Len(Tail(events[g])) = Len(events[g]) - 1 /\ Tail(events[g]) \in Seq(Push)
        /\ \A i \in 1..Len(Tail(events[g])) : Tail(events[g])[i] = events[g][i + 1]
    BY <1>1, HeadTailProperties
  <2>2. Len(events[g]) \in Nat \ {0} /\ DOMAIN events[g] = 1..Len(events[g])
    BY <1>1
  <2>3. DOMAIN Tail(events[g]) = 1..Len(Tail(events[g]))
    BY <2>1
  <2>4. Head(events[g]) = events[g][1]
    BY <1>1
  <2>. QED  BY <1>1, <2>1, <2>2, <2>3, <2>4
<1>4. \A i \in DOMAIN events'[g] :
         i + 1 \in DOMAIN events[g] /\ events[g][i + 1] = events'[g][i]
  BY <1>3
<1>5. ASSUME NEW i \in DOMAIN events[g], i # 1
      PROVE  i - 1 \in DOMAIN events'[g] /\ events'[g][i - 1] = events[g][i]
  <2>1. i - 1 \in DOMAIN events'[g] /\ (i - 1) + 1 = i
    BY <1>3, <1>5
  <2>. QED  BY <1>3, <2>1
<1>6. ASSUME NEW p, ~IsOutput(Head(events[g]), p), NEW h \in Generation
      PROVE  SameOutputs(h, p)
  <2>1. CASE h = g
    <3>1. /\ \A i \in DOMAIN events'[g] : IsOutput(events'[g][i], p) =>
                i + 1 \in DOMAIN events[g] /\ events[g][i + 1] = events'[g][i]
          /\ \A i \in DOMAIN events[g] : IsOutput(events[g][i], p) =>
                i - 1 \in DOMAIN events'[g] /\ events'[g][i - 1] = events[g][i]
      BY <1>3, <1>4, <1>5, <1>6
    <3>. QED  BY <2>1, <3>1 DEF SameOutputs
  <2>2. CASE h # g
    BY <1>2, <2>2, StreamSame
  <2>. QED  BY <2>1, <2>2
<1>7. 1 \in DOMAIN events[g]
  BY <1>3
<1>8. Head(events[g]) \in Push
  BY <1>1
<1>. QED  BY <1>2, <1>3, <1>4, <1>5, <1>6, <1>7, <1>8

LEMMA StreamGrows ==
    ASSUME PtyTypeOK, NEW g \in Generation, NEW msg \in Push, events' = Pushed(g, msg)
    PROVE  /\ \A h \in Generation : h # g => events'[h] = events[h]
           /\ \A h \in Generation : link[h] # "up" => events'[h] = events[h]
           /\ \A i \in DOMAIN events'[g] :
                 \/ i \in DOMAIN events[g] /\ events'[g][i] = events[g][i]
                 \/ /\ link[g] = "up" /\ events'[g][i] = msg
                    /\ \A j \in DOMAIN events[g] : j < i
           /\ \A i \in DOMAIN events[g] :
                 i \in DOMAIN events'[g] /\ events'[g][i] = events[g][i]
           /\ link[g] = "up" => \E i \in DOMAIN events'[g] : events'[g][i] = msg
           /\ \A p : ~IsOutput(msg, p) => \A h \in Generation : SameOutputs(h, p)
<1>. DEFINE L == Len(events[g])
<1>1. \A h \in Generation : h # g \/ link[h] # "up" => events'[h] = events[h]
  BY DEF Pushed, PtyTypeOK
<1>2. /\ \A i \in DOMAIN events'[g] :
            \/ i \in DOMAIN events[g] /\ events'[g][i] = events[g][i]
            \/ /\ link[g] = "up" /\ events'[g][i] = msg
               /\ \A j \in DOMAIN events[g] : j < i
      /\ \A i \in DOMAIN events[g] :
            i \in DOMAIN events'[g] /\ events'[g][i] = events[g][i]
      /\ link[g] = "up" => \E i \in DOMAIN events'[g] : events'[g][i] = msg
  <2>1. CASE link[g] = "up"
    <3>1. events[g] \in Seq(Push) /\ events'[g] = Append(events[g], msg)
      BY <2>1 DEF Pushed, PtyTypeOK
    <3>2. /\ L \in Nat /\ DOMAIN events[g] = 1..L /\ DOMAIN events'[g] = 1..(L + 1)
          /\ \A i \in 1..L : events'[g][i] = events[g][i]
          /\ events'[g][L + 1] = msg
      BY <3>1
    <3>. HIDE DEF L
    <3>3. \A i \in 1..(L + 1) : i \in 1..L \/ (i = L + 1 /\ \A j \in 1..L : j < i)
      BY <3>2
    <3>4. \A i \in 1..L : i \in 1..(L + 1)
      BY <3>2
    <3>5. L + 1 \in 1..(L + 1)
      BY <3>2
    <3>. QED  BY <2>1, <3>2, <3>3, <3>4, <3>5
  <2>2. CASE link[g] # "up"
    BY <1>1, <2>2
  <2>. QED  BY <2>1, <2>2
<1>3. ASSUME NEW p, ~IsOutput(msg, p), NEW h \in Generation
      PROVE  SameOutputs(h, p)
  <2>1. CASE h = g
    <3>1. \A i \in DOMAIN events[g] : i \in Nat /\ i + 0 = i /\ i - 0 = i
      BY DEF PtyTypeOK
    <3>2. /\ \A i \in DOMAIN events'[g] : IsOutput(events'[g][i], p) =>
                i + 0 \in DOMAIN events[g] /\ events[g][i + 0] = events'[g][i]
          /\ \A i \in DOMAIN events[g] : IsOutput(events[g][i], p) =>
                i - 0 \in DOMAIN events'[g] /\ events'[g][i - 0] = events[g][i]
      BY <1>2, <1>3, <3>1
    <3>. QED  BY <2>1, <3>2 DEF SameOutputs
  <2>2. CASE h # g
    BY <1>1, <2>2, StreamSame
  <2>. QED  BY <2>1, <2>2
<1>. QED  BY <1>1, <1>2, <1>3

\* Pushes fit their panes when none is added, no PTY is made and no pane asks.
LEMMA CalmKeepsPushes ==
    ASSUME PtyInv, PtyTypeOK', PushIds, EventsFrom,
           \A q \in Pane :
              /\ pane'[q].client = pane[q].client
              /\ Ids(q)' \subseteq Ids(q)
              /\ pane'[q].request = "created" =>
                    pane[q].request = "created" /\ pane'[q].reply = pane[q].reply
              /\ pane'[q].id # 0 =>
                    \/ pane'[q].id = pane[q].id
                    \/ pane[q].request = "created" /\ pane'[q].id = pane[q].reply,
           \A g \in Generation : \A k \in DOMAIN up'[g] : up'[g][k].type = "create" =>
              \E l \in DOMAIN up[g] : up[g][l] = up'[g][k],
           \A g \in Generation : link'[g] = "up" =>
              /\ nextPty' \in {nextPty, nextPty + 1}
              /\ link[g] = "up" \/ \A q \in Pane : pane[q].client # g
    PROVE  PushIds'
<1>1. ASSUME NEW g \in Generation, NEW i \in DOMAIN events'[g]
      PROVE  PushFits(g, events[g][i])'
  <2>1. PICK j \in DOMAIN events[g] : events[g][j] = events'[g][i]
    BY DEF EventsFrom
  <2>2. PICK e : e = events'[g][i]
    OBVIOUS
  <2>3. e \in Push /\ e.of \in Pane
    <3>1. events[g] \in Seq(Push)
      BY DEF PtyInv, PtyTypeOK
    <3>2. e \in Push
      BY <2>1, <2>2, <3>1
    <3>. QED  BY <3>2 DEF Push
  <2>4. pane[e.of].client = g /\ PushFits(g, e)
    BY <2>1, <2>2 DEF PtyInv, PushesInOrder, PushIds
  <2>5. link'[g] = "up" => link[g] = "up" /\ nextPty' \in {nextPty, nextPty + 1}
    BY <2>3, <2>4
  <2>6. PushFits(g, e)'
    BY <2>3, <2>4, <2>5, FitsKept DEF PtyInv
  <2>. QED  BY <2>2, <2>6 DEF PushFits
<1>. QED  BY <1>1 DEF PushIds

\* A step in which nothing arrives and nothing is printed.
LEMMA CalmKeepsOutput ==
    ASSUME PtyInv, PtyTypeOK', OutputInv, EventsFrom,
           \A q \in Pane :
              /\ OutputKept(q)
              /\ pane'[q].client = pane[q].client
              /\ Ids(q)' \subseteq Ids(q)
              /\ pane'[q].request = "created" =>
                    pane[q].request = "created" /\ pane'[q].reply = pane[q].reply
              /\ pane'[q].id # 0 =>
                    \/ pane'[q].id = pane[q].id
                    \/ pane[q].request = "created" /\ pane'[q].id = pane[q].reply,
           \A g \in Generation : \A k \in DOMAIN up'[g] : up'[g][k].type = "create" =>
              \E l \in DOMAIN up[g] : up[g][l] = up'[g][k],
           \A g \in Generation : link'[g] = "up" =>
              /\ nextPty' \in {nextPty, nextPty + 1}
              /\ link[g] = "up" \/ \A q \in Pane : pane[q].client # g
    PROVE  OutputInv'
<1>1. ASSUME NEW q \in Pane PROVE ShownInOrder(q)' /\ OutputComes(q)'
  BY OutputFrame DEF PtyInv, OutputInv
<1>2. PushIds'
  BY CalmKeepsPushes DEF OutputInv
<1>. QED  BY <1>1, <1>2 DEF OutputInv

\* A step in which nothing is typed either.
LEMMA QuietKeepsOutput ==
    ASSUME PtyInv, PtyTypeOK', OutputInv, QuietInput, EventsFrom,
           \A q \in Pane : OutputKept(q),
           \A g \in Generation : link'[g] = "up" =>
              /\ nextPty' \in {nextPty, nextPty + 1}
              /\ link[g] = "up" \/ \A q \in Pane : pane[q].client # g
    PROVE  OutputInv'
<1>1. ASSUME NEW q \in Pane
      PROVE  /\ pane'[q].client = pane[q].client
             /\ Ids(q)' \subseteq Ids(q)
             /\ pane'[q].request = "created" =>
                   pane[q].request = "created" /\ pane'[q].reply = pane[q].reply
             /\ pane'[q].id # 0 => pane'[q].id = pane[q].id
  <2>1. PaneKept(q) /\ PtyKept(q)
    BY DEF QuietInput
  <2>. QED  BY <2>1 DEF PaneKept, PtyKept, Ids
<1>2. \A g \in Generation : \A k \in DOMAIN up'[g] : up'[g][k].type = "create" =>
         \E l \in DOMAIN up[g] : up[g][l] = up'[g][k]
  BY DEF QuietInput
<1>. QED  BY <1>1, <1>2, CalmKeepsOutput

-----------------------------------------------------------------------------
\* The steps in which nothing is printed.

\* A step that leaves the connections alone and keeps the output of a PTY.
LEMMA KeptFrom ==
    ASSUME PtyTypeOK, UNCHANGED linkVars, ShownStays,
           \A q \in Pane : /\ pane'[q].client = pane[q].client
                           /\ pty'[q].state = "running" =>
                                 pty[q].state = "running" /\ pty'[q].made = pty[q].made,
           NEW q \in Pane, pane[q].client \in Generation => SameOutputs(pane[q].client, q)
    PROVE  OutputKept(q)
<1>1. link' = link /\ generation' = generation /\ connected' = connected
  BY DEF linkVars
<1>2. OnLine(q)' => OnLine(q)
  BY <1>1 DEF OnLine
<1>. QED  BY <1>1, <1>2 DEF OutputKept, ShownStays

\* The same when no link comes up.
LEMMA LinkKept ==
    ASSUME UNCHANGED linkVars, NEW g \in Generation, link'[g] = "up",
           nextPty' \in {nextPty, nextPty + 1}
    PROVE  /\ nextPty' \in {nextPty, nextPty + 1}
           /\ link[g] = "up" \/ \A q \in Pane : pane[q].client # g
  BY DEF linkVars

LEMMA GivesUpOutput ==
    ASSUME PtyInv, PtyTypeOK', OutputInv, NEW p \in Pane, Opened(p),
           BootstrapFails(p) \/ Fails(p)
    PROVE  OutputInv'
<1>1. QuietInput /\ ShownStays /\ PtyTypeOK
  BY GivesUpQuiet DEF PtyInv
<1>2. /\ UNCHANGED linkVars /\ nextPty' = nextPty /\ pty' = pty /\ events' = events
  BY DEF BootstrapFails, Fails
<1>3. \A q \in Pane : OutputKept(q)
  BY <1>1, <1>2, KeptFrom, StreamSame DEF QuietInput, PaneKept
<1>. QED  BY <1>1, <1>2, <1>3, EventsAlone, LinkKept, QuietKeepsOutput

LEMMA ShutdownOutput ==
    ASSUME PtyInv, PtyTypeOK', OutputInv, NEW p \in Pane, Shutdown(p)
    PROVE  OutputInv'
<1>1. QuietInput /\ ShownStays /\ PtyTypeOK
  BY ShutdownQuiet DEF PtyInv
<1>2. /\ UNCHANGED linkVars /\ nextPty' = nextPty /\ pty' = pty /\ events' = events
  BY DEF Shutdown
<1>3. \A q \in Pane : OutputKept(q)
  BY <1>1, <1>2, KeptFrom, StreamSame DEF QuietInput, PaneKept
<1>. QED  BY <1>1, <1>2, <1>3, EventsAlone, LinkKept, QuietKeepsOutput

LEMMA ExitArrivesOutput ==
    ASSUME PtyInv, PtyTypeOK', OutputInv, NEW g \in Generation, ExitArrives(g)
    PROVE  OutputInv'
<1>1. QuietInput /\ ShownStays /\ PtyTypeOK
  BY ExitArrivesQuiet DEF PtyInv
<1>2. /\ UNCHANGED linkVars /\ nextPty' = nextPty /\ pty' = pty
      /\ events[g] # <<>> /\ events' = [events EXCEPT ![g] = Tail(@)]
      /\ Head(events[g]).type = "exited"
  BY DEF ExitArrives
<1>3. \A p \in Pane : ~IsOutput(Head(events[g]), p)
  BY <1>2 DEF IsOutput
<1>4. EventsFrom /\ \A h \in Generation, p \in Pane : SameOutputs(h, p)
  BY <1>1, <1>2, <1>3, PushTaken, StreamTaken
<1>5. \A q \in Pane : OutputKept(q)
  BY <1>1, <1>2, <1>4, KeptFrom DEF QuietInput, PaneKept
<1>. QED  BY <1>1, <1>2, <1>4, <1>5, LinkKept, QuietKeepsOutput

LEMMA ClosePtyOutput ==
    ASSUME PtyInv, PtyTypeOK', OutputInv, NEW g \in Generation, ClosePty(g)
    PROVE  OutputInv'
<1>1. QuietInput /\ ShownStays /\ PtyTypeOK
  BY ClosePtyQuiet DEF PtyInv
<1>2. /\ UNCHANGED linkVars /\ nextPty' = nextPty /\ events' = events
      /\ pty' = Dropped(Found(g, Head(up[g]).id))
  BY DEF ClosePty
<1>3. \A q \in Pane : pty'[q].state = "running" => pty'[q] = pty[q]
  BY <1>1, <1>2, DroppedFields
<1>4. \A q \in Pane : OutputKept(q)
  BY <1>1, <1>2, <1>3, KeptFrom, StreamSame DEF QuietInput, PaneKept
<1>. QED  BY <1>1, <1>2, <1>4, EventsAlone, LinkKept, QuietKeepsOutput

\* What a reader thread pushes fits its pane.
LEMMA ReaderPushFits ==
    ASSUME PtyInv, PtyTypeOK', InputInv, OutputInv, NEW p \in Pane,
           pty[p].state # "none", NEW msg \in Push, msg.of = p, msg.id = pty[p].id,
           events' = Pushed(pane[p].client, msg),
           link' = link, up' = up, pane' = pane, nextPty' = nextPty,
           \A q \in Pane : pty'[q].id \in {pty[q].id, 0}
    PROVE  pane[p].client \in Generation /\ PushIds'
<1>. DEFINE g == pane[p].client
<1>1. PtyTypeOK /\ PaneInv(p) /\ pane[p] \in EventLoop
  BY DEF PtyInv, PtyTypeOK
<1>2. g \in Generation
  <2>1. Opened(p)
    BY <1>1 DEF PaneInv, StepsInOrder
  <2>2. g # 0 /\ g \in 0..MaxGeneration
    BY <1>1, <2>1 DEF PtyTypeOK, EventLoop
  <2>. QED  BY <2>2, PtyAssumption DEF Generation
<1>3. link[g] = "up" => PushFits(g, msg)
  <2>. SUFFICES ASSUME link[g] = "up" PROVE PushFits(g, msg)
    OBVIOUS
  <2>1. OnLine(p) /\ msg.id # 0 /\ msg.id \in Ids(p)
    BY <1>1, <1>2 DEF OnLine, PaneInv, StepsInOrder, Ids
  <2>2. /\ pane[p].request = "created" => pane[p].reply = msg.id
        /\ pane[p].id # 0 => pane[p].id = msg.id
    BY <1>1, <2>1 DEF PaneInv, KnowsItsOwn
  <2>3. /\ \A q \in Pane : q # p /\ pane[q].client = g => msg.id \notin Ids(q)
        /\ msg.id < nextPty
    BY <2>1 DEF InputInv, IdsInOrder
  <2>4. \A j \in DOMAIN up[g] : up[g][j].type = "create" => up[g][j].pane # p
    BY <1>2 DEF PtyInv, CreatesInOrder
  <2>. QED  BY <2>1, <2>2, <2>3, <2>4 DEF PushFits
<1>4. \A q \in Pane : Ids(q)' \subseteq Ids(q)
  BY DEF Ids
<1>5. ASSUME NEW h \in Generation, NEW e \in Push, pane[e.of].client = h, PushFits(h, e)
      PROVE  PushFits(h, e)'
  <2>1. link'[h] = "up" => link[h] = "up" /\ nextPty' \in {nextPty, nextPty + 1}
    OBVIOUS
  <2>2. \A q \in Pane :
              /\ pane'[q].client = pane[q].client
              /\ pane'[q].request = "created" =>
                    pane[q].request = "created" /\ pane'[q].reply = pane[q].reply
              /\ pane'[q].id # 0 => pane'[q].id = pane[q].id
    OBVIOUS
  <2>3. \A i \in DOMAIN up'[h] : up'[h][i].type = "create" =>
              \E j \in DOMAIN up[h] : up[h][j] = up'[h][i]
    OBVIOUS
  <2>. QED  BY <1>1, <1>4, <1>5, <2>1, <2>2, <2>3, FitsKept
<1>6. ASSUME NEW h \in Generation, NEW i \in DOMAIN events'[h]
      PROVE  PushFits(h, events[h][i])'
  <2>1. PICK e : e = events'[h][i]
    OBVIOUS
  <2>2. CASE i \in DOMAIN events[h] /\ events'[h][i] = events[h][i]
    <3>1. events[h] \in Seq(Push)
      BY <1>1 DEF PtyTypeOK
    <3>2. e \in Push /\ pane[e.of].client = h /\ PushFits(h, e)
      BY <2>1, <2>2, <3>1 DEF PtyInv, PushesInOrder, OutputInv, PushIds
    <3>3. PushFits(h, e)'
      BY <1>5, <3>2
    <3>. QED  BY <2>1, <3>3 DEF PushFits
  <2>3. CASE h = g /\ link[g] = "up" /\ events'[h][i] = msg
    <3>1. PushFits(h, msg)'
      BY <1>3, <1>5, <2>3
    <3>2. events'[h][i] = msg
      BY <2>3
    <3>. QED  BY <3>1, <3>2 DEF PushFits
  <2>. QED  BY <1>1, <1>2, <2>2, <2>3, StreamGrows
<1>. QED  BY <1>2, <1>6 DEF PushIds

LEMMA ReaderEndsOutput ==
    ASSUME PtyInv, PtyTypeOK', InputInv, OutputInv, NEW p \in Pane,
           ShellExits(p) \/ ReaderEnds(p)
    PROVE  OutputInv'
<1>1. /\ PtyTypeOK /\ ShownStays /\ QuietInput /\ pty[p] \in Terminal
  BY ReaderQuiet DEF PtyInv, PtyTypeOK
<1>2. /\ UNCHANGED linkVars /\ link' = link /\ nextPty' = nextPty /\ up' = up
      /\ pane' = pane /\ pty[p].state # "none"
      /\ events' = Pushed(pane[p].client, ExitedPush(p))
  BY DEF ShellExits, ReaderEnds, linkVars
<1>3. /\ ExitedPush(p) \in Push /\ ExitedPush(p).of = p /\ ExitedPush(p).id = pty[p].id
      /\ ExitedPush(p).type = "exited"
  BY <1>1 DEF ExitedPush, Push, Terminal
<1>4. \A q \in Pane : /\ pty'[q].id \in {pty[q].id, 0}
                      /\ q # p => pty'[q] = pty[q]
  BY <1>1 DEF QuietInput, PtyKept, ShellExits, ReaderEnds, PtyTypeOK
<1>5. pty'[p].state # "running"
  <2>. DEFINE nothing == <<>>
              t == [pty[p] EXCEPT !.state = "exited", !.made = 0, !.got = nothing]
  <2>1. pty'[p] = t \/ pty'[p] = NoPty
    BY <1>1 DEF ShellExits, ReaderEnds, PtyTypeOK
  <2>2. t.state = "exited"
    <3>. HIDE DEF nothing
    <3>. QED  BY <1>1 DEF Terminal
  <2>. HIDE DEF t
  <2>. QED  BY <2>1, <2>2 DEF NoPty
<1>6. pane[p].client \in Generation /\ PushIds'
  BY <1>2, <1>3, <1>4, ReaderPushFits
<1>7. \A h \in Generation, q \in Pane : SameOutputs(h, q)
  <2>1. \A q \in Pane : ~IsOutput(ExitedPush(p), q)
    BY <1>3 DEF IsOutput
  <2>. QED  BY <1>1, <1>2, <1>3, <1>6, <2>1, StreamGrows
<1>8. ASSUME NEW q \in Pane PROVE ShownInOrder(q)' /\ OutputComes(q)'
  <2>1. OutputKept(q)
    BY <1>1, <1>2, <1>4, <1>5, <1>7, KeptFrom
  <2>. QED  BY <1>1, <1>2, <2>1, OutputFrame DEF PtyInv, OutputInv
<1>. QED  BY <1>6, <1>8 DEF OutputInv

\* The chunk that a shell prints follows those before.
LEMMA ShellPrintsOutput ==
    ASSUME PtyInv, PtyTypeOK', InputInv, OutputInv, NEW p \in Pane, ShellPrints(p)
    PROVE  OutputInv'
<1>. DEFINE msg == OutputPush(p)
            made == pty[p].made
            g == pane[p].client
<1>1. /\ PtyTypeOK /\ ShownStays /\ QuietInput /\ pty[p] \in Terminal /\ made \in Nat
  BY ReaderQuiet DEF PtyInv, PtyTypeOK, Terminal
<1>2. /\ UNCHANGED linkVars /\ link' = link /\ nextPty' = nextPty /\ up' = up
      /\ pane' = pane /\ pty[p].state = "running" /\ events' = Pushed(g, msg)
      /\ generation' = generation /\ connected' = connected
  BY DEF ShellPrints, linkVars
<1>3. /\ msg \in Push /\ msg.of = p /\ msg.id = pty[p].id /\ msg.type = "output"
      /\ msg.chunk = made + 1
  BY <1>1 DEF OutputPush, Push, Terminal
<1>4. /\ \A q \in Pane : pty'[q].id = pty[q].id /\ pty'[q].state = pty[q].state
      /\ \A q \in Pane : q # p => pty'[q] = pty[q]
      /\ pty'[p].made = made + 1
  <2>. DEFINE more == made + 1
              t == [pty[p] EXCEPT !.made = more]
  <2>1. pty' = [pty EXCEPT ![p] = t]
    BY DEF ShellPrints
  <2>2. t.id = pty[p].id /\ t.state = pty[p].state /\ t.made = more
    <3>. HIDE DEF more
    <3>. QED  BY <1>1 DEF Terminal
  <2>. HIDE DEF t
  <2>. QED  BY <1>1, <2>1, <2>2 DEF PtyTypeOK
<1>5. g \in Generation /\ PushIds'
  BY <1>2, <1>3, <1>4, ReaderPushFits
<1>6. ASSUME NEW q \in Pane, q # p \/ link[g] # "up" PROVE ShownInOrder(q)' /\ OutputComes(q)'
  <2>1. \A h \in Generation : SameOutputs(h, q)
    <3>1. CASE q # p
      <4>1. ~IsOutput(msg, q)
        BY <1>3, <3>1 DEF IsOutput
      <4>. QED  BY <1>1, <1>2, <1>3, <1>5, <4>1, StreamGrows
    <3>2. CASE link[g] # "up"
      <4>1. events' = events
        BY <1>2, <3>2 DEF Pushed
      <4>. QED  BY <1>1, <4>1, StreamSame
    <3>. QED  BY <1>6, <3>1, <3>2
  <2>2. /\ OnLine(q)' => OnLine(q)
        /\ OnLine(q)' => q # p
    BY <1>2, <1>6 DEF OnLine
  <2>3. OutputKept(q)
    BY <1>2, <1>4, <2>1, <2>2 DEF OutputKept
  <2>. QED  BY <1>1, <1>2, <2>3, OutputFrame DEF PtyInv, OutputInv
<1>7. ASSUME link[g] = "up" PROVE ShownInOrder(p)' /\ OutputComes(p)'
  <2>. DEFINE S == Seen(p)
              C == Coming(p)
              D == Coming(p)'
              u == events[g]
              v == events'[g]
  <2>1. OnLine(p) /\ g = generation /\ connected
    BY <1>5, <1>7 DEF OnLine, PtyInv, LinksInOrder
  <2>2. Seen(p)' = S /\ (\A s \in S \cup C : s \in Nat)
    BY <1>1, <1>2, <1>5, SeenStays
  <2>3. /\ \A i \in DOMAIN v : \/ i \in DOMAIN u /\ v[i] = u[i]
                               \/ v[i] = msg /\ \A j \in DOMAIN u : j < i
        /\ \A i \in DOMAIN u : i \in DOMAIN v /\ v[i] = u[i]
        /\ \E i \in DOMAIN v : v[i] = msg
    BY <1>1, <1>2, <1>3, <1>5, <1>7, StreamGrows
  <2>4. IsOutput(msg, p)
    BY <1>3 DEF IsOutput
  <2>5. /\ C = {u[i].chunk : i \in {j \in DOMAIN u : IsOutput(u[j], p)}}
        /\ D = {v[i].chunk : i \in {j \in DOMAIN v : IsOutput(v[j], p)}}
    BY <1>2 DEF Coming, IsOutput
  <2>6. OutputComes(p) /\ ShownInOrder(p)
    BY DEF OutputInv
  <2>7. /\ ChunksInOrder(p)
        /\ \A s \in S, c \in C : s < c
        /\ \A s, c \in S \cup C : s < c => s + 1 \in S \cup C
        /\ \A s \in S \cup C : /\ s <= made
                               /\ s < made => s + 1 \in S \cup C
    BY <1>2, <1>5, <2>1, <2>6 DEF OutputComes
  <2>8. ShownInOrder(p)'
    BY <1>2, <2>6 DEF ShownInOrder
  <2>9. \A i, j \in DOMAIN pane'[p].shown :
              /\ i < j
              /\ pane'[p].shown[i][1] = p
              /\ pane'[p].shown[j][1] = p
              => pane'[p].shown[i][2] < pane'[p].shown[j][2]
    BY <1>2, <1>5, <2>1, <2>6 DEF OutputComes
  <2>10. \A i, j \in DOMAIN u : i < j /\ IsOutput(u[i], p) /\ IsOutput(u[j], p)
              => u[i].chunk < u[j].chunk
    BY <2>7 DEF ChunksInOrder
  <2>11. /\ \A i \in DOMAIN u : IsOutput(u[i], p) => u[i].chunk \in C
         /\ \A i \in DOMAIN u : i \in Int
         /\ \A i \in DOMAIN v : i \in Int
    BY <1>1, <1>5, <2>5 DEF PtyTypeOK
  <2>. HIDE DEF msg, made, u, v
  <2>12. D = C \cup {made + 1}
    BY <1>3, <2>3, <2>4, <2>5
  <2>. HIDE DEF S, C, D
  <2>13. ASSUME NEW i \in DOMAIN v, NEW j \in DOMAIN v,
                i < j, IsOutput(v[i], p), IsOutput(v[j], p)
         PROVE  v[i].chunk < v[j].chunk
    <3>1. CASE j \in DOMAIN u /\ v[j] = u[j]
      <4>1. i \in DOMAIN u /\ v[i] = u[i]
        BY <2>3, <2>11, <2>13, <3>1
      <4>. QED  BY <2>10, <2>13, <3>1, <4>1
    <3>2. CASE v[j] = msg /\ \A k \in DOMAIN u : k < j
      <4>1. CASE i \in DOMAIN u /\ v[i] = u[i]
        BY <1>1, <1>3, <2>2, <2>7, <2>11, <2>13, <3>2, <4>1
      <4>2. CASE v[i] = msg /\ \A k \in DOMAIN u : k < i
        \* Only one message is new.
        <5>1. i = Len(u) + 1 /\ j = Len(u) + 1
          <6>1. u \in Seq(Push) /\ v = Append(u, msg)
            BY <1>1, <1>2, <1>5, <1>7 DEF Pushed, PtyTypeOK, u, v
          <6>2. Len(u) \in Nat /\ DOMAIN u = 1..Len(u) /\ DOMAIN v = 1..(Len(u) + 1)
            BY <6>1
          <6>3. i \notin DOMAIN u /\ j \notin DOMAIN u
            BY <2>11, <3>2, <4>2
          <6>. QED  BY <6>2, <6>3
        <5>. QED  BY <2>11, <2>13, <5>1
      <4>. QED  BY <2>3, <4>1, <4>2
    <3>. QED  BY <2>3, <3>1, <3>2
  <2>14. ChunksInOrder(p)'
    BY <1>2, <2>13 DEF ChunksInOrder, IsOutput, v
  <2>15. /\ \A s \in S, c \in D : s < c
         /\ \A s, c \in S \cup D : s < c => s + 1 \in S \cup D
         /\ \A s \in S \cup D : /\ s <= made + 1
                                /\ s < made + 1 => s + 1 \in S \cup D
    <3>1. \A s \in S, c \in D : s < c
      BY <1>1, <2>2, <2>7, <2>12
    <3>2. \A s \in S \cup C : s < made + 1 => s = made \/ s < made
      BY <1>1, <2>2, <2>7
    <3>3. \A s \in S \cup C : s + 1 \in S \cup D
      BY <1>1, <2>2, <2>7, <2>12, <3>2
    <3>4. \A s \in S \cup C : s <= made + 1
      BY <1>1, <2>2, <2>7
    <3>5. \A s \in S \cup D : s \in S \cup C \/ (s = made + 1 /\ ~(s < made + 1))
      BY <1>1, <2>12
    <3>6. \A c \in S \cup D : ~(made + 1 < c)
      BY <1>1, <2>2, <3>4, <3>5
    <3>. QED  BY <1>1, <3>1, <3>3, <3>4, <3>5, <3>6
  <2>. USE DEF D, made
  <2>16. OutputComes(p)'
    BY <1>4, <2>2, <2>9, <2>14, <2>15 DEF OutputComes
  <2>. QED  BY <2>8, <2>16
<1>8. \A q \in Pane : ShownInOrder(q)' /\ OutputComes(q)'
  BY <1>6, <1>7
<1>. QED  BY <1>5, <1>8 DEF OutputInv

-----------------------------------------------------------------------------
\* Connections.

LEMMA ConnectOutput ==
    ASSUME PtyInv, PtyTypeOK', OutputInv, Connect
    PROVE  OutputInv'
<1>1. QuietInput /\ ShownStays /\ PtyTypeOK
  BY ConnectQuiet DEF PtyInv
<1>2. /\ events' = events /\ pane' = pane /\ pty' = pty /\ nextPty' = nextPty
      /\ generation' = generation + 1
  BY DEF Connect
<1>3. ASSUME NEW q \in Pane PROVE pane[q].client # generation + 1
  <2>1. pane[q] \in EventLoop /\ pane[q].client <= generation /\ generation \in Nat
    BY <1>1, PtyAssumption DEF PtyInv, PtyTypeOK, LinksInOrder
  <2>2. pane[q].client \in Nat
    BY <2>1, PtyAssumption DEF EventLoop
  <2>. QED  BY <2>1, <2>2
<1>4. \A h \in Generation : h # generation + 1 => link'[h] = link[h]
  BY <1>1 DEF Connect, PtyTypeOK
<1>5. ASSUME NEW q \in Pane PROVE OutputKept(q)
  <2>1. pane[q].client \in Generation => SameOutputs(pane[q].client, q)
    BY <1>1, <1>2, StreamSame
  <2>2. OnLine(q)' => OnLine(q)
    BY <1>2, <1>3, <1>4 DEF OnLine
  <2>. QED  BY <1>2, <1>3, <2>1, <2>2 DEF OutputKept
<1>6. \A g \in Generation : link'[g] = "up" =>
         /\ nextPty' \in {nextPty, nextPty + 1}
         /\ link[g] = "up" \/ \A q \in Pane : pane[q].client # g
  BY <1>2, <1>3, <1>4
<1>. QED  BY <1>1, <1>2, <1>5, <1>6, EventsAlone, QuietKeepsOutput

\* Connections that go.
LEMMA DownOutput ==
    ASSUME PtyInv, PtyTypeOK', OutputInv, QuietInput, ShownStays,
           EventsFrom, generation' = generation, connected' => connected,
           \A h \in Generation : link'[h] = "up" =>
              link[h] = "up" /\ nextPty' \in {nextPty, nextPty + 1},
           \A h \in Generation :
              \/ events'[h] = events[h]
              \/ /\ events'[h] = <<>> /\ link'[h] # "up"
                 /\ ~(h = generation /\ connected'),
           \A q \in Pane : OnLine(q)' /\ pty'[q].state = "running" => pty'[q] = pty[q]
    PROVE  OutputInv'
<1>1. ASSUME NEW q \in Pane PROVE OutputKept(q)
  <2>1. pane'[q].client = pane[q].client /\ (OnLine(q)' => OnLine(q))
    BY DEF QuietInput, PaneKept, WritesFor
  <2>2. pane[q].client \in Generation =>
          \/ SameOutputs(pane[q].client, q)
          \/ /\ events'[pane[q].client] = <<>>
             /\ ~(pane[q].client = generation' /\ connected')
             /\ ~OnLine(q)'
    BY <2>1, StreamSame DEF OnLine, PtyInv
  <2>. QED  BY <2>1, <2>2 DEF OutputKept, ShownStays
<1>. QED  BY <1>1, QuietKeepsOutput

LEMMA CutOutput ==
    ASSUME PtyInv, PtyTypeOK', OutputInv, Restart \/ \E g \in Generation : LinkCut(g)
    PROVE  OutputInv'
<1>1. QuietInput /\ ShownStays /\ PtyTypeOK
  BY CutQuiet DEF PtyInv
<1>2. /\ events' = events /\ pty' = pty /\ nextPty' = nextPty
      /\ generation' = generation /\ (connected' => connected)
  BY DEF Restart, LinkCut
<1>3. \E g \in Generation : Cut(g)
  BY PtyAssumption DEF Restart, LinkCut, PtyInv, PtyTypeOK, Generation
<1>4. \A h \in Generation : link'[h] = "up" => link[h] = "up"
  BY <1>1, <1>3 DEF Cut, PtyTypeOK
<1>. QED  BY <1>1, <1>2, <1>4, EventsAlone, DownOutput

LEMMA StreamEndsOutput ==
    ASSUME PtyInv, PtyTypeOK', OutputInv, NEW g \in Generation, StreamEnds(g)
    PROVE  OutputInv'
<1>1. QuietInput /\ ShownStays /\ PtyTypeOK
  BY StreamEndsQuiet DEF PtyInv
<1>2. /\ pty' = pty /\ nextPty' = nextPty /\ link' = link /\ generation' = generation
      /\ connected' = (connected /\ g # generation) /\ link[g] # "up"
      /\ events' = [events EXCEPT ![g] = <<>>]
  BY DEF StreamEnds
<1>3. \A h \in Generation : \/ events'[h] = events[h]
                            \/ h = g /\ events'[h] = <<>>
  BY <1>1, <1>2 DEF PtyTypeOK
<1>4. EventsFrom
  <2>1. \A h \in Generation : events'[h] = <<>> => DOMAIN events'[h] = {}
    OBVIOUS
  <2>. QED  BY <1>3, <2>1 DEF EventsFrom
<1>. QED  BY <1>1, <1>2, <1>3, <1>4, DownOutput

LEMMA DeregisterOutput ==
    ASSUME PtyInv, PtyTypeOK', OutputInv, NEW g \in Generation, Deregister(g)
    PROVE  OutputInv'
<1>1. QuietInput /\ ShownStays /\ PtyTypeOK
  BY DeregisterQuiet DEF PtyInv
<1>2. /\ events' = events /\ nextPty' = nextPty /\ generation' = generation
      /\ connected' = connected /\ link' = [link EXCEPT ![g] = "gone"]
      /\ pty' = Dropped({p \in Pane : pane[p].client = g})
  BY DEF Deregister
<1>3. \A h \in Generation : link'[h] = "up" => link[h] = "up"
  BY <1>1, <1>2 DEF PtyTypeOK
<1>4. \A q \in Pane : pty'[q].state = "running" => pty'[q] = pty[q]
  BY <1>1, <1>2, DroppedFields
<1>. QED  BY <1>1, <1>2, <1>3, <1>4, EventsAlone, DownOutput

LEMMA DaemonDiesOutput ==
    ASSUME PtyInv, PtyTypeOK', OutputInv, DaemonDies
    PROVE  OutputInv'
<1>1. /\ QuietInput /\ ShownStays
      /\ \A g \in Generation : link'[g] # "up"
  BY DaemonDiesQuiet
<1>2. /\ events' = events /\ generation' = generation /\ connected' = connected
  BY DEF DaemonDies
<1>3. \A q \in Pane : ~OnLine(q)'
  BY <1>1 DEF OnLine
<1>. QED  BY <1>1, <1>2, <1>3, EventsAlone, DownOutput

-----------------------------------------------------------------------------
\* A pane that asks, is answered, or is typed in.

LEMMA OpenPaneOutput ==
    ASSUME PtyInv, PtyTypeOK', InputInv, OutputInv, NEW p \in Pane, OpenPane(p)
    PROVE  OutputInv'
<1>1. /\ PtyTypeOK /\ pane[p] \in EventLoop /\ link' = link /\ pty' = pty
      /\ nextPty' = nextPty /\ generation \in 0..MaxGeneration /\ events' = events
      /\ generation' = generation /\ connected' = connected
  BY DEF PtyInv, PtyTypeOK, OpenPane, linkVars
<1>2. /\ pane'[p].client = generation /\ pane'[p].request = "asked"
      /\ pane'[p].id = pane[p].id /\ pane'[p].reply = pane[p].reply
      /\ pane'[p].shown = pane[p].shown
      /\ \A q \in Pane \ {p} : pane'[q] = pane[q]
  <2>. DEFINE r == [pane[p] EXCEPT !.client = generation, !.request = "asked"]
  <2>1. pane' = [pane EXCEPT ![p] = r]
    BY DEF OpenPane
  <2>2. /\ r.client = generation /\ r.request = "asked" /\ r.id = pane[p].id
        /\ r.reply = pane[p].reply /\ r.shown = pane[p].shown
    BY <1>1 DEF EventLoop
  <2>. HIDE DEF r
  <2>. QED  BY <1>1, <2>1, <2>2 DEF PtyTypeOK
<1>3. /\ pane[p].request = "none" /\ pane[p].client = 0 /\ pane[p].id = 0
      /\ pane[p].reply = 0 /\ pty[p].state = "none" /\ pty[p].id = 0
      /\ Len(pane[p].shown) = 0
  BY DEF OpenPane, PtyInv, PaneInv, StepsInOrder, Opened, InputInv, InputOf, Typing,
         OutputInv, ShownInOrder
<1>4. \A h \in Generation : h # 0
  BY PtyAssumption DEF Generation
<1>5. ASSUME NEW q \in Pane, q # p PROVE ShownInOrder(q)' /\ OutputComes(q)'
  <2>1. \A r \in Pane : pane[r].client # 0 => pane'[r].client = pane[r].client
    BY <1>2, <1>3
  <2>2. OnLine(q)' => OnLine(q)
    BY <1>1, <1>2, <1>5 DEF OnLine
  <2>3. OutputKept(q)
    BY <1>1, <1>2, <1>5, <2>2, StreamSame DEF OutputKept
  <2>. QED  BY <1>1, <2>1, <2>3, OutputFrame DEF PtyInv, OutputInv
<1>6. ShownInOrder(p)' /\ OutputComes(p)'
  <2>1. DOMAIN pane'[p].shown = {} /\ Seen(p)' = {}
    BY <1>1, <1>2, <1>3, SeenStays
  <2>2. generation \in Generation =>
           \A i \in DOMAIN events'[generation] : ~IsOutput(events'[generation][i], p)
    BY <1>1, <1>3, <1>4 DEF PtyInv, PushesInOrder, IsOutput
  <2>3. generation \in Generation => Coming(p)' = {}
    BY <1>2, <2>2 DEF Coming, IsOutput
  <2>4. ShownInOrder(p)'
    BY <1>2, <1>3, <2>1 DEF ShownInOrder
  <2>5. pane'[p].client \in Generation => ChunksInOrder(p)'
    BY <1>2, <2>2 DEF ChunksInOrder, IsOutput
  <2>6. OnLine(p)' => generation \in Generation
    BY <1>2 DEF OnLine
  <2>. QED  BY <1>2, <2>1, <2>3, <2>4, <2>5, <2>6 DEF OutputComes
<1>7. ASSUME NEW h \in Generation, NEW i \in DOMAIN events'[h]
      PROVE  PushFits(h, events[h][i])'
  <2>1. PICK e : e = events[h][i]
    OBVIOUS
  <2>2. events[h] \in Seq(Push)
    BY <1>1 DEF PtyTypeOK
  <2>3. e \in Push /\ pane[e.of].client = h /\ PushFits(h, e)
    BY <1>1, <2>1, <2>2 DEF PtyInv, PushesInOrder, OutputInv, PushIds
  <2>4. e.of # p
    BY <1>3, <1>4, <2>3
  <2>5. \A q \in Pane :
              /\ pane'[q].client = pane[q].client \/ Ids(q)' = {}
              /\ Ids(q)' \subseteq Ids(q)
              /\ pane'[q].request = "created" =>
                    pane[q].request = "created" /\ pane'[q].reply = pane[q].reply
              /\ pane'[q].id # 0 => pane'[q].id = pane[q].id
    BY <1>1, <1>2, <1>3 DEF Ids
  <2>6. ASSUME NEW k \in DOMAIN up'[h], up'[h][k].type = "create"
        PROVE  \/ \E j \in DOMAIN up[h] : up[h][j] = up'[h][k]
               \/ up'[h][k].pane # e.of
    <3>. DEFINE msgs == <<CreateMsg(p)>>
    <3>1. msgs \in Seq(Message) /\ \A j \in DOMAIN msgs : msgs[j].pane = p
      BY DEF CreateMsg, Message
    <3>2. up' = Sent(generation, msgs)
      BY DEF OpenPane
    <3>. HIDE DEF msgs
    <3>3. \/ \E j \in DOMAIN up[h] : up[h][j] = up'[h][k]
          \/ \E j \in DOMAIN msgs : msgs[j] = up'[h][k]
      BY <1>1, <3>1, <3>2, SentFrom
    <3>. QED  BY <2>4, <3>1, <3>3
  <2>7. PushFits(h, e)'
    BY <1>1, <2>3, <2>5, <2>6, FitsKept
  <2>. QED  BY <1>1, <2>1, <2>7 DEF PushFits
<1>. QED  BY <1>5, <1>6, <1>7 DEF OutputInv, PushIds

\* What a pane sends when it is told its id, and when it is typed in.
LEMMA WritesSent ==
    ASSUME PtyTypeOK, NEW g \in 0..MaxGeneration, NEW msgs \in Seq(Message),
           \A k \in DOMAIN msgs : msgs[k].type = "write", up' = up \/ up' = Sent(g, msgs),
           NEW h \in Generation, NEW i \in DOMAIN up'[h], up'[h][i].type = "create"
    PROVE  \E j \in DOMAIN up[h] : up[h][j] = up'[h][i]
<1>1. CASE up' = up
  BY <1>1
<1>2. CASE up' = Sent(g, msgs)
  BY <1>2, SentFrom
<1>. QED  BY <1>1, <1>2

LEMMA PtyCreatedOutput ==
    ASSUME PtyInv, PtyTypeOK', OutputInv, NEW p \in Pane, PtyCreated(p)
    PROVE  OutputInv'
<1>1. /\ PtyTypeOK /\ pane[p] \in EventLoop /\ link' = link /\ pty' = pty
      /\ nextPty' = nextPty /\ events' = events /\ pane[p].request = "created"
      /\ generation' = generation /\ connected' = connected
      /\ pane[p].client \in 0..MaxGeneration /\ pane[p].reply \in Nat
      /\ pane[p].pending \in Seq(Nat)
  BY DEF PtyInv, PtyTypeOK, PtyCreated, linkVars, EventLoop
<1>2. /\ pane'[p].client = pane[p].client /\ pane'[p].request = "held"
      /\ pane'[p].id = pane[p].reply /\ pane'[p].reply = 0
      /\ pane'[p].shown = pane[p].shown
      /\ \A q \in Pane \ {p} : pane'[q] = pane[q]
  <2>. DEFINE nothing == <<>>
              n == pane[p].reply
              r == [pane[p] EXCEPT !.request = "held", !.id = n, !.reply = 0,
                                   !.pending = nothing]
  <2>1. pane' = [pane EXCEPT ![p] = r]
    BY DEF PtyCreated
  <2>2. /\ r.client = pane[p].client /\ r.request = "held"
        /\ r.id = n /\ r.reply = 0 /\ r.shown = pane[p].shown
    <3>. HIDE DEF nothing, n
    <3>. QED  BY <1>1 DEF EventLoop
  <2>. HIDE DEF r
  <2>. QED  BY <1>1, <2>1, <2>2 DEF PtyTypeOK
<1>3. \A h \in Generation : \A i \in DOMAIN up'[h] : up'[h][i].type = "create" =>
         \E j \in DOMAIN up[h] : up[h][j] = up'[h][i]
  <2>. DEFINE inputs == <<Bootstrap>> \o pane[p].pending
              msgs == Writes(pane[p].reply, inputs)
  <2>1. inputs \in Seq(Nat)
    BY <1>1 DEF Bootstrap
  <2>2. up' = Sent(pane[p].client, msgs)
    BY DEF PtyCreated
  <2>. HIDE DEF inputs
  <2>3. msgs \in Seq(Message) /\ \A k \in DOMAIN msgs : msgs[k].type = "write"
    BY <1>1, <2>1, WritesType DEF Writes, WriteMsg
  <2>. HIDE DEF msgs
  <2>. QED  BY <1>1, <2>2, <2>3, WritesSent
<1>4. pane[p].id = 0
  BY <1>1 DEF PtyInv, PaneInv, StepsInOrder
<1>5. ASSUME NEW q \in Pane
      PROVE  /\ OutputKept(q)
             /\ pane'[q].client = pane[q].client
             /\ Ids(q)' \subseteq Ids(q)
             /\ pane'[q].request = "created" =>
                   pane[q].request = "created" /\ pane'[q].reply = pane[q].reply
             /\ pane'[q].id # 0 =>
                   \/ pane'[q].id = pane[q].id
                   \/ pane[q].request = "created" /\ pane'[q].id = pane[q].reply
  <2>1. OnLine(q)' => OnLine(q)
    BY <1>1, <1>2 DEF OnLine
  <2>2. OutputKept(q)
    BY <1>1, <1>2, <1>4, <2>1, StreamSame DEF OutputKept
  <2>. QED  BY <1>1, <1>2, <2>2 DEF Ids
<1>. QED  BY <1>1, <1>3, <1>5, EventsAlone, CalmKeepsOutput

LEMMA InputOutput ==
    ASSUME PtyInv, PtyTypeOK', OutputInv, NEW p \in Pane, Input(p)
    PROVE  OutputInv'
<1>1. /\ PtyTypeOK /\ pane[p] \in EventLoop /\ link' = link /\ pty' = pty
      /\ nextPty' = nextPty /\ events' = events
      /\ generation' = generation /\ connected' = connected
      /\ pane[p].client \in 0..MaxGeneration /\ pane[p].id \in Nat
      /\ pane[p].typed \in Nat
  BY DEF PtyInv, PtyTypeOK, Input, linkVars, EventLoop
<1>2. /\ pane'[p].client = pane[p].client /\ pane'[p].request = pane[p].request
      /\ pane'[p].id = pane[p].id /\ pane'[p].reply = pane[p].reply
      /\ pane'[p].shown = pane[p].shown
      /\ \A q \in Pane \ {p} : pane'[q] = pane[q]
  <2>. DEFINE n == pane[p].typed + 1
              more == Append(pane[p].pending, n)
              r1 == [pane[p] EXCEPT !.typed = n, !.pending = more]
              r2 == [pane[p] EXCEPT !.typed = n]
  <2>1. pane' = [pane EXCEPT ![p] = r1] \/ pane' = [pane EXCEPT ![p] = r2]
    BY DEF Input
  <2>2. \A r \in {r1, r2} :
              /\ r.client = pane[p].client /\ r.request = pane[p].request
              /\ r.reply = pane[p].reply /\ r.id = pane[p].id
              /\ r.shown = pane[p].shown
    <3>. HIDE DEF n, more
    <3>. QED  BY <1>1 DEF EventLoop
  <2>. HIDE DEF r1, r2
  <2>. QED  BY <1>1, <2>1, <2>2 DEF PtyTypeOK
<1>3. \A h \in Generation : \A i \in DOMAIN up'[h] : up'[h][i].type = "create" =>
         \E j \in DOMAIN up[h] : up[h][j] = up'[h][i]
  <2>. DEFINE msg == WriteMsg(pane[p].id, pane[p].typed + 1)
              msgs == <<msg>>
  <2>1. up' = up \/ up' = Sent(pane[p].client, msgs)
    BY DEF Input
  <2>2. msg \in Message /\ msg.type = "write"
    BY <1>1 DEF WriteMsg, Message
  <2>. HIDE DEF msg
  <2>3. msgs \in Seq(Message) /\ \A k \in DOMAIN msgs : msgs[k].type = "write"
    BY <2>2
  <2>. HIDE DEF msgs
  <2>. QED  BY <1>1, <2>1, <2>3, WritesSent
<1>4. ASSUME NEW q \in Pane
      PROVE  /\ OutputKept(q)
             /\ pane'[q].client = pane[q].client
             /\ Ids(q)' \subseteq Ids(q)
             /\ pane'[q].request = "created" =>
                   pane[q].request = "created" /\ pane'[q].reply = pane[q].reply
             /\ pane'[q].id = pane[q].id
  <2>1. OnLine(q)' => OnLine(q)
    BY <1>1, <1>2 DEF OnLine
  <2>2. OutputKept(q)
    BY <1>1, <1>2, <2>1, StreamSame DEF OutputKept
  <2>. QED  BY <1>1, <1>2, <2>2 DEF Ids
<1>. QED  BY <1>1, <1>3, <1>4, EventsAlone, CalmKeepsOutput

LEMMA WritePtyOutput ==
    ASSUME PtyInv, PtyTypeOK', OutputInv, NEW g \in Generation, WritePty(g)
    PROVE  OutputInv'
<1>1. /\ PtyTypeOK /\ link' = link /\ nextPty' = nextPty /\ events' = events
      /\ pane' = pane /\ generation' = generation /\ connected' = connected
      /\ Receives(g, "write")
  BY DEF PtyInv, WritePty, linkVars
<1>2. ASSUME NEW q \in Pane
      PROVE  pty'[q].id = pty[q].id /\ pty'[q].state = pty[q].state
             /\ pty'[q].made = pty[q].made
  <2>. DEFINE more == Append(pty[q].got, Head(up[g]).input)
  <2>1. pty'[q] = pty[q] \/ pty'[q] = [pty[q] EXCEPT !.got = more]
    BY DEF WritePty
  <2>2. pty[q] \in Terminal
    BY <1>1 DEF PtyTypeOK
  <2>. HIDE DEF more
  <2>. QED  BY <2>1, <2>2 DEF Terminal
<1>3. \A h \in Generation : \A i \in DOMAIN up'[h] :
         \E j \in DOMAIN up[h] : up[h][j] = up'[h][i]
  BY <1>1, TakenKeeps
<1>4. ASSUME NEW q \in Pane
      PROVE  OutputKept(q) /\ Ids(q)' \subseteq Ids(q)
  <2>1. OnLine(q)' => OnLine(q)
    BY <1>1 DEF OnLine
  <2>. QED  BY <1>1, <1>2, <2>1, StreamSame DEF OutputKept, Ids
<1>. QED  BY <1>1, <1>3, <1>4, EventsAlone, CalmKeepsOutput

\* A new PTY has printed nothing, and nothing is on its way of it.
LEMMA CreatePtyOutput ==
    ASSUME PtyInv, PtyTypeOK', InputInv, OutputInv, NEW g \in Generation, CreatePty(g)
    PROVE  OutputInv'
<1>0. PICK p : p = Head(up[g]).pane
  OBVIOUS
<1>1. /\ PtyTypeOK /\ link' = link /\ Receives(g, "create") /\ nextPty' = nextPty + 1
      /\ nextPty \in Nat \ {0} /\ events' = events
      /\ generation' = generation /\ connected' = connected
      /\ \/ /\ pty' = [pty EXCEPT ![p].state = "running", ![p].id = nextPty]
            /\ pane' = Answered(p, "created", nextPty)
         \/ pty' = pty /\ pane' = Answered(p, "failed", 0)
  BY <1>0 DEF PtyInv, PtyTypeOK, CreatePty, linkVars
<1>2. p \in Pane /\ pane[p] \in EventLoop /\ pty[p] \in Terminal
  BY <1>0, <1>1, ReceivesType DEF Message, PtyTypeOK
<1>3. /\ 1 \in DOMAIN up[g] /\ up[g][1] = Head(up[g]) /\ up[g][1].type = "create"
      /\ \A h \in Generation : h # g => up'[h] = up[h]
      /\ \A i \in DOMAIN up'[g] : \E j \in DOMAIN up[g] : up[g][j] = up'[g][i]
  BY <1>1, TakenKeeps DEF Receives
<1>4. /\ pane[p].client = g /\ pane[p].request \in {"asked", "failed", "refused"}
      /\ pty[p].state = "none"
  BY <1>0, <1>3 DEF PtyInv, CreatesInOrder
<1>5. \A h \in Generation : \A i \in DOMAIN up'[h] :
         \E j \in DOMAIN up[h] : up[h][j] = up'[h][i]
  BY <1>3
<1>6. \E result \in {"created", "failed"}, id \in Nat : pane' = Answered(p, result, id)
  BY <1>1
<1>7. /\ \A q \in Pane \ {p} : pane'[q] = pane[q]
      /\ pane'[p].client = pane[p].client /\ pane'[p].id = pane[p].id
      /\ pane'[p].shown = pane[p].shown
  BY <1>1, <1>2, <1>6, AnsweredFields
<1>8. /\ \A q \in Pane \ {p} : pty'[q] = pty[q]
      /\ pty'[p].id \in {pty[p].id, nextPty}
  <2>. DEFINE t == [pty[p] EXCEPT !.state = "running", !.id = nextPty]
  <2>1. pty' = pty \/ pty' = [pty EXCEPT ![p] = t]
    BY <1>1
  <2>2. t.id = nextPty
    BY <1>2 DEF Terminal
  <2>. HIDE DEF t
  <2>. QED  BY <1>1, <1>2, <2>1, <2>2 DEF PtyTypeOK
<1>9. pane'[p].reply \in {pane[p].reply, nextPty, 0}
  <2>1. CASE pane' = Answered(p, "created", nextPty)
    BY <1>1, <1>2, <2>1, AnsweredFields
  <2>2. CASE pane' = Answered(p, "failed", 0)
    BY <1>1, <1>2, <2>2, AnsweredFields
  <2>. QED  BY <1>1, <2>1, <2>2
<1>10. pane[p].id = 0
  BY <1>2, <1>4 DEF PtyInv, PaneInv, StepsInOrder
<1>11. link[g] = "up"
  BY <1>1, <1>3, <1>4 DEF PtyInv, LinksInOrder
<1>12. ASSUME NEW h \in Generation, NEW i \in DOMAIN events[h]
       PROVE  /\ events[h][i] \in Push
              /\ events[h][i].of # p
              /\ pane[events[h][i].of].client = h
              /\ PushFits(h, events[h][i])
  <2>1. events[h][i] \in Push
    BY <1>1 DEF PtyTypeOK
  <2>2. PushFits(h, events[h][i]) /\ pane[events[h][i].of].client = h
    BY DEF PtyInv, PushesInOrder, OutputInv, PushIds
  <2>3. h = g => events[h][i].of # p
    BY <1>0, <1>3, <2>2 DEF PushFits
  <2>. QED  BY <1>4, <2>1, <2>2, <2>3
<1>13. ASSUME NEW q \in Pane, q # p PROVE ShownInOrder(q)' /\ OutputComes(q)'
  <2>1. \A r \in Pane : pane'[r].client = pane[r].client
    BY <1>7
  <2>2. OnLine(q)' => OnLine(q)
    BY <1>1, <2>1 DEF OnLine
  <2>3. OutputKept(q)
    BY <1>1, <1>7, <1>8, <1>13, <2>2, StreamSame DEF OutputKept
  <2>. QED  BY <1>1, <2>1, <2>3, OutputFrame DEF PtyInv, OutputInv
<1>14. ShownInOrder(p)' /\ OutputComes(p)'
  <2>1. Len(pane'[p].shown) = 0
    BY <1>2, <1>7, <1>10 DEF OutputInv, ShownInOrder
  <2>2. DOMAIN pane'[p].shown = {} /\ Seen(p)' = {}
    BY <1>1, <1>2, <2>1, SeenStays
  <2>3. Coming(p)' = {}
    BY <1>1, <1>4, <1>7, <1>12 DEF Coming, IsOutput
  <2>4. ChunksInOrder(p)'
    BY <1>1, <1>4, <1>7, <1>12 DEF ChunksInOrder, IsOutput
  <2>. QED  BY <2>1, <2>2, <2>3, <2>4 DEF ShownInOrder, OutputComes
<1>15. ASSUME NEW h \in Generation, NEW i \in DOMAIN events'[h]
       PROVE  PushFits(h, events[h][i])'
  <2>1. PICK e : e = events[h][i]
    OBVIOUS
  <2>2. e \in Push /\ e.of # p /\ pane[e.of].client = h /\ PushFits(h, e)
    BY <1>1, <1>12, <2>1
  <2>3. e.of \in Pane /\ e.id \in Nat
    BY <2>2 DEF Push
  <2>4. link[h] = "up" => e.id < nextPty /\ e.id < nextPty + 1 /\ e.id # nextPty
    BY <1>1, <2>2, <2>3 DEF PushFits
  <2>5. ASSUME NEW q \in Pane, q # e.of, pane'[q].client = h
        PROVE  e.id \notin Ids(q)'
    <3>1. pane[q].client = h
      BY <1>7, <2>5
    <3>2. e.id \notin Ids(q)
      BY <2>2, <2>5, <3>1 DEF PushFits
    <3>3. CASE q = p
      <4>1. e.id # nextPty
        BY <1>4, <1>11, <2>4, <3>1, <3>3
      <4>. QED  BY <1>7, <1>8, <1>9, <3>2, <3>3, <4>1 DEF Ids
    <3>4. CASE q # p
      BY <1>7, <1>8, <3>2, <3>4 DEF Ids
    <3>. QED  BY <3>3, <3>4
  <2>6. \A j \in DOMAIN up'[h] : up'[h][j].type = "create" => up'[h][j].pane # e.of
    BY <1>5, <2>2 DEF PushFits
  <2>7. pane'[e.of] = pane[e.of]
    BY <1>7, <2>2, <2>3
  <2>8. PushFits(h, e)'
    BY <1>1, <2>2, <2>4, <2>5, <2>6, <2>7 DEF PushFits
  <2>. QED  BY <1>1, <2>1, <2>8 DEF PushFits
<1>. QED  BY <1>13, <1>14, <1>15 DEF OutputInv, PushIds

LEMMA InitOutput == Init => OutputInv
<1>. SUFFICES ASSUME Init
              PROVE  OutputInv
  OBVIOUS
<1>1. ASSUME NEW q \in Pane
      PROVE  pane[q].client = 0 /\ Len(pane[q].shown) = 0 /\ DOMAIN pane[q].shown = {}
  BY DEF Init
<1>2. \A g \in Generation : g # 0 /\ DOMAIN events[g] = {}
  BY PtyAssumption DEF Init, Generation
<1>3. PushIds
  BY <1>2 DEF PushIds
<1>4. \A q \in Pane : ShownInOrder(q)
  BY <1>1 DEF ShownInOrder
<1>5. \A q \in Pane : OutputComes(q)
  BY <1>1, <1>2 DEF OutputComes, OnLine
<1>. QED  BY <1>3, <1>4, <1>5 DEF OutputInv

-----------------------------------------------------------------------------
\* Output that arrives.

\* What a pane shows after one chunk more.
LEMMA ShownGrows ==
    ASSUME PtyTypeOK, NEW p \in Pane, NEW o \in Pane, NEW c \in Nat,
           pane'[p].shown = Append(pane[p].shown, <<o, c>>)
    PROVE  LET n == Len(pane[p].shown) IN
           /\ n \in Nat /\ DOMAIN pane[p].shown = 1..n
           /\ DOMAIN pane'[p].shown = 1..(n + 1)
           /\ \A i \in 1..n : pane'[p].shown[i] = pane[p].shown[i]
           /\ pane'[p].shown[n + 1] = <<o, c>>
<1>1. pane[p].shown \in Seq(Pane \X Nat)
  BY DEF PtyTypeOK, EventLoop
<1>2. <<o, c>> \in Pane \X Nat
  OBVIOUS
<1>. DEFINE more == <<o, c>>
<1>. HIDE DEF more
<1>3. LET n == Len(pane[p].shown)
          t == Append(pane[p].shown, more)
      IN  /\ n \in Nat /\ DOMAIN pane[p].shown = 1..n
          /\ DOMAIN t = 1..(n + 1)
          /\ \A i \in 1..n : t[i] = pane[p].shown[i]
          /\ t[n + 1] = more
  BY <1>1, <1>2 DEF more
<1>. QED  BY <1>3 DEF more

\* The output of another shell, which is of another connection.
LEMMA OtherArrives ==
    ASSUME PtyTypeOK, PtyTypeOK', LinksInOrder, NEW p \in Pane,
           ShownInOrder(p), OutputComes(p),
           NEW o \in Pane, NEW c \in Nat, o # p,
           pane[o].client # 0, pane[o].client # pane[p].client,
           pane'[p].shown = Append(pane[p].shown, <<o, c>>), pane[p].id # 0,
           pane'[p].id = pane[p].id, \A q \in Pane : pane'[q].client = pane[q].client,
           pane[p].client \in Generation => SameOutputs(pane[p].client, p),
           link' = link, generation' = generation, connected' = connected, pty' = pty
    PROVE  ShownInOrder(p)' /\ OutputComes(p)'
<1>. DEFINE s == pane[p].shown
            t == pane'[p].shown
            n == Len(s)
<1>1. /\ n \in Nat /\ DOMAIN s = 1..n /\ DOMAIN t = 1..(n + 1)
      /\ \A i \in 1..n : t[i] = s[i]
      /\ t[n + 1] = <<o, c>>
  BY ShownGrows
<1>2. \A i \in 1..n : s[i][1] \in Pane /\ s[i][2] \in Nat
  <2>1. s \in Seq(Pane \X Nat)
    BY DEF PtyTypeOK, EventLoop
  <2>2. \A i \in 1..n : s[i] \in Pane \X Nat
    BY <2>1
  <2>. QED  BY <2>2
<1>3. /\ t[n + 1][1] = o /\ t[n + 1][1] # p
      /\ \A i \in 1..(n + 1) : i \in 1..n \/ i = n + 1
      /\ \A i \in 1..(n + 1) : i > 1 => i - 1 \in 1..n
  BY <1>1
<1>4. /\ \A i \in 1..n :
            /\ pane[s[i][1]].client # 0
            /\ s[i][1] # p => pane[s[i][1]].client # pane[p].client
            /\ i > 1 /\ s[i][1] = p /\ s[i - 1][1] = p /\ pane[p].client = generation =>
                  s[i][2] = s[i - 1][2] + 1
  BY <1>1 DEF ShownInOrder
<1>5. Seen(p) = {s[i][2] : i \in {j \in DOMAIN s : s[j][1] = p}}
  BY DEF Seen
<1>6. Seen(p)' = {t[i][2] : i \in {j \in DOMAIN t : t[j][1] = p}}
  BY DEF Seen
<1>. HIDE DEF s, t, n
<1>7. Seen(p)' = Seen(p)
  BY <1>1, <1>3, <1>5, <1>6
<1>8. ShownInOrder(p)'
  <2>1. ASSUME NEW i \in 1..(n + 1)
        PROVE  /\ pane'[t[i][1]].client # 0
               /\ t[i][1] # p => pane'[t[i][1]].client # pane'[p].client
               /\ i > 1 /\ t[i][1] = p /\ t[i - 1][1] = p /\ pane'[p].client = generation' =>
                     t[i][2] = t[i - 1][2] + 1
    <3>1. CASE i \in 1..n
      BY <1>1, <1>2, <1>3, <1>4, <3>1
    <3>2. CASE i = n + 1
      BY <1>3, <3>2
    <3>. QED  BY <1>3, <3>1, <3>2
  <2>. QED  BY <1>1, <2>1 DEF ShownInOrder, t
<1>9. pane[p].client \in Generation => Coming(p)' = Coming(p) /\ ChunksInOrder(p)'
  BY SameComing DEF OutputComes
<1>10. ASSUME pane[p].client \in Generation, pane[p].client = generation, connected
       PROVE  /\ \A i, j \in DOMAIN t : i < j /\ t[i][1] = p /\ t[j][1] = p => t[i][2] < t[j][2]
              /\ \A a \in Seen(p)', b \in Coming(p)' : a < b
              /\ \A a, b \in Seen(p)' \cup Coming(p)' : a < b => a + 1 \in Seen(p)' \cup Coming(p)'
  <2>1. /\ \A i, j \in DOMAIN s : i < j /\ s[i][1] = p /\ s[j][1] = p => s[i][2] < s[j][2]
        /\ \A a \in Seen(p), b \in Coming(p) : a < b
        /\ \A a, b \in Seen(p) \cup Coming(p) : a < b => a + 1 \in Seen(p) \cup Coming(p)
    BY <1>10 DEF OutputComes, s
  <2>2. \A i, j \in DOMAIN t : i < j /\ t[i][1] = p /\ t[j][1] = p => t[i][2] < t[j][2]
    BY <1>1, <1>3, <2>1
  <2>. QED  BY <1>7, <1>9, <1>10, <2>1, <2>2
<1>11. ASSUME OnLine(p)', pty'[p].state = "running"
       PROVE  \A a \in Seen(p)' \cup Coming(p)' :
                 /\ a <= pty'[p].made
                 /\ a < pty'[p].made => a + 1 \in Seen(p)' \cup Coming(p)'
  <2>1. OnLine(p) /\ pane[p].client \in Generation
    BY <1>11 DEF OnLine
  <2>. QED  BY <1>7, <1>9, <1>11, <2>1 DEF OutputComes
<1>12. OutputComes(p)'
  BY <1>9, <1>10, <1>11 DEF OutputComes, t
<1>. QED  BY <1>8, <1>12

\* The head of the stream is the next chunk of its own pane.
LEMMA OwnTaken ==
    ASSUME PtyTypeOK, PtyTypeOK', NEW g \in Generation, events[g] # <<>>,
           events' = [events EXCEPT ![g] = Tail(@)],
           NEW p \in Pane, pane[p].client = g, pane'[p].client = g,
           IsOutput(Head(events[g]), p), ChunksInOrder(p)
    PROVE  /\ ChunksInOrder(p)'
           /\ Coming(p) = Coming(p)' \cup {Head(events[g]).chunk}
           /\ \A d \in Coming(p)' : Head(events[g]).chunk < d
           /\ Head(events[g]).chunk \in Nat
           /\ \A d \in Coming(p) : d \in Nat
<1>. DEFINE u == events[g]
            v == events'[g]
<1>1. PICK e : e = Head(events[g])
  OBVIOUS
<1>2. /\ \A i \in DOMAIN v : i + 1 \in DOMAIN u /\ u[i + 1] = v[i]
      /\ \A i \in DOMAIN u : i # 1 => i - 1 \in DOMAIN v /\ v[i - 1] = u[i]
      /\ 1 \in DOMAIN u /\ u[1] = e
      /\ e \in Push
  BY <1>1, StreamTaken
<1>3. /\ \A i \in DOMAIN u : i \in Nat \ {0}
      /\ \A i \in DOMAIN v : i \in Nat \ {0}
  <2>1. u \in Seq(Push) /\ v \in Seq(Push)
    BY DEF PtyTypeOK
  <2>. QED  BY <2>1
<1>4. e.chunk \in Nat
  BY <1>2 DEF Push
<1>5. Coming(p) = {u[i].chunk : i \in {j \in DOMAIN u : IsOutput(u[j], p)}}
  BY DEF Coming
<1>6. Coming(p)' = {v[i].chunk : i \in {j \in DOMAIN v : IsOutput(v[j], p)}}
  BY DEF Coming, IsOutput
<1>7. \A i, j \in DOMAIN u : i < j /\ IsOutput(u[i], p) /\ IsOutput(u[j], p) =>
         u[i].chunk < u[j].chunk
  BY DEF ChunksInOrder
<1>8. \A d \in Coming(p) : d \in Nat
  BY SeenStays
<1>. HIDE DEF u, v
<1>9. ASSUME NEW d \in Coming(p)' PROVE d \in Coming(p) /\ e.chunk < d
  <2>1. PICK i \in DOMAIN v : IsOutput(v[i], p) /\ v[i].chunk = d
    BY <1>6
  <2>2. i + 1 \in DOMAIN u /\ u[i + 1] = v[i] /\ 1 < i + 1
    BY <1>2, <1>3, <2>1
  <2>. QED  BY <1>1, <1>2, <1>5, <1>7, <2>1, <2>2
<1>10. ASSUME NEW d \in Coming(p), d # e.chunk PROVE d \in Coming(p)'
  <2>1. PICK i \in DOMAIN u : IsOutput(u[i], p) /\ u[i].chunk = d
    BY <1>5
  <2>2. i # 1
    BY <1>2, <1>10, <2>1
  <2>. QED  BY <1>2, <1>6, <2>1, <2>2
<1>11. e.chunk \in Coming(p)
  BY <1>1, <1>2, <1>5
<1>12. ChunksInOrder(p)'
  <2>1. ASSUME NEW i \in DOMAIN v, NEW j \in DOMAIN v,
               i < j, IsOutput(v[i], p), IsOutput(v[j], p)
        PROVE  v[i].chunk < v[j].chunk
    <3>1. i + 1 < j + 1
      BY <1>3, <2>1
    <3>. QED  BY <1>2, <1>7, <2>1, <3>1
  <2>. QED  BY <2>1 DEF ChunksInOrder, IsOutput, v
<1>. QED  BY <1>1, <1>4, <1>8, <1>9, <1>10, <1>11, <1>12

\* The next chunk of its own shell is lost on a pane that does not know its id yet.
LEMMA OwnMissed ==
    ASSUME PtyInv, PtyTypeOK', NEW g \in Generation, events[g] # <<>>,
           events' = [events EXCEPT ![g] = Tail(@)],
           NEW p \in Pane, pane[p].client = g, IsOutput(Head(events[g]), p),
           ShownInOrder(p), OutputComes(p), connected => pane[p].id = 0,
           pane'[p] = pane[p], \A q \in Pane : pane'[q].client = pane[q].client,
           link' = link, generation' = generation, connected' = connected, pty' = pty
    PROVE  ShownInOrder(p)' /\ OutputComes(p)'
<1>. DEFINE c == Head(events[g]).chunk
            C == Coming(p)
            D == Coming(p)'
<1>1. PtyTypeOK
  BY DEF PtyInv
<1>2. ShownInOrder(p)'
  <2>1. \A i \in DOMAIN pane[p].shown : pane[p].shown[i][1] \in Pane
    <3>1. pane[p].shown \in Seq(Pane \X Nat)
      BY <1>1 DEF PtyTypeOK, EventLoop
    <3>. QED  BY <3>1
  <2>. QED  BY <2>1 DEF ShownInOrder
<1>3. /\ ChunksInOrder(p)' /\ C = D \cup {c} /\ (\A d \in D : c < d) /\ c \in Nat
      /\ \A d \in C : d \in Nat
  BY <1>1, OwnTaken DEF OutputComes
<1>4. OnLine(p) => g = generation /\ connected
  BY DEF OnLine, PtyInv, LinksInOrder
<1>5. connected => Seen(p) = {} /\ Seen(p)' = {} /\ DOMAIN pane'[p].shown = {}
  BY <1>1, SeenStays DEF ShownInOrder
<1>6. ASSUME connected, g = generation
      PROVE  \A a, b \in D : a < b => a + 1 \in D
  <2>1. \A a, b \in C : a < b => a + 1 \in C
    BY <1>5, <1>6 DEF OutputComes
  <2>. HIDE DEF C, D, c
  <2>2. \A a \in D : a + 1 # c
    BY <1>3
  <2>. QED  BY <1>3, <2>1, <2>2
<1>7. ASSUME OnLine(p), pty[p].state = "running"
      PROVE  \A a \in D : a <= pty[p].made /\ (a < pty[p].made => a + 1 \in D)
  <2>1. \A a \in C : a <= pty[p].made /\ (a < pty[p].made => a + 1 \in C)
    BY <1>4, <1>5, <1>7 DEF OutputComes
  <2>. HIDE DEF C, D, c
  <2>2. \A a \in D : a + 1 # c
    BY <1>3
  <2>. QED  BY <1>3, <2>1, <2>2
<1>8. OnLine(p)' => OnLine(p)
  BY DEF OnLine
<1>9. OutputComes(p)'
  BY <1>3, <1>4, <1>5, <1>6, <1>7, <1>8 DEF OutputComes
<1>. QED  BY <1>2, <1>9

\* The next chunk of its own shell, at a pane that listens.
LEMMA OwnArrives ==
    ASSUME PtyInv, PtyTypeOK', NEW g \in Generation, events[g] # <<>>,
           events' = [events EXCEPT ![g] = Tail(@)],
           NEW p \in Pane, pane[p].client = g, IsOutput(Head(events[g]), p),
           ShownInOrder(p), OutputComes(p), connected, pane[p].id # 0,
           pane'[p].shown = Append(pane[p].shown, <<p, Head(events[g]).chunk>>),
           pane'[p].id = pane[p].id, \A q \in Pane : pane'[q].client = pane[q].client,
           link' = link, generation' = generation, connected' = connected, pty' = pty
    PROVE  ShownInOrder(p)' /\ OutputComes(p)'
<1>. DEFINE c == Head(events[g]).chunk
            C == Coming(p)
            D == Coming(p)'
            S == Seen(p)
            T == Seen(p)'
            s == pane[p].shown
            t == pane'[p].shown
            n == Len(s)
<1>1. PtyTypeOK
  BY DEF PtyInv
<1>2. /\ ChunksInOrder(p)' /\ C = D \cup {c} /\ (\A d \in D : c < d) /\ c \in Nat
      /\ \A d \in C : d \in Nat
  BY <1>1, OwnTaken DEF OutputComes
<1>3. /\ n \in Nat /\ DOMAIN s = 1..n /\ DOMAIN t = 1..(n + 1)
      /\ \A i \in 1..n : t[i] = s[i]
      /\ t[n + 1] = <<p, c>>
  BY <1>1, <1>2, ShownGrows
<1>4. \A i \in 1..n : s[i][1] \in Pane /\ s[i][2] \in Nat
  <2>1. s \in Seq(Pane \X Nat)
    BY <1>1 DEF PtyTypeOK, EventLoop
  <2>2. \A i \in 1..n : s[i] \in Pane \X Nat
    BY <2>1
  <2>. QED  BY <2>2
<1>5. /\ t[n + 1][1] = p /\ t[n + 1][2] = c
      /\ \A i \in 1..(n + 1) : i \in 1..n \/ i = n + 1
      /\ \A i \in 1..n : i < n + 1
      /\ \A i \in 1..n : i > 1 => i - 1 \in 1..n
      /\ n + 1 \in 1..(n + 1) /\ \A i \in 1..n : i \in 1..(n + 1)
      /\ n + 1 > 1 => n \in 1..n /\ (n + 1) - 1 = n
  BY <1>3
<1>6. /\ \A i \in 1..n :
            /\ pane[s[i][1]].client # 0
            /\ s[i][1] # p => pane[s[i][1]].client # pane[p].client
            /\ i > 1 /\ s[i][1] = p /\ s[i - 1][1] = p /\ g = generation =>
                  s[i][2] = s[i - 1][2] + 1
  BY <1>3 DEF ShownInOrder
<1>7. S = {s[i][2] : i \in {j \in DOMAIN s : s[j][1] = p}}
  BY DEF Seen
<1>8. T = {t[i][2] : i \in {j \in DOMAIN t : t[j][1] = p}}
  BY DEF Seen
<1>9. (\A a \in S : a \in Nat) /\ g # 0
  BY <1>1, PtyAssumption, SeenStays DEF Generation
<1>10. g = generation =>
         /\ \A i, j \in DOMAIN s : i < j /\ s[i][1] = p /\ s[j][1] = p => s[i][2] < s[j][2]
         /\ \A a \in S, b \in C : a < b
         /\ \A a, b \in S \cup C : a < b => a + 1 \in S \cup C
  BY DEF OutputComes
<1>11. OnLine(p) /\ pty[p].state = "running" =>
          \A a \in S \cup C : a <= pty[p].made /\ (a < pty[p].made => a + 1 \in S \cup C)
  BY DEF OutputComes
<1>. HIDE DEF c, C, D, S, T, s, t, n
<1>12. T = S \cup {c}
  <2>1. ASSUME NEW a \in T PROVE a \in S \/ a = c
    <3>1. PICK i \in DOMAIN t : t[i][1] = p /\ t[i][2] = a
      BY <1>8
    <3>2. CASE i \in 1..n
      BY <1>3, <1>7, <3>1, <3>2
    <3>3. CASE i = n + 1
      BY <1>5, <3>1, <3>3
    <3>. QED  BY <1>3, <1>5, <3>2, <3>3
  <2>2. ASSUME NEW a \in S PROVE a \in T
    <3>1. PICK i \in DOMAIN s : s[i][1] = p /\ s[i][2] = a
      BY <1>7
    <3>2. i \in DOMAIN t /\ t[i] = s[i]
      BY <1>3, <1>5, <3>1
    <3>. QED  BY <1>8, <3>1, <3>2
  <2>3. c \in T
    <3>1. n + 1 \in DOMAIN t
      BY <1>3, <1>5
    <3>. QED  BY <1>5, <1>8, <3>1
  <2>. QED  BY <2>1, <2>2, <2>3
<1>13. T \cup D = S \cup C
  BY <1>2, <1>12
<1>14. ASSUME g = generation
       PROVE  /\ \A i, j \in DOMAIN t : i < j /\ t[i][1] = p /\ t[j][1] = p => t[i][2] < t[j][2]
              /\ \A a \in T, b \in D : a < b
  <2>1. ASSUME NEW i \in DOMAIN t, NEW j \in DOMAIN t, i < j, t[i][1] = p, t[j][1] = p
        PROVE  t[i][2] < t[j][2]
    <3>1. i \in 1..n
      BY <1>3, <1>5, <2>1
    <3>2. CASE j \in 1..n
      BY <1>3, <1>10, <1>14, <2>1, <3>1, <3>2
    <3>3. CASE j = n + 1
      <4>1. t[i][2] \in S /\ t[j][2] = c /\ c \in C
        BY <1>2, <1>3, <1>5, <1>7, <2>1, <3>1, <3>3
      <4>. QED  BY <1>10, <1>14, <4>1
    <3>. QED  BY <1>3, <1>5, <3>2, <3>3
  <2>2. \A a \in T, b \in D : a < b
    BY <1>2, <1>10, <1>12, <1>14
  <2>. QED  BY <2>1, <2>2
<1>15. ASSUME g = generation, n > 0, s[n][1] = p
       PROVE  c = s[n][2] + 1
  <2>1. n \in 1..n /\ n \in DOMAIN s
    BY <1>3, <1>15
  <2>2. s[n][2] \in S /\ s[n][2] \in Nat
    BY <1>4, <1>7, <1>15, <2>1
  <2>3. s[n][2] < c /\ s[n][2] + 1 \in S \cup C
    BY <1>2, <1>10, <1>15, <2>2
  <2>4. \A a \in S : a <= s[n][2]
    <3>1. ASSUME NEW i \in DOMAIN s, s[i][1] = p PROVE s[i][2] <= s[n][2]
      <4>1. CASE i = n
        BY <2>2, <4>1
      <4>2. CASE i # n
        <5>1. i < n /\ s[i][2] \in Nat
          BY <1>3, <1>4, <3>1, <4>2
        <5>. QED  BY <1>10, <1>15, <2>1, <2>2, <3>1, <5>1
      <4>. QED  BY <4>1, <4>2
    <3>. QED  BY <1>7, <3>1
  <2>5. s[n][2] + 1 \in C
    <3>1. ~(s[n][2] + 1 <= s[n][2])
      BY <2>2
    <3>. QED  BY <2>3, <2>4, <3>1
  <2>6. c <= s[n][2] + 1
    BY <1>2, <2>2, <2>5
  <2>. QED  BY <1>2, <2>2, <2>3, <2>6
<1>16. ShownInOrder(p)'
  <2>1. ASSUME NEW i \in 1..(n + 1)
        PROVE  /\ pane'[t[i][1]].client # 0
               /\ t[i][1] # p => pane'[t[i][1]].client # pane'[p].client
               /\ i > 1 /\ t[i][1] = p /\ t[i - 1][1] = p /\ pane'[p].client = generation' =>
                     t[i][2] = t[i - 1][2] + 1
    <3>1. CASE i \in 1..n
      BY <1>3, <1>4, <1>5, <1>6, <3>1
    <3>2. CASE i = n + 1
      <4>1. t[i][1] = p /\ t[i][2] = c /\ pane'[p].client = g /\ g # 0
        BY <1>5, <1>9, <3>2
      <4>2. ASSUME i > 1, t[i - 1][1] = p, g = generation
            PROVE  t[i][2] = t[i - 1][2] + 1
        <5>1. i - 1 = n /\ n \in 1..n /\ n > 0
          BY <1>3, <1>5, <3>2, <4>2
        <5>2. t[i - 1] = s[n]
          BY <1>3, <5>1
        <5>. QED  BY <1>15, <4>1, <4>2, <5>1, <5>2
      <4>. QED  BY <4>1, <4>2
    <3>. QED  BY <1>5, <3>1, <3>2
  <2>2. pane'[p].id # 0
    OBVIOUS
  <2>. QED  BY <1>3, <2>1, <2>2 DEF ShownInOrder, t
<1>17. OutputComes(p)'
  <2>1. OnLine(p)' => OnLine(p)
    BY DEF OnLine
  <2>2. pane'[p].client = g
    OBVIOUS
  <2>3. g = generation =>
          /\ \A i, j \in DOMAIN t : i < j /\ t[i][1] = p /\ t[j][1] = p => t[i][2] < t[j][2]
          /\ \A a \in T, b \in D : a < b
          /\ \A a, b \in T \cup D : a < b => a + 1 \in T \cup D
    BY <1>10, <1>13, <1>14
  <2>4. OnLine(p) /\ pty[p].state = "running" =>
          \A a \in T \cup D : a <= pty[p].made /\ (a < pty[p].made => a + 1 \in T \cup D)
    BY <1>11, <1>13
  <2>. QED  BY <1>2, <2>1, <2>2, <2>3, <2>4 DEF OutputComes, T, D, t
<1>. QED  BY <1>16, <1>17

LEMMA OutputArrivesOutput ==
    ASSUME PtyInv, PtyTypeOK', OutputInv, NEW g \in Generation, OutputArrives(g)
    PROVE  OutputInv'
<1>1. /\ PtyTypeOK /\ LinksInOrder /\ PushesInOrder
      /\ UNCHANGED linkVars /\ pty' = pty /\ up' = up /\ nextPty' = nextPty
      /\ link' = link /\ generation' = generation /\ connected' = connected
      /\ events[g] # <<>> /\ events' = [events EXCEPT ![g] = Tail(@)]
  BY DEF PtyInv, OutputArrives, linkVars
<1>2. PICK e : e = Head(events[g])
  OBVIOUS
<1>3. e \in Push /\ e.of \in Pane /\ e.chunk \in Nat /\ e.type = "output"
  <2>1. e \in Push
    BY <1>1, <1>2, HeadType
  <2>. QED  BY <1>2, <2>1 DEF Push, OutputArrives
<1>4. pane[e.of].client = g /\ PushFits(g, e)
  <2>1. 1 \in DOMAIN events[g] /\ events[g][1] = e
    BY <1>1, <1>2, StreamTaken
  <2>. QED  BY <1>1, <2>1 DEF PushesInOrder, OutputInv, PushIds
<1>5. \A q \in Pane :
         /\ pane'[q].client = pane[q].client /\ pane'[q].id = pane[q].id
         /\ pane'[q].reply = pane[q].reply /\ pane'[q].request = pane[q].request
         /\ connected /\ Listening(q, e) =>
               pane'[q].shown = Append(pane[q].shown, <<e.of, e.chunk>>)
         /\ ~(connected /\ Listening(q, e)) => pane'[q] = pane[q]
  <2>1. ASSUME NEW q \in Pane
        PROVE  /\ pane'[q].client = pane[q].client /\ pane'[q].id = pane[q].id
               /\ pane'[q].reply = pane[q].reply /\ pane'[q].request = pane[q].request
               /\ connected /\ Listening(q, e) =>
                     pane'[q].shown = Append(pane[q].shown, <<e.of, e.chunk>>)
               /\ ~(connected /\ Listening(q, e)) => pane'[q] = pane[q]
    <3>. DEFINE more == Append(pane[q].shown, <<e.of, e.chunk>>)
                r == [pane[q] EXCEPT !.shown = more]
    <3>1. pane[q] \in EventLoop
      BY <1>1 DEF PtyTypeOK
    <3>2. pane'[q] = IF connected /\ Listening(q, e) THEN r ELSE pane[q]
      BY <1>2 DEF OutputArrives
    <3>. HIDE DEF more
    <3>3. /\ r.client = pane[q].client /\ r.id = pane[q].id /\ r.reply = pane[q].reply
          /\ r.request = pane[q].request /\ r.shown = more
      BY <3>1 DEF EventLoop
    <3>. HIDE DEF r
    <3>. QED  BY <3>2, <3>3 DEF more
  <2>. QED  BY <2>1
<1>6. EventsFrom
  BY <1>1, PushTaken
<1>7. PushIds'
  <2>1. \A q \in Pane : Ids(q)' \subseteq Ids(q)
    BY <1>1, <1>5 DEF Ids
  <2>2. \A h \in Generation : link'[h] = "up" =>
              /\ nextPty' \in {nextPty, nextPty + 1}
              /\ link[h] = "up" \/ \A q \in Pane : pane[q].client # h
    BY <1>1
  <2>3. \A h \in Generation : \A k \in DOMAIN up'[h] : up'[h][k].type = "create" =>
              \E l \in DOMAIN up[h] : up[h][l] = up'[h][k]
    BY <1>1
  <2>. QED  BY <1>5, <1>6, <2>1, <2>2, <2>3, CalmKeepsPushes DEF OutputInv
<1>8. ASSUME NEW p \in Pane
      PROVE  ShownInOrder(p)' /\ OutputComes(p)'
  <2>1. ShownInOrder(p) /\ OutputComes(p) /\ (p # e.of => ~IsOutput(e, p))
    BY DEF OutputInv, IsOutput
  <2>2. p # e.of => \A h \in Generation : SameOutputs(h, p)
    BY <1>1, <1>2, <2>1, StreamTaken
  <2>3. CASE p # e.of /\ connected /\ Listening(p, e)
    <3>1. pane[p].id # 0 /\ pane[p].id = e.id
      BY <2>3 DEF Listening
    <3>2. pane[p].client # g
      BY <1>4, <2>3, <3>1 DEF PushFits, Ids
    <3>3. pane[e.of].client # 0
      BY <1>4, PtyAssumption DEF Generation
    <3>. QED  BY <1>1, <1>3, <1>4, <1>5, <2>1, <2>2, <2>3, <3>1, <3>2, <3>3, OtherArrives
  <2>4. CASE p # e.of /\ ~(connected /\ Listening(p, e))
    <3>1. pane'[p] = pane[p] /\ (pane[p].client \in Generation => SameOutputs(pane[p].client, p))
      BY <1>5, <2>2, <2>4
    <3>2. OnLine(p)' => OnLine(p)
      BY <1>1, <3>1 DEF OnLine
    <3>3. OutputKept(p)
      BY <1>1, <3>1, <3>2 DEF OutputKept
    <3>. QED  BY <1>1, <1>5, <2>1, <3>3, OutputFrame
  <2>5. CASE p = e.of /\ connected /\ Listening(p, e)
    <3>1. /\ pane[p].id # 0 /\ pane[p].client = g /\ IsOutput(Head(events[g]), p)
          /\ pane'[p].shown = Append(pane[p].shown, <<p, Head(events[g]).chunk>>)
      BY <1>2, <1>3, <1>4, <1>5, <2>5 DEF Listening, IsOutput
    <3>. QED  BY <1>1, <1>5, <2>1, <2>5, <3>1, OwnArrives
  <2>6. CASE p = e.of /\ ~(connected /\ Listening(p, e))
    <3>1. /\ pane[p].client = g /\ IsOutput(Head(events[g]), p)
          /\ pane'[p] = pane[p]
          /\ connected => pane[p].id = 0
      BY <1>2, <1>3, <1>4, <1>5, <2>6 DEF Listening, IsOutput, PushFits
    <3>. QED  BY <1>1, <1>5, <2>1, <3>1, OwnMissed
  <2>. QED  BY <2>3, <2>4, <2>5, <2>6
<1>. QED  BY <1>7, <1>8 DEF OutputInv

LEMMA NextOutput ==
    ASSUME PtyInv, PtyInv', InputInv, OutputInv, [Next]_vars
    PROVE  OutputInv'
<1>0. PtyTypeOK'
  BY DEF PtyInv
<1>1. CASE \E p \in Pane :
              \/ OpenPane(p) \/ Resumes(p) \/ CreateTimesOut(p)
              \/ Input(p) \/ Shutdown(p)
              \/ ShellPrints(p) \/ ShellExits(p) \/ ReaderEnds(p)
  <2>1. PICK p \in Pane :
              \/ OpenPane(p) \/ Resumes(p) \/ CreateTimesOut(p)
              \/ Input(p) \/ Shutdown(p)
              \/ ShellPrints(p) \/ ShellExits(p) \/ ReaderEnds(p)
    BY <1>1
  <2>2. CASE OpenPane(p)
    BY <1>0, <2>2, OpenPaneOutput
  <2>3. CASE PtyCreated(p)
    BY <1>0, <2>3, PtyCreatedOutput
  <2>4. CASE Input(p)
    BY <1>0, <2>4, InputOutput
  <2>5. CASE BootstrapFails(p) \/ PtyNotCreated(p) \/ CreateTimesOut(p)
    <3>1. Opened(p) /\ (BootstrapFails(p) \/ Fails(p))
      BY <2>5 DEF BootstrapFails, PtyNotCreated, CreateTimesOut, Opened
    <3>. QED  BY <1>0, <3>1, GivesUpOutput
  <2>6. CASE Shutdown(p)
    BY <1>0, <2>6, ShutdownOutput
  <2>7. CASE ShellPrints(p)
    BY <1>0, <2>7, ShellPrintsOutput
  <2>8. CASE ShellExits(p) \/ ReaderEnds(p)
    BY <1>0, <2>8, ReaderEndsOutput
  <2>. QED  BY <2>1, <2>2, <2>3, <2>4, <2>5, <2>6, <2>7, <2>8 DEF Resumes
<1>2. CASE \E g \in Generation :
              Arrives(g) \/ Handles(g) \/ LinkCut(g) \/ StreamEnds(g) \/ Deregister(g)
  <2>1. PICK g \in Generation :
              Arrives(g) \/ Handles(g) \/ LinkCut(g) \/ StreamEnds(g) \/ Deregister(g)
    BY <1>2
  <2>2. CASE OutputArrives(g)
    BY <1>0, <2>2, OutputArrivesOutput
  <2>3. CASE ExitArrives(g)
    BY <1>0, <2>3, ExitArrivesOutput
  <2>4. CASE CreatePty(g)
    BY <1>0, <2>4, CreatePtyOutput
  <2>5. CASE WritePty(g)
    BY <1>0, <2>5, WritePtyOutput
  <2>6. CASE ClosePty(g)
    BY <1>0, <2>6, ClosePtyOutput
  <2>7. CASE LinkCut(g)
    BY <1>0, <2>7, CutOutput
  <2>8. CASE StreamEnds(g)
    BY <1>0, <2>8, StreamEndsOutput
  <2>9. CASE Deregister(g)
    BY <1>0, <2>9, DeregisterOutput
  <2>. QED  BY <2>1, <2>2, <2>3, <2>4, <2>5, <2>6, <2>7, <2>8, <2>9 DEF Arrives, Handles
<1>3. CASE Connect
  BY <1>0, <1>3, ConnectOutput
<1>4. CASE Restart
  BY <1>0, <1>4, CutOutput
<1>5. CASE DaemonDies
  BY <1>0, <1>5, DaemonDiesOutput
<1>6. CASE UNCHANGED vars
  <2>1. /\ pane' = pane /\ pty' = pty /\ up' = up /\ nextPty' = nextPty /\ events' = events
        /\ UNCHANGED linkVars /\ PtyTypeOK
    BY <1>6 DEF vars, linkVars, PtyInv
  <2>2. ShownStays
    BY <2>1, PaneSame
  <2>3. \A q \in Pane : OutputKept(q)
    BY <2>1, <2>2, KeptFrom, StreamSame
  <2>4. \A q \in Pane : Ids(q)' \subseteq Ids(q)
    BY <2>1 DEF Ids
  <2>. QED  BY <1>0, <2>1, <2>3, <2>4, EventsAlone, LinkKept, CalmKeepsOutput
<1>. QED  BY <1>1, <1>2, <1>3, <1>4, <1>5, <1>6 DEF Next

\* OutputUnbroken: a pane shows what its shell prints without a gap from where it begins,
\* and the output of another shell only from another connection.
THEOREM OutputIsUnbroken == Spec => []OutputUnbroken
<1>1. Init => InputInv /\ OutputInv
  BY InitInput, InitOutput
<1>2. PtyInv /\ PtyInv' /\ InputInv /\ [Next]_vars => InputInv'
  BY NextInput
<1>3. PtyInv /\ PtyInv' /\ InputInv /\ OutputInv /\ [Next]_vars => OutputInv'
  BY NextOutput
<1>4. PtyInv /\ OutputInv => OutputUnbroken
  BY DEF OutputInv, ShownInOrder, OutputUnbroken
<1>. QED  BY <1>1, <1>2, <1>3, <1>4, PtyInvariant, PTL DEF Spec
=============================================================================
