# Ashide: a TLA+ model of the SSH remote environment

Ashide is a terminal for CLI agents that treats an SSH host as a workspace. The
part of it that is hard to get right, and that these modules model, is the stack
that keeps a helper daemon running on the remote host: the manager of transports
on the client, the controller that holds back the bootstrap of an ssh shell until
that helper is connected, the request client of one connection, the proxies that
find or start the daemon, the daemon with its connections and buffers, the
terminals whose shells run on the host, and the texts of remote files that client
and daemon keep in step.
Everything on the client runs in handlers on one main thread, but between two
handlers background tasks connect, shake hands, sleep and fail, and report back
by posting a closure that may arrive long after the session it is about was
restarted, connected again or removed. Almost every property here is about that.

Paths below are relative to the repository root; `manager.rs` is
`crates/remote_server/src/manager.rs`.

## Inventory

| component | state | operations | what is hard | correct when |
|---|---|---|---|---|
| RemoteServerManager (`manager.rs`) | `sessions`, `session_connection_generations`, `host_to_sessions`, `last_navigated_path`, registry | connect, restart, deregister, register context, navigate; closures of tasks and streams | late closures, restarts during reconnect, index kept on six paths | no late closure has an effect; the host index is complete and host events follow it; a loss is reported once |
| SessionExecutionRegistry (`manager.rs` 545-659) | `contexts`, `aliases` | register, remove, canonical id, ids for transport | alias and owner leave in any order | a transport's contexts are exactly those bound to it |
| Bootstrap controller (`app/src/terminal/writeable_pty/environment_runtime_controller.rs`) | `SshInitState` per pane | ssh announced, check, install and connect answered, Install, Skip | late answers for an earlier ssh, an ssh that dies unnoticed | the bootstrap is written once, after the setup of the shell that waits for it; what a dead ssh left is the exception |
| Terminal view (`app/src/terminal/view.rs`) | choice blocks of the pane | show, remove, click, exit of a shell | blocks that outlive their shell | modelled as far as the controller needs it |
| RemoteServerClient (`crates/remote_server/src/client/mod.rs`) | `pending_requests` (a sharded map), `disconnected`, the outbound queue, a oneshot per call | `send_request` with its await points, timeout with abort, writer task, reader task | insert against flag and clear, answer against timeout, a clear that is not atomic | a call ends once, nobody waits on a dead connection, the table holds running calls only |
| Daemon connections (`app/src/remote_server/server_model.rs`, `unix/mod.rs`) | connections, `in_progress`, `pending_file_ops`, grace timer; a reader and a writer task per connection | register, deregister, messages, answers of background work, broadcasts, timer | two tasks deregister, work outlives its connection, the timer against a new proxy | the handshake comes first; each request is answered once or its connection is gone; nothing is left of a dead connection |
| Buffer sync (`app/src/code/global_buffer_model.rs`, `buffer_location.rs`) | a buffer and a `SyncClock` on either side, versions of FileModel | open, edit, save, close, reload of a changed file | edits, pushes, saves and the daemon's own writes cross each other | unless a message is handled out of turn, no edit or push hits a text it was not made from, a divergence is told, a save is what the user saw |
| ServerBufferTracker (`app/src/remote_server/server_buffer_tracker.rs`) | buffers by path, writer lease, waiting opens, mutation queue | open, enqueue, complete, close, remove connection | an active save outlives its connection, one report completes and promotes | one writer; one save at a time; what a live connection is owed stays in the tables |
| Environment table and runtime (`app/src/workspace/environment_*.rs`) | environments, preparation chains | prepare, reconnect, tear down | overlapping chains for one environment | they call the manager as its model assumes |
| Remote proxy (`app/src/remote_server/unix/proxy.rs`, `unix/mod.rs`) | the locked pid file, the socket file, the daemon process | check, lock, spawn, wait, connect; bind, write pid, exit, crash | files removed by name, a lock on an unlinked file | a daemon is missed, and a second one forked, in known windows only |
| Remote terminals (`app/src/terminal/remote_tty/event_loop.rs`, the PTYs of `server_model.rs`, the leases of `app/src/workspace/registry.rs`) | the event loop of a pane: `pty_id`, `pending_messages`, `closed`; the daemon's `ptys` with a reader thread each; leases of closed panes | open, type, shut down; create, write, close; output and exit; release of a lease | answers and pushes travel by different ways, a pane closes while its PTY is made, ids repeat in a new daemon | typing arrives whole and in order, output is not another's, a pane learns that its shell ended, a PTY is forgotten only if its pane was not there for the answer |
| Transport (`crates/remote_server/src/{transport,ssh,setup}.rs`) | none | spawn ssh, run scripts | failures at any time | appears as steps that fail or succeed at any time |
| CLI agent sessions, session bridge, undo-close stack, MCP reconnecting peer, agent event driver, action executor, context compaction | each its own | indexing, hand-over, expiry, reconnect, backoff, queueing | partly concurrent | see Not modelled |
| Persistence, autoupdate, IPC, file watching, sum tree, editor, UI framework | | | | not modelled: I/O, rendering, or sequential data structures better tested |

`PROJECT.json` lists the same components with their source files and reasons, and
the hazards of the code, each at its line, with the property that covers it.

How they interact: the terminal view tells the controller that an ssh shell waits
(`SshInitShell`); the controller asks the manager to check, install and connect
and listens to its events; the manager's connect task creates a
RemoteServerClient over the transport and shakes hands with the daemon; the
workspace's environment code connects, restarts and deregisters the sessions it
owns itself, and terminals bind to these by registering an execution context. On
the host, a proxy per connection copies bytes to the one daemon of the user.

## Modules

### SessionExecutionRegistry

Pure operators on a registry value `[contexts, aliases]`: `Register`, `Remove`,
`CanonicalSessionId`, `SessionIdsForTransport`. A session owns a transport or is
an alias of one that does. `Remove` of an owner takes its direct aliases along.

### RemoteServerManager (with HostPresence)

One action per public method that changes state (`ConnectSession`,
`RestartTransport`, `DeregisterAlias`, `DeregisterOwner`, `RegisterContext`,
`NavigateToDirectory`), per step of a background task (`DelayElapses`,
`TransportConnects`, `ConnectOrHandshakeFails`, `HandshakeSucceeds`) and per
posted closure (`MarkSessionConnected`, `ConnectFailed`, `ReconnectFailed`,
`StreamEnds`). A closure runs its whole tail: `MarkSessionDisconnected` includes
`attempt_reconnect`, `ReconnectFailed` includes `handle_reconnect_failure`.

* `sessions[s].client` names the held `Arc<RemoteServerClient>` by the generation
  whose task made it.
* A member of `tasks` is one `run_connect_and_handshake` with its captured
  generation, and `pc` says how far it is; a member of `streams` is one
  `spawn_stream_local` with its completion closure.
* `told`, `hostUp`, `daemonContexts` and `retired` record what was emitted, sent
  and removed. No handler reads them.

Assumptions about callers, each justified where it is stated in the module: only
owners are connected, restarted or bound to; a terminal keeps its owner; an id
that was connected is not connected again after it was deregistered (ids come from
an allocator). Contexts are valid ones. `connect_session` does not look at the state
it replaces, and two preparation chains of one environment may overlap
(`workspace/environment_runtime.rs` 2951-2960), so `ConnectSession` may hit a
Connected session. Its entry in the host index then stays; `HostIndexExact` names
this as the one way in which an entry goes stale.

Left out: the platform map, `environment_owned_sessions`, the id allocator,
stopping the ControlMaster, requests that pass straight through to a client,
`check_binary` and `install_binary` (the controller's module has them), and
`forward_client_event`.

`HostPresence` is the abstract promise: a host is announced when its first session
arrives and withdrawn in the step in which its last one departs, except that a
session that connects again over its old connection slips away unnoticed
(`SlipAway`) and keeps its old host announced. The manager implements it with
`members` the sessions Connected to a host, `counted` those in its index, and
`announced` the HostConnected not yet followed by a HostDisconnected.

### SshInitController

`state` is `SshInitState`, `checks`, `installs` and `connects` are the requests to
the manager without answer, `blocks` the choice blocks the pane shows. `shell`,
`foreground` and `written` model the other side: what became of each remote shell,
which shell reads the PTY, and how often a bootstrap was written. One remote shell
lives at a time, since the ssh wrapper is defined in local shells only
(`app/assets/bundled/bootstrap/bash_body.sh`: "we don't yet have support for
bootstrapping recursive SSH sessions").

A shell that was never bootstrapped has no exit hook, so when its ssh dies nobody
is told: `ShellDies` changes neither the controller nor the manager. Its block stays
in the pane and can be clicked, and its stash stays in the controller until the next
ssh starts. That one flushes it first: the script goes to whoever reads the PTY, which
is the new shell (environment_runtime_controller.rs 146-161, pty_controller.rs
418-435). It is generic for a shell type, so the new shell runs it before its own
check, or makes nothing of it (`FlushStashedBootstrap`).

The match of `on_binary_check_complete` is one action per outcome. Progress
messages and the reasons of failures are left out.

### SshSetup

Both of the above. `Pane` instantiates the controller with `connects` replaced by
the owners last told "connecting", so that a request is in flight exactly as long
as the manager has not answered it. `CheckAnswered` and `InstallAnswered` are answers
of scripts, and one step of both where the controller asks for a connection;
`ManagerStep` is a closure or task of the manager together with the handler that
the event it emits reaches; `ShellLeft` deregisters the session of a shell that is
left; `PaneStep` is the pane alone. The controller has no run of its own: its
properties are checked here, where its answers are the manager's.
`SetupImplements` says that the composition implements `ControllerSpec`, that is,
the manager keeps to what the controller was checked against.

### BufferSync

One file of a host, over one connection that stays up: the client's buffer
(`open_environment_buffer` and its closures), the daemon's buffer with the lease
and the queue of saves of ServerBufferTracker, FileModel's load, save and reload
tasks, the file, and a channel each way. `client.sv`, `client.cv`, `server.sv` and
`server.cv` are the two SyncClocks; `server.version`, `base` and `fileVersion` are
the content version of the buffer, `base_content_version`, and FileModel's. The
daemon's `ContentVersion::new()` is the counter `issued`.

A text is an identity. An edit and a push say from which text to which they lead,
and `Applied` makes `Garbled` of any other text, which is what offsets into a
different text come to. A write of the file is one step; a task (`tasks`, `writes`,
`reloads`, `server.loading` with `server.read`, `server.diff`) works between two
handlers, and its closure is an action. `asked` records what the user saw since asking
for a save; no handler reads it.

A request is sent by a task of its own (`RequestSent`), an answer resumes such a
task, and pushes travel in the event stream: pushes are handled in the order of their
making, and everything else in any order (`Deliverable`). `outOfTurn` records when the
order was one that the clocks do not survive: a push and the text of an open were
handled the other way round, or a save was asked for or taken before the text was there
(the save action of a tab is there first, `code/view.rs` 98-101 and 2218,
`current_app_code_editor.rs` 643-652). No handler reads it, and the properties of texts
name it.

Left out: several consumers of one buffer, rival connections and the end of a
connection, the timeout of a request, files that disappear while they are open, a
reading of the file in the middle of a write, and ResolveConflict, which the daemon
implements and the app never sends.

### RemoteServerClient (with RequestPromise)

The client end of one connection. `call[r]` is the await point or the result of one
`send_request`, `slot[r]` its oneshot channel, `pending` the keys of
`pending_requests`. The map is sharded and `clear` locks one shard after the other,
so a clear (of the reader task, of the writer task, and of a call that finds the
dead flag) is a set of entries it has still to visit, `clearing[t]`, and
`ClearVisits` interleaves with everything else. `ReadAnswer` and `Resolve` are two
steps, since the reader removes the entry before it sends into the channel.
`TimerFires` may hit any waiting call; `TimeOut` removes the entry and sends the
abort. `WriteOne`, `WriteTooLarge`, `WriteFails` and `LeaveLoop` are the outcomes of
a write and a read, recoverable or fatal. `down` and `server` stand for the daemon,
which may answer, push, and close at any time. Not modelled: a `send_request` whose
future is dropped before it ends leaves its entry in the table until its answer comes
or the connection dies.

`RequestPromise` is what callers rely on: a call opens, is settled or given up, ends
once; when the loss of the connection is announced no call is open, and none opens
after it. The client implements it with `lost` the return of the reader task.

### ServerBufferTracker and ServerModel

`ServerBufferTracker` is the tables for one path and the effect of each tracker
method on them: the writer lease (`owner`), `waiters`, and the mutation queue as the
`active` mutation, the set `queued` and, for the order, `ahead[r]`, what stood in the
queue when `r` came. `saving` holds what the file system works on, by file id: a
buffer forgotten and opened again has another id, and reports on the old one are
ignored. `cleanup_orphaned_if_idle` is part of each operation that ends with it.

`ServerModel` EXTENDS it with the connections. `conn[c]` is the phase
(awaiting Initialize, ready, gone), `reader` and `writer` the two tasks of
`handle_daemon_connection`, either of which deregisters. `req[r]` is what became of a
request: `in_progress` has the handles of spawned futures, `fileop` those in
`pending_file_ops`, `opening` and `saving` those in the tracker. `Deregister` is the
whole of `deregister_connection`, with `remove_connection`, the drop of
ConnectionState that aborts its requests, and the timer. `FutureResolves` and
`Respond` are two steps: between them an abort comes too late. `TimerExpires` and
`TimerCallback` are two steps for the same reason. `heard[c]` records the first
message a connection was sent, `replies` counts answers; no handler reads them.

An open that CloseBuffer drops (server_buffer_tracker.rs 310) is never answered on a
connection that lives; `AnsweredOnce` says at most once for it, and `RequestsEnd` counts
it as ended.

A client makes a fresh id per request, so no id comes twice. Left out: PTYs, which have
the module RemotePty, file transfers, session executors and `snapshot_sent_roots`, and
conversions of requests and answers. Handlers that answer at once and change nothing are
`AnswerSync`.

### DaemonStartup

The processes of one host and identity: proxies (`proxy.rs`) that open and lock the
pid file, look for the daemon, spawn one, wait for the socket and connect; daemons
(`run_daemon`) that bind, write their pid, serve, and remove socket and pid by name
when they exit; and crashes of either at any point. A pid file is a number: unlinked
and created again it is another, and locks are on files, not on the name. `pid` is
what the file that has the name says. `unseen` records the daemons that were started
although one was alive or being started; no step reads it. `OneForks` is what the
comments of the proxy say, and the code does not keep it.

### RemotePty

A pane on the remote host from both ends. `pane[p]` is its event loop
(`start_environment_runtime`) with the terminal model: `request` is how far its
CreatePty is, `id` the `pty_id` it holds, `pending` what was typed before. `pty[p]` is
what the daemon made for it, `up[g]` the messages on their way to the daemon over
connection `g`, and `events[g]` the pushes on their way back. An answer resumes a
future of the pane and a push goes through the event stream: in the model the answer
sets `request` at once and `PtyCreated` is the handler that resumes later, so that
pushes may be handled before it, as they may in the code.

`CreatePty`, `WritePty` and `ClosePty` are the daemon's handlers; `ShellPrints`,
`ShellExits` and `ReaderEnds` the reader thread, which outlives a PTY that was dropped
("killed"). `PtyCreated` sends the bootstrap and what waited in one step, as the handler
does. `LinkCut`, `StreamEnds`, `Deregister`, `Restart` and `DaemonDies` are the ends of a
connection; the two sides notice separately. A cut link loses what the daemon has not
read: what it might still do with it ends when it deregisters the connection.

`of` and `chunk` of a push, and `got`, `made`, `shown` and `missed`, are read by properties
and bounds only. A resize is an input; `startup_command` is always None for these
terminals; the bootstrap, which may be several writes, is one. Which closed panes run
an agent and are not hidden is not modelled: `StreamEnds` lets
`exit_retiring_session_owners_for_authority` end any set of them.

## Runs

| run | instance | what it shows |
|---|---|---|
| `hosts` | 2 owners, 2 hosts, 2 generations each, 2 reconnect attempts; no terminals | `HostIndexExact`, `HostEventsFollowIndex` and the refinement of HostPresence, with connects over a Connected session |
| `bindings` | 1 owner, 2 terminals, 1 host, 1 path, 3 generations | `HeldClientIsCurrent`, `LossReportedOnce`, `DaemonHoldsContexts`, `PathsHaveTransport`, `RetiredStaysAbsent`, and `Settles` under fairness |
| `setup` | 2 ssh sessions, 1 host, 2 generations; connections die at any time, blocks of dead shells are clicked | `AnswerOwed`, `ControllerTypeOK`, `WaitingShellHeld`, `BootstrapAfterSetup`, `SetupImplements`, and `ChecksSettle` under fairness |
| `buffers` | 2 texts, 2 opens, 2 edits, 2 saves, 1 write by others, 4 of these together; messages in any order | `BufferTypeOK`, `GarbledOutOfTurn`, `DivergenceIsTold`, `SavedUnlessTold`, `SavesAnswered` |
| `client` | 2 calls, 1 push; every task may fail at any step | `NobodyWaitsOnTheDead`, `PendingAreAwaited`, the refinement of RequestPromise, and `LostCallsEnd` under fairness |
| `daemon` | 1 connection, one request of each kind, 2 file ids | `RunningIsTracked`, and `IdleDaemonEnds` and `RequestsEnd` under fairness |
| `leases` | 2 connections, 2 opens and 2 saves of one file, 2 file ids | `HandshakeFirst`, `AnsweredOnce`, `OwedIsHeld`, `BuffersHaveReason`, `ActiveIsSaving`, `TimerWhileIdle` |
| `startup` | 3 proxies and their daemons, 3 pid files | `MissesOnlyInWindows` |
| `pty` | 2 panes, 2 connections, a daemon that may be replaced; 2 inputs and 2 chunks of output for one pane | `InputInOrder`, `OutputUnbroken`, `ExitIsHeard`, `ForgottenOnlyUnanswered`, `ExitedMeansGone` |
| `lost_edits` | violation of `SavedIsTheClients` | a save succeeds without the edit typed before it |
| `two_daemons` | violation of `OneForks`; 2 proxies, 1 pid file | two proxies that start together fork two daemons |
| `lease` | violation of `LeaseEnds`; 1 pane, 1 connection | a pane closed for good never learns that its shell ended |

The type invariants of the manager, the client, the daemon, its start and the
terminals are theorems (see Proofs) and are not run again.

Why the bounds are enough. `MAX_RECONNECT_ATTEMPTS` is 2 in the code and in the runs.
`MaxGeneration` bounds `connect_session` and `restart` per owner, on top of which every
reconnect begins a generation of its own; a superseded task, its superseder and a third
that arrives while both are in flight need three. The host properties relate two
sessions of one host and one session of two hosts; no rule of the code mentions more. In
the controller, a late answer, the stash or the block of a dead ssh meets the setup of
the present one, which takes two sessions; what a third would meet is what the second
left. A stale message of an earlier open, the open in progress, a save under way and one
queued need two opens and two saves of a buffer, and a push that crosses an edit one
change of the file, which a save of the daemon's own makes too; `MaxUses` lets four of
these happen in one behaviour, which messages in any order make large enough. In the
client, a call that slips in while another one's connection dies needs two calls; every
task has one connection to serve. A lease that changes hands needs two connections, a
queue behind an active save two saves, a late report two file ids; the run `daemon` has
one save, so that liveness stays within reach, and queues are left to `leases`. A proxy
that misses the daemon of another, and a third that meets both, need three proxies; each
creates one pid file at most before it starts a daemon, and `MaxFiles` bounds those of
the daemons too. A pane confuses its PTY with another's only if there are two panes, and
with one of an earlier daemon only if there are two connections; order and gaps show
with two inputs and two chunks after the bootstrap. Texts, sessions, hosts and paths are
only compared, so symmetry is sound; the runs with liveness do not use it. The theorems
remove these bounds for the properties they cover.

Deadlock is off in every run: callers may stop calling, sessions and buffers may
all be closed, and an idle manager is no error.

Fairness. `FairSpec` assumes of each owner that the task of its current generation
keeps running: the executor polls it, the reconnect delay is a timer, connecting
spawns a process and `initialize` has a timeout. `FairSetupSpec` assumes that
checks and installs are answered, since they are scripts that end by themselves or
with their ssh connection.
The client's tasks run while they can, but no timer of a request has to fire, and the
server need not answer: `HangsUp` assumes only that the proxy shuts the socket both
ways once one direction has ended (proxy.rs 252, 289). The daemon's main thread runs
what is queued, futures, loads and saves end, and the timer expires; nothing is
assumed of what proxies send. In RemotePty's `FairSpec` both main threads handle what is
queued, futures resume, a reader thread ends once its shell was killed, and the end
of a connection is noticed on either side; a shell need not exit by itself, and no
connection has to end. Nothing is assumed of users, callers, ssh or the end
of a stream.

### What the violations show

* `lost_edits`: the watcher hands the daemon its own save as a change of the file.
  `apply_diff_result` bumps the server version and pushes an empty edit. What the
  user typed since the save and before that push is refused by `apply_client_edit`
  without an answer, the conflict the push raises in the client is ignored by the
  editor, and the next save reports success although the edit is neither in the
  daemon's buffer nor in the file. `SavedUnlessTold` shows that
  the client is told of a conflict, or a push on its way will tell it, unless something
  came out of turn. The comment of `SyncClock` has the daemon push its current state on
  a mismatch (buffer_location.rs 91); it pushes nothing.
* `two_daemons`: `Spawn`, `ClearSocket`, `Bind`, `SocketAppears` of the first proxy,
  which thereby releases its lock (proxy.rs 112-117), then `Lock` and `StartOne` of the
  second, before the first daemon writes its pid (unix/mod.rs 47-53). Only one "will
  succeed in forking a daemon" (proxy.rs 58-61) does not hold. `MissesOnlyInWindows`
  shows that this window and that of an unlinked pid file are the only ones.
* `lease`: `PtyCreated`, `Shutdown`, `ClosePty`, `ReaderEnds`. `Shutdown` clears
  `pty_id` and marks the event loop closed (event_loop.rs 424-432), so the PtyExited that
  follows is no longer its own (388-390) and `TerminalModel::exit` is not called. The
  lease on the agent session that registry.rs keeps "until each model reports process
  exit" (319) is held until the connection ends, and resuming that session is
  refused as still closing (`session_navigator.rs` 2290-2296).

Each finding quotes the line it disagrees with in `PROJECT.json`.

Disagreements met while modelling that have no run of their own. Where a property of a
passing run meets one, it excepts it by name and excludes every other way:

* `mark_session_connected` takes the state out of the map before it looks at it
  (manager.rs 1764-1772). If the stream ends after the daemon's answer and before the
  closure runs, the state is Disconnected or Reconnecting, and the session leaves the
  map: neither SessionConnected nor SessionConnectionFailed is emitted, and a pane
  that waits for one keeps its shell waiting. `AnswerOwed` shows that this is the
  only way.
* The comments of `handle_daemon_connection` say that the writer loop ends because
  deregistration drops the sender of its channel. The handler clones the sender into
  the reader task (unix/mod.rs 130) and keeps the original itself, as long as its own
  loop runs; so the channel never closes. A connection that ended while nothing was
  being written leaves a task and half a socket behind.
* A pane that is shut down, or whose CreatePty timed out, before the answer leaves a
  PTY nobody ends. After a timeout nobody holds its id; after a shutdown the pane takes
  the id although it is closed (event_loop.rs 293) and then drops every message
  (408-410). `ForgottenOnlyUnanswered` names both. The shell runs until it exits by itself
  or the connection ends.
* The exit of a shell may be handled before the pane knows its id; the pane then
  waits for a shell that is gone (`missed` in `ExitIsHeard`).

* `mark_session_disconnected` clears the navigation entry of the owner (manager.rs
  1949) "so navigate_to_directory re-fires after reconnect", but entries are per
  terminal, and those of the terminals bound to it survive. `PathsHaveTransport` is
  about the end of an owner and does not cover this.
* `connect_session` over a Connected session replaces the state without taking the
  session off the host index (the exception of `HostIndexExact`, `SlipAway` of
  HostPresence): a host may stay announced for a session that left it.
* An ssh that dies during its setup leaves the controller as it is. The
  `debug_assert!` of `on_ssh_init_shell_requested` (environment_runtime_controller.rs
  141) does not hold for the next ssh, which gets the old bootstrap before its own check
  (the exception of `BootstrapAfterSetup`). A Skip on the old block takes the stash of
  the next shell (366-378), although stale blocks are to be gone "before the user picks
  an option" (view.rs 3887-3890): the exception of `WaitingShellHeld`.
* A push handled before the answer to OpenBuffer finds no clock and is dropped
  (global_buffer_model.rs 1390). No later push repeats its content, and the client version
  it is compared with is 0 on both sides: the next push changes a text it was not made
  for. A save asked for before the text arrived writes the empty buffer over the file.
  `outOfTurn` names both.
* An id that comes up again in a new daemon lets a late ClosePty kill another pane's
  shell; `ExitedMeansGone` admits it as a close on its way, and only `OutputUnbroken` looks
  at whose output arrives.
* The grace timer is aborted by its handle, which is no use once its future has
  resolved: `TimerExpires`, `Register`, `TimerCallback`, `Terminate` ends the daemon
  with a connection registered, against the comment of `start_grace_timer`
  (server_model.rs 882-883). The client reconnects, to a new daemon. `TimerWhileIdle` is
  about the handle and does not cover this.
* HostDisconnected may be emitted again for a host already withdrawn; the generation
  counter is removed with its session, so that an id connected again could accept a
  task of its first life; `forward_client_event` compares no generation;
  `SessionConnected` of any session removes every choice block of the pane.

## Proofs

All theorems hold for every value of the constants and every bound, from the named
assumption of each module, which gives the bounds their types and little more.

`RemoteServerManager_proofs`. The safety properties are not inductive one by one.
`ManagerInv` adds what ties them together: `BindingsFlat` (alias chains have one
link), `GenerationsOwned` (only owners have a generation, a held client a live
one), `TasksInOrder` (no task is ahead of its session, a generation has one task,
which is gone when its session is Connected), `RetiredGone`, and `LossPending`
(whoever may yet report a loss does so for a session told connected). The last is
what makes `LossReportedOnce` inductive: a restart, a stream and a failing
reconnect could each report, and it shows that the one that does takes the right
away from the others. One lemma per action shows `ManagerInv` preserved; lemmas
about `LeaveHosts`, tasks that move on and the registry are shared. From
`ManagerInvariant` follow `TypeCorrect`, `HostEventsBracket`, `ClientsAreCurrent`,
`LossIsReportedOnce`, `DaemonIsInStep`, `NoOrphanPaths` and `RetiredAreGone`.
`HostIndexIsExact` and `ImplementsHostPresence` are about steps and hold with connects
over a Connected session: the invariant has that the index covers every Connected
session (`IndexCovers`), and a second one, `ReconnectsLeft`, that a session which
reconnects has left the host its task will report lost, so that in each step at most one
session arrives at, leaves or slips away from one host.

`SshInitController_proofs`. `ControllerInv` says that at most the shell at the PTY
lives (`OneForeground`), that a stash is unwritten and of a shell that waits, is dead or
runs on the script of an earlier one (`StashUnwritten`), that no foreign stash is held
while a shell lives (`HeldIsForeground`), that a request in flight for a living shell is
the one the state waits for (`InFlightIsExpected`), and that its block belongs to its
present choice unless that was made through a dead shell's (`BlockIsExpected`). Type
correctness, with the one write of a bootstrap, `BootstrapAfterSetup` and
`WaitingShellHeld` follow, whatever dies and whatever is clicked.

`RemoteServerClient_proofs`. The race is between a call, which inserts its sender,
reads the flag and enqueues, and the reader task, which sets the flag and then clears
the table entry by entry. `ClientInv` says where the sender of an undecided call is:
in the table, or with the reader task that took it out (`SendersAreHeld`,
`ResolvesItsOwn`); that the clear of the reader has yet to visit every call that
passed the flag (`ClearCatchesUp`); and that a call that failed the flag visits its
own entry (`RefusedClears`). `NobodyWaits` and `TableIsAwaited` follow, and
`ClientKeepsPromise` proves the refinement of RequestPromise, one lemma per action.

`DaemonStartup_proofs`. `StartupInv` adds to types that a proxy has no daemon before it
spawned one (`FreshProxies`), that two proxies with a lock hold different files
(`LocksExclude`), and that while no daemon was missed there is at
most one process that is or starts the daemon (`OneAtMost`) and the names lead to it
(`FilesLeadToIt`). The last two carry each other: a proxy that finds the files empty
starts a daemon, and must be the only one to find them so. `FirstMiss` follows: a daemon
is first missed in the two windows the code leaves open and in no other.

`ServerModel_proofs`. Tracker operations preserve `TrackerInv` by themselves (one lemma
each); connections and requests are tied to the tables by `ServerInv`. Its core is
`RequestsInOrder` and `TablesInOrder`: the status of a request says in which table it
is, and a table holds only requests of that status. So the four parties that may end a
request (answer, abort, late report, lost connection) find it in one place, and the
one that takes it out leaves nothing for the others. All safety properties of `leases`
and `daemon` follow for every number of connections, requests and files.

`RemotePty_proofs`. `PtyInv` says of the connections that at most the present one is up
(`LinksInOrder`), of the messages that a create is the only one of its pane, which has
no PTY yet (`CreatesInOrder`), of the pushes that an exit names the PTY its pane knows
(`PushesInOrder`), and of each pane that the id it holds, or is about to be told, is
that of its own PTY (`KnowsItsOwn`). Without the last two, an id that comes up again in
a new daemon could not be told from the pane's own. `Owned`, `Gone` and `Heard` carry
`ForgottenOnlyUnanswered`, `ExitedMeansGone` and `ExitIsHeard`, the last strengthened to
panes that have not learned their id yet. Four frame conditions (`UpFrom`, `ClosesKept`,
`EventsFrom`, `ExitsKept`) say what an action may do to the queues, so that an action is
checked only for the pane it is about. `InputKeepsOrder` and `OutputIsUnbroken` rest on
two more invariants: `InputInv` says that the writes on their way to a shell (in
`up[g]`) continue what it has read without a gap, up to what was typed, and that nothing
was written to one whose id its pane does not know; `OutputInv` says the same of what a
pane has shown, the pushes in `events[g]` and what was printed. Both need that the ids
of one daemon's life are distinct (`IdsInOrder`, `PushIds`).

`SshSetup_proofs`. The composition runs the manager (`SetupRunsManager`), so `ManagerInv`
holds in it. `ManagerKeepsToController` is the refinement `SetupImplements`, step by
step: a connect that was told of stays told of until a step that connects the session or
reports its failure, and that step is the controller's matching one. `AnswerIsOwed` needs
`SetupInv`: while the controller waits, its session was told that it connects and nothing
since, and the task that owes the answer is of the current generation. As the
composition implements the controller's specification, what is proved of the controller
holds in it (`SetupWritesOnce`, `SetupHoldsShells`, `SetupBootstrapsInOrder`).

`BufferSync_proofs`. Types and saves hold in whatever order messages travel: `TypeInv`
gives `BufferTypesHold`, and `SavesInv` (an unanswered save is with a request, in the
queue of the daemon or with an answer, and the first of the queue is with the file
system) gives `EverySaveIsAnswered`. Texts need `TextsInv`, which holds until something
comes out of turn and says what each message in flight leads from. `View` is its core:
the pushes an editor has still to take lead from one to the next, up to the daemon's
text; the first starts from the editor's text if it carries the editor's version; and an
editor without a push to come either knows the daemon's version or was told of a
conflict. `EditsInOrder` is its counterpart for the edits on their way: the earliest
starts from the daemon's text if it carries the daemon's version. So what fits by its
version fits by its text (`VersionsDoTheirWork`, `StaleEditsAreTold`). `Waits` and
`Shows` carry this through opening: an OpenBuffer is in one place, and its answer has
the view of an editor that starts from it.

A save writes what the daemon holds when it is dispatched, which may be long after it was
asked for, so `SavesAreShown` (of `SavedUnlessTold`) needs `WroteInv` as well: a save is at
one place, from the task of the editor to its answer, and nothing is written before the
daemon has taken it (`Place`); an editor that waits for a save shows a text it has shown
since asking (`Asking`), and an edit on its way behind a save replaces such a text
(`EditsShown`). From these and `View`, the daemon's text at dispatch was shown, or a push
on its way will show it or report a conflict (`DispatchTold`). `WritesTold` keeps this for
the writes under way, and `AnswersTold` for an answer and the pushes sent before it,
which the editor takes before it or after.

Nothing is assumed of the order of messages: what the clocks survive is in `TextsInv`
and `WroteInv`, and what they do not survive sets `outOfTurn`, after which these two say
nothing and the three theorems hold by what they except.

Only model-checked: the liveness properties (`Settles`, `ChecksSettle`,
`LostCallsEnd`, `IdleDaemonEnds`, `RequestsEnd`), since liveness under fairness is out
of the prover's reach. Every invariant and every action property of a passing run has
its theorem. No module uses RECURSIVE.

## Not modelled

The repository has some 900 000 lines, most of them views, an editor, completions and
agent tooling that run on one thread, or that hold no state of their own. The modules
cover the part in which processes, tasks and machines have to agree. Listed in
`PROJECT.json` with reasons; the nearest candidates are the session bridge, the
environment table, the agent action executor, and three small components (undo-close
stack, MCP reconnecting peer, agent event driver).

Of the components that are modelled: file transfers, session executors and
`snapshot_sent_roots` of the daemon; the platform map, environment ownership and
pass-through requests of the manager; framing and conversion of messages; several
consumers of one buffer and the end of a connection in BufferSync; the WebSocket
terminal of `event_loop.rs`, and a PTY whose shell does not read, on which `write_all`
blocks the daemon's main thread.

## Plan

1. Core: SessionExecutionRegistry, RemoteServerManager, HostPresence, proofs. Done.
2. SshInitController and its composition SshSetup, with proofs. Done.
3. BufferSync with proofs. Done.
4. RemoteServerClient and RequestPromise with proofs. Done.
5. ServerBufferTracker, ServerModel, DaemonStartup with proofs. Done.
6. RemotePty with proofs. Done.
7. Open: the end of a connection in BufferSync, with ServerModel's leases below it;
   alias chains in the registry under unconstrained callers; the small components.
