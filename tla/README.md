# A TLA+ model of Zerminal's agent integration and remote connections

Zerminal is a terminal-first fork of the Zed editor. Its own code is what lets a
CLI coding agent that runs in one of its terminals (GitHub Copilot CLI, Claude
Code) talk to the editor around it: ask for the selection and the diagnostics, be
notified when they change, and propose an edit as a diff that the user accepts or
rejects. That code is small, but it is all concurrency: foreground tasks,
background connection tasks, drop guards, oneshots, and processes that go away.
This directory models that code first, and then the inherited part with the
hardest protocols, the connections and the message channel of remote development.

Sources are cited relative to the repository root; `PROJECT.json` maps every
definition to its lines, lists the runs, the mutants, the hazards, the findings and
the theorems.

## 1. Inventory

| Component | State it keeps | Operations | What is hard | What makes it correct |
|---|---|---|---|---|
| **Diff-review panes** (`editor_capabilities/agent_diff_pane.rs`) | per pane: the oneshot sender in a `DecisionSlot`, a `DeregisterSlot`; shared: `tab_name -> WeakEntity` | `spawn_diff_review`, `accept`, `reject`, `close_from_model`, drop of the entity | four ways to end a review, in any order, before the workspace has handled `CloseItem`; two diffs with one name | exactly one decision, the first event; no stale registry entry; a decided tab closes |
| **Editor capabilities** (`editor_capabilities.rs`) | the registry above; nothing else | `open_diff_for_review`, `close_diff_by_tab_name`, read-only queries, `observe_selection` | called by two connectors | close-by-name reaches the right pane |
| **Copilot tool loop** (`copilot_cli_ide/mcp.rs`) | an unbounded channel of calls; the tool in progress | `handle_tools_call`, `run_tool_loop`, `open_diff`, `close_diff`, quick tools, `update_session_name` | a loop that waits for the user; a client that hangs up; teardown in the middle | replies match reviews; nothing but the user wedges the queue |
| **Copilot HTTP server and session store** (`transport/server.rs`, `transport/session.rs`) | sessions and their `sse_sender`; one task per connection | `initialize`, `GET`, `DELETE`, SSE attach/detach, `broadcast` | handlers that outlive their session; broadcast sends outside the lock; dead sockets | a served stream keeps its entry; every frame it is owed arrives once |
| **Copilot framing** (`transport/reader.rs`, `writer.rs`, `content_negotiation.rs`) | a read buffer | parse, format | - (sequential, byte level) | unit tests |
| **Copilot notifications** (`broadcaster.rs`, `attachment.rs`) | debounce state | observe, flush, broadcast | flushes that overlap and overtake each other | no flush is lost |
| **Copilot attachment, lockfile, router** (`attachment.rs`, `lockfile.rs`, `router.rs`) | a lockfile per process, terminals by PID | prepare, refresh, sweep, drop; register, unregister | crash between write and unlink, PID reuse, several terminals sharing one attachment | no live editor's lockfile is removed, a dead one's is unless the file system refuses; a name reaches the right terminal |
| **Claude connector** (`claude_code_ide/*`) | subscribers, one McpCall channel, one dispatcher, a lockfile per port | frames in and out, dispatch, broadcast, teardown | connections that stop reading while they wait; two threads racing for one outgoing queue | replies in order, each request answered |
| **AI terminal panel** (`ai_terminal_panel`) | panes, terminals and their attachments | launch, close, split | subscription against asynchronous spawn, PID reuse, tabs that are moved between panes | an attachment lives as long as a terminal that uses it; terminals of a workspace share it |
| **Active-terminal cwd** (`active_terminal_cwd`) | the active terminal, its directory and git root | switch, delayed recheck, worktree switch | a worktree whose creation ends after the next switch | the project follows the active terminal |
| **Context panel, coding tools** | directory listings | refresh | - | - |
| **Auto update** (`auto_update`) | a status enum and a polling task | poll, download, install, dismiss | overlapping polls | at most one install, errors recover |
| **Remote client** (`remote/remote_client.rs`) | message ids, buffer, max_received; a connection state machine; a pool | send, receive, resync; ping, monitor, reconnect, shutdown; pool connect | lost connections at every point; three tasks that take and replace one state; windows that share and kill one SSH master | no message lost; one master; reconnecting ends once masters open or fail; a lost proxy is noticed |
| **Remote server** (`remote_server/server.rs`) | the same channel; queues that outlive a connection | accept, read, write, idle exit | as above | as above |
| **Text CRDT, workspace, project, language servers, gpui** | - | - | inherited from Zed | used here as an environment |

How they interact. A connector's connection task (background thread) parses a
request and sends it through an unbounded channel to the connector's serial loop
(foreground thread), which calls `EditorCapabilities` and answers through a oneshot.
`open_diff` goes on to `spawn_diff_review`, which hands a second oneshot to the pane;
the loop waits for it. Notifications go the other way: an observer on the foreground
thread fills a debounce slot, a background task flushes it into every stream. The
attachment owns the loop, the server and the lockfile, and ends them by being
dropped.

## 2. Modules

| Module | Models | Composition |
|---|---|---|
| `Review` | the contract of a review: asked, decided once, closed; what a name means | abstract; `AgentDiff` implements it (`ImplementsReview`, INSTANCE with a refinement mapping) |
| `AgentDiff` | panes, slots, drop guard, registry | stands alone (`DiffSpec`: any caller), and is the lower half of the two connector modules |
| `CopilotToolLoop` | tools/call from POST to reply | EXTENDS `AgentDiff` |
| `CopilotServer` | connections, sessions, SSE streams, broadcast | stands alone |
| `ClaudeConnection` | WebSocket connections, dispatcher, broadcaster, teardown | EXTENDS `AgentDiff` |
| `Lockfiles` | the lockfile directory of a connector, shared by editor processes | stands alone; Copilot and Claude are two kinds of behaviour |
| `TerminalPanel` | terminals, attachments, router and process tree of one window | stands alone; an attachment is what `Lockfiles` and the connector modules are about |
| `RemoteConnection` | `RemoteClient` per window, its tasks, and the `ConnectionPool` | stands alone |
| `RemoteChannel` | `ChannelClient` at both ends and the connection between them | stands alone; what `RemoteConnection` does between losing and regaining a connection is its step `Reconnect` |
| `*_proofs` | theorems about the module of that name | EXTENDS it and TLAPS |
| `MC*` | model-checking instances | EXTENDS it |

Definitions marked "Mutant:" are wrong variants of the definition that follows
them. No specification uses them; each is the change that one property is known to
detect (`mutants` in `PROJECT.json`).

### AgentDiff

`pane[p]` is the life of the entity: unused, open, closing (`CloseItem` emitted), or
dropped. `sender[p]` says whether the decision slot still holds the oneshot sender,
`deregister[p]` which name the deregister slot would remove, `openDiffs` is the
registry, and `oneshot[p]` what the receiver has. A method of the pane runs on the
foreground thread without suspending, so each is one action: `SpawnDiffReview`,
`Resolve` (accept and reject), `CloseDiffByTabName` with `CloseFromModel`, `DropPane`
(`CancelAndDeregisterOnDrop`), and `AbandonReview` for a receiver that is dropped.
`verdict` is a ghost, the first event of each review. A closing pane may still get a
second click or another close before the workspace drops it.
The content of the diff is left out: no property tells texts apart.

`Review` says what callers of `open_diff_for_review` may rely on, without slots: a review
has a phase, an answer and perhaps a name. The mapping reads the phase off `pane` (a closing
pane is decided, a dropped one closed), the answer off the oneshot and the names off the
registry. That a click, a model close and a closed tab which hit one pane in any order are
one `End` and otherwise nothing, and that the name is given up in the very step of the
decision, is what the refinement says beyond the invariants.

### CopilotToolLoop

`queue` is the channel, `current` the call the loop is suspended in (only `open_diff`
is suspended across steps of others: while the file is read, and while the user
thinks), `st` and `reply` what became of each call, `peer` whether its client is still
connected. A reply to a client that is gone is `lost`. Tools that finish without
touching panes are one action, `RunQuickTool`. `DropAttachment` cancels the loop and
every handler in one step, because it is one drop on the foreground thread.

### CopilotServer

Each method of `SessionStore` holds the mutex and is one action; a broadcast is two,
`CollectSenders` (under the lock) and `TrySend` (per stream, after it). A broadcast is named by
its frame and any number may be under way: a flush clears its task slot before it broadcasts, so
the next one of its kind need not wait for it. A stream's
channel is named by its connection, since a connection that attaches is dedicated to
its stream. `pc` follows the GET handler: preamble, streaming, ended (it has left the
write loop and has not detached yet), closed. Three ghosts: `revoked`, the streams whose
session was deleted after they attached; `owed`, the frames whose broadcast has collected a stream's sender;
`written`, how often each frame has been written to it. The order in which overlapping broadcasts reach a
stream is free in the code and in the model, and no property speaks of it.
Header checks, routing and nonce only select a response.

### ClaudeConnection

`conn[c]` is `loop` (in `select_biased!`) or `awaiting` (inside `handle_text_frame`, where
it neither reads nor writes). A request is a name with a `method`: openDiff, tools/list,
any quick method or tool, the one notification that is dispatched, malformed, ignored.
`out[c]` is the outgoing channel, which the connection and the broadcaster both
append to; `wrote[c]` is what the client has been sent. The dispatcher is `current` and
`step`: running, review (waits for the pane), push (has answered tools/list and will
broadcast the selection). Between `respond_to.send` and that broadcast the connection's
thread may or may not run: that is why they are two steps. Teardown is two steps in
field order, `DropDispatcher` and `DropServer`.

### Lockfiles

An editor process is started, may crash at any step, and is not started again; PIDs and
ports are handed out again by the operating system, also to other programs. `prepare` runs
on the foreground thread of its editor, so that an editor does one thing at a time; the
file operations of different editors interleave: the listing (`Prepare`), each probe
(`SweepCheck`), each unlink (`SweepRemove`), `Bind`, `WriteLockfile` (a rename, hence atomic),
and on the way down `DropSocketDir` (Copilot), `DropGuard`, `DropServer`, in the order of the
fields. `file` maps a name to the attachment that its content describes; the nonce and
the folders are left out. What the file system may refuse, it may refuse at any time: the listing (`Prepare`
with an empty one), the reading of an entry (`SweepUnreadable`), an unlink by a sweep, by a guard, or of the socket's directory; the
code logs and goes on, and so does the model. Two ghosts: `leftover`, the files that were stale when a sweep
listed them and that it has met no error at since; `kept`, the attachments whose guard could not unlink its file.
`bound` says that a client can connect: for Copilot until the directory with the socket is
removed, for Claude until the listener is dropped.

### TerminalPanel

`view[t]` follows one `spawn_agent`: spawning (the terminal is being created; the closure holds the
attachment), created, open, closing (the pane has been asked to remove it), closed. `attachments` are the
panel's strong handles, `byWorkspace` its weak index, and `Alive` is what `upgrade` answers.
`parent` is the process table; `child[t]` is `exited` once the process is gone and
`handled` when the terminal's event loop has seen it, which may be before the panel has
subscribed. Spawns resume in the order in which their terminals were created: both are
continuations of tasks of the foreground executor, which is a queue; without that
a terminal whose process has long exited could register over the one that got its PID.
Terminals without a PTY child, and without a router entry, are those with no Copilot attachment. Whether a
workspace has a database id is fixed when it is created (it is set later only in tests), so
`saved` is chosen by `Init`. Of the panes the model keeps what an exit depends on: `displaced` are the tabs that are
not in the pane that was captured when they were opened, which is where the exit looks for them. `EnterTileMode`
leaves the first tab where it is and moves the others, `LeaveTileMode` moves all to one pane, in which any of them may have been
opened, and `DragTab` moves one out or back.

### RemoteConnection

`client[c]` is a record: `state` is `State`, `task` how far `new()`, the reconnect task or the shutdown
has got, `proxy` the proxy process, `monitor` and `heartbeat` whether those tasks still
run, `conn` the master held, `wait` the one awaited from the pool. `master[k]` is an SSH
master (opening, up, dead by itself, killed, failed). The pool's entry is weak: `Settle`
lets a master go with its last holder and the entry with it. `Reconnect` is a function
of the record, because `reconnect()` is called by the monitor, the heartbeat, an attempt that
failed and the debugging command. The number of an attempt that counts is in the record; it is reset when the
client leaves `Reconnecting`. Missed heartbeats are counted by the heartbeat task.
A proxy `ended`, or was `refused`: it exited with ServerNotRunning, because it was to reconnect and found no server or
because the server went while it forwarded, which can happen to any proxy. The monitor then replaces whatever state
there is: one that holds tasks and a connection is dropped with them, and `new()`, which does not look, may
set Connected over it (`Opened`). `HandedOut` says that `new()` has returned the client.
A released client may still have an attempt running, which holds its master until it ends.
`force_server_not_running` is compiled for tests only and left out.

### RemoteChannel

Both ends run the same `ChannelClient`; `wire[e]` is everything between an end's
`outgoing_tx` and the peer's message loop: queues, the proxy process, sockets. A lost
connection and its replacement are one step, `Reconnect`, which keeps a suffix of the
server's outgoing direction (its queue outlives the connection; how much had been
written is nondeterministic) and nothing of the client's (a new queue per
connection). A message is an id; handlers' effects are outside. Requests, responses
and notifications differ only in who waits for them, so they are one action, `Send`.
Ids are `u32` in the code; the bounds stay far below the wrap-around.

## 3. Runs

| Run | Instance | States | Shows |
|---|---|---|---|
| `agent_diff` | 3 panes, 2 names | 14 k | registry, slots, drop guard and decisions agree under every order; a decided diff closes; the panes implement `Review` |
| `tool_loop` | 2 calls, 2 panes, 2 names | 27 k | replies are the first event of their own review; one pending review at a time; if reviews end, calls are answered |
| `server` | 2 connections, 2 sessions, 2 frames | 75 k | an entry names only a stream of its own session; overlapping broadcasts lose nothing; finished streams close; a session survives a client that hung up |
| `server_stale_detach` (violation) | 2 connections, 1 session | - | a stale handler detaches the stream of another |
| `claude_connection` | 2 clients, 2 requests, 2 panes, 1 selection | 1731 k | replies in order, none for notifications; first event; one pending review for all clients |
| `lockfiles` | 3 editors, 3 attachments, 2 PIDs, 2 ports | 284 k | a guard unlinks its own file only; files lead to servers; a sweep removes what it can and gets past the rest; no live Copilot file is swept |
| `lockfiles_claude_sweep` (violation) | the same with 1 port | - | a Claude sweep unlinks the file of a live editor |
| `terminal_panel` | 2 terminals, 2 attachments, 2 PIDs, 2 roots, 2 hops | 600 k | routing survives PID reuse; attachments are shared by key and go with their last terminal; an exited terminal's tab closes if it was not moved |
| `remote_connection` | 2 windows, 3 masters, 2 attempts, 2 missed heartbeats | 113 k | one master at a time; the tasks act only on states they belong to; disconnected is final; reconnecting ends if masters do not open for ever |
| `remote_connection_lost` (violation) | 1 window | - | a proxy lost, or refused, just before the client is connected is never noticed |
| `remote_channel` | 2 messages each way, 1 lost connection | 9 k | nothing is lost or acknowledged unsent, and everything is handled in the end |
| `remote_channel_twice` (violation) | 2 messages each way, 2 lost connections | - | a message is acknowledged without having been received |

Bounds. Three panes and two names are the least with a name collision, an orphaned
pane and a third party. Two calls suffice for the tool loop: one that is suspended and
one behind it. Two connections suffice for the stale detach (the old stream, and one that
deletes, initializes again and attaches), two frames are two flushes that overlap.
Two requests cover both orders that matter for Claude: two on one connection, and one
on each. Three editors are one that crashed, one that sweeps and one that writes; three attachments one
for each. Two terminals and two PIDs let a PID be used again while its first owner's
tab is still there, by a terminal or below one, and two hops a client that is the PTY child or its child; the instance
with three PIDs passes too, in four minutes. Two windows are
enough for one to kill the master of the other; the third master is the one that is opened while two killed ones
are still held. `MaxAttempts` and `MaxMissed` are 3 and 5 in the code; at 2 each the last attempt is not the first.
Panes, requests and connections are interchangeable in the safety run of
Claude, editors, attachments, PIDs and ports in that of the lockfiles; both use
symmetry; the runs with liveness do not. `Frame` bounds the broadcasts, and
`MaxSelection`, `MaxSend` and `MaxReconnect` bound counters that the code leaves unbounded.
Deadlock is not checked: all clients may have gone, every terminal may be closed, and the bounded counters run out;
that nothing waits in vain is stated as liveness instead.

Fairness. The executors poll every task that is ready: weak fairness of the loop, of
the dispatcher, of each connection task, of each stream and broadcast, of a terminal's event
loop, and of each step of a reconnect attempt and of the monitor. The workspace
handles the `CloseItem` it was sent and the pane the close it was asked for: weak fairness of dropping a closing pane or view.
A resync is answered or times out, a killed process is waited for, and a proxy does not outlive its master.
Opening a master has no fairness: a password prompt may stay open, and the commands that install the server have no
timeout, so that `ReconnectEndsIfMastersOpen` makes it a premise.
Nothing is assumed of the user, of clients, of processes, or of the network except that a connection that
stays up delivers. The property that needs the user to decide says so as its
premise (`AnsweredIfReviewsEnd`).

## 4. Findings

1. A lost proxy that nobody notices (`remote_connection_lost`). The monitor's call of `reconnect()` is
   refused while the client is still Connecting or Reconnecting, and nothing
   repeats it once the client is Connected. The same property fails in a second way: the monitor of a proxy
   whose server has gone sets ServerNotRunning, and `new()` sets Connected over it.
2. A stream detached by a stranger (`server_stale_detach`). `detach_sse` is keyed by session id and does not ask whose stream
   it clears: a handler that outlives a DELETE and a new initialize of its id takes the new stream away.
3. A sweep that removes a live lockfile (`lockfiles_claude_sweep`). Claude's files are named by their port, and a port
   can change hands between the listing and the unlink. Copilot's cannot, by its uuid.
4. A message lost by the remote channel (`remote_channel_twice`). A later message that
   was still queued overtakes the resend of an earlier one; `max_received` takes the
   later id, and the next resync acknowledges both.
5. A documented outcome that cannot happen. `close_diff` never reaches a pending `open_diff` of its own attachment: the
   loop is serial, so the call that should close the diff waits behind the call that opened it. The comments on
   `DiffDecision::ClosedByModel`, `close_from_model` and `open_diff_response` present it as what `close_diff` is for. The evidence is
   a theorem, `ModelNeverCloses`, and not a trace.
6. A tab that outlives its process. The exit of a terminal closes the tab in the pane captured when it was opened; a tab
   that tile mode or the user has moved since is not found there, although the comment says that both ways to close converge.
   `ExitedTerminalCloses` holds only with that exception.

Facts about the code that the passing runs establish and that a reader of it may not expect:

- A dropped SSE client keeps its session occupied until there is something to write to it; from then on the session
  is free again, whether the handler detaches or not (`HungUpStreamFreesSession`).
- Selections broadcast by overlapping flushes may reach the CLI in either order.
- A lockfile survives a sweep that cannot list the directory, read the entry or unlink the file, and one whose guard fails to
  unlink it leads nowhere until a later sweep.
- Claude's initial selection may be written before the tools/list response it should follow (`PushInitialSelection`
  and `TakeReply` are steps of two threads).
- An exit that a terminal's event loop handles before the panel has subscribed leaves a tab behind;
  `ExitedTerminalCloses` has to exclude it.
- `force_heartbeat_timeout` in any state but Connected drops the state; the client is then `None` for good.

## 5. Proofs

Proved for every value of the constants, from the named ASSUMEs only (the "none" values
are not members of the sets they complement, bounds are naturals, and there is always a master that no client
holds):

- `AgentDiff_proofs`: `DiffInvariance` and from it `DiffTypeCorrect`, `RegistryIsSound`,
  `DecisionIsTheFirstEvent`, `NoReviewEndsSilently`, `StalePanesCannotEvict`. The invariants are not
  inductive: `RegistrySound` survives a button only if the pane that is resolved is the
  one whose slot names the entry, and `DecisionIsFirstEvent` survives a late drop only
  if a full sender slot means nothing has happened yet. `SlotsConsistent` adds that the
  panes whose sender is in its slot are the open ones, and without a verdict; the conjunction,
  `DiffInv`, is inductive. Every way to end a review is an instance of one lemma,
  `EndKeepsDiffInv`.
- `AgentDiff_proofs`, `DiffImplementsReview`: `DiffSpec => Reviews!Safe`. Under `DiffInv` each action is
  a step of `Review` or changes nothing of it. The case that needs the invariant is a second event on a
  decided pane: its sender is gone, so nobody hears it (`EndAgainIsQuiet`), and no name can mean it,
  because the registry holds only panes whose slot names their entry. The liveness half of `Reviews!Spec` is TLC's.
- `CopilotToolLoop_proofs`: `ToolInvariance`, from which `RepliesAreFirstEvents`,
  `PendingDiffsAreCurrent` and `ModelNeverCloses` follow. `ToolInv`
  contains `DiffInv` (the lemmas about panes are reused for the actions of the loop) and
  needs that a dead attachment has no call in hand. `ModelNeverCloses` rests on
  `PendingDiffIsCurrent`: when the loop is free to run `close_diff`, no sender is in a slot,
  hence by `RegistrySound` the registry is empty.
- `Lockfiles_proofs`: `LockInvariance` and from it `LockTypeCorrect`, `ClaimIsExclusive`, `FilesHaveServers`,
  `CopilotFilesStay`, `LeftoversAreSwept`. `LockInv` adds what links the three places an attachment is recorded in:
  a file carries the name of what it describes (`FilesNamed`), a Claude server holds its port until its guard is gone
  (`PortsHeld`, hence two guards never name one file), and what a Copilot sweep has found stale belongs to an editor
  that is gone (`SweepSound`, `Gone`), which no later step brings back. A file that a sweep has failed on leaves `leftover`, and an attachment whose guard
  has failed to unlink is `kept`: the two theorems about leftovers and servers are about all the others. Claude's sweep has no such fact, and
  `lockfiles_claude_sweep` shows why.
- `TerminalPanel_proofs`: `PanelInvariance` and from it `PanelTypeCorrect`, `LiveTerminalsKeepRoutes`,
  `AttachmentsHaveTerminals`, `AttachmentsAreShared`. The route of a living terminal survives `OpenTerminal` of one that
  had the same PID before only because spawns resume in the order in which their terminals were created: `ReadyInOrder` says
  that nobody still waiting has the PID of a living child on screen or ahead in the queue. `SharedByKey` needs that
  keys belong to attachments that were prepared (`MadeFirst`) and that what the panel holds is on screen (`HeldByView`).
- `TerminalPanel_proofs`, `CallsAreRoutedHome`: the walk up the process tree, for any number of hops. It needs two
  more invariants (`RouteInv`): the PTY child of a terminal is a child of the editor, and an entry of a router,
  also a stale one, is under its terminal's own PID. Then a walk that meets the living child of another terminal first
  leaves the tree there and cannot come to the one it should reach. The walk is a recursive function; that it is well
  defined, has a first hit and does not return are three uses of induction, all drawn from the library's theorem that
  `<` is well-founded on the naturals, in the form "a nonempty set of numbers has a least one" (`LeastNumber`,
  `EveryNumber`), which needs no operator as a parameter.
- `CopilotServer_proofs`: `ServerInvariance`, `EntriesNameTheirOwnStreams`, `ServerTypeCorrect`. The strengthening is that a connection that
  has attached nothing carries no session, and that a live receiver has one.
- `CopilotServer_proofs`, `FramesArriveOnce`: when a stream ends because its last sender is gone, every frame it was owed has been written
  once. `FrameInv` says where such a frame is before that: with its broadcast, in the channel, or on the wire, in one of the three.
- `ClaudeConnection_proofs`: `DispatchInvariance`, from which `ClaudeTypeCorrect`, `ClaudeRepliesAreFirstEvents` and
  `ClaudePendingDiffsAreCurrent` follow. `DispatchInv` contains `DiffInv`, and says that every call which is queued or being
  dispatched is the one its connection waits for (`CallsSound`), and that what a connection has not read is the rest of what
  its client sent (`SentSound`).
- `ClaudeConnection_proofs`, `OrderInvariance` and `ClaudeRepliesAreInOrder`. `RepliesInOrder` is stated by positions: every response
  is to a frame of that client, there is no second one, and the earlier frames that have an answer were answered
  before. It is inductive only with `OrderSound`: at most one response waits in the outgoing queue, it is to the last frame read, and the
  responses to all frames read before that one have been written.
- `RemoteConnection_proofs`: `RemoteInvariance` and from it `RemoteTypeCorrect`, `MasterIsSingle`, `HeartbeatsHaveStates`, and the
  action property `DisconnectedStaysFinal`. `RemoteInv` says for each client which states go with which step of its task
  (`Sound`), with a ServerNotRunning that may come at any step, and of the pool that a master nobody holds is unused and one that was started and not killed is the pool's
  (`PoolSound`). The assumption `ConnAssumption`, that there are more masters than clients can hold at a time, stands
  for a supply the code does not limit.
- `RemoteChannel_proofs`: `ChannelTypeCorrect`, and `IdsAreAssigned`, which needs no premise about the losses: acknowledgements never
  run ahead of what was sent.
- `RemoteChannel_proofs`: `NothingLostIfSettled`, `NothingLostOnce`. `NothingLost` is false in general
  (`remote_channel_twice`). What is proved is the exact contract that is left: if every connection is lost only when the
  last resync is complete (`Settled`: its answer has arrived and the server has handled what was sent before it), then
  nothing is lost, however often that happens; and the first loss is always such a one. `ChannelInv` says of a message
  that its receiver has not handled where it is. Outside a resync it is `Fresh`: in the buffer, on the wire with no later id before it, and above
  every acknowledgement that its receiver has given or will give next. During one the client's older messages are in its
  buffer and above all acknowledgements up to the answer (`ClientSafe`), and the server's are on the wire before
  the answer or are fresh (`ServedAt`). The case that breaks without `Settled` is the second conjunct of `Fresh`.

Every invariant and every safety action property that a run checks is thus also a theorem, with the one restriction on
`NothingLost`. Only model-checked: the liveness properties `AnsweredIfReviewsEnd`, `EndedStreamCloses`, `HungUpStreamFreesSession`, `ExitedTerminalCloses`,
`ReconnectEndsIfMastersOpen` and `EventuallyHandled`, and the fairness half of `ImplementsReview`: liveness under fairness and ENABLED are
outside the prover's reach. `ChannelInv`, `DispatchInv`, `OrderSound`, `FrameInv` and `RemoteInv` were checked on small instances
before they were proved.

## 6. Not modelled

HTTP parsing and formatting, rendering, syntax highlighting, icons, settings, the text
CRDT, language servers, and the rest of what the fork inherits: sequential or visual
code, or data structures that a small instance says nothing about. The WebSocket and
nonce authentication only decides whether a connection exists. The contents of files and
diffs are left out. That a Claude client is answered once the reviews end is not checked as liveness: it would take a run
of its own beside the one on safety, and the dispatcher is the same kind of loop as Copilot's. The effects of remote handlers are left out; that a request may be
handled twice after a reconnect is recorded as a hazard. The debounce of selections and
diagnostics, which decides what a flush sends, is left out; what its flushes may do to each other is in `CopilotServer`.
The active-terminal tracker and the updater have little of their own that runs in more than
one step; the one place where the tracker does is recorded as a hazard. The repository is a fork of a whole
editor, nearly all of whose lines are that editor; the models cover the fork's own protocols and the
two inherited ones.

## 7. Plan

1. `ActiveTerminalCwd`: the creation of worktrees against later switches.
2. The daemon's side of `RemoteConnection`: PID file, idle timeout, two proxies for one server.
3. Proofs: that `RemoteChannel`, between settled losses, implements an abstract channel that keeps what was sent until it is handled; what
   `ReconnectEndsIfMastersOpen` needs of safety (the number of an attempt never decreases within one reconnect) as an action property.
