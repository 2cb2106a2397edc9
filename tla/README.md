# A TLA+ verification project for the editor's remote and shared work

This directory holds TLA+ modules about the code in `src/` (a fork of the Zed
editor with extra AI panels), TLC configurations that check them, and TLAPS
proofs. It covers the parts of the system that are hardest to test: the
connection between the editor and its remote development server, the text
buffer that several users edit at the same time, the peer through which the
editor and the collaboration server talk, and the calls and rooms of that
server. The text below has

1. the inventory of the system,
2. the plan,
3. the modules and how they correspond to the code,
4. the runs, their bounds and what they show,
5. what is proved and how,
6. what the runs found,
7. what is not modelled.

## 1. Inventory

The repository is a Rust workspace of some 230 crates. The parts with state
that several actors share, and what makes each correct:

| Part | State | Operations and partners | Hard because | Correct if |
|---|---|---|---|---|
| **Remote message channel** `remote/src/remote_client.rs` 1354-1707 (`ChannelClient`, in the editor and in the daemon), `remote/src/transport.rs`, `remote_server/src/server.rs` `start_server` | next id, buffer of unacknowledged envelopes, last id taken in, response channels, queues | send, request, respond; message loop; reconnect, flush, resync | sends from many threads; connections that drop with messages in flight; piggybacked acknowledgements | nothing sent is lost, nothing unsent arrives, repetitions are bounded, requests are resolved, by the right answer |
| **Remote connection supervision** `remote_client.rs` 148-1135 (`RemoteClient`) | connection state, owned monitor and heartbeat tasks, attempts | boot, heartbeat, monitor, reconnect attempts, shutdown, debug actions | tasks outliving the state that owns them; timers racing answers | one watcher per connection, one reconnect at a time, outages end, giving up is final and told once |
| **Remote connection pool** `remote_client.rs` 1142-1251, `transport/{ssh,wsl,docker}.rs` | weak entries per host, connecting or connected | connect, kill, shared by all `RemoteClient`s | one client's kill ends another's connection | one live attempt and one live connection per host; waiters are answered |
| **Daemon and proxy launch** `remote_server/src/server.rs` | PID file, sockets, exit codes | spawn, reconnect, idle exit | processes racing over files | one daemon per identifier |
| **Text buffer CRDT** `text/src/text.rs`, `operation_queue.rs`, `undo_map.rs`, `clock/src/clock.rs` | fragments, version vector, Lamport clock, deferred operations, undo counts, history | local edits, undo, remote operations in any order, waiting for versions | any interleaving of operations at any replica | replicas with the same operations hold the same text; deferred operations are applied; waiters wake |
| **Collab RPC peer** `rpc/src/peer.rs` | connections, response and stream channels | request, respond, stream, keepalive | a connection that ends around a registration; responses against notices | every request is answered by its own answer or fails; what was sent takes effect in order |
| **Collab server** `collab/src/rpc.rs`, `rpc/connection_pool.rs`, `db.rs`, `db/queries/*` | connections, rooms and their participants, project collaborators | create, call, ring, join, rejoin, leave, loss of a connection, cleanup after a restart | a grace period racing the client's return; transactions of many handlers; handlers dropped halfway | calls go with their caller, rooms with their last participant, lost seats are given up, nobody else is put out |
| **Collab client, calls, channels** `client`, `call`, `channel` | sign-in status, room, channel buffers | sign in, invite, accept, rejoin, resync | retries with backoff against logout | one connection; buffers converge after a rejoin |
| **Worktree** `worktree/src/worktree.rs` | snapshots, scan ids | scan, stream updates | background scanner against requests | the replica follows the snapshot |
| **Buffer and LSP stores** `project/src/*` | open buffers, servers | open, share, sync | many | too large to model whole |
| **Agent threads** `agent`, `acp_thread`, `action_log` | turns, tool calls, tracked edits | send, cancel, tools | cancellation racing tool results | one running turn; edits accounted for |
| **Autonomous agent** `autonomous_agent` | current task, cancelled flag | execute, stop | stop while a step runs | a task ends once |
| **Multi-model dispatch, CC Switch, i18n** | status, configuration | dispatch, save and sync, look up | little concurrency | mirrored files follow the configuration |
| **GPUI, editor, workspace** | views, executor | everything on one main thread | - | used as the scheduling assumption below |

How they meet: an editor window owns a `RemoteClient`, which owns a
`ChannelClient` and, through the pool, a connection that may be shared with
other windows. The daemon owns a `ChannelClient` of its own whose queues feed
whatever socket connection is current. Projects, worktrees, buffers and
language servers talk over the channel (`AnyProtoClient`), or over a collab
`Peer`, with the same message types; buffers exchange CRDT operations in
those messages.

Two facts about the executor are used everywhere: foreground tasks run on one
thread, from one await to the next, and dropping a `Task` cancels it.

## 2. Plan

Order of work, most important first:

1. `RemoteChannel` (done), with `AtLeastOnce` as its abstract specification.
2. `RemoteClient` (done), with `ConnectionLife` as its abstract specification.
3. `Versions`, `Fragments` and `TextBuffer` (done): timestamps and version
   vectors, the fragments and what edits and undos do to them, the replicas
   and their exchange of operations; with `CausalDelivery` as the abstract
   specification of the exchange.
4. Proofs about `TextBuffer` (done): delivery, the undo histories, the order of
   characters, the texts, the waiters and the types.
5. `RpcPeer` (done): one connection of `Peer` at both ends, with
   `RequestService` as its abstract specification. Left: streams.
6. `CollabRooms` (done): the calls and rooms of the collaboration server.
   Left: projects in a room, channels, and what a client keeps of a room.
7. `RemoteConnectionPool`: the pool, several clients, the three kinds of
   transport; composed with an abstraction of `RemoteClient`. Runs: two
   clients of one host, a kill by one while the other reconnects. Theorem: one
   live attempt and one live connection per host.
8. Further proofs about the channel: `NoFalseAnswer`, `ResolvedByPeer`,
   `RepeatedOncePerReconnect` and `AtMostOnce`, and `NoLoss` over one lost
   connection with one sending thread at each end (done).
9. `CollabClient`: sign-in, status and reconnect; then projects that are
   reshared and rejoined, composed with `CollabRooms`.
10. Convergence of `TextBuffer` (done, with item 4): `OneOrder` and
    `SameVersionSameText`, without induction over the sequence of fragments.

## 3. Modules

### RemoteChannel

Both ends are instances of one set of actions, indexed by `Endpoint`
(`"client"`: the editor, `"server"`: the daemon), as both run `ChannelClient`.

| Code | Model |
|---|---|
| `next_message_id`, `buffer`, `max_received`, `response_channels`, `remote_started` | `nextId`, `buffer`, `maxReceived`, `responseChannels`, `remoteStarted` |
| `outgoing_tx` to the peer's transport | `outgoing[e]`, the queue and the bytes in flight together |
| `incoming_rx` of the message loop | `incoming[e]` |
| `request_dynamic`, `send_dynamic` | `Allocate` (the id; for a request its response channel), `Enbuffer`, `PostDraft`: three steps of a thread, which interleave with everything else at that end |
| `start_handling_messages` | `StartLoop` and one action per branch of the loop: `HandleFlush`, `HandleRemoteStarted`, `HandleAnswer`, `HandleMessage` |
| `ChannelClient::reconnect` | `Reconnect` |
| `resync` | `RequestFlush`, then `ResumeResync` when resumed with the answer; `resync = "resuming"` holds the message loop back, as the `rx.await` after `sender.send` does |
| `RemoteClient::new`'s wait and ping | `SendPing` and `boot`: the editor's applications send only afterwards |
| `start_server`'s loops | `ServerAccept`, `ServerBreak`, `ServerWriteLost` |
| an application's handler answering | `SendResponse` for a position in `answering` |

`handled` and `sent` are history variables. Message contents are not modelled:
an envelope is its id, `ack_id`, `responding_to` and a kind.

Abstractions. An iteration of the message loop is one step: it runs without an
await except where it waits for a requester to be resumed, and that wait
matters only for `resync`, where it is modelled. The wait for application
requests to be resumed is left out: it delays the loop and changes nothing of
the channel. Ids do not wrap at 2^32. Bytes in flight and the queue before
them are one sequence, and a connection that is lost loses all or part of it:
the client's part goes with the connection's tasks, the daemon's is lost one
envelope at a time while its loop has not noticed (`ServerWriteLost`). The
daemon accepts one connection at a time and stays up.

### RemoteClient

`state` is `RemoteClient.state`, `"None"` once taken; `missed` the count in
`HeartbeatMissed`; `boot`, `recon` and `attempt`, `hb`, `monitor` and `closing`
are the tasks of `new`, `reconnect`, `heartbeat`, `monitor` and
`shutdown_processes` with the locals that matter. `link` is the connection and
proxy as the environment left it: alive, silent, exited, or refused (the exit
code for "server not running", which the proxy also gives if the daemon dies
while it forwards, server.rs 814-819). `activity` is the token in the activity
channel. Each action is what one task does between two awaits.
`DropConnection` is the effect of dropping a connection's tasks: the monitor
owns the proxy process.

Abstractions. Time: an armed timer may fire whenever it is awaited, a ping
may time out whenever nothing has arrived; but a new heartbeat's first timer
(5 s) does not beat the turn that stores the state it belongs to
(`HeartbeatDue`). `ReconnectFailed` is entered and left in one turn
(`TryAgain`) and is not a value of `state`. The proxy never exits with 0: its
forwarding only ends in an error, which becomes a failure code. The entity is
kept by its project while shutdown lingers; a heartbeat that fires in those
50 ms ends there (`HeartbeatUnheard`).

`LateExits` decides whether the proxy may exit between the answer that
completes a boot or a resync and the turn that stores `Connected`.
`ForcedAttempts` holds the arguments of the debug action
`force_heartbeat_timeout`.

### Versions, Fragments, TextBuffer

`Versions` has the timestamps and version vectors of `clock.rs`. `Fragments`
has the text of one replica as a sequence of fragments, and the functions that
edits and undos apply to it. `TextBuffer` has the replicas, their histories,
waiters and deferred operations, the network between them, and the requests by
which a guest has the host's language server edit the buffer.

| Code | Model |
|---|---|
| `snapshot.fragments` (and the two ropes and `insertions`, which follow from it) | `fragments[r]` |
| `snapshot.undo_map`, `snapshot.version`, `lamport_clock` | `undoMap[r]`, `version[r]`, `clock[r]` |
| `deferred_ops`, `deferred_replicas` | `deferredOps[r]`, `deferredReplicas[r]` |
| `history.undo_stack`, `redo_stack` | `undoStack[r]`, `redoStack[r]`: sequences of sets of edits |
| `wait_for_version_txs`, `edit_id_resolvers` | `versionWaiters[r]`, `editWaiters[r]` |
| `edit`, `apply_local_edit`, with `start_transaction` and `end_transaction` around it | `Edit` (`MakeEdit`, `ApplyLocalEdit`) |
| `group`, `group_trailing` | the choice of `n` in `Edit`, `GroupTrailing` |
| `undo`, `undo_transaction`, `redo`, `undo_or_redo` | `Undo`, `Redo`, `UndoOrRedo` |
| `apply_ops`, `flush_deferred_ops` | `Receive` (the call is made), `ApplyFromBatch` for each operation, `StartFlush`, `ApplyFromQueue` for each deferred one, `EndFlush` |
| `apply_op`, `apply_remote_edit`, `apply_undo`, `resolve_edit` | `Apply`, `ApplyRemoteEdit`, `ApplyUndo` |
| `operation_queue.rs` | a set, taken from in the order of timestamps (`Earliest`) |
| messages between replicas | `Broadcast`, `inbox[r]`; `Receive` takes up to `MaxBatch` operations in any order, up to `MaxRepeats` of them delivered before |
| `lsp_command.rs` (`PerformRename`, `OnTypeFormatting`), `lsp_store.rs`, `buffer_store.rs` | `SendRequest`, `ReceiveRequest`, `AnswerRequest`, `ReceiveAnswer`, `PushTransaction` on an element of `requests` |

`call` is the call of `apply_ops` that runs. Nothing else happens meanwhile:
the call has no await, and replicas share no state, so that what another
replica does meanwhile might as well be done before or after it. Splitting the
call into its operations makes what holds between them checkable
(`NoOperationLost`) and each step small enough for a proof.

Abstractions. A fragment is one character: the code keeps runs and splits them
where an edit ends, which decides nothing. `Locator`s are not modelled: the
order of the sequence stands for them. An edit replaces one range. Each edit is
a transaction of its own, which ends at once; grouping, which depends on the
time between transactions, merges any number of the last ones up to one that
was finalized. Values of the clock do not wrap at 2^32. The network is what
`project` and `collab` make of it: operations may arrive in any order, since
the messages of different guests do, and again, since a guest that rejoins is
sent what its version lacks while the original may still be on its way; none is
lost for good.

One comment in `text.rs` (1124-1125) says that a remote insertion goes past
concurrent ones with a lower timestamp; the code (1127) skips those with a
higher one, as the model does.

### RpcPeer

One connection of `Peer`, both ends instances of one set of actions, as the
editor and the collaboration server use the same code.

| Code | Model |
|---|---|
| `Peer::connections` | `connected[e]` |
| `handle_io`: not polled yet, running, its guard halfway, gone with `outgoing_rx` | `io[e]` |
| `response_channels` | `channels[e]`, `None` once taken |
| `outgoing_tx`, the websocket, `incoming_tx` | one sequence `said[e]` with the positions `written[e]`, `read[e]` and `handled[e]`: no queue between the ends reorders or repeats |
| `request_dynamic` | `LookUp`, `Register`, `SendRequest`: three steps of any thread; then the future: `Resume`, `Fail`, `DropFuture` |
| a request's oneshot channel | `slot[r]`, the position of its response |
| `send`; `respond`, `respond_with_error` | `SendNotice`; `Respond` |
| `handle_io` and `_end_connection` | `Start`, `Write`, `Read`, `End`, `EndRemove` |
| `disconnect`, `teardown` | `Disconnect` |
| the stream of `add_connection` | `HandleResponse`, `HandleMessage`; `handing[e]` is the request that it waits to see resumed (`_barrier`) |
| `handle_connection`, when it returns early and after its loop | `GiveUp`, `StopListening` |

`future`, `todo` and `got` follow the requests, what an application still has
to answer and how far what it got reaches in what the other end sent.

Abstractions. Messages are a kind and a request or notice. Pings and timers
appear only as the moments at which `handle_io` may or must end (`MustEnd`).
Message ids do not collide or wrap: a request stands for its own id.
`forward_request` and `forward_send` do what `request` and `send` do. A look-up
and the push after it are one step in `send` and `respond`, since a push to a
queue whose connection has just been removed is a push before the removal. The
drop of `outgoing_rx` and the removal of the connection are one step
(`EndRemove`): in between, a message can only be queued that nobody will write.
Streams of responses are left out; a completed one may still yield "connection
closed" when the connection ends, but nothing in the workspace calls
`request_stream`.

### CollabRooms

The database, the handlers of all connections, and as much of the clients as
decides what they may ask for.

| Code | Model |
|---|---|
| tables `rooms` and `room_participants` | `rooms`, `participant` (by user, as the index on `user_id` is unique) |
| a connection: in `ConnectionPool`, in `connection_lost` before and after the leave, over, or of an earlier server | `conn[c]`: `live`, `lost`, `left` and `offline`, `closed`, `stale` |
| `Database.rooms`, the mutex of each room | `holder[r]` |
| a transaction that is open in a production build | `task[w]`: its stage, the rows it has deleted and the room it has read; `found[w]`: the rows it has found and will delete by their ids |
| `room_transaction` | `RoomTransaction` (the mutex), `Proceed` (the statements, the commit and the message) |
| `optional_room_transaction` | `OptionalRoomTransaction` (the first query), `DeleteRow`, `DeleteCalls`, `DeleteRoom` (the statements), `ProceedOptional` (the mutex, the commit and the message) |
| `rooms.rs`: `call`, `call_failed`, `cancel_call`, `join_room`, `rejoin_room`, `clear_stale_room_participants` | `Call`, `CallFailed`, `CancelCall`, `JoinRoom`, `RejoinRoom`, `ClearStale` (in production after `DeleteStale`), with the `room_updated` that follows under the guard |
| `leave_room`, `decline_call` | `Found`, `Leaves`, `HasRead`, `DeletesRoom`, `Commit`; in a test build `Executed` has all their statements at once |
| the handler of `call` while it rings | `ringing[c]`: `RingUser`, `RingAnswered`, `RingRefused`, `RingFails` |
| `connection_lost` | `Lose`, then `Expire`, `CheckOnline`, `DeclineOffline` |
| `Server::start` and its cleanup | `Restart`, `StartCleanup`, `ClearRoom`, `FinishCleanup` |
| `ActiveCall`, `Room` of a client | `using`, `joined`, and the guards of `AcceptIncoming`, `Rejoin`, `HangUp`, `Invite`, `CancelInvite`, `DeclineIncoming` |
| `RoomUpdated` messages | `view[c]`, the last one that `c` was sent |

`Database::run` of a test build blocks the only thread on a transaction
(`runtime.block_on`), of a production build it awaits it. `build` is one or the
other: in a test build a transaction is one step; in a production build
others' steps fall between its statements, between these and its commit, and
between taking a mutex and using it. Each statement reads what is committed when
it starts (`ReadCommitted`). `leave_room` and `decline_call` find a row and then
delete it by its id, without the mutex: the row they have found (`found[w]`)
may be answered by another connection when they delete it, or be gone (`Write`
then takes it out of `found`, since a new row has a new id). The calls that
`leave_room` and `clear_stale_room_participants` find and then delete are the
same. From the deletion to the commit the row is locked (`RowsFree`), and the
room that a transaction has deleted or wants to delete likewise (`RoomFree`,
`FreeToDelete`).
`PendingHasCaller`, `RoomsInhabited`, `ViewIsCurrent`, `LostResolved` and
`SeatGivenUp` are claimed for the test build only: that is where the code's own
randomized tests check the like of them, and in production they do not hold
(section 6). `StaysUntilItLeaves` and `SeatNotMarked` are claimed for both.

Two constants mark what the code does not exclude and most properties do not
survive. `LateAnswers`: a call may be answered while the ring on a
connection of the callee has not been acknowledged. `EarlyInvites`: a client may invite to a
room it has still to rejoin.

Abstractions. A deletion and the query that follows it are one step: what a
deletion has locked nobody else can write, and its effect nobody else can see,
until the commit, so that the deletion might as well come just before the query. The statements of a transaction that holds
the room's mutex are one step with its commit and its message, except in
`clear_stale_room_participants`, whose calls may be in other rooms: none of the
others waits for a row when it has changed one. A wait for a row has no end in
the model unless the other transaction ends; that Postgres aborts one of several
transactions that wait for each other's rows is left out. A request is served from when its transaction starts; a request that
arrives too late is one without effect. A connection's handlers share one handle of
the database, behind a mutex (`Session::db`), so that its transactions do not
overlap. One call rings per connection. A client that is rung acknowledges, or
answers with an error when it could not look up the users of the call, or its
connection ends first. The rooms of channels, projects, roles,
locations, contacts, the `CallCanceled` message and queries that fail at random
are left out. `answering_connection_lost` is written by the code and read
nowhere.

### Abstract specifications

`AtLeastOnce`: two ends, what one has sent reaches the other at least once,
and nothing else does. `KeepsPromise` is its safety part, `KeepsPromiseInTheEnd`
adds its liveness; the refinement maps the set of envelopes in `handled` to
`received`. `ConnectionLife`: the statuses `connection_state()` may go through;
`Disconnected` is final. `CausalDelivery`: each replica applies each operation
at most once, and not before the operations its author had applied when it was
issued. In the refinement, what a replica has applied is the set of operations
that its version vector claims, and what an operation comes after the set that
its own version claims. A vector holds one number per author; the refinement
says that these numbers lose nothing. `RequestService`: a request is answered
once, by an answer that its receiver gave to it, or it fails, and then because
the caller's end of the connection has ended; the refinement counts an answer as
given when it enters the receiver's outgoing queue.

## 4. Runs

| Run | Instance | Properties |
|---|---|---|
| `channel_reconnect` | main threads only, one send each, one reconnect, fairness | `TypeOK`, `NoLoss`, `RepeatedOncePerReconnect`, `KeepsPromiseInTheEnd`, `EventuallyResolved` |
| `channel_threads` | the editor has a second sending thread and sends two, the daemon one; no reconnect | `AtMostOnce`, `NoFalseAnswer`, `ResolvedByPeer`, `KeepsPromise` |
| `channel_two_drops` | main threads only, two sends, two reconnects | `NoLoss` is violated |
| `client_supervision` | the source's limits (3 attempts, 5 misses), no `LateExits`, shutdowns, the debug action `SimulateTimeout`, fairness | `TypeOK`, `NoStaleWatch`, `CountsAgree`, `DisconnectedOnce`, `GivesUpAfterMax`, `OneReconnectAtATime`, `FollowsConnectionLife`, `OutageEnds` |
| `text_delivery` | host and two guests, three edits of an empty buffer, one repetition | `OneOrder`, `NoOperationLost`, `NothingReadyIsDeferred`, `DeliversCausally` |
| `text_requests` | host and guest, a rename, two edits and two undos or redos of one character | `TypeOK`, `SameVersionSameText`, `VisibleIsCurrent`, `WaitersWait`, `UndoHistoryIsCurrent`, `OneHistoryPerEdit` |
| `text_live` | host and guest, a request of either kind, two edits, an undo, messages of two operations, one repetition, fairness | `Converges`, `RequestsProceed` |
| `text_on_type_format` | host and guest, format as one types, one undo | `SameVersionSameText` is violated |
| `peer_requests` | two requests from the client to the server and a notice back, a buffer of two, fairness | `TypeOK`, `InOrder`, `ServesRequests`, `EventuallyResolved` |
| `rooms_calls` | two users, the first with two connections, one room, one restart, test build, calls answered in time, no early invitations, fairness | `TypeOK`, `PendingHasCaller`, `RoomsInhabited`, `ViewIsCurrent`, `LostResolved` |
| `rooms_overlap` | the same users and connections, both builds, late answers, early invitations; only Ben rings (`BenCalls`), and one restart if he has never connected (`RestartsWithoutBen`) | `StaysUntilItLeaves`, `SeatNotMarked` |
| `rooms_early_invite` | three users, test build, `EarlyInvites` | `SeatGivenUp` is violated |

Five more configurations have no run in PROJECT.json; each shows TLC one
violation that section 6 describes: `channel_background_send.cfg` (module
`MCRemoteChannel`), `client_late_exit.cfg`, `client_silence.cfg` and
`client_forced_timeout.cfg` (`MCRemoteClient`), and `rooms_serialized.cfg`
(`MCCollabRooms`).

Bounds. `MaxSends` bounds what each end sends of its own; the boot ping, the
responses, acknowledgements and flushes come on top, so with one send each a
connection carries up to eight numbered envelopes, requests in both
directions, and a drop may fall anywhere among them. One reconnect is the
scenario the channel handles; two and a second thread are what it does not
(section 6), which is why the passing runs stop there: `NoLoss` is a property
of one thread per end and one lost connection. Without a lost connection
threads do no harm, and `channel_threads` checks that. `RemoteClient` has no
bound: its state space is finite with the limits of the source, except for
`disconnects`, which the checked property bounds. `SimulateTimeoutExhausted`,
which pretends that all attempts have failed, is left to the proofs:
`GivesUpAfterMax` is about attempts that were made.

In `TextBuffer`, three replicas are enough for an operation to overtake the one
it depends on and for two replicas to apply two concurrent ones in opposite
orders; three edits for two concurrent insertions at one place with a third
between, before or around them, for a deletion of what a third inserts into,
and for a chain of two deferred operations; two undos for an undo and a redo,
or for two replicas' undos of one edit. The runs divide the questions because
their product is out of reach: two edits, two undos and a request at two
replicas have 1.2 million states. `SameVersionSameText` is checked without
`onTypeFormatting` requests, which break it (section 6).

In `RpcPeer`, two requests are the least for an answer to reach the wrong one,
and with the answers and a notice an end sends three messages, one more than the
buffer holds. Both ends may start, give up, end, disconnect and drop futures at
any point. The buffer of the source is 256, and 1 in tests; `Buffer` counts the place
that the channel of the `futures` crate grants its one sender.

In `CollabRooms`, two connections of one user are enough for a reconnection, for
a second client of the same user that is rung, answers or takes the seat, and for
a timer of the first connection that fires when the second is in the room; one
restart for a cleanup that races them. A deleted room is not created again, so
that one room is one call; what is between rooms is left to the proofs. A third
user is needed for `SeatGivenUp` to fail (`rooms_early_invite`); with
`EarlyInvites` false, three users and a restart it holds (988 thousand states; and
it is proved). A production build with three users is out of TLC's reach, and so
is one in which two users and a restart meet freely. `rooms_overlap` therefore
bounds who meets whom: only Ben, who has one connection, rings (`BenCalls`;
Anna, whose two connections are rung, is the callee), and the server restarts
only if he has never connected (`RestartsWithoutBen`), so that the cleanup meets
Anna's two connections. It does not tell apart states that differ only in `view`
(`VIEW WithoutView`): no action and none of its properties reads it. It has 777
thousand states and takes a minute or two. What lies beyond these bounds
is proved, for both properties.

Repetition is not excluded: after a drop the flush and resync post what was
never acknowledged, and the application sees it again; `AtMostOnce` is checked
without drops only, and `RepeatedOncePerReconnect` says how often.

Fairness. `RemoteChannel`: weak fairness of each thread's unfinished sends and
answers, each message loop, the transport, the daemon's socket loop, and of
reconnecting. Executors poll every woken task, sockets and pipes deliver, and
`RemoteClient` reconnects after every exit; no application is obliged to send.
A handler is obliged to answer a request: `HandleMessage` answers with an error
if there is no handler, and handlers return a result that is sent.
`RemoteClient`: weak fairness of each task's next step, as timers fire and
kill, connect and resync each end one way or the other (all are awaited with a
timeout or end with a process). The network, the proxy and the user owe
nothing. `TextBuffer`: weak fairness of delivering what is on its way
(`Deliver`, for which repetitions do not count), of the steps of a call of
`apply_ops`, and of the handling of a request. The messages of a project are
handled by foreground tasks that the executor polls, and a guest that lost its
connection is sent what it lacks when it rejoins. Nobody is obliged to edit,
nor the host to find an edit to make: `RequestsProceed` says that waiting ends
(`sent` leads to `waiting` without a waiter, `answered` to `done`), not that an
answer comes.

`RpcPeer`: weak fairness of what `handle_io` does by itself, of the incoming
stream, of each request's future and of each handler. `handle_io` ends where it
must (`MustEnd`: the queue is closed and written; nothing more arrives for
`RECEIVE_TIMEOUT`; a message is not taken for `WRITE_TIMEOUT`); that it ends
anywhere else is allowed and not required. Callers await the futures they keep,
and applications read the stream as long as they hold it. `CollabRooms`: weak
fairness of the tasks of the server, and of noticing that a connection no client
uses is dead (`RECEIVE_TIMEOUT`); no client is obliged to do anything.
`LostResolved` says of a test build that again and again no seat is kept for a
client that is gone.

`CHECK_DEADLOCK FALSE` in all runs: the senders stop at their bounds, a
client that has been shut down or has given up does nothing more, replicas
that have observed everything and may edit no more stay as they are, a connection
of `Peer` ends, and in `CollabRooms` connections are used up (and in production
handlers can wait for each other).

## 5. Proofs

`RemoteChannelProofs`, for any number of background threads, sends and
reconnects (`OneReconnectLosesNothing` names its own):

- `TypeCorrect`: `Spec => []TypeOK`, by itself inductive.
- `ChannelKeepsPromise`: `Spec => KeepsPromise`, the refinement of
  `AtLeastOnce`. That a received envelope was sent by the peer is not
  inductive: the envelope passes through a draft, the buffer, two queues and
  possibly a resend. `OnlySent` says of each of these that it holds only what
  that end has sent and the channel's own envelopes; `IInv` is `TypeOK` and
  `OnlySent`. `Enbuffer` maps to `Send`, `HandleAnswer` and `HandleMessage` to
  `Receive` or, for a repetition, to a stutter, everything else to a stutter.
- `AcksAnswerNoRequest` (`NoFalseAnswer`) and `RequestsAreResolvedByPeer`
  (`ResolvedByPeer`), from `AnswerInv`: ids are handed out once, the id of a
  request differs from that of every envelope outside the buffer and from 0
  (`RequestsComeLater`, `OwnAnswers`), a response on its way answers a request the
  application has taken (`ResponsesAnswer`), and a request is among the response
  channels until then (`RequestsWait`).
- `ReconnectRepeatsOnce` (`RepeatedOncePerReconnect`) and
  `FirstConnectionRepeatsNothing` (`AtMostOnce`, as long as nothing was lost), from
  `CopyInv`: the copies of an envelope at the application, in both queues and in the
  draft, together with one for a flush or a resync that is still owed, are at most
  one more than the reconnects (`CopiesBounded`).
- `OneReconnectLosesNothing` (`NoLoss`): over one lost connection, with one
  sending thread at each end and any number of sends. Both hypotheses are
  needed: `channel_two_drops` shows a second drop losing an envelope,
  `channel_background_send.cfg` a second thread. An envelope leaves its buffer
  when an `ack_id` reaches it, so what matters is which envelopes the peer had
  taken when it took that one (`Settled`). On the first connection envelopes are
  taken in the order of their ids (`OrderInv`); afterwards they are not, because
  what is posted again comes behind later ones. `FlowInv` therefore gives each
  end a barrier: the flush request for the daemon, the answer to it for the
  client. Up to its barrier an end receives only settled acknowledgements
  (`AckInv`, `EarlyInv`), and its buffer still holds all that may be lost
  (`KeptInv`); at the barrier it posts the whole buffer again, and from then on
  all it has sent is taken or on its way (`CoveredInv`), on a connection that is
  not lost any more. `TopInv`, `LinkInv` and `FlushInv` place the ids, the
  stages of the reconnect and the one flush request. `CopyInv` and `AnswerInv`
  supply that there is one such request and that its answer is no other's.

`RemoteClientProofs`, for any limits:

- `Invariance`: `IInv`, the conjunction of `TypeOK`, `NoStaleWatch`,
  `CountsAgree` and three parts that make them inductive: `BootInv` (what may
  exist before the boot is done), `ReconInv` (a reconnect runs exactly where no
  state owns a connection) and `ClosingInv` (what is left after a shutdown).
  `TypeOK` needs the others: `missed` stays below its limit because it equals
  the heartbeat's own count. `TypeCorrect`, `WatchIsCurrent` and
  `CountsAlwaysAgree` follow from it.
- `ReconnectsOneAtATime`: an action property, from `ReconInv`.
- `DisconnectsOnce` and `ImplementsConnectionLife`: if `LateExits` is false,
  which is what they need (section 6). `EventInv` ties the number of events to
  the final states.
- `GivesUpOnlyAfterMax`: if the debug action never pretends that attempts have
  failed. `FailuresInv` counts failures along with attempts.

`TextBufferProofs`, for any replicas, edits, undos, messages and repetitions:

- `DeliveryTypeCorrect`: the types of the variables that deliver operations
  (`DeliveryTypeOK`); fragments and histories do not matter for what follows.
- `Steps` reduces `Next` to what it does to those variables: a replica issues an
  operation (`IssueOf`), a message is received, a call of `apply_ops` takes a
  step, or nothing changes.
- `IInv` is the inductive invariant. `Causality` says that nobody has observed
  more of an author than the author (`AuthorsLead`), that each entry of a
  version is an operation (`EntriesIssued`), that the operations of one author
  each have the earlier ones in their version (`OneAuthorInOrder`), and that
  who has observed an operation has observed its version (`AppliedInOrder`).
  `FlushInOrder` says of a flush that what was put aside is unready, that it
  is earlier than what is still to be looked at, and that each deferred replica
  has an operation put aside. `DeferredWait` says that between calls deferred
  operations are unready, `CallShape` which parts of `call` are in use.
- `NothingReadyStaysDeferred` (`NothingReadyIsDeferred`): why a single pass
  through the queue is enough. To make a postponed operation ready, an applied
  one would have to be what it lacks; but that has a smaller timestamp than the
  postponed one, and the flush goes by timestamps (`StaysUnready`). And a
  replica is blocked only by an operation of its own that is unready, so that
  its later ones are too (`BlockedUnready`).
- `NoOperationIsLost` (`NoOperationLost`): by the places an operation can be in.
- `DeliversInCausalOrder` (`DeliversCausally`): the refinement. Issuing maps to
  `Issue` because the new timestamp is beyond all versions. Applying maps to
  `Apply` because one more timestamp of an author adds exactly that operation
  to what the vector claims: its predecessors have been observed, by
  `OneAuthorInOrder` and `CanApply`. An operation observed before is a stutter.

`TextHistoryProofs`, for the same, and any requests:

- `HistoryInvariance`: `HistoryInv` is the inductive invariant. Its parts say
  that an edit is in one place at most, a transaction of one stack of one replica or
  a request that has been answered (`HistoriesApart`); that an undo operation names
  only edits that were in its author's history (`OwnersToggle`); that an undo
  map has only entries of undo operations (`UndoMapKnown`), whose counts have a
  bound (`CountsBounded`, without which the greatest count need not exist); and what
  each stack claims (`HistoriesCurrent`). `OwnersToggle` is what makes the last one
  inductive: an undo that arrives from elsewhere cannot change the count of an edit
  in a local history, and a local one exceeds every count there is
  (`CountToggles`), so that it flips the parity it should.
- `EditsHaveOneHistory` (`OneHistoryPerEdit`), `UndoHistoryStaysCurrent`
  (`UndoHistoryIsCurrent`): from it.

`TextOrderProofs`, for the same:

- `TextSteps` reduces `Next` to what it does to the texts: a local edit, a remote
  edit, an undo that is applied, or nothing.
- `OrderInv`: a replica holds the characters of the edits it has observed and no
  other (`CharactersOK`); between the place where an edit's insertion belongs in
  its own version and its characters there are only its own characters and those of
  later timestamps (`EditsPlaced`); and `OneOrder`. The last is inductive
  together with the others: when a remote edit arrives, take another replica
  that holds it and a character c of both. If c is at the landing or before it,
  or was known to the author, the two sides agree by `OneOrder`. Otherwise let c be
  an insertion the author did not know of, between the landing and the edit in
  one of the two replicas: there it has a later timestamp than the edit, since
  `RemotePlace` passes only such; in the other one it would have to be beyond
  what `RemotePlace` passes, that is, behind a character d of an earlier
  timestamp, whose own edit is placed in turn. Following such characters
  down (`Descend`) ends, as timestamps are natural numbers: an argument by the
  least counterexample that needs no induction.
- `ReplicasAgreeOnOrder` (`OneOrder`): from it. `LocalEditInserts` and
  `RemoteEditInserts` show that local and remote edits insert alike.

`TextConvergenceProofs`, for the same:

- `ConvergenceInv`, under the condition `NoFormatting` that guests do not ask
  to format as they type. `UndoMapExact`: an undo map has the entries of exactly
  the undo operations observed. `MarksKnown`: a character is deleted only by edits
  that were observed. `KnownInv`: what a history, a request that is about to
  become one, or an undo operation names has been observed by whom it concerns.
  `FlagsCurrent`: each fragment's flag. `DeletionsExact`: a character is
  marked as deleted by an edit exactly if `apply_remote_edit`, given the edit again
  now, would delete it; so that the marks depend on the order of characters, the
  versions and the undo maps only, not on when the edit arrived. The local
  edit, which goes by visible offsets, fits by `LocalGoneIsRemote`.
- `SameOperationsSameText` (`SameVersionSameText`): equal versions mean equal sets
  of operations, hence equal undo maps and the same characters (`SameCharacters`),
  in one order, hence equal marks (`SameDeletions`): if two replicas differed in
  marks, the edit with the least timestamp that makes the difference would find
  equal marks of all the edits it knew of, and delete the same. Hence equal flags.
- `FlagsStayCurrent` (`VisibleIsCurrent`): from `FlagsCurrent`.
- The condition is needed: `text_on_type_format` shows both equalities lost
  without it, since a guest can then undo an edit it has not observed, which
  is what `KnownInv` excludes.
- `WaitersStillWait` (`WaitersWait`), without the condition. `WaitInv` adds that
  waiters and requests name versions that have been reached and edits that were
  made. A replica's own new operation then has a timestamp nobody can wait for, and
  what is applied from elsewhere wakes.
- `TypeCorrect` (`TypeOK`): `TypeInv` adds to the invariants above that no transaction
  and no answer is empty, and that ranges end after they start.

`RpcPeerProofs`, for any requests, notices and size of the buffer:

- `TypeCorrect`: types, and the order of the positions in a sequence.
- `Invariance`: `IInv` adds to it `ChannelsInv` (only the guard empties the
  channels, and each end's hold requests of that end), `ResponseInv` (a
  request that waits either has no response and is still among the channels, or
  has one, and nothing has been taken from the buffer since), `GotInv` (what
  an application has got is among what the stream has gone through) and
  `AskedInv` (only what has been asked is answered, and only what has been
  answered arrives as a response). `NeverStranded` (`NoneStranded`) follows from
  `ResponseInv`.
- `TakesEffectInOrder` (`InOrder`): from `GotInv` and
  `ResponseInv`: a requester that is resumed moves its application on to
  the last message that was taken, never back.
- `ServesAsPromised` (`ServesRequests`): the refinement of `RequestService`.
  A failure maps to `Fail` since every way to it passes through the guard, a
  disconnection or the end of `handle_io`, each of which has taken the end out
  of `up`.

`CollabRoomsProofs`, for any users, rooms, connections and restarts:

- `TypeCorrect`: in both builds and whatever the two constants are. `TypeInv`
  adds to `TypeOK` what an open transaction looks like (`TaskInv`, `OpInv`).
- `RoomsAreKept`: unless calls are answered late or clients invite early,
  `PendingHasCaller`, `RoomsInhabited`, `ViewIsCurrent` and `SeatGivenUp`. Of the
  first two neither is inductive without the other: that leaving never fails
  needs that only the leaver's calls are left in an empty room
  (`PendingHasCaller`); that the caller is still there needs that a seat which is
  given up is gone (`SeatsInv`: whose connection may have a seat). `RingInv`
  says that whoever is being rung has not answered, which is where
  `LateAnswers` would break it: `call_failed` would delete a seat. `CleanupInv`
  says that after a restart stale seats are in rooms the cleanup still has to
  clear, `Idle` that in a test build no transaction is open. The properties are
  claimed for test builds, by their own wording.
- `SeatsAreNotMarked` (`SeatNotMarked`) and `SeatedClientsStay`
  (`StaysUntilItLeaves`): in both builds and whatever `LateAnswers` and
  `EarlyInvites` are, with no assumption of their own. `StaysUntilItLeaves` is an
  action property with two exceptions, and the work is to show that there is no
  third. A row goes only with a transaction that has marked it (found or deleted
  it), with `call_failed`, or by a statement that looks at it as it is.
  `SeatInv` is inductive and says what is needed of the handler whose
  transaction is open: `OpenInv`, that a client that leaves or declines is in no
  room any more or yet, and that a ring that has failed stays failed while
  `call_failed` waits for the mutex (which needs `TargetsInv`: whoever was rung
  was connected); and, for test builds where calls are answered in time
  (`Prompt`), that no transaction is open and that whoever is being rung has not
  answered (`RingInv`): there `call_failed` puts nobody out, and `CallFails` is
  no exception. `MarksStep` goes through the steps that mark rows, `SeatStays`
  through those that remove them; the step from one to the other is that a row
  marked by another transaction was marked before (`SeatNotMarked`).

Assumptions: only those on the constants, in the modules; TLC evaluates them
in every run.

Only model-checked: everything about liveness, which the prover cannot do.
`NoLoss` beyond one thread and one lost connection, and `SameVersionSameText` and
`VisibleIsCurrent` of guests that format as they type, have no proof because they
do not hold.

## 6. What the runs found

Three are runs that TLC must find violated, with the code and the sentence they
depart from in PROJECT.json: `channel_two_drops`, `text_on_type_format` and
`rooms_early_invite`. The others have a configuration each.

- `channel_two_drops`. Envelopes posted again keep the ids and `ack_id`s they
  had. A response posted again is taken in after a newer one and sets
  `max_received` back or forward past an envelope that was still in the peer's
  buffer and lost with the next drop. One lost connection cannot do that; two
  can.
- `channel_background_send`. A thread that has taken its id may be overtaken by
  another; the ids in the buffer and on the wire are then out of order, and
  acknowledging the later one drops the earlier, which a lost connection then
  takes with it.
- `client_late_exit`. The monitor reports the exit of the proxy once, and logs
  that it reconnects. If the state is not yet `Connected`, because the outcome of
  a reconnect or of the boot is stored a turn later, `reconnect()` refuses; the
  `Connected` that is then stored has a dead proxy, no monitor, and a heartbeat
  that stops because its activity channel is gone (`ExitNoticed`). At boot the
  monitor may even have stored `ServerNotRunning` and emitted `Disconnected` by
  then. All other properties of `RemoteClient` that need it are checked and proved with
  `LateExits` false, that is, without these exits.
- `client_silence`. After an answered ping the heartbeat's timer is not armed
  again. On an idle connection that later falls silent no ping is sent, until
  something arrives or the proxy exits.
- `client_forced_timeout`. The debug action, used while not `Connected`, leaves
  the client without a state.
- `text_on_type_format`. A guest that formats as it types gets the host's
  transaction without waiting for its edits, and can undo it before they
  arrive. The undo then finds no fragment to hide at the guest; the edit, when
  it comes, is inserted visible, although the undo map says it is undone. The
  host has the fragment when the undo arrives, and hides it: the two texts
  differ for good. A rename waits for its edits, and `text_requests` passes.
- `rooms_early_invite`. A client that lost its connection for longer than the
  grace period has no seat any more, but stays `Rejoining` until a rejoin fails
  or a timer ends it. If another participant calls its user in the meantime, the user
  has a row in the room again, and `call` asks for no more than that: an invitation
  by the `Rejoining` client is accepted, in the name of somebody who is not in
  the room. The last participant to leave cancels only calls of its own, the
  room counts as empty, deleting it violates the foreign key of the row that is
  left, and the whole transaction fails. Nothing tries again: the seat and the
  calls stay until the server is replaced.
- `rooms_serialized`. In a production build a transaction that need not
  concern a room reads the room before it has the mutex. Ben declines a call:
  his transaction has deleted his row and read the room, in which Anna has her old
  connection. She rejoins on a new one, under the mutex, and everybody is
  told. Then the decline takes the mutex, commits, and sends everybody the room
  it has read, with Anna's old connection; nobody is told better until the next
  change. The comments at db.rs 118 and 193-195 promise of both kinds of
  transaction that "updates sent to clients are properly serialized with respect
  to database changes" (`UpdatesSerialized`).

What the rooms' properties do not claim, found while modelling:

- In a production build a transaction may put out a client that was not in the
  room when it found the row (`Overtaken`, the first exception of
  `StaysUntilItLeaves`). A lost connection's timer finds the row answered by that
  connection, the client rejoins on a new one, the timer's transaction deletes
  the row. Or a user's second client declines: its transaction finds the
  unanswered row, the first client answers, the transaction deletes the row.
  Without the exception TLC shows either in `rooms_overlap`.
- `LateAnswers`. `call_failed` deletes the callee's row whatever has become of
  it. If the callee's answer reaches the server before its acknowledgement of the
  ring does, and every connection that was rung is lost, or refuses, and its client
  comes back on a new one, then the failure of the call puts it out of the room
  (`CallFails`, the second exception of `StaysUntilItLeaves`; `RoomsInhabited`
  fails with `LateAnswers`). For a production build the exception is not tied
  to `LateAnswers`: the argument that excludes it needs transactions that do not
  overlap.
- In a production build, two leaves that overlap each see the other still in the
  room, so that nobody deletes it and the row in `rooms` remains.
- In a production build, `optional_room_transaction` has locked rows before it
  waits for the room's mutex, and `room_transaction` holds the mutex while it waits
  for rows. A callee that declines while its caller cancels can wait for ever,
  and everybody in the room with it.
- `rejoin_room` does not ask whether the seat's connection was lost: a client
  that reconnects takes the seat that another client of its user has taken since.
- `send_initial_client_update` may fail after the connection has entered the
  pool; `handle_connection` then returns without taking it out (rpc.rs 824-835),
  and its user stays online until the server stops. In `RpcPeer` that is `GiveUp`.

Two smaller disagreements with comments have no run: the one at `text.rs` 1124
(section 3), and 1531, which implies that `push_transaction` clears the redo
stack; it does not (316-324).

## 7. Not modelled

Everything the inventory lists without a module in section 3; PROJECT.json
names each component with its status and reason. Within the modelled part:
payloads and handlers, the wrap of 32-bit ids, the daemon's idle exit (only its
effect on the client), several socket connections waiting at the daemon, the
pool and the kinds of transport (a kill, a connect and a proxy start succeed or
fail), `simulate_disconnect` and other test support; of the text buffer, nested and
merged transactions, `forget_transaction` other than in `AnswerRequest`,
`undo_to_transaction` and `redo_to_transaction`, branches, `give_up_waiting`,
anchors and locators, line endings, edits of several ranges, and the operations
on selections and diagnostics that `language::Buffer` adds; of the peer, streams of
responses, the websocket and the encoding; of the rooms, what section 3 lists, the
limit of 256 handlers at a time, a handler dropped after its commit and before it has
sent the room to anybody (`Served` and the send are one step), and the gap between
`has_contact` and `call`. The share of the repository that the map covers is
small, for most of it is the user interface, language support and generated
or sequential code; the modules follow what several actors share.
