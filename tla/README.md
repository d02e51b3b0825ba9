# A verification development for MeshPi

MeshPi is a daemon that owns a Meshtastic radio, and the clients that talk to it:
a command line, a terminal interface and a local web application. These modules
model in TLA+ what the program keeps and how its threads and processes change it,
TLC checks them on small instances, and TLAPS proves the most important
invariants of four of them for every size.

All paths below are relative to the repository. `PROJECT.json` maps every
definition to the lines it is translated from, and lists the runs, the mutants
(deliberately broken definitions, each of which makes one property fail), the
findings and the hazards.

## 1. The system

```
 TUI / CLI / web.py ──(one JSON line per connection)── ipc.py  IPCServer, handler threads
        │                                                │            │
        │ events  <── events.py EventHub <───────────────┤            ▼
        ▼                                                │     service.py MeshtasticService
   app.js, tui.py                                        │       worker thread _run
                                                         ▼       node-removal worker, timers
   web_auth.py AuthStore (auth.json)      gateway_database.py    SDK reader thread  (onAckNak)
   update.py, lifecycle.py (service mgr)    database.py (SQLite) SDK publishing thread (_on_*)
                                                                         │
                                          connections.py (connections.json)   radio
```

| component | state it keeps | operations | what is hard | what makes it correct |
|---|---|---|---|---|
| **Outgoing messages** `service.py` `_send`, `_send_impl`, `_update_routing_ack`; `database.py` `insert_message`, `complete_outgoing_message`, `update_message_status`, `_prune_messages`, `delete_messages` | the `messages` table; `stored`, `early_status`, `pending_id` shared with `onAckNak`; `_deferred_receives` | send, complete, acknowledge, prune, clear | three threads report on one row; two statements per update; a crash between record and completion; a transport that calls back inside `sendText` | at most one transmission, a durable record before it, statuses that only climb and only on what was heard, no second row for the radio's echo |
| **Radio connection and profiles** `service.py` `_run`, `connect`, `stop`, `_on_connection`, `_on_lost`, `_discover_local_node`, `_sync_*`; `connections.py` | `_profile`, `_interface`, `_local_node_id`, `_channel_bindings`, events `_stop`, `_lost`, `_switch_requested`, `_status`; `connections.json` | connect, switch, lose, retry, stop | identity is read and written in several critical sections while profiles are switched; interfaces are closed outside the lock | the interface belongs to the selected profile, is closed exactly once, a switch is never lost, data is filed under the radio it came from |
| **Receiving** `service.py` `_on_receive`, `_store_observations`; `packet.py`, `channels.py`, `observations.py` | channel bindings, provisional conversations | text, routing, telemetry, position, nodeinfo | a packet before its channel is known; interface replaced meanwhile | one row per packet, under its gateway and channel |
| **Node actions** `service.py` `_start_traceroute`, `_start_position_exchange`, `_finish_node_action`, `_trim_node_actions`; `database.py` `upsert_node_action` | `_node_actions`, timers, the `node_actions` table | start, answer, time out, connection lost, stop, restart | four ways to finish race; durable snapshots are written outside the lock | finished exactly once, memory and table agree, cooldown respected, bounded table |
| **Node removal** `service.py` `remove_nodes`, `_remove_nodes_worker`, `_refresh_node_registry` | a batch and its contacts, `_node_removal_send_active`, `_node_refresh_interface`, the SDK's registry with a replaced completion handler | remove, refresh, abort | SDK calls that return late, disconnects during a refresh, several batches | reported as removed only with proof of absence; a partial registry is not read; the handler is put back |
| **Message store** `database.py`, `ipc.py` | conversations, archives, observations | insert, bind, merge, close, reopen, clear | rebinding of provisional channels and legacy messages in several transactions, unique indexes | no reception is lost by a merge, a closed conversation stays closed |
| **Schema and migrations** `database.py` `initialize`, `_migrate_*` | `PRAGMA user_version`, the rows, legacy records | migrate, roll back, reopen | a gateway must be proved for each row; interruption anywhere | every row once, old file until the new is done, no guess |
| **Gateway databases** `gateway_database.py` | one file per gateway, a policy, preview tokens | split the legacy file, preview, confirm, hourly maintenance | crash during the split; a preview that is out of date; a policy changed meanwhile | rows move once; a clean-up deletes only what was previewed and is still removable |
| **IPC** `ipc.py`, `daemon.py`, `ipc_identity.py` | the socket, slots, tokens, `_stopping`, `_serving` | commands, watch, shutdown | processes that start together, shutdown before the server loop | one owner that can be reached, slots returned, every shutdown ends the loop |
| **Event stream** `events.py` | one bounded queue per subscriber | publish, subscribe, drop oldest | two-step drop under concurrent publishers | events of a thread in order; a page that reloads never rests with an old picture |
| **Web application** `web.py` | `_pending_operations`, `_results` (3600 s and 1024 of them), `_write_lock` | perform, replay, ask for the state | a browser repeating a write on another thread | a write is carried out at most once, and everyone gets its answer |
| **Web authentication** `web_auth.py` | `auth.json`, per-process sessions and challenges, a code, a generation | issue, log in, register, revoke | several processes over one file | revocation ends every session; a code works once |
| **Lifecycle** `client.py`, `lifecycle.py`, `platform_service.py` | daemon processes | start, wait, terminate, stop | a timeout racing a start, a probe that fails though a daemon lives | one daemon; a stop that was asked for ends it |
| **Updates** `update.py`, `installers/install-linux.sh` | release directories, `current`, configuration, launcher, unit | check, confirm, install, undo | a failure between any two steps, a release published meanwhile | there is always a whole version that runs |
| **Terminal interface** `tui.py` | conversation, timeline, lists, history, workers | select, submit, close, trace, live events | answers and events that come late | nothing late changes what the user has gone on to |
| **Command line, connection wizard, `app.js`, installers** | what is shown | commands | stale answers | presentation; only their requests matter here |

The components meet in four ways. IPC handler threads call the service and the
database directly. The service publishes events to the hub after it has changed
the database. The SDK calls back on two threads of its own: the *reader* (which
runs `onAckNak` and puts packets on a queue) and the *publisher* (which runs
`_on_connection`, `_on_lost` and `_on_receive`); a transport may also call back
inside `sendText`, on the sender's own stack (`service.py`, `_send`). And the
daemon and the web process share `auth.json` and the IPC endpoint.

## 2. Modules

| module | what it is |
|---|---|
| `OutgoingMessage` | the abstract promise about a message, an automaton per message, with no threads |
| `MessageDelivery` | how the daemon keeps it: sender, reader and publisher threads, the statements, retention, clearing, crashes |
| `Conversations`, `MessageStore` | the conversations and what closing and binding promise; received messages: transports, provisional and legacy rows, binding, closing |
| `Connection` | who owns the radio and for whom: worker, publisher, `connect()` clients, `stop()` |
| `NodeActions` | traceroutes and position exchanges: handler threads, reader, timers, losses, cooldowns, eviction, restarts |
| `Removals`, `NodeRemoval` | what a removal keeps and keeps in order; batches of contacts removed from the radio, with the SDK's threads and the registry |
| `LegacyRows`, `SchemaMigration` | the rows of an older file and what is promised of them; opening a file of an older release |
| `GatewayFiles` | splitting the legacy database into one file per gateway |
| `Cleanups`, `GatewayHistory` | what may leave a history; policies, previews, confirmed clean-up, hourly maintenance |
| `EventQueues`, `EventStream` | what the event stream keeps and promises; publishers, bounded queues, watch requests |
| `Requests`, `WebOperations` | what holds of repeated and confirmed requests; operation ids: pending, executed, remembered, forgotten |
| `AuthStore` | codes, sessions, passkeys and generations over several processes |
| `Daemons`, `DaemonLifecycle` | what is promised of the daemon's processes; processes, the Unix socket as a lock, the serving loop, clients |
| `Installations`, `Updating` | what an installation consists of and keeps whole; `meshpi update` and the installer, with its way back |
| `Screens`, `Terminal` | what the terminal shows and remembers; the drawing thread, its workers and the event stream |
| `ReadMarks` | the mark of a message that was read, and the numbers of unread messages in the terminals |
| `MCMessageDelivery`, `MCConnection`, `MCActions`, `MCTerminal` | instances of one module for TLC |
| `MCClients`, `MCRequests`, `MCStorage`, `MCOperation` | three components side by side, for TLC and for the theorems about all three (section 3) |
| `MessageDeliveryProofs`, `ConnectionProofs`, `NodeActionsProofs`, `NodeRemovalProofs`, `RequestsProofs`, `ClientsProofs`, `StorageProofs`, `OperationProofs` | theorems and proofs (section 4) |

Variables that only observe (they appear in no guard) are marked in each module.

### MessageDelivery

`msgs` is the table, with one row for the request and one for the radio's echo of
it; a row is reduced to its status, whether it has a packet id, and whether it
asked for an ACK (`Row`). `holder` is the owner of `service._lock` in `_send`;
`phase[r]` is where `_send_impl` is; `call[r]` holds the variables it shares with
`onAckNak`: whether `pending_id` is known, `stored`, `early_status`, and whether
the SDK still has the callback. `pubq` and `deferred` are the packets on their
way to `_on_receive`. `job[t]` is a call of `update_message_status` in thread
`t`, in its steps: the `SELECT`, the `UPDATE`, the event. `sent`, `heard`,
`handled` and `announced` only observe.

| action | code |
|---|---|
| `Refuse`, `Record`, `Transmit`, `SendTextReturns`, `Complete`, `Uncertain`, `Settle`, `Announce`, `Replay`, `Release` | `_send`, `_send_impl`, in the order of its statements |
| `ReaderRouting`, `ReaderEcho` | the SDK's reader thread: `onAckNak`, then the publishing queue |
| `InsideSendText` | a transport that calls back inside `sendText`: too early for `onAckNak`, deferred by `_on_receive` |
| `Publish`, `Drop` | `_on_receive`: it waits for the lock; a replaced interface's packets are dropped |
| `Select`, `Write`, `PublishStatus`, `UpdateFails` | `update_message_status` and the event, or `sqlite3.Error` |
| `Traffic`, `DeleteMessages`, `Crash` | retention on other rows' insertion, `delete_messages`, the death of the daemon |

The table's two statements are separate steps because other threads may run
between them. A message that is not one of the modelled requests is background
traffic that makes the retention limit drop rows; what it does to the locks is
not modelled here (the hazard at `service.py:1778`).

### Connection

The variables have the code's meaning: `profile` is `_profile`, `localNode` is
`_local_node_id`, `bindings` the local node that `_channel_bindings` was made
for, `lost`, `switch` and `stopped` the three events. `at[t]` is a thread's
program counter and its local variables. An interface object is a profile and a
number; a number is used again once no variable refers to the object. `open` and
`filed` observe: the connections to radios that are open, and for everything
stored, the radio it came from with the local node it was filed under.

| action | code |
|---|---|
| `Top`, `ReadProfile`, `Selected`, `Create`, `CreateFails`, `Publish`, `HealthCheck`, `ReaderStopped`, `HealthEnds`, `Take`, `After`, `BackoffEnds` | `_run`, one action per critical section or event |
| `Discover`, `Remember` | `_discover_local_node`: the assignment, which takes no lock, and the rest, which does |
| `ReadIdentity`, `Bind`, `SyncNodes`, `SetConnected` | `_sync_channels`, `_sync_nodes`, `_set_status`, on the worker or in `_on_connection` |
| `OnConnection`, `OnLost`, `SetLost`, `OnReceive`, `File` | the publishing thread |
| `Connect`, `SaveAndActivate`, `Swap`, `SetConnecting`, `Close` | `connect()` on a handler thread |
| `Stop`, `TakeLast`, `Join` | `stop()` |

Left out: a serial profile whose device path has moved and is saved again, BLE
discovery (which only holds a lock), and the reconnect that the removal worker
forces.

### NodeActions

`action` is the dict that all threads of one node action share, reduced to its
status and whether it has a packet id; `table` and `timers` are the keys of
`_node_actions` and `_node_action_timers`; `rows` is the durable table. A
`threading.Timer` is `"set"` when it is registered and `"running"` once it has
been started, which the code does outside the lock. A thread that finishes an
action carries it with the outcome and the snapshot it will store.

| action | code |
|---|---|
| `Start` | the first critical section of `_start_traceroute` and `_start_position_exchange`, with `_trim_node_actions` |
| `ReadDict`, `WriteDict` | `upsert_node_action` of the shared dict, which is read before SQLite's lock is taken |
| `Send`, `SendRaises`, `Settle`, `Arm` | `sendData`, its exception, the second critical section, `timer.start()` |
| `Finish`, `Store`, `Publish`, `StoreRaises` | `_finish_node_action` on any thread; `sqlite3.Error` in its upsert or in the first one |
| `Respond`, `Timeout`, `CooldownEnds` | `on_response` on the reader thread, `on_timeout`, and the clock |
| `Lost`, `List`, `FailNext` | `_fail_pending_node_actions` called by `_on_lost`, by the worker and by `connect()` |
| `Switch`, `Take`, `Connect` | the interface taken by `connect()`, taken by the worker, published by it |
| `Restart` | the daemon dies anywhere; `fail_started_node_actions` in the next one |

The two kinds differ in one thing that matters here: a position exchange sets its
cooldown with the entry and clears it when the send raises, a traceroute sets its
own after the send. Time passes by the actions it allows, so a timer may fire at
once or late. The state "tilkopla" is reduced to there being an interface. Batches of
`NodeRemoval` are kept in the same table; what they do to its limit is left out.

### MessageStore

A conversation is a party (a node, or everybody) and a route: the channel's own
key, a provisional key, or none, as in rows of older releases. `rows` are messages
with the transports that delivered them (`message_observations`), `sync` is the
step of `_sync_channels_locked`, `received` the packet that `_on_receive` has in
hand with the key it has chosen.

| action | code |
|---|---|
| `Hear`, `Bind`, `Insert` | `_on_receive`: the key is chosen under one lock, the row inserted later; the insertion reopens the conversation |
| `SyncBind`, `SyncTable`, `Rebind` | `_sync_channels_locked`: the service's bindings, the table's, then one transaction for each old key: `rebind_provisional_channel`, `rebind_legacy_primary_dms` |
| `Reconnect` | the bindings are forgotten with the connection |
| `Close`, `Reopen`, `Clear` | the conversation commands of `ipc.py`, `delete_messages` |

### SchemaMigration

A row is what it says of its gateway. `db` is what is committed, `tx` the copy inside
the transaction, `pc` the step of `initialize`: each `_migrate_*` function is a step,
and `Interrupt` may come between any two of them; `Rollback`, `Refuse` and `Reopen`
follow. Left out: indexes, column lists and the normalisation of node ids.

### GatewayFiles

A file is a set of rows, or does not exist; it appears by `os.replace`, whole. `at` is
the step of `GatewayDatabase.initialize`. `Check`, `TakeSnapshot`, `CompareDigests`,
`Upgrade` and `Ready` are its steps, `CreateGateway` and `OpenGateway` the making of a gateway's
file and its opening, `Store` a row that comes in, `SetPolicy` the user's confirmation of a
retention, `Maintain` the pruning it allows (the limit on the number of messages and the user's
clearing delete from a gateway's file too; they are in `GatewayHistory` and left out here), `Crash` the death of the daemon at any step. `OldProgram` and
`LaterProgram` are other releases that use the legacy file while this one is down.

### GatewayHistory

`serving[c]` is a history request on an IPC handler thread, `keeper` the maintenance
thread; both read a plan in one transaction and delete by it in another. `AskPreview`,
`Preview`, `AskCleanup`, `TakeToken`, `Cleanup`, `CleanupFails` are the steps of
`_history_request`; `Expire` is the five minutes of a token. `KeeperReads`, `KeeperPreviews`
and `KeeperCleans` are one batch of maintenance. `AskDelete` and `DeleteMessages` are the user's
clearing of messages, of any scope. `Insert` is a row that comes in; a message may push older ones
out (`TooMany`), because `insert_message` prunes by number after every hundredth one, and
`MaxHistory` is its limit, 50 000 in the code. `Settle`, `Age` and `SelectGateway` are what else
goes on meanwhile. The tables are messages and node actions; telemetry and positions are cleaned up
as messages that are never open, and left out. A node action's rowid may be used again by a later row,
which is why a plan keeps fingerprints; a message's may not.

### EventStream

`pub[p]` is where a thread is in `EventHub.publish`: `Put`, then for a full queue
`DropOldest` and `PutAgain`, each an atomic operation on the queue, the three together not.
It goes through the subscribers in any order, as it does in the code over a set; `full` is the one
it makes room for.
`Open`, `Answer`, `Subscribe`, `Take`, `HangUp` are the watch request of `ipc.py`, with its slot.
`Reloading` are the watch requests of clients that read the daemon's state afresh on any event
(`Reload`): the web server passes every one on as "refresh" (`web.py`, `_watch`), and the page then
loads its lists and conversation. The terminal and `meshpi watch` use only what the event itself
says; of their requests the order, the slots and the bounds are checked, and section 5 says what
they lose.

### WebOperations

`Register` is the critical section at the head of `dispatch` (replay, join or own),
`Lock` and `Execute` the request under `_write_lock`, `Record` the `finally` clause that
remembers the result, evicts old ones and wakes those who wait, `Wake` their answer.
`Expire` and `Restart` forget. A request may have another payload under a known id.

### AuthStore

`file` is `auth.json`, which a file lock makes one step of each operation: `Issue`,
`LoginWrong`, `LoginRight`, `CodeExpires`, `RegistrationComplete`, `AuthenticationComplete`,
`DeleteCredential`. `session` and `challenge` are in the memory of one process; a failing
write, an expiry, a logout and `Restart` are actions. Opening the store for another address
(`Issue` with another origin) moves the passkeys aside and back.

### DaemonLifecycle

`path` is the socket file, named by the process that made it, and each system call on
it is a step: `Probe`, `Compare`, `Unlink`, `Bind`, `Listen`, `Identify` in the server's
constructor, `CompareOwn`, `UnlinkOwn` in its close. From `Identify` on the process owns the
database and the radio: `Initialize`, `StartService`, `CheckStopping`, `EnterServing`,
`EndServing`, `StopService`, `Close`. `RequestStop` is any thread that sets the stopping event,
`Shutdown` its call of `server.shutdown()`. `ClientStarts`, `ClientStarted`, `ClientTerminates`,
`ClientStops`, `ClientStopped` are `lifecycle.py`. Its probe takes any error of `connect()`, a
timeout included, for "no daemon", so a client may start another process, or report a stop, at any
time (`ClientStarts`, `ClientStopped`): nothing is claimed of what it reports.

### Updating

`up` is the update under way: `Check`, `Confirm`, `Prepare`, `Download` in Python, then the
installer's steps: `Verify`, `Configure`, `Build`, `SelfTest`, `Stop`, `Switch`, `WriteFiles`, `Start`,
`Healthy`. `Fail` may follow any of them, and `finish_install` undoes: `UndoStop`, `UndoFiles`, `UndoLink`,
`UndoStart`, `Exit`. `PowerLoss` leaves the disk as it is. `Publish` is the site, whose manifest
may change between the check and the download.

### NodeRemoval

`w[b]` is the worker of a batch, `sdk[b]` and `cfg[b]` the threads in which it runs
`removeNode` and `_startConfig`; both may hang for ever and return late. `reg[i]` is the registry of
link `i`, which a download empties and refills, and `handler[i]` the wrappers around its
completion handler. `wire` is what the radio has still to do, in order.

| action | code |
|---|---|
| `Start` | `remove_nodes` |
| `Pick` | the next contact is marked as sent and stored, under the lock |
| `Call`, `SdkSends`, `SdkReturns`, `SendWaited` | after the lock: the flag is set and the call's thread started; the call; the wait with its deadline |
| `BeginRefresh`, `StartConfig`, `Answered`, `Barrier`, `Broken`, `Restore` | `_refresh_node_registry` |
| `Confirm`, `Except`, `Finish` | the proof of absence, the `except` clause and the end of the worker |
| `FailPending`, `StoreFailed` | `_fail_pending_node_actions`, under the lock and after it |
| `Lose`, `Take`, `Reconnect` | the connection |
| `RadioTakes`, `NodeInfo`, `ConfigComplete`, `Hear`, `SyncNodes` | the radio, the SDK's reader thread and `_sync_nodes` |

### Terminal

`view` is `_visible_timeline`, `entries` the node actions shown, `loads`, `refreshes`, `sends`
and `replies` the workers with their answers. `Select`, `OpenDirect`, `Close`, `Submit`, `Trace` are the
user, `Arrive`, `Finish`, `Clear` the daemon, `Gap` a break in the stream. `Answer`, `LoadFails`,
`AskLists`, `Send`, `Reply` are what workers do; `Show`, `Lists`, `Closed`, `HandleAction` and `LiveEvent` what
the drawing thread does with it. A newer worker does not stop an older one of its group.

### ReadMarks

`filed` is the table of received messages, `read` those with `is_read = 1`; `published` and
`taken` say how far their events have come. `current` is `current_conversation`, `unread`
the numbers in the list, `workers` the terminal's threads with their answers.

| action | code |
|---|---|
| `Receive`, `Announce` | `_on_receive` stores, then publishes |
| `MarkRead`, `Conversations`, `Fails` | the commands `messages` and `conversations`, and an error |
| `Select`, `Live` | `select_conversation` and `live_event`, which start workers |
| `Show`, `Apply` | `_show_conversation`, `_apply_conversations`, on the drawing thread |

`Starts` is what `exclusive=True` does to threads: an older worker of the group may never
begin, but one that has begun goes on.

## 3. What the runs show

All runs have `CHECK_DEADLOCK FALSE`: when every request is answered and the mesh
is silent, or the daemon has stopped, nothing more happens, and that is the
system's normal end.

| run | instance | shows |
|---|---|---|
| `delivery_one` | one DM, all three reports, two queued packets, one crash | `ReportsReachTheRow`, `NoEchoBesideRequest`, `SendReturns` |
| `delivery_two` | two DMs, one report, one crash | `OnlyWhatWasHeard`, `AnswersAreTrue`, and the refinement of `OutgoingMessage` |
| `delivery_mixed` | a DM and a public message, contradicting reports | the refinement, where a delivery may be contradicted and one scope cleared |
| `connection_switch` | two profiles of one radio, two clients, two switches, two interface objects, all callbacks | `InterfaceOfProfile`, `OwnedOnce` |
| `connection_live` | two profiles, one client that switches twice, loss, `stop()` | `SelectedIsConnected`, `StopReleasesRadio` |
| `actions` | one traceroute with all losses, two interfaces and a restart; two position exchanges with room for one, whose rows SQLite may fail to write | `LogAgrees`, `TimersArePending`, `FinalIsLast`, `EveryActionEnds`; `PositionCooldown` |
| `clients` | two publishers and two watchers with one slot, one of which reloads; the terminal with two conversations; three web processes with two addresses, four session names, two passkeys | `NoSilentLoss`, `InOrder`; `SettledViewIsCurrent`, `LateIsHarmless`; `LoginsAreSafe`; `ClientsCatchUp`, `TypesOK` |
| `requests` | two gateways, each with its kind of rows, and a client that cleans up and clears; two operation ids on two threads, a restart; a terminal, two conversations and two messages | `OnlyWhatWasShown`, `PolicyInForce`; `OneAnswer`; `ExecutedOnce`, `RequestsEnd`, `TypesOK` |
| `storage` | two gateways, three rows, two crashes; a file of every earlier version with each kind of row; three packets of two parties and two transports | `SplitIsSafe`, `MigrationIsSafe`, `ConversationsAreKept`, `StorageSettles`, `TypesOK` |
| `operation` | two batches of two contacts on two links; three daemon processes and a client; three versions on two channels | `RemovalIsOrderly`, `OneDaemon`, `InstallationIsWhole`, `ReportsAreTrue`, `OperationsEnd`, `TypesOK` |
| `connection_filed` | two profiles, two radios, one switch | violated: `FiledSeparately` (section 5) |
| `terminal_shown` | one message, two conversations | violated: `NewMessagesAreShown` (section 5) |

**One run for several components.** `MCClients`, `MCRequests`, `MCStorage`
and `MCOperation` each put three modules side by side that share no variable. A variable `part`
says which of them a behaviour is about; the others keep their initial values. The
states of such a run are the union of the components' states, not their product,
and a property of a component is checked in the behaviours of its part as a run of
its own would check it. `MCActions` does the same with the two kinds of node actions: a
behaviour starts traceroutes only or exchanges only, because they meet in nothing but the
table's limit. The constants of every component get their values in the `.cfg`, so what the
theorems of section 4 say of `SpecPart` holds for any others. Properties of several parts are
checked under one name:

| name | is the conjunction of |
|---|---|
| `LoginsAreSafe` | `CodeWorksOnce`, `RevokedEverywhere`, `PasskeysSurvive` of `AuthStore` |
| `LateIsHarmless` | `SentWhereTyped`, `TypedIsRemembered`, `EndedStaysEnded` of `Screens` |
| `ClientsCatchUp` | `ChangesAreNoticed` of `EventStream`, `SelectionIsLoaded` of `Terminal` |
| `ExecutedOnce` | `ConfirmedOnce` of `Cleanups`, `AskedOnce` and `UnknownIsUnasked` of `WebOperations` |
| `RequestsEnd` | `OldHistoryGoes` of `GatewayHistory`, `EveryoneIsAnswered` of `WebOperations`, `VisibleBecomesRead` of `ReadMarks` |
| `SplitIsSafe` | `FilesAreSafe`, that is `NothingLost`, `DeletedStaysDeleted`, `OwnRowsOnly`, `ConfirmedFirst`, `DivergenceIsRefused`, and `EachIsServed` of `GatewayFiles` |
| `MigrationIsSafe` | `EveryRowOnce`, `OldUntilDone`, `OnlyProved` of `LegacyRows` |
| `ConversationsAreKept` | `ObservationsSurvive`, `ClosedStaysClosed` of `Conversations` |
| `StorageSettles` | `SplitEnds` of `GatewayFiles`, `OpensInTheEnd` of `SchemaMigration`, `ProvisionalEnds` of `MessageStore` |
| `RemovalIsOrderly` | `OneCallPerLink`, `PartialIsNotTrusted`, `LeavesNoTrace` of `Removals` |
| `OneDaemon` | `SingleOwner`, `OwnerIsReachable` of `Daemons` |
| `InstallationIsWhole` | `CurrentIsComplete`, `ServiceIsCurrent`, `FailureIsUndone` of `Installations` |
| `ReportsAreTrue` | `RemovedWasAbsent` of `NodeRemoval`, `OnlyWhatWasConfirmed` of `Updating` |
| `OperationsEnd` | `BatchesEnd` of `NodeRemoval`, `StopIsObeyed` of `DaemonLifecycle`, `ServiceComesBack` of `Updating` |
| `TypesOK` | each part's `TypeOK`, with `SlotsReturned` of `EventQueues`, `PreviewsBounded` of `GatewayHistory`, `ResultsBounded` of `WebOperations` |

A conjunct fails with a mutant of its own as well: the modules keep those beside the
definitions they change ("Mutant: ..."); `PROJECT.json` lists one for each name.

**Bounds of message delivery and the connection.** `Reports` limits which reports
the mesh makes, `MaxQueue` the packets waiting for a thread, `MaxCrashes` the
crashes. One request meets every interleaving of its own sender, reader and
publisher; two are needed for a report to reach the wrong row and for one sender to
wait for another's lock; two queued packets are needed for two reports of one
message to be out of order with the reader's. A second crash adds nothing: a crash
leaves only `msgs`, and no request that was under way is ever resumed. In
`Connection`, `MaxConnects` limits calls of `connect()`, `Callbacks` says which
callbacks happen and `MayStop` whether `stop()` is called. Two concurrent switches
reach every overlap of a switch with another and with an attempt to connect. `MaxInterfaces`
is two: one in the worker's hands while another is being closed. Three can be in use
(one created, two closed by two clients); there the worker of the run fails until one is
free, and the theorems, which hold for any number, cover it. The properties of `connection_switch` compare neither radios
nor names, so the profiles and clients are symmetric, and one radio for both profiles
is enough; the two-radio instance is that of the finding. `VIEW Unfiled` leaves out
`filed`, which no guard reads and neither property mentions. The liveness run uses
neither symmetry nor a view.

**Bounds of node actions.** `Action` is all that clients ever start, and
`MaxActions = 1` makes the second evict the first as soon as it has ended, which
the real limit of 100 does after a hundred. `Losses` says which of the three threads
that fail pending actions do so: one of them is enough to race with an answer and a
timer where two exchanges race, and the traceroute has all three. `MaxLinks = 2` lets
an answer belong to an interface that has been replaced, twice. `LogAgrees` and
`EveryActionEnds` are claimed only where SQLite does not raise: if the upsert after
`sendData` raises, the timer has been registered and is never started
(`service.py:1427`), and what is not stored is not logged. `PositionCooldown` is
claimed only where `sendData` takes less than the thirty seconds of a cooldown;
section 5 says what happens otherwise.

**Bounds of the rest.**

- *Events.* Queues of two and four events: enough that a queue is full, that two
  publishers drop and put between each other's steps, and that both want the last
  place. One slot and two watchers, so that one must wait for the other's; one of them
  reloads, the other does not.
- *Terminal.* Two selections, one request, one mishap (a gap, a clean-up or an
  error): a third selection meets what the second does, because a worker only
  compares its conversation with the selected one.
- *Logins.* Two web processes over one file and a third at another address; three
  revocations, so that an address may be left and returned to; two attempts for a
  code; one passkey at a time and two names of passkeys; two sessions for each process.
- *History.* `MaxSteps = 4` limits arrivals, previews, policies and changes of gateway
  together; two rows are needed for a rowid to be used again. The node actions are one
  gateway's and the messages, all sent ones, the other's, which is selected at first.
  `MaxHistory = 1`, so that a second message pushes the first out. `MaxPreviews = 2` and
  `MaxSnapshot = 1` make the cache of previews trim by number and by size;
  `MaxBatch = 1` makes maintenance need several batches.
- *Operations.* Four calls of two ids with two payloads, and a cache of one result:
  a result is evicted while another thread waits for it.
- *Reading.* Two messages, so that a worker which asks for one meets a conversation with two
  unread ones; one selection and one failure; three workers at once, so that a refresh and
  a mark of one message meet a worker of the other or of a selection.
- *Split.* Three rows are one for each gateway and one that names none; two crashes
  interrupt the split and what a later start makes of it. `LateLegacy = FALSE`: no older program
  makes a legacy file where there was none at the split. With `TRUE` TLC finds `FilesAreSafe`
  to hold as well, `EachIsServed` and `RollbackIsRefused` not (section 5).
- *Migration.* One row of each kind, except that a message is sent and another is
  received twice, and every value of what they say of their gateway. One interruption:
  the file afterwards is the one found, so a second begins where the first did.
- *Messages.* Three packets: two direct messages of one peer on two channels, so that
  their conversations merge, and a public one; three receptions, so that one packet is
  received before, while and after its channel is bound.
- *Removal.* Two batches with the same two contacts on two links, so that a call which
  begins or returns late meets the next batch and the next link. A contact is heard again once.
- *Processes.* Three daemons and two requests: one that owns the socket, one that has
  left it stale, one that starts. `Overlap = FALSE` and `StopAtOnce = FALSE` leave out
  two races of system calls that section 5 describes.
- *Updates.* Three versions on two channels: one runs, one is offered, one is published
  meanwhile. One installer runs at a time, which nothing in the code enforces, and all versions have
  one schema; section 5 says what happens where a newer one raises it.

**Fairness.** Every thread that can take a step takes one (weak fairness of the
sender, of each `update_message_status`, of the publisher, of the worker, of each
client that is inside `connect()` and of `stop()`, of each handler thread and each
call of `_finish_node_action`, and of each timer that is running): they are threads
of one process, their waits are bounded (`wait(1.0)`, a timed back-off, a join of ten
seconds), and `sendText` and `sendData` return or raise. `Create` is strongly fair: a
radio that is tried over and over is reached at last. Nothing is assumed of the mesh,
of users, of callbacks, or that `connect()` or `stop()` is ever called. In the other
modules:

- `EventStream`: a thread inside `publish` runs on, a subscribed watcher takes what waits.
- `Terminal`: workers get an answer or an error (a client call has a timeout), and the
  drawing thread handles what it is given. Nothing is assumed of the user or the daemon.
- `ReadMarks`: as in `Terminal`, and the daemon publishes what it has stored. Nothing is assumed of
  the mesh, of selections or of errors.
- `GatewayHistory`: a batch that was begun is finished; each open gateway's turn comes
  again and again (strong fairness of `KeeperReads`: the loop visits them in order, every hour).
- `WebOperations`: threads run on, and `_write_lock` is passed on (strong fairness of `Lock`;
  Python's locks promise no order, but no thread keeps this one from another for ever).
- `NodeRemoval`: the worker's own waits have deadlines. Nothing is assumed of the
  SDK's threads, which may hang for ever, of the radio or of the connection.
- `DaemonLifecycle`: processes and their shutdown threads run on.
- `Updating`: commands and downloads end, if only by a timeout or an error.
- `GatewayFiles`, `SchemaMigration`, `MessageStore`: a daemon that was started goes through
  its steps, and is started again; the channel synchronisation that was begun goes on.

## 4. What is proved

A theorem holds for every value of the constants that satisfies the assumptions named
here; those of a proof module that declares its own (`Bounds`) are hypotheses of its
theorems. Every safety theorem goes by an inductive invariant, which TLC checked first.

### Outgoing messages

`MessageDeliveryProofs`, from `RequestAssumption`, `BoundAssumption` and `ReportAssumption`:

- `TypeCorrect == Spec => []TypeOK`. `TypeOK` is inductive as it stands.
- `ReportsAreHeard == Spec => []OnlyWhatWasHeard`: a stored "ACK", "feila" or
  "levert" was reported by the mesh about that very request. The property is not
  inductive, because a report travels before it reaches a row: `HeardInv` says the
  same of `early_status`, of both queues and of each thread's argument, and holds
  because `heard` only grows.
- `AnswersHold == Spec => []AnswersAreTrue`. `SendInv` says of each phase of a send
  what its row and its transmission are, so a crash or a failure at that phase leaves what the
  answer says.
- `NoEchoEver == Spec => []NoEchoBesideRequest`: an echo finds the row of its request by
  its packet id, or waits in `deferred` until that row has one.
- `DeliveryRefines == Spec => ImplementsOutgoingMessage`: each step of `MessageDelivery`
  under the mapping `MessageState` is a step of `OutgoingMessage` or a stutter. The lemmas go by
  what a step does to one message: nothing that the abstract specification can see
  (`UnmovedSteps`), or one of its moves. `SendInv` and `AllHeard` are what makes a transmission
  the first one and a change of status one the mesh has reported.
- `ReportsReach == Spec => []ReportsReachTheRow`: a completed row is at least as far as every
  report taken care of. Four invariants, each on top of those before: `LockInv` (one send is
  under way, and the sending thread updates a status only inside it), `WorkInv` (whoever is in
  `update_message_status` works for a request that was sent and whose row is complete, or
  over), `TargetInv` (the row it has selected is still the one it means to update) and `ReportInv`
  (early reports, reports taken care of and the row agree).

### Radio connection

`ConnectionProofs`, from the four assumptions on `Connection`'s constants:

- `TypeCorrect == Spec => []TypeOK` and
  `InterfaceFollowsProfile == Spec => []InterfaceOfProfile`. Both need `Inv`, which
  adds `ThreadsFit`: what a thread holds fits the step it is at. `Publish`
  compares the profile in the worker's hands with the selected one, so it is the
  conjunct "at `publish` the interface leads to the profile the worker has read"
  that carries the proof. Nearly every action moves one thread to a state that
  fits and disturbs no shared variable, which `OneThreadMoves` says once; the
  lemmas for the actions show just that.
- `InterfacesAreOwnedOnce == Spec => []OwnedOnce`, for any number of clients, switches and
  interface objects. `OwnedOnce` counts closers and is not inductive; `Owned` says instead
  what a thread holds: an interface that is open, not the published one and held by no
  other thread (`HeldAlone`), while whatever is open is published or held
  (`NoneForgotten`). `WorkerBetween` is what it hangs on: from the moment it takes the
  interface until it publishes the next one the worker finds none published, because
  nobody else publishes; without it `Publish` could overwrite an open one. A step is a
  quiet move of a thread that holds nothing, takes the published interface, or closes
  what it holds (`QuietMove`, `Taken`, `Closed`); only creating and publishing are neither.

### Node actions

`NodeActionsProofs`, from `ActionAssumption` and `BoundAssumption`:

- `TypeCorrect == Spec => []TypeOK`, which says that the action of every registered
  timer is in the table, so eviction never takes a pending action; and
  `TimersFollowActions == Spec => []TimersArePending`. `Inv` adds `TimersKnown`:
  from registration on, a timer that may still be started or is running is
  registered; without it `Arm`, which looks at nothing, could start a timer that
  nobody cancels. `Settle` registers under the lock and only for a pending
  action, `Finish` takes the status, the registration and the timer together.
- `EndsAnnouncedOnce == Spec => FinalIsLast`: one end of an action is announced, once, and
  nothing after it, although SQLite may fail at any call and the daemon restart. `EndsInv` says
  that the threads that may still store or announce an end of the same action are one
  (`EndsOnce`), that a thread only gets into the steps of its own role (`RolesKept`), and that
  what has been announced is an action that nobody will end again. Most steps are `Calm`: one thread
  moves, and none of this is about it.
- `LogAgreesEver == Spec => []LogAgrees`, from the same `EndsInv` with `RowsAgree`, whichever
  rows SQLite fails to write (`StoreFails`, a set of actions). `LogAgrees` itself leaves those
  out: the end of an action is stored after the lock is left, and where SQLite raises there, the
  row says "started" until the next restart. A failure for one action spoils no other's row.
- `PositionsCoolDown == ASSUME ~SlowSends PROVE Spec => []PositionCooldown`. `CoolInv`: a
  request for a position that is between its check and its cooldown's end keeps the cooldown,
  and there is one such request. `SlowSends` lets a cooldown run out during the send.

### Node removal

`NodeRemovalProofs`, from its `Bounds` (there is a first link), for any number of batches, contacts
and links:

- `TypeCorrect == Spec => []TypeOK`, which says that wrappers of a completion handler do not nest.
- `RemovalStaysOrderly == Spec => []RemovalIsOrderly`. Its three parts lean on each other.
  `CallsInv`: one batch is started, and a call of the SDK is one its worker waits for, or the worker
  has given it up and lost the link for good. `WorkersInv`: a link has one worker, its last call
  included, and the worker's batch is started for as long as the link can be used. With it `RefreshInv`: a handler is wrapped by the worker that refreshes it and by nobody
  else, on the link in use a `_startConfig` is still to run only while its worker waits, and
  somebody waits for what is missing from a partial registry; a worker that stops waiting
  gives the link up in the same step. `BooksInv`: while a batch is started, the one contact marked
  as sent is its worker's, and every copy of a list that is still to be stored is closed, so it does
  not matter which thread stores last.
- `RemovedWasProved == Spec => RemovedWasAbsent`, the claim that the whole refresh is for, with
  the hypothesis that "config", the request for the list, is no contact. `ProofInv`: once the radio has
  taken the request, a contact is listed, is yet to come, or was lacking; once the worker has been told,
  nothing is to come. `Answered`, the order of the radio's work, and that nobody else can ask on a
  link in use make it so. The comparison of the registry's identity (`was`) is not needed for it.

### Web operations

`RequestsProofs`, from `BoundAssumption`:

- `TypeCorrect == Spec => [](TypeOK /\ AskInv)`, and from it `AskedOnceEver` (`AskedOnce`),
  `UnknownIsTrue` (`UnknownIsUnasked`) and `CacheIsBounded`. `AskInv` keeps accounts: of
  each operation, requests sent are results forgotten, plus one if its result is known, plus
  one if a thread is about to record it (`Balanced`); no operation has two owners or two
  results. An evicted or expired result moves from one side of the sum to the other.
- `OneAnswerEver == Spec => []OneAnswer`. `ToldInv` is about what anyone was told or still could
  be told of a call, by the results or by the response its owner left: one thing at most,
  and none before its owner has recorded it.

### Histories

`RequestsProofs`, for any gateways, clients, limits and arriving rows; only the last theorem
has a hypothesis:

- `OnlyShownLeave == H!Spec => OnlyWhatWasShown` and `PoliciesAreObeyed == H!Spec => PolicyInForce`.
  A plan keeps keys and fingerprints, not rows, so the invariant `CleanupsFit` says where they
  lead (`PlanFits`): a message's key is never used again, and an action that has taken over a
  rowid has another fingerprint. What the maintenance thread has read stays old until it deletes
  (`ShownAreOld`), because a row keeps its number and does not grow younger. That the thread
  reads the policy again in the deleting transaction is all that `PolicyInForce` needs.
- `TokensAreUsedOnce == H!Spec => []ConfirmedOnce`. `TokensFit`: a token is that of a preview, of
  a clean-up that runs, or used up, and never two of these. With the theorems about web
  operations it gives `RequestsRunOnce == Spec /\ H!Spec => []ExecutedOnce`.
- `HistoryIsTyped == ASSUME HistoryBounds PROVE H!Spec => [](H!TypeOK /\ H!PreviewsBounded)`: the
  limits are numbers and one preview may be kept. `PreviewsBounded` is the claim worth having:
  however many previews clients ask for and abandon, the daemon keeps at most `MaxPreviews`, of at
  most `MaxSnapshot` rows. `HistoryInv` adds that rowids are unique in a table and at most as
  great as rows have come, so a new row's is free (`NextKeyIsFree`, from `GreatestNumber`), and that
  the rows of the previews are finitely many (`FewRows`). What a loop does in the code, `Trimmed` does by
  choosing the least token to keep from: that there is one, and that what is left has room
  (`TrimmedHasRoom`), rests on `LeastNumber`, the least-number principle, which follows from the
  library's well-foundedness of `<` without an induction rule.

### Reading

`RequestsProofs`, from `ReadBounds` (there is the conversation that a terminal opens with):

- `ReadingIsTyped == ASSUME ReadBounds PROVE R!Spec => []R!TypeOK`. No conversation has more unread
  messages than there are messages (`CountsTyped`), and a worker, whatever step it takes next, asks
  and answers for the conversation it was started for (`AsksTyped`).

### Event stream

`ClientsProofs`, from `Bounds` (a positive `QueueSize`; `None` is no watcher):

- `StreamIsTyped == Bounds => (Spec => []TypeOK)`: no queue outgrows `QueueSize`.
- `NothingIsLostSilently` (`NoSilentLoss`), of the watchers in `Reloading`, whichever they are: a publisher that finds a queue full takes out an event
  and puts its own in, in steps of their own; a watcher that has not seen what it is owed
  has an event waiting, or a publisher with it still on its list (`StreamInv`).
- `EventsInOrder == Spec => InOrder`. `OrderInv`: the events of one thread lie in a queue in the order
  of publishing, after what was taken and before what the thread still has in hand.
- `SlotsAreReturned` (`SlotsReturned`): `SlotInv` adds that the open requests are finitely many,
  which their cardinality needs.

### Web authentication

`ClientsProofs`, from `OriginAssumption`, `NoneAssumption`, `FiniteAssumption` and
`BoundAssumption`:

- `StoreIsTyped == Spec => []TypeOK`, with the bounds on passkeys and sessions.
- `CodesWorkOnce`, `RevocationIsEverywhere`, `NoPasskeyIsLost` and, of all three,
  `LoginsStaySafe == Spec => []LoginsAreSafe`, for any number of processes, addresses,
  sessions and attempts. Three facts make it inductive. `Stamped`: the file's generation
  is the number of revocations, and a session carries the generation and the revocations
  of the moment it was born, so the two comparisons agree. `Spent`: attempts answered and
  attempts left sum to no more than `CodeAttempts`, and after a login there is no code.
  `StoreIsTyped` adds `Limited`: no process holds more than `MaxSessions`, and the passkeys of
  every remembered address are within the limit, because they were when it was left.

### Terminal

`ClientsProofs`, from `TerminalBounds`: there is a public conversation, each received message has
one and is no text typed here, and `None` is no status. For any number of workers:

- `TerminalIsTyped`.
- `ScreenSettles` (`SettledViewIsCurrent`), from `ScreenInv`: an answer is about the conversation
  it was asked for, and while the screen shows another than the selected one, an answer for the
  selected one is under way, or the user was told of an error. It does not say that the screen is
  complete, which the code does not keep (section 5).
- `LateStaysHarmless` (`LateIsHarmless`) needs the types only: `RouteOf` is what was saved with the
  text, `Remembered` adds, and `Newer` does not take back an end.

### Processes

`OperationProofs`, from `DaemonBounds` (`NoDaemon` is no process):

- `DaemonsKeepTypes == D!Spec => []D!TypeOK`, overlapping starts included.
- `OwnersAreSingle` (`OneDaemon`), with the hypothesis `~Overlap`: starts and the ends of closes take turns. It is needed: with
  overlapping starts the code lets two processes bind (section 5). `OwnInv` says what a
  process knows of the socket file at each of its steps (`Knows`): from its bind to the
  end of its close the file is its own, and before it nobody listens there. Thus who
  finds a listener gives up. Nothing is assumed of the clients, which may start a process
  although a daemon runs.

### Updates

`OperationProofs`, from `Releases`: there is a first release, and neither `None` nor `Partial` is one.

- `UpdatesKeepTypes`.
- `InstallationsAreWhole` (`InstallationIsWhole`). `UpdateInv` has three parts beside the types. `Sound`: the
  link leads to a finished release, and the service runs nothing else. `SavedFits`: what the
  installer has saved is what was there when it began, the files it builds from are those
  of its plan, and the release to go back to is not touched; for this `Clear` must not
  build the running release again. `ProgressFits`: how far each step has changed the link,
  the files and the service, or given them back. The hypothesis `SameSchema`, that no release
  raises the schema, is needed for the service alone (section 5).
- `ConfirmedIsInstalled` (`OnlyWhatWasConfirmed`), from `ConfirmedInv`: from the second manifest on the
  plan is what was shown, and newer than the program that runs.

### Storage

`StorageProofs`, from `TablesAssumption` (each row is of one table) and the hypotheses named:

- `SplitStaysSafe == ASSUME SplitBounds PROVE Spec => [](TypeOK /\ FilesAreSafe /\ (~LateLegacy =>
  SplitIsSafe))`, for any number of gateways, rows and crashes. Where an older program makes a
  legacy file after the split, still no row is lost, comes back, lands in another gateway's file or
  is pruned unasked, and a daemon is ready only with a snapshot of the file as it is
  (`FilesAreSafe`); but the gateways that were made before serve none of that file's rows
  (`EachIsServed`). `SplitInv` says what each copy is worth: the snapshot is part of
  the legacy file and the work copy equals the snapshot (`Copies`), at the later steps both
  equal the legacy file; a gateway's file was made from the work copy and has kept of it
  everything that was not cleared (`FileFits`), and a new row's number is above all others
  (`Numbered`).
- `MigrationStaysSafe == ASSUME MigrationBounds PROVE S!Spec => [](S!TypeOK /\ MigrationIsSafe)`,
  for any rows of any version, failures at every step included. Rows are whole and
  distinct in both copies (`CopyFits`); `Progress` says, step by step, what has been proved of
  the rows that are still live: first the owner a message's own row names, then the one of all
  its observations, and only then what depends on messages. A message is bound to the only gateway
  its relatives name *as found*; that the observations are still as found when they are asked
  (`AsFound`) is what the order of the steps is for. The transaction commits what `Final` says.
- `ConversationsStayKept == M!Spec => [](M!TypeOK /\ ConversationsAreKept)`, for any packets, peers
  and transports. `QuietIsMarked`: what is quiet is marked as closed, and has a row. Without
  the row a later merge could move rows to the new route without the mark. `MergedIs` says
  what binding does to a table: every row finds one of its packet on the new route with all its
  receptions, and none is there twice.

### Side by side

`ClientsProofs`, `RequestsProofs`, `StorageProofs` and `OperationProofs` extend the modules `MC...`
of the runs, so their theorems are about the very formulas that the runs check, with the
constants left open. `PartSteps` and `PartsBehave` are the bridge: a step of `SpecPart` is one of the
component whose part it is while the others stand still, so a behaviour of `SpecPart` is one of
every component's `Spec`. From it and the theorems above follow

- `ClientsKeepTypes`, `RequestsKeepTypes`, `StorageKeepsTypes` and `OperationKeepsTypes`:
  `SpecPart => []TypesOK`, each from the bounds of its components;
- `WhatIsReportedIsTrue == SpecPart => ReportsAreTrue`, which inherits its parts' hypotheses, that
  "config" is no contact among them.

### Only model-checked

Every invariant and every safety property of a passing run is stated by a theorem. Liveness stays
with TLC: `SendReturns`, `SelectedIsConnected`, `StopReleasesRadio`, `EveryActionEnds`,
`ClientsCatchUp`, `RequestsEnd`, `StorageSettles` and `OperationsEnd` rest on fairness, and `ENABLED`
is beyond the prover. A theorem with a hypothesis such as `~Overlap`, `~SlowSends` or
`SameSchema` says nothing where it fails; section 5 names what happens there. The theorems are about
the specifications: that these are what the code does,
statement by statement, is for a reader to judge.

## 5. Where the code and its documents disagree

Two runs end with a counterexample.

- `FiledSeparately` (`connection_filed`): `_discover_local_node` assigns `_local_node_id`
  without the lock; with a switch in between, the old radio's id is in place when
  the new interface delivers its first packet (`README.md:424`).
- `NewMessagesAreShown` (`terminal_shown`): a message that arrives after the worker has
  asked for the selected conversation and before its answer is shown is added to the
  timeline, then the answer, which lacks it, replaces it (`README.md:513-514`).

These have the same causes or weigh less, and no run of their own. To see one, name
the property as the only one in a configuration of its module with the constants given.

*Connection*
- `OneConnection`: `connect()` closes the old interface outside the lock, after it has
  woken the worker, which may already have opened the new one (`README.md:420`).
- `RemembersItsNode`: the assignment of `FiledSeparately` makes the new profile remember
  the old radio's node (`DEVELOPMENT.md:304`).
- `StatusAtRest`: `connect()` writes "koplar til" after waking the worker, possibly over
  the worker's "tilkopla" (`README.md:657`).

*Messages and node actions*
- `AnnouncedInOrder`: `_send_impl` publishes its `message` event after `stored` is set;
  `onAckNak` may have announced "ACK" in between, so the stream says "ACK", then "sendt"
  (`README.md:622`).
- `TracerouteCooldown`: the cooldown of a traceroute begins after `sendData` has returned;
  a second client that asks in between gets its own sent too (`README.md:549`,
  `DEVELOPMENT.md:148`).
- `AttemptsAreLogged`: the first upsert may write "started" over the "failed" of a loss
  that came in between, and a send that then raises finds the action ended and
  stores nothing; the row is put right by the next restart only (`README.md:547`).
- `WorkerLives` (`StoreFails = Action`): the worker fails pending actions in a `finally`
  clause; if SQLite raises there, the worker thread ends and nobody reconnects (`README.md:37`;
  `service.py:609`). Where it raises in `connect()` (`service.py:445`), the profile has been
  replaced and the old interface taken, but it is never closed; where it raises in `stop()`
  (`service.py:262`), closing the interface is left to the worker. `Connection` assumes that the call returns, so
  `OwnedOnce`, `SelectedIsConnected` and `StopReleasesRadio` are claims about daemons whose SQLite
  does not raise there; `NodeActions` has the call with its failures.
- `PositionCooldown` (three exchanges, `SlowSends = TRUE`): a request whose send raises
  after more than thirty seconds clears the cooldown of the one started since
  (`DEVELOPMENT.md:266`).
- *Two removals at once.* A removal's call is begun after the lock has been left
  (`service.py:1152`, `1167`). If the batch is failed by a loss in between, the link is replaced
  and a new batch is accepted (`service.py:1054`), the old call runs on the old link beside the new
  one, and the one flag of both is cleared by whichever returns first (`service.py:1164`), so a
  third batch may be accepted beside a hanging call. The comment says that "a late return is never
  allowed to ... start another" (`service.py:1147-1149`). `NodeRemoval` has these steps; what holds is
  `OneCallPerLink`, and TLC violates `Cardinality({b \in Batch : Calling(b)}) <= 1`.
- `SentIsNotFailed` (`NodeRemoval`): a contact whose request was handed to the radio is
  reported as failed, which means not sent, when the batch is failed from outside
  (`service.py:1207`; `tests/test_service.py:457` and `542-543` expect "sent_unverified").

*Storage*
- `ClosedIsHidden` (`MessageStore`): closing a direct message closes the one route that the
  list shows; where the node has also written on another channel, it stays in the list
  (`README.md:628`; `tui.py:4948-4990`, `ipc.py:521-541`).
- `ReceptionsKeepTheirGateway` (`SchemaMigration`): an observation takes the gateway of
  its message, although its own record names another (`database.py:741-753`;
  `DEVELOPMENT.md:230-232`, `372-373`). Where two observations of a message differ in nothing
  but their gateway, that makes them alike, the unique index refuses the second, and
  the file is refused at every start.
- `RollbackIsRefused` and `EachIsServed` (`GatewayFiles`, `LateLegacy = TRUE`): an older program that writes to
  the original file is detected by its digest, which there is none of where there was
  no file when the split was made (`gateway_database.py:136-137`; `README.md:455-457`,
  `DEVELOPMENT.md:100`).

- `UnreadIsHighlighted` (`ReadMarks`, `MaxErrors = 0`): a refresh that has asked for the
  conversations and still asks for the nodes is overtaken by a later one, and its older list
  then replaces the newer: a conversation with an unread message stands there
  without mark until the next refresh (`tui.py:4422-4433`, `3610-3612`; `DEVELOPMENT.md:258`).

*Processes*
- `OneDaemon` (`Overlap = TRUE`): two processes that find the same stale socket may both
  unlink and bind, the second one over the first (`daemon.py:73`).
- `stop_daemon` reports success when a probe of 0.2 seconds fails for any reason
  (`lifecycle.py:129-134`, `client.py:98-103`). While the daemon stops, it accepts nobody, and
  waits for its maintenance thread and its worker (`daemon.py:136-144`): the probes fill the
  listen queue, the next one fails, and "stopped" is reported while the database and the radio are
  still owned. `ipc.py:981` says of the same call "A full listen queue or timeout is not proof of a
  stale socket". In `DaemonLifecycle` `ClientStopped` may therefore happen at any time, and no
  property says that the report is true; a process that is started too early finds the socket
  owned and gives up (`OneDaemon`).
- `StopIsObeyed` (`StopAtOnce = TRUE`): a stop requested after the last look at the flag and
  before `serve_forever` finds nothing to shut down, and the process serves on
  (`daemon.py:134-135`).
- `FailureIsUndone` (`Installations`, `SchemaOf` of `Updating` with a version that raises the schema): the
  undone installation starts the old program on a database it refuses
  (`README.md:309-311`).

*Events*
- A full queue drops its oldest event (`events.py:24`). The web page, which reloads on the next
  one, misses nothing (`NoSilentLoss`). The terminal and `meshpi watch` go by the events
  themselves, and what a dropped one said stays unknown to them until something else makes the
  terminal ask again.

Seen while reading, and outside the models: the Linux installer ignores a service that cannot be
stopped (`install-linux.sh:704-705`), so the old daemon would run on through the switch, and
`Stop` of `Updating` leaves that out; it compares the release's path with what the link resolves to
(`install-linux.sh:663-665`), so under a PREFIX that is itself a symbolic link it would build the
running release again, and `MustBuild` assumes a resolved one; `list_messages` marks rows as read that it
does not return (`database.py:1725-1739`); the node dialog's timer of thirty seconds
outlives the request it was set for (`tui.py:1522-1555`); after a gap in the stream the
terminal reloads nothing (`tui.py:4280-4323`); a change between the answer to a watch
request (`ipc.py:864`) and its subscription is announced to nobody; where storing the
outcome of a removal raises, the batch stays "started" until the next restart (`service.py:1207-1212`).

## 6. Plan

1. `OutgoingMessage`, `MessageDelivery`, `Connection`, `NodeActions` and their proofs: done.
2. `NodeRemoval`, `MessageStore`, `SchemaMigration`, `GatewayFiles`, `GatewayHistory`,
   `EventStream`, `WebOperations`, `AuthStore` with its proofs, `DaemonLifecycle`, `Updating`,
   `Terminal`, `ReadMarks`: done.
3. To come, in this order: `ServiceLocks`, the order in which each thread takes the locks
   (absence of a circular wait, and the one at `service.py:1778`); the conversation list
   of `MessageStore`.
4. Further theorems: `ServiceLocks` with its proof. Every safety property that is checked now
   has one (section 4).

## 7. What is not modelled, and why

Packet parsing, formatting, translation and drawing keep no state another part
relies on. Cryptography (passkeys, release signatures) and SQLite itself are
external; a statement is atomic and may raise. The SDK is modelled by its threads
and by when they call back. The command line and the connection wizard make single
calls of the components modelled and keep nothing between them. `app.js` renders what
`web.py` answers. Build scripts and the web site run once and are not part of the
running program; of the installers, the one for Linux is modelled where it can fail
half-way. Telemetry history and the list of nodes are queries with no state of their
own; the terminal's other dialogs show what they are
given. The TCP endpoint and its identity file are left out of `DaemonLifecycle`: the
kernel makes the binding of a TCP port exclusive by itself.
