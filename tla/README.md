# hapcli: a TLA+ model of the connection core

hapcli is a terminal client: local shells, SSH, Telnet, serial lines, SFTP and
port forwarding behind an egui desktop application and a command line tool. The
part of it that is hard to get right is the one every remote feature shares: a
pool of SSH connections with logical owners, one SFTP channel per connection that
many callers use, and the machinery that notices a lost link and brings it back.
On it stand the transfers, the port forwards and the events the user interface
lives on; serial lines have their own file transfer protocols. These modules model
that core from the Rust source, check it with TLC and prove some of its invariants
with TLAPS.

## 1. Inventory

| Part | Code | State | Operations | Interacts with |
| --- | --- | --- | --- | --- |
| Connection registry | `hapcli-ssh/src/connection_registry.rs` | entries by id and key: state, consumers, `ref_count`, keep-alive, idle generation, physical transport, parent, last emitted status | acquire, acquire_dedicated, acquire_consumer_for_connection, release, retire, mark_state, cascades, probes, keep-alive, idle timeout | connect paths, node router, monitor, UI |
| Shared SFTP channel | same file, `SshConnectionHandle` | slot Empty / Initializing / Ready, generation, projection | acquire, acquire existing, clear_physical, invalidate, clear | file manager thread, IDE, plugins, cascades |
| Connect paths | `hapcli-ssh/src/transport/client.rs` | consumer guards on the stack | shell, node, child through a parent, shell on an existing connection | registry |
| Node router, runtime store, events | `hapcli-ssh/src/router/*.rs` | node to connection, readiness, generations, event mailbox | bind, resolve and wait, acquire SFTP, emit, coalesce | registry, UI |
| Reconnect jobs | `hapcli-ssh/src/reconnect.rs` | a job per node: phase, attempt, history | schedule, advance, retry, finish, cancel | UI, router |
| Transfer manager | `hapcli-sftp/src/transfer_manager.rs` | permits, controls, background snapshots, shutdown state | register, acquire permit, pause, resume, interrupt, finish, shutdown | SFTP sessions, UI |
| Port forwarding | `hapcli-forwarding/src/manager.rs`, `registry.rs` | rules by kind, stopped rules, connection handle | create, stop, restart, suspend, restore | registry, node router |
| XMODEM and YMODEM | `hapcli-modem-transfer/src/xymodem_transfer.rs`, `stream.rs` | block number, retries, mode, the blocks written | send and receive, over a stream with a cancel flag and a timeout | a serial or terminal session |
| Terminal core, stores, cloud sync, AI, plugins, IDE, remote desktop, monitor, CLI, UI | other crates | | | callers of the parts above, or independent of them |

What is hard, part by part:

* The registry's methods run on many threads and take one lock at a time. The
  count follows the consumer list outside the lock, timers are cancelled and
  started without one, and state is read in one section and written in another.
* The creator of a shared SFTP session works without the lock; the slot may be
  cleared, invalidated, filled or marked by others before it comes back.
* Connection setup can be cancelled at each await after a consumer was acquired,
  and a child can be retired while it commits the ownership of its parent.
* Links die at any time; cascades walk parents and children with awaits between.
* Transfers register, queue, check their control and report in separate lock
  sections, while pauses, interruptions, late progress and a shutdown write the same
  list. Two runs may share an id and its control.
* A forward is taken out of one map, awaited and put into another; whoever drops it
  stops it. Create, stop, restart, suspend, restore and the bulk stops overtake each
  other on one rule.
* An event is numbered in one section and dispatched in another; the mailbox merges,
  evicts and must not drop errors, and its reader sleeps between wake-ups.
* A modem line loses, damages and delays; block numbers are one byte wide.

What makes each part correct: the registry's counts are exact, an unused
connection has a timer that takes it away and a used one stays, a child holds its
parent exactly as long as it lives, an outage is announced and not undone; the SFTP slot never loses its waiters, never serves a dead transport, and
a generation names one session; permits are counted exactly and never leak, a
finished transfer stays finished and nothing survives a shutdown; a running forward
always has an owner that can stop it, and a rule nobody deleted is not lost; the
mailbox loses no error and never ends on an event that was dispatched before the last
of its kind; a modem transfer between hapcli's two ends returns, writes every block
once and in order, and says Ok only when it moved everything. For reconnect jobs, which are not modelled: a finished or cancelled job
stays so.

`PROJECT.json` lists every component, the hazards at their lines, the map from
definitions to source lines, the runs, the mutants and the theorems.

## 2. Modules

| Module | Role |
| --- | --- |
| `SharedSftp` | the shared SFTP slot of one connection |
| `MCSharedSftp`, `SharedSftp*.cfg` | its TLC instances |
| `SharedSftpProofs` | its theorems |
| `ConnectionRegistry` | the pool, its idle timers, cascades and probes, and the connect paths that use it |
| `MCConnectionRegistry`, `ConnectionRegistry_*.cfg` | its TLC instances |
| `ConnectionRegistryProofs`, `ConnectionIdleProofs`, `ConnectionTunnelProofs` | its theorems: types and counts; idle timers and retirement; tunnels and descendants. Each extends the one before |
| `TransferLifecycle` | abstract specification: what the transfer list promises its readers |
| `TransferManager` | the SFTP transfer manager and the runs that use it; implements `TransferLifecycle` |
| `TransferManagerProofs` | its theorems, the refinement included |
| `Forwarding` | the forwards of a session, their manager and the registry of managers |
| `ForwardingProofs` | its theorems |
| `XYModem` | both ends of an XMODEM or YMODEM transfer and the line between them |
| `XYModemProofs` | its theorems |
| `NodeEvents` | the node event emitter and mailbox, with the router and registry operations that publish |
| `NodeEventsProofs` | its theorems |
| `MCTransferManager`, `MCForwarding`, `MCXYModem`, `MCNodeEvents` and their `.cfg` | their TLC instances |

Definitions called "Faulty ..." are variants with a plausible bug, one per checked
property. They are not part of any specification; substituting one for the
definition after it makes the property fail.

### SharedSftp

One entry's `physical`, `sftp_generation`, `sftp` and `sftp_state`. `task[c]` is a
caller of `acquire_sftp_with_meta` with its program counter: `lookup` (before the
first critical section), `cloned` (has the `Notify`, has not created its `Notified`
future), `waiting`, `open` and `handshake` (inside `SftpSession::new`), `failed`,
`announce` (before `mark_sftp_session`). A step is one critical section of the
`sftp` mutex or one access outside it, so `clear_physical` is three steps: drop the
transport, bump the generation, empty the slot. A ticket names one attempt to
create a session, its `Notify` and the session that comes of it. `grants` and
`lost` are history: what the acquire operations returned, and the transports whose
`clear_physical` has completed. `Notify::notify_waiters` wakes the tasks that have
created their future and stores no permit, as tokio documents.

The slot is read in `Lookup*` and again in `PublishSession`, `AdoptReady`,
`RetryAcquire` and `FailAcquire`, with the code's comparison: the marker found in
the slot against the current generation. `invalidate_and_reacquire_sftp` of the
node router is an `InvalidateSftp` followed by an acquire; its writes of the
projection are left out. A task never disappears half-way: no caller in the
repository puts a timeout on an acquire or aborts it.

### ConnectionRegistry

A connection id is given to one entry and never again. Shared ids have a pool key
(`KeyOf`), dedicated ids a connection they may tunnel through (`Hop`). The consumer
`"<id>:ancestor"` that a child takes on its parent is written as the child's id.
An actor is a thread (`Threads` connect and close views, `Monitors` probe and
change settings) or the idle task of a connection. `call[a]` is its next step and
`todo[a]` the steps after it, so a method that calls another (`retire_connection`
releasing the ancestor consumer, a cascade clearing one transport after the other)
is a sequence of steps other actors interleave with. Correspondence of the steps:

* `Acquire`, `Push`: `acquire` up to `cancel_idle_timer`, then the section that
  adds the consumer. The entry may be retired in between, as in the code.
* `PushExisting`, `Activate`: `acquire_consumer_for_connection`; the state is read
  in the first and written in the second, both inside the consumers lock
  (`ConsumersUnlocked`).
* `Connect`, `Reuse`, `DialSucceeds`, `DialFails`: reading the slot, then storing
  the transport read or a new one. `CheckShell`, `ChannelOpens`, `ChannelFails`:
  opening a shell channel over the transport read before.
* `OpenTunnel`, `TunnelSucceeds`, `TunnelFails`, `Commit`, `MarkChild`: a child
  through its parent, `set_parent_connection_ownership` and `mark_state`, and the
  two guards.
* `Remove`, `Decrement`, `CheckUnused`, then `Retire`, `KeepIdle` or the start of a
  timer: `release`.
* `BumpIdle`, `ReadGeneration`, `WriteIdle`: `start_idle_timer_for_entry`, from
  `release`, `set_keep_alive` and `set_idle_timeout`. No lock is held between them.
* `IdleTimeout`, `CheckTimeout`, `Cascade`: `disconnect_if_idle_timeout`; then, for each
  connection it takes along and for its own, `Disconnect`, `DropTransport`, `MarkGone`
  and `Retire`.
* `HeartbeatDead`, `LinkDown`, `ClearPhysical`: a lost link and its cascade.
  `ProbeSingle`, `ProbeRecovers`, `ProbeFails`: the probe of a connection that is down.
* `SetKeepAlive`, `ClearKeepAlive`, `SetIdleTimeout`, `Retime`: settings.

The idle generation is modelled by what it decides. `timers[c]` holds the number of
tasks `asleep` that carry the current generation and the actors `starting` one, which
have read the current generation and not written Idle yet. A bump empties both; a task
with an old generation does nothing when it wakes. `missed` is history: Idle was written
with neither a task asleep nor another start under way, because the generation was
bumped after it was read (or, in `KeepIdle`, because the flag that excused the timer was
cleared after it was read), and no bump has come since.

Abstractions, beyond data that no property tells apart:

* An idle timeout is configured and not zero, and a runtime is there for the timer.
  An entry's timeout is fixed when it is created; `set_idle_timeout` changes later
  entries and restarts the timers of the present ones.
* `release` looks the entry up and takes the consumers lock in one step;
  `mark_link_down_cascade` marks its connections in one step (its clears are separate
  ones). A task that wakes looks its entry up and compares the generation in one step
  and reads the count, the flag and the state in the next; `set_keep_alive` stores the
  flag and cancels the timer, or reads state and count, in one; `release` reads count
  and flag, and `set_idle_timeout` bumps and reads state, count and flag, in one; a
  release that finds the flag cancels the timer and writes Idle in one. The spawn of a
  timer task is part of the step that writes Idle: the task does nothing but sleep.
* `set_idle_timeout` visits the entries registered when it starts.
* A probe may find any Active or Idle connection dead: the heartbeat counter, its
  threshold and the quick second probe are behind `HeartbeatDead`.
* Cancellation of a setup is possible while a transport, a tunnel or a channel is
  being opened. Inside a cascade's clears it is not.
* `Reconnecting` and `Disconnecting` are states no code outside tests stores.
* Tunnelled shared children (nodes behind a node) and `set_parent_connection_id`
  are not modelled; a dedicated child is not registered with the node event emitter,
  so the ancestor release inside `disconnect_idle_timed_out_connection` does not
  apply to it.
* Event payloads, timestamps, remote environment detection, statistics and topology
  snapshots are left out. Of the events only `last_emitted_status` is kept.

### TransferManager and TransferLifecycle

`controls`, `table`, `limit`, `active`, `semaphore` and `shutdown` are the fields of
`SftpTransferManager`; an id without owners is not in the map of controls. `run[k]` is
one call of `native_plugin_scp_result` with the nested registration of
`scp_upload_file`: `Begin`, `ReadShutdown` and `InsertSnapshot`
(`register_background_transfer` reads the shutdown state and lists the transfer in two
sections), `Listen` to `CountPermit` (`acquire_permit`), `MarkActive`,
`RegisterNested`, then `CheckControl` and `MoveChunk` in turn, `EndData`,
`DropNested`, `Report` (`finish_background_transfer`), the permit's three-part drop and
`DropGuard`. The operator pauses, resumes, cancels, interrupts and changes the limit,
each first in the control and then in the list; `DeliverProgress` is the task that
forwards progress, which may come after the report; `Watch`, `Look` and `WakeReader`
are `wait_background_transfer_finished`; `BeginShutdown` to `EndShutdown` are
`shutdown_session_transfers`.

`TransferLifecycle` is the promise: only a registered run that has not reported may
change a finished transfer, and nothing but a report says Completed. The refinement
mapping takes `state` from the list and `running` from the runs that are listed and
have not reported.

Simplifications. A write to the list and the `notify_waiters` after it are one step,
as are the lookup of a control and setting its flag in `cancel`; the end of a shutdown
by draining and by its grace period are one action. The capability caches, the speed
limit and directory parallelism are left out. `acquire_permit` and
`shutdown_session_transfers` have no callers outside tests at this commit; they are
modelled as the public interface they are.

### Forwarding

`active` holds the three maps of running forwards, `stopped` the stopped rules,
`router` the targets of a manager's `RemoteForwardRouter`. A forward is an object with
a number; `listening` and `told` say whether its listener exists and whether it was
told to stop or dropped. `task[k]` is an operation between two awaits: `Create` or
`Restart`, `CheckRule`, `OpenForward` or `OpenFails`, `InsertForward`; `StopForward`,
`Halted` for a local rule, `CancelOnServer`, `CancelFails`, `CancelGivenUp` and
`Drained` for a remote one; `SuspendSession`, `StopAllForSession`, `StopAll`,
`RemoveManager` and `Shutdown`, which drain the maps into a batch (`DrainManager`) and
stop its forwards one after the other; `RestoreSession` with `NextRule`. `DropManager`
is the last holder of a removed manager letting go. `kept` is history: the rules of
a manager that nobody deleted or cleared.

Simplifications. Local and dynamic forwards have the same control flow and are one
kind. The bulk operations drain the three maps in one step, and `has_rule` reads them
in one. The connection a forward was opened over, the second restore pass of the
session, the health check and the port profilers are left out.

### XYModem

`sender` and `receiver` are the two functions with their locals, `at` the read they
wait in. A step is one read and everything up to the next. The line carries whole
blocks and single bytes; a block whose marker was lost is noise that is read byte by
byte. `Disturbance` is the line and the user: timeouts, a stop on either side, an I/O
error, a damaged block or reply, a lost block or reply; these are external, and
`disturbed` remembers which kinds happened, since several guarantees hold only in their
absence. `Modulus` and `Retries` stand for 256 and 10; at least 2 retries are assumed,
because the second EOT of YMODEM takes a second round of `finish_xymodem_send`. A data
block whose number has wrapped to 0 may meet a receiver that waits for a header: what
`parse_block0_payload` makes of its bytes is left open, an error, the end of the batch or
a file that nobody sent (file 0). `FairSpec` is `Spec` with the fairness of
section 3. The functions are library code with no caller outside the crate and its tests. The buffers of `ModemTransfer` are not
modelled.

### NodeEvents

An operation of the router or the registry is the sequence of its steps: change the
runtime entry (`BindStep`, `DetachStep`), take a number and build the event
(`PublishStep` with the runtime entry's generation, `EmitStep` with the sequencer's,
`StatusStep`), `Dispatch`, `Wake`. `Dispatch` is the mailbox push: dropping a
duplicate, merging with an event of the same key, evicting the oldest level event when
full, or growing for an event that must not be lost. The holder of
`mailbox_listeners` is explicit, because the receiver takes only the lock of the queue.
`unread`, `latest` and `evicted` are history: the reliable events not received yet, the
last event dispatched of each key while it is in the queue, and the keys whose last event a full
mailbox evicted. `InvalidateSftp` has the code's four paths: a session was there to
revoke or not, and the new one is opened or not. `PrepareConnectionAttempt` starts with the read
of the node's connection, and its detach is a later step, as in the code. The consumer is external: it sleeps until its
callback is called and then reads until the mailbox is empty.

Simplifications. Acquiring an SFTP session that is not new bumps a generation without
an event and is left out, as are the older channel listeners, resolving and waiting for a
connection, the readiness projection and the operations on the node tree. At this commit
only tests subscribe.

## 3. Runs

| Run | Instance | Checks |
| --- | --- | --- |
| `sftp` | 2 callers, 1 clearing task, 3 creations, 2 transports, 1 bump | `TypeOK`, `MarkerHasCreator`, `MarkerRemovalWakes`, `RegisteredWaiterResumes` |
| `sftp_generation` | 2 callers, 1 clearing task, 3 creations, 2 bumps | `ExistingNeverSubstituted`, violated |
| `sftp_lost` | the same with 2 transports | `NoSessionOverLostTransport`, violated |
| `registry_ownership` | a shared connection, a dedicated child, 1 consumer, 2 threads, at most 2 actors inside a method | `TypeOK`, `RefCountMatchesConsumers`, `TunnelHoldsParent`, `RetiredChildOwnsNothing`, `DedicatedIsRetired` |
| `registry_idle` | a shared connection, 2 consumers, 1 thread, 1 monitor that probes and changes keep-alive and timeout | `IdleHasTimer`, `IdleIsReclaimed` |
| `registry_resurrection` | a shared connection, 2 consumers, 2 threads, 1 monitor | `AddingConsumerResurrectsNothing`, violated |
| `registry_outage` | a shared connection, 1 consumer, 1 thread, 1 monitor | `OutageAnnounced`, violated |
| `transfer` | 2 runs of 1 id, 1 node, 2 permits, limit 1 | `TypeOK`, `PermitsCounted`, `ControlsOwned`, `SleeperHasReason`, `ReaderHasReason`, `LateWorkIsCancelled`, `LifecycleKept` (the refinement), `ShutdownDrains` |
| `forwarding` | 2 tasks, a local and a remote rule on one port, 2 connections, 2 managers, 3 forwards | `TypeOK`, `RunningIsOwned`, `TargetIsLive`, `RuleNotLost` |
| `xymodem` | both protocols, files of 5 blocks and 1, 3 disturbances | `TypeOK`, `WrittenInOrder`, `OkMeansComplete`, `DamageIsRepaired`, `Termination` |
| `node_events` | 1 node, 2 connections, 2 threads, capacity 2, 2 operations | `TypeOK`, `ReliableKept`, `MailboxBounded`, `LatestSurvives`, `NoLostWake` |
| `node_generations` | the same | `GenerationsOrdered`, violated |

Bounds. Two callers are enough for a creator and a waiter, or for two creators in
turn; three creations allow a stale creator, the marker of a newer one and a
retry; a second transport is a reconnect. In the registry two threads give every
pair of methods the chance to interleave, the idle task of each connection is a
further actor, and a shared parent with one child is the smallest tree in which
ownership, cascades and retirement meet. `BusyBound` lets two of these four actors be
inside a method at a time in `registry_ownership`: every pair of methods still
interleaves, while any three at once are ten times the states and too many for a run;
the theorems of section 4 have no such bound. Apart from it only ids are bounded: an id is used
once, so a behaviour creates at most as many entries as there are ids, and every
other counter is bounded by the protocol itself. Threads and consumers are
interchangeable and symmetric where no liveness is checked.

Transfers: two runs of one id share a control, compete for the permits and overtake
each other's reports; a limit of 1 with 2 permits lets a run sleep on the limit and not
on the semaphore. `CallSets`, here and in `Forwarding`, lists the sets of public calls
that meet in one behaviour; all of them together are too many states for a run. The
invariants and the refinement were also checked once for every pair of calls of the
transfer manager, and the invariants of `Forwarding` for a stop with every pair of the
other calls: they hold in all of them. Forwards: two
tasks give every pair of operations; three forwards are one that runs, one that replaces
it and one after a restore; a second manager is a session registered again while
operations still hold the first. Modem: 5 blocks with numbers modulo 4 make the
numbers wrap inside one file, a second file follows a header; three disturbances
are a loss, the loss of its repair and a delay, and meet the limit of three
retries. Events: a mailbox of two is full
after two events of different keys, and two operations with up to four events each put an
error and level events of several kinds in any order. Deadlock is not an
error in these models: when every operation is over and the bounds are used up,
nobody has to start another.

Fairness. `FairSpec` asks that an actor inside a method keeps running (tokio polls
a ready task, a thread is scheduled, opening a channel or a connection ends in
success or an error: a connect has a timeout, and `ssh_client_config` sends a
keepalive every 30 s and gives a transport up after three without an answer, which
fails whatever waits on it) and that a sleeping timer wakes. In `TransferManager` the
runs, the reader, the operator's call and the shutdown keep being polled (weak
fairness), and `TakePermit` is strongly fair because tokio's semaphore serves its
waiters in order. In `XYModem` each side keeps running and its reads end with a byte or
a timeout; the line is obliged to nothing. `Termination` is about the two functions run
against each other: the sender counts its rounds, but the receiver's loops over a wrong
header number (`xymodem_transfer.rs:126-132`) and over valid blocks (`197-213`) count
nothing, and end because this sender gives up. A peer that repeats a wrong or an old
block for ever would keep the receiver. `Forwarding` and `NodeEvents` state no
liveness. No caller is obliged to call, no
network to fail and no probe to find anything. `IdleIsReclaimed` has an exception
for a timeout that is changed again and again, because each change restarts the
timer, and both idle properties except an entry whose start was overtaken (`missed`).

### What disagreed with the code's own words

* `sftp_generation`: `acquire_existing_sftp_generation` "never creates or
  substitutes a replacement session", but `clear_physical` bumps the generation
  before it takes the mutex. A caller in between is given the old session under the
  new generation, and a later caller of the same generation another one.
* `sftp_lost`: after a transport-level failure the pooled handle "can no longer be
  trusted by SFTP". A creator that read the old transport publishes into the marker
  of a newer caller, since it compares that marker's generation and not its own.
* `registry_resurrection`: "Adding a consumer must not resurrect a dead transport."
  The state is read and written in two sections; a link-down cascade in between is
  overwritten with Active.
* `registry_outage`: one event for the root of each outage. `last_emitted_status`
  keeps `link_down` across a reconnect through the connect paths, so the
  `connection_status_changed` event of the next outage is taken for a duplicate. The
  node state event that `mark_transport_lost_cascade` emits at its end is not affected.
* `node_generations`: a replaced event moves to the back "so per-node generations remain
  ordered across different event kinds in the shared mailbox". An event is numbered in
  one section and dispatched in another, and the sequencer and the runtime entries count
  independently, so the mailbox may hold a later generation in front of an earlier one.
  Of one kind, an older event that is dispatched late replaces the newer one.

Further behaviours of the code contradict no line of the repository and are
therefore not stated as violations, lie outside the models, or have no run of
their own.

* A waiter that has cloned the `Notify` and not yet created its future misses a
  notification and sleeps on (`RegisteredWaiterResumes` speaks of waiters whose marker
  is in the slot).
* A start of the idle timer can be overtaken. `set_idle_timeout` between the read of the
  generation (`connection_registry.rs:1345`) and the write of Idle (`1346`) bumps it and
  finds the entry not yet Idle; the release then writes Idle and spawns a task with a
  stale generation. Likewise when another start or an acquisition bumps it in between. A
  release that has read `keep_alive = true` may write Idle after `set_keep_alive(false)`
  looked for an Idle entry. Each leaves an unused entry without a timer until it is used
  or its settings are changed again; `IdleHasTimer` and `IdleIsReclaimed` except them by
  `missed` and say that there is no other way.
* `disconnect_if_idle_timeout` checks once (`1381-1384`) and disconnects afterwards: a
  connection that is kept, taken up or given a child after the check is disconnected all
  the same. The order "flag first, check later" is safe, because the check reads the flag.
* A reconnect does not reset `heartbeat_failures` (`connection_registry.rs:1133`).
* A remote forward unregisters by port once more when it is dropped (`remote.rs:127`),
  which removes the target of a forward that took the port meanwhile. `TargetIsLive`
  states the direction that holds.
* A create that is under way opens its forward over the handle it read before a rebind
  (`manager.rs:108`) and inserts into a manager that was shut down or removed
  (`manager.rs:112`); `RunningIsOwned` still holds, the manager's last holder drops it.
  `restore_saved_forwards` works from the list it was given (`manager.rs:623`).
* Out of step, a YMODEM receiver may take the header of the next file for the 256th
  block, or a 256th block for a header and with it for the end of the batch, so that it
  returns Ok too early; `receive_xmodem` may take a byte of noise for the EOT and return
  Ok for a truncated file; and each late answer or round of noise lets the sender run
  one block further ahead, until block numbers no longer tell a new block from an old
  one (`Surplus` bounds how many it takes). A damaged header is not retried; a lost `WANT_CRC` followed by a NAK switches the XMODEM sender to
  checksums; the sender gives up on its first timeout. `InStep` marks the boundary.
* `restore_server_write` puts a payload before the cancellation (`stream.rs:110-117`).
* A second outage within a millisecond is taken for a duplicate; a full mailbox may evict
  the last event of a key, which leaves the consumer with an older one; an emission read before `prepare_connection_attempt` arrives after it
  (`node_router.rs:306`); disconnecting one of two nodes on a pooled connection removes
  the other's index entry (`runtime_store.rs:864`).

## 4. Proofs

`SharedSftpProofs`, for any set of callers and clearing tasks and any bounds:

* `TypeCorrect`: the type invariant, inductive by itself.
* `MarkerAlwaysHasCreator`: inductive relative to the types. The argument: a task
  stops creating only in a section that also takes away whatever marker is in the
  slot, or finds none; waking tasks never touches a creator (`WokenKeeps`).
* `RemovalAlwaysWakes`: the action property, from the types and `EmptyAndNotifyFacts`.
* `ExistingNotSubstitutedUnderMutex`: with `ClearTasks = {}` a generation names one
  session. The invariant adds `CurrentGrantInSlot`: a grant of the current generation
  is a grant of the session in the slot. It isolates the cause of the finding of run
  `sftp_generation`: the two operations that bump the generation under the mutex are
  sound.

`ConnectionRegistryProofs`, for any finite sets of connections, consumers, threads
and monitors that satisfy `ConnectionRegistryAssumption`:

* `TypeCorrect` and `CountIsExact` (`RefCountMatchesConsumers`), from the inductive
  invariant `CountInv`. The count alone is not inductive: a new dedicated entry is
  given count 1, which is right only because no release of that id is still on its
  way. So `CountInv` adds that an actor between removing a consumer and subtracting
  names an id that was given out, next to the types of the pending calls. The steps
  that leave consumers and counts alone are treated together (`OtherStep`,
  `OtherCall`); `Push`, `PushExisting`, `Remove`, `Decrement` and `AcquireDedicated`
  have a lemma each.

`ConnectionIdleProofs`, under the same assumption, adds `IdleEntryHasTimer`
(`IdleHasTimer`) and `EmptyDedicatedIsRetired` (`DedicatedIsRetired`). Neither property
is inductive: `InFlight` says that somebody works on an entry, not that the work ends
with a timer. `IdleInv`, next to `CountInv`, names the work:

* an unused entry has a timer, or Idle was written without one (`missed`), or one of the
  steps `TendSteps` is pending that take the entry up again, start its timer or retire it
  (`IdleTended`);
* an actor that is starting a timer is about to write Idle (`StartersWrite`), so that
  whoever writes Idle while another start is under way leaves the entry to it;
* a dedicated entry without consumers has `CheckUnused` or `Retire` pending
  (`DedicatedTended`).

Pending steps are the set `Pending(a)` of an actor's current and scheduled calls.
`ContinuePending` says what a step does to it, so that the proofs never speak about
positions in `todo`. Steps that can make no entry unused (`Calm`) are treated together;
releases, acquisitions, timers and retirement have a lemma each. The count is needed
where a consumer arrives: an entry with a consumer is not unused (`ConsumerCounts`).

`ConnectionTunnelProofs`, under the same assumption:

* `CommittedChildHoldsParent` (`TunnelHoldsParent`) and `AncestorConsumerIsReleased`
  (`RetiredChildOwnsNothing`). The inductive invariant `TunnelInv` follows the ancestor
  consumer of a child through its life: while the child is set up, by one actor and
  once, the consumer is there or about to be taken and nobody releases it; a committed
  child holds it; once its release is scheduled the child is not tunnelled and never
  will be again; and a consumer that is on the list is in one of these phases. `Shapes`
  says how a method may go on: nothing is scheduled behind the setup of a child, and
  only the acquisition of the parent before it. Ids are used once, which is why a new
  child meets no setup and no release of its own.
* `UnusedEntryHasNoDescendants`: a registered entry whose count is zero has no
  descendants, because a committed child would be a consumer and be counted. So the loop
  over the descendants in `disconnect_if_idle_timeout` takes a child along only if the
  child was committed, or a consumer added, after the task had read the count.

`TransferManagerProofs`, for any finite set of runs, any transfers and nodes, any
number of permits and any default limit within it. The invariant under all of them is
`Typed`: where a run is determines which id, permit, guard and result it has, and
likewise for the operator, the shutdown and the reader. Steps are split into those of a
run, its `Begin` and all others (`StepKinds`).

* `TypeCorrect`, and `PermitsAreCounted`: the semaphore and `active_count` are
  cardinalities of sets of runs given by their places; a step moves at most one run.
* `ControlsAreOwned`: the same argument over the guards of the runs of one id.
* `NoSleeperIsForgotten`, `NoReaderIsForgotten`: no wake-up is lost. The future exists
  before the comparison, and whoever makes the comparison fail has its notification
  still to send.
* `NoWorkAfterShutdown` (`LateWorkIsCancelled`).
* `ManagerImplementsLifecycle`: the refinement of `TransferLifecycle`. `running` is
  mapped to the number of listed runs that have not reported (`Out`); every step is a
  step or a stutter of the abstract specification, and only `Report` lowers the number.

`ForwardingProofs`, for any rules, ports, connections and tasks and any bounds;
`"none" \notin Rules` and `0 \notin Connections` keep the null values of the model
apart.

* `TypeCorrect` from `Typed`: forwards are listed under their rule, and the place of
  an operation determines what it holds.
* `EveryForwardIsOwned` (`RunningIsOwned`) and `EveryTargetIsLive` (`TargetIsLive`), from
  `Ownership`: a forward is in one map or in the hands of one operation, a running one
  in at least one of them, and a router target is a forward that was not told to stop
  and is with that router's manager or an operation on it. A step lets go, opens, returns,
  takes or drops forwards, or leaves them (`Lets` to `Leaves`), and each class has one
  lemma.
* `NoRuleIsLost` (`RuleNotLost`), from `RuleKept`: a rule nobody deleted is listed, or a
  task that will list it again is at work. Tasks that create or delete do not count,
  which makes it stronger than the property, and inductive.

`NodeEventsProofs`, for any threads, nodes and connections, any capacity above 0 and any
number of calls:

* `TypeCorrect`, `ReliableEventsAreKept`, `MailboxStaysBounded`, `LatestAlwaysSurvives`
  and `NoWakeIsLost`, from one inductive invariant, `LatestInv`. The types alone are not
  inductive: a receive takes an event off the history `unread` when it takes a reliable
  one off the queue, and that there is one follows from `Keeps`. `Keeps` compares queue
  and history by counting positions (`ReliableUpTo`), since what a `SelectSeq` returns
  cannot be unfolded by the provers. `Fresh` says that a numbered event is not above the
  counter that numbered it and is queued or about to be dispatched once, which
  `LatestSurvives` needs where a duplicate is dropped, and `Distinct` that no event is in
  the queue twice, which it needs where the last event of a key is received or evicted.

`XYModemProofs`, for files of any number and length, any modulus above 2, at least two
retries and any number of disturbances. The invariant has four parts, each under the
condition that its property names:

* `TypeCorrect`, from `Typed`: the types, and what the place of a side says about its
  locals. Block numbers and rounds stay within the code's bounds.
* `OkIsComplete` (`OkMeansComplete`), and `OrderKept` (`WrittenInOrder`) as far as it
  speaks of sides in step, from `LinkedInStep`. In step at most one frame, or one answer
  of up to two bytes, is under way while both sides run (`Together`); what is on the
  line is of the block the sender waits for (`LineInStep`), which is the last block
  written or the one behind it (`SenderInStep`); and the number that the receiver
  expects is that of the block behind the last one written (`FilesInStep`). Neither
  order nor completeness is inductive without the contents of the line: a block with the
  expected number is the right one only because no other can be under way.
* `DamageRepaired` (`DamageIsRepaired`), from `CleanRepairs`: line, answers and the places
  of the two sides are one of a few combinations (`Turn`), and every retry on either side
  was paid for by a damaged block (`Paid`), so that rounds do not run out and no timeout
  comes due.
* `OrderKept` for XMODEM out of step, from `NearAhead`: the sender is ahead of the
  receiver by at most `1 + Surplus` blocks, which is less than `Modulus`, so the expected
  number names one block among those under way. The lead alone is not inductive, since
  every answer that is under way may increase it. `Covers` therefore weighs what is under
  way: with `c` the last block that may still be written, only the first `p` frames hold
  blocks up to `c`, only the first `q` answers may be ACKs, and the lead over `c` together
  with `p` and `q` fits into `Room`. A step moves `c`, `p` and `q`, or a disturbance adds
  to `Surplus` what it adds to the line. Noise is paid for in advance, as many rounds as
  the receiver may still refuse it (`Budget`).

Every inductive invariant was checked by TLC on a small instance before it was proved.

Only model-checked:

* the liveness properties `IdleIsReclaimed`, `RegisteredWaiterResumes`, `ShutdownDrains`
  and `Termination`: fairness is outside the prover's reach;
* the five violations, which are counterexamples and need no proof.

## 5. Plan

In this order, each with its MC module and a run:

1. `ReconnectJobs`: phases, retries and late results against cancellation; at most one
   live job per node. Nothing outside its own tests calls this part at this commit.
2. `NodeRouter`: waiting for a connection and the readiness the user interface sees,
   composed with `NodeEvents` and an abstract registry; `Reuse` undoing a cascade, and
   Idle written over LinkDown.
3. The connection of each forward in `Forwarding`, and `ModemStream` below `XYModem`.
4. Tunnelled shared children in `ConnectionRegistry`, and an abstract ownership
   specification (a connection lives while somebody owns it) that it implements.

Not planned: terminal emulation and parsing, file formats and stores, cloud sync,
AI runtimes, user interface, remote desktop helpers and the vendored SSH libraries.
They are mostly data, or third-party code; `PROJECT.json` gives the reason for each.
