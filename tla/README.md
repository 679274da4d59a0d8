# TLA+ models of dev-harness

dev-harness runs a multi-agent software-development pipeline on a workspace:
personas plan the work, a pool of workers implements and tests chunks of it in
git worktrees, an integrator merges them, and a host-wide broker rations calls
to model providers and stops the run at a budget. This directory models the
parts of it where several threads, processes or failures meet, checks them with
TLC on small instances and proves the safety properties with TLAPS.

Paths below are relative to `src/dev_harness`.

## Inventory

| Component | State | Operations | Hard behaviour | What makes it correct |
|---|---|---|---|---|
| Broker daemon (`broker/daemon.py`, `bucket`, `local_limiter`, `reservation`, `cost`, `kill_switch`) | buckets, limiters, reservations, spend, kill switch | RESERVE, COMMIT, RELEASE, drain | a thread per connection, six locks, no lock over a request | budget and rate hold, one interrupt, slots balance, reservations expire |
| Broker clients (`broker/client.py`, `providers/broker_routed.py`) | one socket, one reservation | reserve, call, commit or release | death between two requests, time-out while the server works | capacity is not lost |
| Broker lifecycle (`broker/daemon.py`, `ipc/discovery.py`) | host lock, endpoint file | start, drain, stop, close | two brokers; lock released before the file is removed | a published endpoint belongs to the holder |
| SDLC graph (`engine/pipeline.py`, `routing.py`, `nodes/`) | node, gate, retry counter, chunks | one per node, one conditional edge | retries after partial success | ends, at most the ceiling of retries, integrates only success |
| Worker pool (`engine/worker_pool.py`) | futures, slots, chunk status | claim, wait, settle | status written by executor threads and the scheduler without a lock | isolation, dependencies first, a slot for each claim |
| Worktrees (`engine/worker_workspace.py`, `vcs/worktree.py`) | worker to worktree map, git | bind, write, capture, restore, release | reuse of a worker, leftovers of an earlier run | a chunk's work is on its branch |
| Integrator (`engine/integrator.py`) | primary branch | merge in order | failure in the middle | all or nothing on a conflict |
| Chunk DAG (`engine/dag.py`) | graph | validate, order | - | rejects exactly cycles and orphans, order respects dependencies |
| Checkpoints (`storage/`) | SQLite rows, digests | put, list, verify, quarantine, prune, migrate | ids computed outside the transaction, crash between steps | the newest valid state is found |
| Workspace lock (`storage/workspace_lock.py`) | lock file, owner | acquire, reclaim, release | unlink while others wait on the inode | one holder |
| Recovery (`recovery/`) | - | detect, resume, reclaim | crash at any point of a session | a crash is detected, nothing live is reclaimed |
| Engine daemon (`engine/daemon.py`, `bootstrap`, `commands`, `session`, `shutdown`) | sessions, sockets, endpoint files, seal | spawn, handshake, commands, drain, shutdown | two commands spawn, stale names, a clock that is set back, drain time-out | a workspace keeps its thread, nothing is left behind, the seal is written once |
| Event fan-out (`engine/fanout.py`, `state_broadcast.py`, `ipc/queue.py`) | queue per client | attach, publish, put, drain, detach | no lock anywhere, full queue, attach during publish | queues stay bounded and their counters tell of losses, the snapshot is first, order per source |
| Event stream (`engine/workspace_watcher.py`, `ipc/server.py`, `tui/live_feed.py`, `tui/bridge.py`) | fingerprints, broadcast list, connections, panels | scan, push, read, apply, unmount | late clients, a time-out in a frame, one push thread for all terminals, UI thread and reader waiting on each other | panels show what the watcher saw, delivery goes on unless one of the known blocks holds, quitting ends |
| Gatekeeper (`core/critic*.py`, `contracts/transitions.py`, `engine/hitl.py`) | execution state, acknowledgements | operator and kill-switch commands, approval | several threads read the state, decide and write it without a lock | a stopped run stays stopped once the commands under way are written |
| Interrupts (`core/signals.py`, `process_group.py`, `task_registry.py`) | process groups, tasks | spawn, SIGINT, SIGKILL, cancel | forks and exits between the signals, overlapping calls | no process escapes, no task is forgotten |
| Planning (`engine/dag.py`, `cli.py`, `classifier.py`, `testing/differential.py`) | - | parse, order, ready, select tests, classify | duplicate ids, cycles, unreadable reports | accepts exactly what can be done, skips nothing that could be affected |
| Calls (`engine/context.py`, `overflow.py`, `broker/fallback.py`, `backoff.py`) | health of providers | cut a prompt, recover, fall back, wait | limits at their edges | bounded |
| Display (`tui/throttle.py`, `scrollback.py`, `observability/artifacts.py`) | buffer, live lines, artifact file | push, drain, flush, append, spill | a sink or a file that raises in the middle of a call, rotation, a file that an earlier buffer wrote | nothing doubled or reordered, nothing lost but by a rotation or an error |
| Settings (`config.py`, `secrets.py`, `live.py`, `providers/factory.py`, `auth.py`, `registry.py`, `broker/policies.py`, `ipc/discovery.py`, `transport.py`) | configuration | load, authenticate, build, resolve | file, environment, keyring and endpoint file disagree | the parts of a live run mean the same provider and meet at one endpoint |
| Adapters, rendering, contracts, observability | - | I/O, layout, data | - | - |

The graph calls the pool, the pool its executor threads; those call the model
client (`BrokerRoutedClient`), which calls the broker over a socket. When a budget
is spent the broker sends one STOP to the endpoint that the COMMIT names, if it names
one and somebody listens there (the client of a live run names none, see below).
The engine publishes events to the TUI and seals its state in the checkpoint
store at shutdown. Processes of a host find each other by socket paths and
endpoint files.

`PROJECT.json` lists every component with its status, and under `hazards` the
places where this code is hard to test and which property watches each.

## Modules

### Broker

State: one variable per shared attribute of the daemon (`tokens`, `last`, `sem`,
`in_flight`, `store`, `run_usd`, `day_usd`, `day_start`, `tripped`, `tpm_burn`,
`cumulative_usd`), the clock, the phase of the drain, and for each client a
program counter with its connection, call, reported usage and one local
variable. A client is one call at a time: the workers of a live run share one
`BrokerClient` with one connection (`live.py:82-104`), and each of their calls is a
client here, so `BillBounded` is a bound per concurrent call. On a shared connection
requests take turns; here they interleave as those of separate connections do, which
allows more. A caller waits for the reply, so one counter describes it and the
server's thread.

A step is one critical section. RESERVE is `KillCheck`, `BucketTryAcquire`,
`SemAcquire`, `InFlightInc` or `Refund`, `Create`; COMMIT is `StoreCommit`,
`DeltaRefund`, `Govern`, then `Burn`, `ReadRunUsd`, `WriteCumulative`, or `Trip`
and `Emit`; RELEASE is `StoreRelease`, `ReturnTokens`, `InFlightDec`,
`SemRelease`. The client side is `Reserve`, `ProviderOk`, `ProviderFail` and
`ClientGone` (death or time-out, also while the server works: the thread runs on
and its reply is lost). `DrainStart`, `DrainPoll` and `DrainExit` are `drain`.
`Emit` is one attempt to reach the endpoint that the COMMIT names: with no name
(`Callbacks` says which COMMITs have one), or once the engine has closed its socket
(`EngineGone`), the failure is swallowed. Exceptions the handler does not catch (an
unregistered model) end the thread.

Amounts are whole units, `Costs` and `Actuals` any small set. `debit`, `unbilled`
and `unmetered` are history variables that only properties read. Latency
percentiles, `queue_depth`, HEALTH and METRICS are left out: nothing else reads
what they write.

### Pipeline

Three kinds of actors: the graph (`Groomer`, `Architect`, `Develop`, `Integrate`
with `Merge` and `MergeEnd`, `Critic`, `Hitl`), the scheduling loop (`Scan`,
`Claim`, `ClaimEnd`, `Wait`, `SettleOk`, `SettleErr`, `Close`) and one executor
thread per chunk in flight (`Bind`, `DeveloperOk` or `DeveloperErr`, `Tester`,
`CommitChunk`). Chunk status is one shared variable that scheduler and executors
both write, as in the code.

Git is external and modelled by what the code asks of it: which worktree exists,
on which branch, whose uncommitted work is in it, whose work is on each branch
and on the primary. A merge of an existing branch may conflict. Every step that
runs a command or calls a model may fail. Worktree directories and branches of an
earlier run may be there at the start (`paths`, `Leftovers`): the pipeline removes
neither.

`Deps` and `Rank` stand for a validated `ChunkDAG` and its topological order.

### WorkspaceLock

The lock file of a workspace. The advisory lock belongs to the inode a process
has open (`holder`, `fh`), while `open` and `unlink` go by name (`path`), so the
two are separate variables; `owner` is the PID in the file the path names. A step
is one system call: `Open`, `TryLock` or `LockBusy`, `WriteOwner`, the staleness
test `ReadOwner` and `UnlinkStale`, `Retry` or `LockTimeout`, `Unlock`, `Unlink`,
and recovery's `ReclaimLock` and `ReclaimUnlink`. `Die` drops a process's lock and
leaves the file, at any point. `LockSpec` is the lock by itself.

### Storage

Extends `WorkspaceLock` with the tables of `state.db`. A process runs one operation
at a time: `Put` (the command line: migrate, `Count`, `Insert`), `Shutdown` (the
seal: `put_bound`, so inside the lock), `VerifiedRead`, `QuarantineCorrupt`,
`PruneCheck` with `PruneDelete`, and `Detect` with `Answer`. Connections are in
autocommit mode, so a step is one SQL statement: `ReadLedger` and one `Migrate` per
statement of a migration; `FetchTarget` or `FetchSweep`, `CopyAside`, `DeleteRow`,
`Fallback`, `GetTuple`. `Rot` damages a stored state, `Crash` ends a process.

A row is its scope, its id, the number of the state it holds (`seq`) and whether
its digest matches (`ok`). No caller of `put` passes `created_at`, so it is 0 in
every row and ids alone order rows. Ids are compared as the texts they are (`Text`):
`cp_10` sorts before `cp_2`, and `shutdown` (`SealId`) after every `cp_n`. A
quarantine deletes by key; `raced` remembers the keys at which one copied or deleted
after the row it had fetched was gone. A new session has a fresh thread id, so each
engine has its own scope (`Session`).
`Dead` are processes of an earlier run, whose lock file and rows (`Stores`) may be
there at the start. The git head and worktree columns, `migrate_down` and the
socket that `reclaim` also handles are left out.

### LossyFifo, EventFanout, EventStream

`LossyFifo` is the abstract specification of event delivery: per source in order,
at most once, only what was emitted, anything may be lost. Both event paths
implement it, under an `INSTANCE LossyFifo WITH` whose mapping counts what each
source emitted and names the last envelope each receiver got.

`EventFanout` is `Fanout`, `BackpressureQueue` and `StateBroadcast`. Nothing there
is locked, so `publish` is `Publish` (the iterator remembers the keys of the dict),
`NextQueue`, `NextRaises` (the dict has another size, or the same size and other keys;
`Guarded` publishers survive that, as `MetricsFeed` does) and `Published`, and a `put`
by any thread is taken apart: the length test (`AfterTest`), `Pop` of the oldest item
for a token or `Scan` and `Found` of a token to delete for a control event (the scan
raises over a deque that changes, the index may name another item by then or none),
`Count` and `Store` of the drop counter, which are a read and a write, and `PutAppend`;
`PutGarbage` is all of it on a queue that its client has left behind. `attach` and
`on_attach` are two steps. A control event is refused by a queue full of control
events, and nobody looks at the refusal; a token displaces the oldest item whatever it
is. `evicted` and `refused` are history that only properties read.

`EventStream` is the daemon's path: `ScanOnce` and `EmitChange` of the watcher,
`StreamToken`, the push thread (`PushDrain`, `PushCopy`, `PushNext`, `PushSend`),
`HandleConn` and `PeerClosed` for connections, the reader thread of a terminal
(`ReadFirst`, `ReadRest`, `ReadTimeout`, `ReadGarbage`), which hands each envelope
to the UI thread and waits (`Apply`, `PushRefused`), and `Unmount`, `Unmounted`. A
frame travels in two pieces because a time-out between them loses the first.
`FrameTooLarge` kills the push thread. A reader that ends on garbage leaves its
connection open; once its buffer is full the push thread waits there for good
(`HeadOfLine`), for this terminal and every other. `WatcherStop` does not wait for the
watcher's thread, whose join times out. `MCStream` starts from a watched workspace on
one terminal, or from two terminals that share the stream of an engine without a
watcher.

### HostDaemons

Brokers with their host lock (`BrokerStart`, `PublishEndpoint`, `DrainClose`,
`DrainUnlock`, `DrainRemove`), engines of one workspace (`StreamCleanup`,
`StreamBind`, `ControlCleanup`, `ControlBind`, on TCP `PortBind`, `PublishStream` and
`PublishControl`; `DrainStream`, `DrainControl`, `RemoveStream`, `RemoveControl`) and
`dev-harness --self-check` commands (`ResolveBroker`, `Health`, `Probe`,
`SpawnDaemon`, `Handshake`, `HandshakeDeadline`). What a socket path or an endpoint
file names is a variable of its own, since names outlive processes and are removed
by whoever holds the path. `BrokerKill` and `EngineKill` end a process anywhere.

### Sessions

A thread per control connection handles START_SESSION, ATTACH, DETACH, STATUS and
SHUTDOWN on the registry and sends the reply; one more command may be read after the
stop. `new_session` takes its thread id from a clock that `ClockSet` may set back.
`Press` (the bar) and `Kill` (the kill switch) publish commands, which several threads
(`Handlers`) take through `CriticCommandHandler.handle` without a lock: `HandleRead` of
the gate's state with the look-up in the table, `HandleWrite` of the result,
`HandleNumber` of the acknowledgement, `HandleCount` and `HandleStore` of the counter
and `HandleEmit`. `HitlStart` and `HitlResume` are the approval gate.

### Interrupts

`interrupt_all` over process groups (SIGINT, polling, SIGKILL, `waitpid` with
WNOHANG, `forget_all`) while groups are spawned, fork and exit, a zombie leader
counting as alive, and `cancel_all` of overlapping callers while tasks are
registered, refuse or end.

### Worktrees

Files, index and HEAD of worktrees and of the primary tree, one git command per
step. `job` "resume": `Edit`, `StageAll`, `Commit`, `CaptureMark` (`add -N`),
`CaptureDiff`, `CaptureReset`, `PutBound`, `EngineDies`, then `Reclaim`,
`DeleteBranch`, `Rebind`, `ResetHard`, `Apply`; a diff is replayed only where it
applies. A worker does not write between the mark and the reset of its own capture,
which runs between two of its steps. The diff passes through a process in text mode: `Unix` says what becomes of
an edited content's line ends, a diff with an `Undecodable` content raises, and
`Ignored` files are in no diff. `Tampered` takes a worktree's directory or git's
registration of it away. `job` "restore": `StashPush`, `Checkout`,
`Finally`, `StashPop` of `Restorer.restore`, with `UserEdit` and `UserStash`
anywhere between and `RestorerDies` at any point. The two share no state in the
code, so each behaviour is about one of them.

### Display

Two objects of a terminal's UI thread; a call of a method is one step, and reads the
clock once. `Push`, `Drain` and `ForceFlush` are the throttle: the buffer is emptied
before the sink is called, and the sink may raise at any call, which ends the method
there. `AppendLine` and `AppendRaises` are `ScrollbackBuffer.append` down to
`RunArtifactStore.append`, which loads the file, adds the line, drops the oldest
entries while the file is larger than `CapBytes` and has more than one, and writes
everything again: an error leaves the file as it was, a prefix of it, or half an entry
(`torn`), which no later load can parse. The file may hold the lines of an earlier
buffer (`earlier`), and a buffer may have no file (`store`). `Bytes` is the size of an
entry. Envelopes and lines are numbered as they come; `handed`, `refused`, `rotated`
and `mishaps` are history that only the properties read. A line is a number, so the
redaction that changes its text on the way to the file is left out.

### Planning, Calls, Settings, Launch, Algorithms

Pure code as operators in the form the code computes them: `Planning` (chunks, order,
readiness, test selection with the caller's `all_tests`, reports; with RECURSIVE
operators), `Calls` (token estimate, prompt budget, trace cap, overflow recovery,
fallback chain, backoff) and `Settings` (configuration with all its fields, secrets,
client, policies, registry, endpoints). In `Settings` a value has the type it was
written as and what its text reads as (a whole number, a fraction, a word for a truth
value); pydantic's lax conversion takes the one or the other. Texts of names and modes
are stripped and lowered where the code does so, by the constants `Strip` and `Lower`.
`Launch` asks the
questions about `Settings` and `Algorithms` those about the others: each input is a
`problem`, one step solves it (`answer`), and the properties compare the answer with a
definition of what is right. The inputs of `Launch` are constants (any set of files,
environments, names, keys and endpoints), so that its property can be proved for all.
`MCSequential` gives them values and drives the objects of `Display` beside them.

## Runs

| Run | Checks | Shows |
|---|---|---|
| `broker_safety` | `TypeOK`, `BudgetRespected`, `BillBounded`, `OneInterrupt`, `SlotsBounded`, `RateCeiling` | two clients, one provider with bucket and limiter, two models (one unregistered), a day rollover, a drain, an engine that closes its socket: 3.3 million states up to symmetry |
| `broker_live` | `StopReaches`, `DrainEnds` | a trip leads to the STOP at the engine's socket as long as the COMMIT names it and it listens, a drain ends: the same races with one kind of request, 567,320 states |
| `pipeline_run` | `Isolated`, `SlotAvailable`, `CleanPassVerified`, `Terminates` | four chunks, two workers, two passes, every failure: 506,372 states |
| `storage_run` | `SchemaReady`, `EvidenceIsCorrupt`, `NoKnownCorrupt`, `SealedNotResumed`, `RemovalAccounted`, `SweepCleans` | two processes, all operations at once, over a new store and over one whose ids have passed `cp_9`, crashes and damage anywhere: 2.5 million states up to symmetry |
| `stream_run` | `PanelTruth`, `StreamInOrder` (implements `LossyFifo`), `StreamSettles`, `UnmountEnds` | a changing workspace on a terminal that comes late and quits, or two terminals on one stream with an oversized frame, either of which may break: 562,355 states |
| `fanout_run` | `QueueHonest`, `SnapshotFirst`, `FanoutInOrder` (implements `LossyFifo`) | two publishers race through the steps of `put` over a queue of one while its client comes and goes twice: 673,946 states |
| `daemons_run` | `OneBroker`, `NothingLeftBehind`, `SelfCheckEnds` | two brokers, an outdated engine, two commands that may each spawn one, both transports, kills anywhere: 834,995 states |
| `control_run` | `OneThread`, `StopStands`, `NoSurvivor`, `NoTaskLost`, `RestoredAsCaptured`, `AutostashKept` | two connections and two workspaces over a clock that is set back, three operator commands handled by two threads, two groups of up to three processes, three tasks and two callers, two worktrees with an ignored file and two crashes: 2.5 million states up to symmetry |
| `sequential_run` | `PlanSound`, `EvidenceExact`, `CallsBounded`, `SettingsAgree`, `BatchesKept`, `LinesKept` | the inputs of the pure algorithms and every sequence of calls of throttle and scrollback within the bounds: 3.2 million states |
| `lock_exclusive` | refutes `OneHolder` | two processes hold the lock: `release` unlinks a file that another has locked by then (`workspace_lock.py:21`) |
| `control_kept` | refutes `ControlKept` | a token put into a full queue evicts a control event (`queue.py:3-4`) |
| `moved_aside` | refutes `MovedAside` | a quarantine deletes a healthy checkpoint that was written under the id of the corrupt one, and its content is nowhere (`integrity.py:11-12`, `16`) |

The last three properties are what a docstring says and the code does not do; the
findings in `PROJECT.json` quote the lines. `RemovalAccounted` and `QueueHonest` are
what remains true of removals and of queues.

Bounds. Broker: two clients are enough for every pairwise race between critical
sections; two reservations let one client die with a reservation while the other
goes on, or one client call twice; capacity 2 with requests of 1 and 2 gives
refusals, partial refunds and a full bucket; budget 3 per run and 2 per day with
costs 2 and 3 makes either ceiling the one that breaks, at once or after a
rollover; the clock reaches the end
of a day, an expiry and a drain deadline. Every COMMIT of the runs names the engine
(`Callbacks` is {TRUE}): without a name nothing but the count of interrupts changes,
and it stays 0. Pipeline: four chunks of which two wait
for others and two workers make a worker take a second chunk, several futures
finish in one `wait`, and a dependent run beside another chunk; the ceilings
are the code's (two passes, one repair). With more chunks than workers some
chunk never gets a branch of its own, and its merge raises: in this instance the
graph reaches the critic only over branches an earlier run left (`MCLeftovers`).
Storage: two live processes give every pair of operations, a third PID stands for a
dead owner of the lock file; each live process opens at most one inode, so two
inodes are enough; two scopes tell a session from another. The earlier runs wrote
eleven states, of which nothing, a damaged `cp_0`, or a damaged `cp_2` and a `cp_10` are
left, so that text order and order of writing differ. Two writes and three changes,
each a write or damage (that of an earlier row included), give an id used twice, a seal above a checkpoint, two
damaged rows, so that a sweep works through a list, a fallback and, with `Keep` 1, a
prune. Event stream: two inputs let a file appear and go, and git change in the same
scan as a file. Terminals share the push thread, and a second one matters only through
it: what a watcher publishes and what a token stream publishes pass it alike, so two
terminals are run on the stream alone, with a socket buffer of one frame that the
second envelope finds full. Fan-out: a queue of one and two publishers of two and one
events make every step of a `put` meet every step of another, with tokens, control
events and mixtures; the second attachment meets threads of the first. Daemons: two
brokers for the lock, two spawned engines and one from before for the names; a process
is started once. Control: the parts share no state, so a behaviour is one of a single
part. Clock readings up to 3 tie, advance and go back; a RESUME, a STOP and a third
command are enough for one to overtake another between its read and its write; a
process besides the leader and a fork of it, in two groups, one of which may be
spawned during the sweep; of the contents that are written one has CRLF line ends and one is no UTF-8 (one with
LF comes out of text mode), one file of two is ignored; two crashes fall into a capture and into
the resume after it. Algorithms: plans of three lines, where every cycle, orphan and
duplicate fits; prompts of three messages around the budget; two environment variables
over a file; provider names and modes with capitals and blanks. Display: six envelopes
over a buffer of two and two intervals give batches that are full, due and asked for,
before and after a sink that raises; eight lines of one to six bytes over a screen of
two lines and a file of five bytes, after up to two lines of an earlier buffer, make
the file rotate several times, meet an entry above its size, and fail at every place.

The symmetry set of `broker_safety` is the permutations of the clients, that of
`storage_run` those of the inodes and the swap of both engines together with their
sessions, that of `control_run` those of handlers and of workers (its temporal
property `StopStands` is an action property whose formula treats them alike); none of
them appears in an order anywhere, and `sorted(pgids)` is modelled as any order.
Deadlock is not checked: a broker that is down, a run that has ended and processes that
have died stop.

Fairness. Broker: each server thread, the clock and the drain loop; none is
assumed of clients or providers. Pipeline: the graph, the scheduling loop and
each executor; a suite is killed at its time-out (`nodes/tester.py`; the
`communicate` after the kill, line 181, has no time-out and is assumed to return), git
commands end, and a model call returns or raises, which the HTTP time-outs of the
providers are for. The event loop between the executors and the calls is not an actor:
that it runs is assumed. Event stream: the watcher's, the push, the connection, reader
and UI threads run; nobody has to start a terminal, write or quit. Daemons: a step
of a process that is not killed, and the deadline of the handshake, happen; starts,
drains and kills need not. The other modules state safety only and assume none.

## Proofs

Eight modules hold theorems, each about the components it extends. They hold for
every value of the constants that the component's `ASSUME` allows: any number of
clients, providers, chunks, workers, processes, publishers, groups, files, any
budgets, rates, capacities and dependency graph.

| Module | Theorems (and the property of a run each one states) |
|---|---|
| `BrokerProofs` | `TypeCorrect` (`TypeOK`), `BudgetSafe` (`BudgetRespected`), `InterruptOnce` (`OneInterrupt`), `BillSafe` (`BillBounded`), `RateSafe` (`RateCeiling`), `SlotsSafe` (`SlotsBounded`) |
| `PipelineProofs` | `TypeCorrect` (the module's types), `WorkersIsolated` (`Isolated`), `SlotSafe` (`SlotAvailable`), `PassSafe` (`CleanPassVerified`); `RetrySafe` (at most the ceiling of e2e retries) and `PrimarySafe` (a conflict leaves the primary as it was), which no run repeats |
| `StorageProofs` | `OpenedStoreIsMigrated` (`SchemaReady`), `QuarantineIsEvidence` (`EvidenceIsCorrupt`), `VerifiedReadsVerify` (`NoKnownCorrupt`), `SealedSessionsRest` (`SealedNotResumed`); the action properties `NothingVanishes` (`RemovalAccounted`) and `SweepsFinish` (`SweepCleans`) |
| `FanoutProofs` | `QueuesStayHonest` (`QueueHonest`), `SnapshotComesFirst` (`SnapshotFirst`), `FanoutImplementsChannel` (`FanoutInOrder`, the refinement of `LossyFifo`) |
| `HostProofs` | `BrokerUnique` (`OneBroker`), `DrainsLeaveNothing` (`NothingLeftBehind`) |
| `SessionsProofs` (over `Sessions`, `Interrupts` and `Launch`) | `WorkspacesKeepTheirThread` (`OneThread`), the action property `StoppedRunsStayStopped` (`StopStands`), `InterruptedGroupsEnd` (`NoSurvivor`), `TasksStayCancellable` (`NoTaskLost`), `SettingsMeanOneThing` (`SettingsAgree`) |
| `StreamProofs` (over `EventStream` and `Display`) | `PanelsTellTheTruth` (`PanelTruth`), `StreamImplementsFifo` (`StreamInOrder`, the refinement of `LossyFifo`), `CoalescingKeepsAll` (`BatchesKept`), `ScrollbackKeepsOrder` (`LinesKept`) |
| `WorktreesProofs` | `NoWorkIsLost` (`AutostashKept`), `ResumeRestores` (`RestoredAsCaptured`) |

Almost none of the properties is inductive as it stands. The inductive invariants
say what the properties leave out:

- Broker. `KillInv`: at most one thread is between the trip and the emission, and
  none once the interrupt is out. `BillInv`: a client with refused spend is on its way
  to the trip, or the switch has tripped and the client is not past `KillCheck`.
  `IdInv` and `RateInv`: ids are fresh, so the store agrees with the calls on the
  amount held; what a bucket holds plus `debit` is at most its capacity and the
  refill up to `last`, and a thread about to give tokens back gives no more than
  its call left unused. `SlotInv`: semaphore, count and the clients in the gap between
  the two halves add up to at most the bound, and `in_flight` covers every client
  that holds a slot (cardinalities, with `FiniteSetTheorems`).
- Pipeline. `PoolInv`: only futures in flight run, each with a slot of its own, and a
  chunk waiting to be claimed is PENDING. `SlotInv`: as many slots in use as
  futures in flight until a failure ends the loop. `RetryInv`: a pass starts only
  below the ceiling. `PassInv`: a thread reaches its commit only over a green suite,
  and `completed` counts the settled chunks, so the loop ends only when every chunk
  is. `PrimaryInv`: integration starts from the untouched branch.
- Storage. `StorageInv`. Of the tables: the primary key, one row per state, damage is
  in `rotted`, evidence has the key of its row, a ledger row comes after its
  statements. Of a process: where it can be
  in its operation; what is left of its migration and which columns are there by now;
  the rows it fetched have one row per id, and a row of today that holds a fetched
  state still has the key it was fetched under; a row about to be deleted was copied
  unless it is gone or its key is in `raced`; in a sweep, a corrupt row that is no
  longer on the list is gone.
  The proof goes process by process: `FrameInv` says that a process that does not
  move keeps its part however another one's step makes the tables evolve (`Evolves`),
  so each action is proved for the process that takes it. `RemovalAccounted` needs in
  addition that the rows a prune keeps are `Keep` ones that sort after (`LeastExists`,
  and cardinalities; ids and their texts correspond one to one).
- Fan-out. `BookInv`: types, a thread in a `put` carries its latest envelope, and
  the queue it is at is one its client has or had. `CountInv`: the length of a queue
  and the threads that have passed its length test together stay within the capacity
  plus the number of publishers; drops counted and drops about to be counted are at
  most the evictions, what a thread has loaded of the counter included, and after an
  eviction the counter is positive or somebody is about to make it so. `OrderInv`: what is queued for a client is numbered upwards per
  source, above what the client got, at most what was emitted, and below what a
  publisher still owes the client. Each `Get` is then a delivery of the channel and
  each emission an `Emit`; everything else stutters. `SnapInv`: the snapshot has a
  place in the stream of got and queued envelopes; appends and gets keep the place,
  evictions and refusals show in the history.
- Event stream. `StreamInv`. Numbers: the log of what was published is numbered by
  source, and list, batch and connection each hold a stretch of it, in this order. For
  a terminal there is a cut: what lies before it is applied, on the wire, or lost with
  the connection, what lies after it is still to be sent; the frame ends on the wire
  are increasing and between what was applied and the cut. Each `Apply` is then a
  delivery of the channel. A connection that was never torn is exact: applied, wire and
  what is to come are the log from the place at which it joined. Of the watcher: what
  the log last tells of an item is its fingerprint, or the scan under way is about to
  say otherwise. So a panel that has nothing left to read shows the fingerprint.
- Display. `ThrottleInv`: the batches and the buffer are one list that grows at its end,
  and a buffer that is not empty ends with the latest push; the latter says which
  envelope is lost when the sink raises over a full buffer. `ScrollbackInv`: the file
  has lines before the first one of the screen, in order, all of them up to the screen
  as long as no write failed, and from the earliest on until it rotates.
- Launch. `LaunchInv`: an answer is what the function of its kind computes. The rest is
  about the functions, one lemma each: `Loaded` (when a configuration is valid, and
  which settings and blocks it has), `CoerceText`, `ClientBuilt`, `EndpointTaken`,
  `DefaultsUnregistered` (no default model is in the registry), `PolicyFrom` (the last block taken
  for a provider), `KeysRight`, `BoundEndpoints` and `MeetingsRight`.
- Daemons. `BrokerInv`: a broker holds the lock from its bind to the end of its
  drain. `EngineInv`: in which phases of an engine a name can lead to it, per
  transport and name.
- Interrupts. `SweepInv`: a group the sweep has heard of has had its leader, and when
  its reap comes, what runs in it is doomed and cannot fork. `TaskInv`: the property
  and that an idle call waits for nothing.
- Sessions. `ControlInv`: ids exceed `last_ns` whatever the clock says, and a reply
  under way names the thread the registry has. `GateInv`: a thread that is to write
  holds a legal cell of the transition table, none of which leads out of STOPPED;
  `StopStands` follows step by step, since a thread that reads a stopped gate writes
  STOPPED.
- Worktrees. `UserInv`: work is edited content, which no commit holds; so what a
  checkout or a pop overwrites, being as the HEAD has it, is not work, and what a push
  takes away is in the stash. `ResumeInv`: a record is the decoded
  diff of the tree at its mark, which nobody changes before the diff is taken; when
  `git apply` runs the tree is exactly the recorded HEAD; a restored worker
  is not on the engine's list again before the next crash. `Replayed` is the fact
  about git's operators it rests on: the recorded diff turns the recorded HEAD into
  the recorded files as text mode reads them, because `add -N` has marked the new ones.

Assumptions. They are stated where the constants are declared and evaluated by TLC on
every run. Besides the bounds being numbers: in `Storage`, the stores a run starts from
have the primary key of the table and one row per state, and `MaxWrites` is at most 98
(the listing is limited to 100 rows, and ids have at most two digits); in `EventFanout`,
there are finitely many publishers, none of which is a client or the source of the
snapshots; in `Worktrees`,
edited content, committed content and the marks for an absent, an intended and a
conflicting file are told apart, and what is written to a file is edited content, also after text mode;
in `EventStream`, there are finitely many paths and git's
item is none of them; in `Display`, interval, batch and screen hold at least one
(the constructors refuse less) and an entry has at least one byte; in `Settings`, the
provider ids and `api_key` are lower case without blanks; in `Launch`, a file that is
absent or no TOML has no
settings, settings of a provider are in its block, files and environments are finite,
secrets and models do not have the names that stand for errors, and an endpoint is a
socket path or a host with a port.

Only model-checked:

- the liveness properties (`StopReaches`, `DrainEnds`, `Terminates`,
  `StreamSettles`, `UnmountEnds`, `SelfCheckEnds`), which need fairness;
- `PlanSound`, `EvidenceExact` and `CallsBounded`: depth-first search, topological order,
  reachability and sums over messages are recursions over data, whose result for every
  input needs induction. Nothing about `Planning` can be proved here at all, as its
  operators are RECURSIVE.

## What the models show about the code

Consequences of the code that differ from what a reader, or a comment, expects. Three
are runs that refute the sentence (`lock_exclusive`, `control_kept`, `moved_aside`); the
other properties are stated so that they hold with these.

Broker.
- In a live run no STOP leaves the broker: the endpoint is taken from the COMMIT
  (`daemon.py:305`), `BrokerRoutedClient` sends none (`broker_routed.py:69-76`), and
  the failure to reach nowhere is swallowed (`daemon.py:165-180`); `kill_switch.py:3-6`
  says the STOP goes to the reservation's endpoint. The run is stopped by the refusal
  of its next RESERVE. `StopReaches` holds where COMMITs name the engine.
- `_commit` does not give back the limiter slot that `_reserve` took (`daemon.py:283`),
  so after `max_concurrency` calls a provider is saturated (`local_limiter.py:32` calls
  the count "Currently executing requests").
- `reap_expired` runs only in the drain and returns no capacity (`reservation.py:111`;
  lines 5-7 promise both).
- A model the registry does not know raises before anything is charged
  (`cost.py:49`). The default models of `providers/factory.py` are such models, and
  they also leave prompts without a budget (`live.py:91`).
- A configuration block with an unknown name becomes ollama's policy
  (`policies.py:86`); a variable of the environment that is no field, such as the
  `DEV_HARNESS_WORKSPACE` that `bootstrap.py:217` sets, makes `load_config` fail, and so
  does `DEV_HARNESS_API_KEY`, which is no secret's name without a provider
  (`config.py:81`); so does a text that looks like a number for a text field, such as
  `keep_alive` 300 (`config.py:63`). `--provider Anthropic` builds a client, but the
  broker knows only the lower-case name and refuses every RESERVE (`daemon.py:252`).
  No caller names the key
  file that `auth.py` recommends.
- A broker that drains releases the lock and then removes the endpoint file, which
  may by then be its successor's (`daemon.py:355`); the daemon ignores
  `broker.endpoint`, which clients honour; a socket path of one's own is never
  published (`discovery.py:31`); a listener on a stale port is taken for the broker.

Pipeline and planning.
- A worker's second chunk is developed and committed on the branch of its first
  (`worker_workspace.py:95`; `integrator.py:3-4` says each chunk has its own), and a
  chunk without a branch makes the integration raise.
- A retry that stalls without a FAILED chunk is routed to integration
  (`pipeline.py:271`).
- A dependent may start before its dependency's suite has run (`developer.py:131`).
- `estimate_tokens("")` is 2, so a prompt of n messages exceeds a budget below 2n
  (`context.py:8-9` and `79-81` say it always fits). `cap_trace` with `tail` 0 returns all lines.
- A generated id `c{n}` may repeat an explicit one; the earlier chunk is dropped
  (`cli.py:176`, `dag.py:72`). `ready_chunks` is in topological order.
- A change to a package's `__init__` that only runs because a module of the package
  is imported, or one behind a relative import, selects no test (`differential.py:8-10`
  says the set is exact). Without a graph the selection is the caller's `all_tests`,
  which by default is empty (`differential.py:141`; lines 11-13 say that the fallback
  is the full suite).
- On a conflict the integrator's `reset --hard` also drops what the user has not
  committed in the primary tree (`integrator.py:139`; not in the model, which has no
  such edits there).
- `2**attempt` overflows a float from attempt 1024 on (`backoff.py:44`); jitter is
  added above the maximum, so at the ceiling a later wait can be shorter.

Storage and recovery.
- A quarantine deletes by key what it copied earlier, and ids are used again, so a
  healthy checkpoint can be deleted with its content nowhere (`moved_aside`); a second
  corrupt row under an id replaces the evidence of the first (`integrity.py:98`).
- Ids are compared as texts, so from `cp_10` on "newest" is not the latest: a prune may
  keep `cp_9` and delete `cp_10` (`retention.py:1`, `13`).
- A seal of any session is the newest row of all, and hides later crashes
  (`sqlite_saver.py:79`, `session_recovery.py:79`).
- `git add -N -A` stages deletions, so a capture has neither those nor what was
  staged (`worker_workspace.py:181`; lines 167-170 promise both); `Recorded` in
  `Worktrees` is the condition under which files come back. The diff is read in text
  mode (lines 151-156): CRLF comes back as LF, a change that is no UTF-8 makes the
  capture raise, and ignored files are not in it (lines 22-23 say "restore is exact:
  same file set, same contents").
- An untracked file keeps the tree dirty, so the autostash is not popped
  (`restore.py:50`); on a clean tree `autostash` pops a stash of the user's.
- No code writes the `.pid` files that `reclaim` looks for, so it takes a live
  engine's worktrees and socket for dead (`reclaim.py:79`).

Engine, events, interrupts.
- A publisher that is iterating when a client attaches or detaches raises
  (`fanout.py:33`), and its thread ends unless it swallows exceptions; a delta
  published between `attach` and `on_attach` precedes the snapshot.
- `put` is not atomic: a queue may hold more than its capacity, by one for each other
  thread; `dropped_frames` may count less than was dropped, though never nothing; a
  token may evict a control event (`control_kept`), and the refusal of a control event
  is discarded (`fanout.py:34`).
- A RESUME that has read PAUSED writes RUNNING over a STOP that was acknowledged in
  the meantime (`critic.py:42-46`, `critic_commands.py:55-67`): `StopStands` holds only
  from when every command under way has been written.
- A terminal whose reader ended on garbage keeps its socket open
  (`live_feed.py:104-108`); when its buffer is full, the push thread waits in `sendall`
  without a time-out and no terminal gets anything any more (`server.py:105-108`).
- Two commands may spawn two engines; the second unlinks the first one's sockets and
  the first one's drain then removes the second's (`bootstrap.py:209`).
- A time-out inside a frame tears it and the rest is read as a header
  (`live_feed.py:139`); an oversized frame ends the push thread (`server.py:108`).
- A push over a full buffer whose sink raises loses the pushed envelope as well
  (`throttle.py:81`; the batch itself is handed over once, as lines 92-94 say).
- The artifact file drops its oldest lines at 1 MB and redacts the others
  (`artifacts.py:39-50`), while `scrollback.py:7` and `11-12` say that "history is never
  lost from disk" and that `all_lines()` reconstructs it exactly; a write that fails
  leaves a prefix of the file, or half an entry that makes every later spill raise
  (`artifacts.py:31`), and the line has left the screen by then.
- A bad command closes the control connection (`commands.py:307` says it stays
  open); replies always say READY; PAUSE while READY is acknowledged without a pause.
- STOP and Reject also run the approval node (`hitl.py`).
- A group spawned during `interrupt_all` is forgotten with the rest
  (`signals.py:139`); a leader may stay a zombie (`signals.py:9`); a pid that is used
  again is signalled (`process_group.py:73`, outside the model).

## Plan

Done: all modules above, and theorems on every safety property except the three about
recursive algorithms. What could follow: the fallback chain and the prompt builder as
loops with a step per provider and per message, whose bounds would be invariants of the
loop; the event loop of a run as an actor between executors and calls; `OllamaLoader`.

## Not modelled

- Provider adapters, tokenizer tables, rendering, layout, key bindings, logging,
  redaction: I/O and data conversion without state that another part
  reads.
- `OllamaLoader`, whose one caller is the providers' command line
  (`providers/cli.py:100-102`), and `PauseSealer`, which has none outside tests and
  scripts.
- The execution canvas, which stores tokens by number and joins them in that order.
- `EventRouter` (a table of handlers), the byte layout of frames, `migrate_down`, the
  namespace guard, `vcs/edge_cases.py` (read-only checks).
- `scripts/`: acceptance and chaos drivers that exercise the parts above.
- The system-wide composition: the modules meet at narrow interfaces (a reservation,
  an envelope, a checkpoint row, an endpoint), and each models the other side of its
  interface by all that the interface allows.
