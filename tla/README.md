# A TLA+ verification of the pi agent core

pi-oxidized is a coding agent: five Rust crates (`pi`, `pi-agent`, `pi-ai`,
`pi-ext`, `pi-tui`) and a TypeScript extension host. This project models and
checks the parts on which everything else rests:

- the agent loop of `crates/pi-agent/src`: who may run, what happens to every
  message, what subscribers are told, how a provider stream and a batch of tools
  end when they are cancelled;
- the durable harness of `crates/pi-agent/src/harness/runtime`: operations that
  survive a crash, and the lanes that admit them;
- the services of `crates/pi-agent/src/service`: replicas of a published state, and
  the endpoint that serves them to a remote consumer;
- the credential store of `crates/pi-ai`: several processes, one file, one lock.

Contents: [inventory](#inventory), [modules](#modules), [runs](#runs),
[bounds](#bounds), [fairness](#fairness), [proofs](#proofs),
[findings](#where-the-code-and-its-documentation-disagree),
[what is left out](#what-is-not-modelled), [plan](#plan).

## Inventory

### The agent loop (`crates/pi-agent/src`)

| Component | State | Operations | Correct when |
|---|---|---|---|
| `agent.rs`: `Agent` | `RunState` (active token, streaming flag), `AgentState` (messages, streaming message, error), two queues, the partial watch, the idle `Notify` | `prompt`, `continue_run`, `abort`, `reset`, `steer`, `follow_up`, `clear_queues`, the two `set_*_mode`, `push_message`, `pop_last_if_assistant`, `replace_last_assistant`, `replace_messages`, `wait_for_idle` | one run at a time; a run only extends the transcript; no message is lost or duplicated; a waiter is always woken |
| `run.rs`: the turn loop | the locals of `run_loop`: context, delta, pending messages, the explicit continuation | first poll, request, stream, tools, `finish_turn`, steering poll, preparation, follow-up poll, error exit | context, delta and published transcript agree; every event is properly nested; a `Continue` decision yields a request; an abort settles the run |
| `queue.rs` | a sequence and a drain mode | enqueue, drain, clear, set mode | first in, first out; one message per drain in one-at-a-time mode |
| `state.rs` | the reducer of events into `AgentState` | `reduce`, `finish_run`, `reset_transcript` | the transcript is what was published |
| `bus.rs` | a bounded queue per subscriber, a bounded channel per extension | subscribe, `emit`, `recv`, `try_recv`, drop of either side | no silent loss, the newest terminal survives, no stuck receiver, extensions see a prefix and one lag signal |
| `schedule.rs`, `tool.rs` | worker pool, slots, update channel, `ToolUpdates` (accepting, in flight) | truncated, sequential and parallel batches | one end per start, results in source order, late updates only after a panic, cancellation always settles |
| `drain.rs` with `stream_assistant_response` | a bounded channel, the partial watch, the drain task | read, forward, final item, cancel, join, clear | one final message, lossless until then, no partial after the return, cancellation always returns |

### The durable harness (`crates/pi-agent/src/harness/runtime`)

| Component | State | Operations | Correct when |
|---|---|---|---|
| `drive.rs` with `gate.rs`, `stream.rs` | the operation's records on disk, its copy in `LaneData`, the drive's snapshot, the drive gate | every procedure of a drive: run start, checkpoints, generation, commit of the response, retry, tools in sequence and in parallel, compaction, branch summary, navigation, settlement | no request and no tool call is issued twice, over crashes too; a commit is refused as a duplicate only after an abort or a compaction cut between its commits; failing requests end at the attempt limit; a run completes only with an answer; it settles once |
| `admission.rs` `request_abort` | its clone of the operation | read, commit, apply, signal | an abort does not bring back a settled operation |
| `restore.rs` | | restart after a crash | memory is rebuilt from disk |
| `admission.rs`, `lane.rs` | `LaneState` on disk and in memory, pending payloads, the branch, `active_drive`, the idle `Notify` | `steer`, `follow_up`, `next_run`, `cancel_queued`, `append_message`, `accept`, abort, drain, settle, `wait_for_idle` | every queued entry ends in exactly one place; the branch never forks (unless driven during an admission); an idle waiter is woken |

### Services (`crates/pi-agent/src/service`)

| Component | State | Operations | Correct when |
|---|---|---|---|
| `replicated.rs`: source and replica | sequence, value, the queue behind the draining thread, listeners; at the consumer sequence, value, revision, epoch | publish, subscribe, hydrate, apply a delta, wipe | a replica holds the publication its sequence names, and never one of an earlier binding |
| `provider.rs` | subscribers with their buffers | provide, register, subscribe, activate, emit, withdraw | nothing stays in a buffer of an active subscriber |
| `binding.rs`, `binding/facade.rs` | revision, cancellation, the subscription, the start task | start, rebind, stop, revalidate | once everything is quiet the replica is the current value or cold |
| `endpoint.rs` | `EndpointState`, a worker and a bounded queue per subscription | subscribe, unsubscribe, dispose, delivery, overflow | what is delivered is what the provider told, without a gap; a consumer that misses updates is told; dispose leaves nothing |

### The credential store (`crates/pi-ai/src`)

| Component | State | Operations | Correct when |
|---|---|---|---|
| `lockfile.rs`: `LockGuard` | the lock directory: inode, mtime | create, stat, reclaim a stale one, check ownership, refresh, release | a live lock is not taken away |
| `auth/file_store.rs`, `auth/resolve.rs` | `auth.json`, each process's cache, the provider's refresh token | read, modify, atomic write, OAuth refresh under the lock | a refresh token is presented once; a write that was reported is not undone |

### How the parts interact

A caller's task executes its own run: `prompt` acquires the token under the run
lock and runs the loop inline. Everything else that holds a clone of the `Agent`
acts concurrently through the locks: queues are shared with the loop, `abort`
cancels the token that the loop, the stream and the tool workers all watch,
`wait_for_idle` reads the run state and sleeps on a `Notify`. The loop emits
events synchronously into the sink, which reduces them into the state and fans
them out; a subscriber never blocks the loop. A provider stream is read by a task
of its own, tools run in tasks of their own.

The durable harness is a second loop, beside the first: it uses the same provider
and tool interfaces, but every decision goes through the session store. A lane
admits one operation at a time; a drive carries the operation out in transitions
that write disk and memory under the lane's data lock, while queue operations,
admissions and aborts write the disk under the session's mutation permit and
converge the memory afterwards. Two locks guard one pair of copies, which is where
its hazards are.

A service state is published by any thread; a publication runs the listeners of the
source, the provider's subscribers and, through the transport, the replica and its
listeners on the publishing thread, and each of these may publish again. The
endpoint puts a queue and a worker between a provider's subscription and a remote
consumer. The credential store is used by whatever needs an API key; its other users
are other processes.

What makes this hard: every await and every unlock is a point where another task
steers, aborts, resets, prompts or publishes; cancellation races with ready results;
hooks may fail at any of six call sites; a message lives in up to four places and
moves between them without a common lock; wake-ups are edge triggered; a process may
die between an effect and its record. The list of hazards with their source lines is
in `PROJECT.json`.

### The rest of the system, not modelled

| Component | State and operations | Hard behaviour |
|---|---|---|
| agent session (`crates/pi/src/core/agent_session`) | event pump, persistence, deferred bash results, retry, compaction | acts on the live transcript after awaiting extensions while the run goes on |
| session runtime (`agent_session_runtime.rs`) | current session, switch, teardown | a switch during a run |
| durable session store (`pi-agent/src/session`), session files | entries, branches, commit validation, the backends | concurrent writers, fork |
| keyed services, method calls, `ready`, codecs (`service`) | instances by key, invocations, deltas on the wire | replacement of an instance with calls open |
| `crates/pi/src/core/lockfile.rs`, settings and trust | a second lock file, merged settings | stale locks |
| extension RPC, host process, runtime set (`pi-ext`, `core/extension_runtime_set`) | pending requests, host process | exit of the host with requests open |
| remote sessions (`crates/pi/src/remote`) | attachments, replay cursor | reconnect, two clients |
| providers, catalog, tools, modes, terminal interface, packages, scripts | formats, I/O, rendering | mostly sequential |

## Modules

| Module | Models | Role |
|---|---|---|
| `PendingQueue` | `queue.rs` | operators used by `AgentRun` |
| `AgentRun` | `agent.rs`, `run.rs`, `state.rs` | the core state machine |
| `AgentContract` | what callers rely on | abstract specification that `AgentRun` implements |
| `EventBus` | `bus.rs` | its own state machine |
| `ToolBatch` | `schedule.rs`, `ToolUpdates` of `tool.rs` | the step `Tools` of `AgentRun` in detail |
| `ProviderStream` | `drain.rs`, `stream_assistant_response` | the steps `StreamStart` and `Finalize` of `AgentRun` in detail |
| `StreamContract` | what the loop relies on | abstract specification that `ProviderStream` implements, liveness included |
| `HarnessDrive` | `drive.rs`, `request_abort`, `restore.rs`, `gate.rs`, `stream.rs` | one durable operation, with crashes |
| `HarnessLane` | `admission.rs`, `lane.rs`, `drain_inbox` and `settle` of `drive.rs` | a lane's inbox and its operations, with crashes |
| `CredentialStore` | `lockfile.rs`, `file_store.rs`, `resolve.rs` | processes that share `auth.json`, with crashes |
| `ServiceReplication` | `replicated.rs`, `provider.rs`, `binding.rs`, `facade.rs` | a state member and its replica |
| `ServiceEndpoint` | `endpoint.rs`, the emission of `provider.rs` | the delivery of a subscription to a remote consumer |
| `MCAgentRun`, `MCHarnessLane`, `MCCredentialStore`, `MCServiceReplication` | | symmetry for TLC |
| `AgentRunProofs` | | theorems about `AgentRun` |
| `EventBusProofs`, `ToolBatchProofs` | | theorems about `EventBus` and `ToolBatch` |
| `HarnessDriveProofs`, `HarnessLaneProofs` | | theorems about `HarnessDrive` and `HarnessLane` |
| `CredentialStoreProofs` | | theorems about `CredentialStore` |
| `ServiceReplicationProofs`, `ServiceEndpointProofs` | | theorems about `ServiceReplication` and `ServiceEndpoint` |

**AgentRun.** `active`, `isStreaming` are `RunState`; `agent` is `AgentState`;
`cancelled[c]` is the token of the run that caller `c` executes; `loc[c]` holds the
locals of that run and `pc[c]` the await point or lock scope it has reached. One
action stands for the code between two such points:

| Code | Actions |
|---|---|
| `start_run`, two lock scopes | `Prompt`, `SetFlags` |
| `begin_continue`, one lock scope | `ContinueRun` |
| `run_lifecycle`, `run_agent_loop[_continue]` up to the first poll | `Launch` |
| the polls of `run_loop` and `prepare_continuation` | `FirstPoll`, `SteerPoll`, `Prepared`, `FollowUpPoll` |
| the hooks, each with its error exit | `Prepare`, `Request`, `FinishTurn`, `Terminal` |
| the provider stream | `StreamStart`, `Finalize` |
| the tool batch | `Tools` |
| the cancellation checks | branches of `Prepare`, `Prepared`, `Polled`, `Steered`, `FinishTurn` |
| `finish_run`: error branch, lock scope, notification | `Fail`, `Release`, `NotifyWaiters` |
| `wait_for_idle`: create the future, check, await | `WaitArm`, `WaitCheck`, `WaitSleep`, `WaitWake` |

Messages are model values that are submitted once, so that a lost or doubled
message can be recognised. A transcript entry is a role and an identity; an
assistant message is its stop reason, with `"done"` for both `stop` and
`toolUse`. One `toolResult` entry stands for the ordered results of a batch; their
order is `ToolBatch`'s business. A compaction replaces messages by one `Summary`.
`obs` is the state of an ideal, lossless subscriber; `base`, `seed`, `since`,
`promised`, `sent`, `steered`, `cleared` and `dropped` are history variables.
The transcript mutators have the guard their documentation demands ("Callers must
serialize mutations with the prompt lifecycle"); whether the agent session keeps
it is a question for its own module (see the plan).

**EventBus.** An event is its position in the emission order. The emitter follows
the order in which `run_loop` emits, because which terminal may follow which
decides what eviction can destroy. `recv` is split at its await; `permit` is the
stored permit of tokio's `Notify`.

**ToolBatch.** The coordinator's cursor and phase, a worker per call, and
`ToolUpdates` split where `send` leaves its lock. A tool may keep its handle after
it returned or panicked. The model admits one update of a call in flight at a time.

**ProviderStream.** The drain and the consumer step separately; a provider may
yield items after a final, fail, or stay silent for ever.

**HarnessDrive.** `disk` is the durable record of one operation and of what it
committed to the branch, `mem` the copy in `LaneData.operation`, `snap` the drive's
snapshot, `work` the locals of the procedure it is in, `gate` and `opts` the gate and
the options of the active drive. A drive reads `mem` (`ReadOperation`), dispatches on
its state (the disjuncts of `DriveStep`, one per procedure, split at its awaits) and
writes `disk` and `mem` together (`Transition`). An abort is another task in four
steps: `AbortRead`, `AbortCommit`, `AbortApply`, `AbortSignal`. `Crash` drops
everything but `disk`; `Restore` rebuilds `mem` and validates the state against the
intent. Intents are a run, a compaction, a navigation, and a navigation with a branch
summary. Any commit may fail, those of the stream's observer and of an abort included,
which seals the harness (`StoreFails`, `AbortCommit`); and an error may end a drive
between any two of its steps with the operation left open: a failing hook, a model,
navigation target or summary model that is no longer there, a cancelled context
(`DriveError`). The history variable `cut` remembers that a drive has ended between the
last entry of an operation and its result. Messages queued on the lane are only counted.
The model begins when the admission has returned; a drive of an operation whose admission
is still under way is in `HarnessLane`.

**HarnessLane.** `disk` is the session's `LaneState` with the payloads, the branch and
the operation records, `mem` the copy. A client is between its commit and its
convergence of the copy (`Apply`, `Admitted`), or between the reservation of an
operation and its commit (`Accept`, `Admit`). A drive may begin during an admission:
`abort` and `execution_info` show the reservation as the current operation, and `abort`
drives it (`lane.rs:563`); `driven` is the operation the drive was started for, and the
history variable `early` remembers that one was started early. An abort of a mere
reservation finds no durable record and returns without marking anything. `drive`, `owed`,
`waiter` and `woken` are the four pieces the idle protocol consists of. Entries are the ids reserved for them;
operations are runs. A selection from the inbox is written as the items at a set of
positions, in their order (`ItemsAt`), which is what the code's filters and its loop in
`select_inbox` return and what can be reasoned about without induction over a sequence.

**CredentialStore.** Every file-system call is a step of a process: create the
directory, stat it, look again, remove it, open it, check ownership, read, write,
check again, unlink. `dir` is the lock directory's inode, its living creator and
whether its mtime is stale; a guard remembers the inode it holds open. The
environment expires tokens, ages the lock of a dead process and crashes processes. A new
directory gets an inode that nobody remembers or, where `ReusesInodes`, one that only a
contender still remembers.
The provider accepts each refresh token once (external).

**ServiceReplication.** A thread is a stack of frames; a frame is a lock scope or a
listener call still to come, and a listener may push a publication of its own. The
value of publication `n` is the number `n`; an update carries the delta from `n - 1` to
`n`. Applied to any other value, such a delta fails, gives a value that nobody published
(`Spoilt`), or happens to fit (an assignment does, an append, a truncation or a splice does
not): `Applied` is the set of these outcomes. A failed application is reported and leaves
the replica as it was. The snapshot is read in two steps, sequence and value, because the
code takes the state's lock twice; `replica.torn` records that they differed. A
subscription is named by the revision of the binding it was made for.

Left out: the `Replaced` case of `SingletonBinding::update` (`binding.rs:528`), the
publication of pending mutations with which `subscribe_inner` begins (`provider.rs:791`;
here a mutation and its publication are one step, so nothing is pending), and the
internal-error exits of `publish`.

**ServiceEndpoint.** All calls use one subscription ID, because that is where they can
confuse one another; the generation of a subscription is the number of its subscribe
call, which is also its token. A step is a lock scope or an await. The provider is that of
`provider.rs`: `EmitUpdate` puts a publication into a subscriber's buffer, or, when its
thread already owns the subscriber from an outer listener, tells it at once
(`Overtakable`); `DrainSubscriber` tells the buffered updates; `Activate` and `CloseFeed`
begin and end it. Sequences are those of the publications; whether a snapshot already
counts a publication that is emitted later is a matter of `ServiceReplication`. `told` is the
history of what the provider has told the endpoint's listener.

## Runs

| Run | Question | Result |
|---|---|---|
| `agent_run_hooks` | With hooks that fail, inject and replace, does one run at a time own the agent (`SingleRun`, `ImplementsContract`), do transcript, delta and context agree (`TranscriptContract`, `ContextFollowsTranscript`), is the event stream well nested (`EventProtocol`), is `Continue` honoured (`ContinueHonoured`)? | holds, 2.8 million states |
| `agent_run_queues` | Is every submitted message in exactly one place (`Conservation`), is steering delivered in order (`SteeringInOrder`)? | holds, 2.6 million states |
| `agent_run_waiters` | Is the wake-up of `wait_for_idle` ever lost (`NoLostWakeup`), does it return (`WaiterReturns`), does an abort settle the run (`AbortLeadsToIdle`)? | holds, 78 thousand states |
| `event_bus` | Is every loss observable (`LossIsObservable`), does the newest terminal survive eviction (`NewestTerminalRetained`), does an extension see a prefix and one lag signal (`ExtensionContract`), does a waiting `recv` return (`ReceiverReturns`)? | holds |
| `tool_batch` | With panics and cancellation: one end per start (`StartsAndEndsPair`), source order (`ResultsInSourceOrder`), an update after the end only of a call that panicked (`LateOnlyAfterPanic`), a cancelled batch returns (`CancelSettles`) | holds |
| `provider_stream` | Does the stream implement `StreamContract`, its liveness included (`KeepsContract`)? | holds |
| `harness_drive` | With an abort, a crash, failed commits, errors at every step and retries: is a request or a tool call ever issued twice (`EffectsAtMostOnce`), is a commit refused as a duplicate without an abort or a compaction whose drive ended between its two commits (`DuplicatesExplained`), does memory agree with disk between drives (`MemoryFollowsDisk`), is a completed run answered (`CompletedIsAnswered`), does a sequence of failing requests end at `max_attempts` (`RetriesBounded`), is settled final (`SettledForGood`)? | holds, 4.3 million states |
| `harness_lane` | With two clients, a crash and drives that may begin during an admission: is every queued entry in exactly one place (`ExactlyOnce`), does the branch stay a chain unless a drive began too early (`NeverForks`), is a `wait_for_idle` woken (`NoLostIdle`)? | holds, 5.5 million states |
| `credential_store` | With two processes and a crash: is a live lock spared (`FreshLockSpared`), is a refresh token presented once (`TokenUsedOnce`), does a reported write survive (`AckedSurvives`)? | holds, 6.0 million states |
| `service_replication` | With concurrent and nested publications, a rebind and a withdrawal: is the replica's value the publication its sequence names, unless the snapshot was torn (`HoldsItsLabel`), has it nothing of an earlier revision (`NoResurrection`), is no update stranded in a buffer (`NothingStranded`), does it end with the latest sequence and value, or cold (`SettledIsCurrent`)? | holds, 4.2 million states |
| `service_endpoint` | Is what is delivered what the provider told, in that order and without a gap (`GaplessDelivery`), is a consumer that misses updates told (`NeverSilent`), is nothing left after dispose (`DisposeLeavesNothing`), does dispose return (`DisposeReturns`)? | holds, 825 thousand states |
| `harness_restorable` | Can every operation that a crash leaves behind be restored, as `harness.rs:180` says (`Restorable`)? | violated, see below |

`CHECK_DEADLOCK FALSE` is set everywhere: an agent whose runs and messages are used
up, a closed bus, a finished batch, a settled operation and a disposed endpoint
rightly stop.

Most of these are invariants over history variables that take several steps of two
actors to break; for each property `PROJECT.json` names a mutant of the code's logic
that breaks it. Some are weakened by what the code does not promise or does not keep, and
say so in their definition:

- `TokenUsedOnce` and `AckedSurvives` except the gap between the second look and the removal
  in a reclaim, which `lockfile.rs` documents;
- `NeverForks` excepts a drive that began during an admission (`early`, finding 12);
- `HoldsItsLabel`, and `SettledIsCurrent` in what it says of the value, except a replica that
  grew from a torn snapshot (finding 14);
- `CompletedIsAnswered`, `RetriesBounded` and, for compactions, `DuplicatesExplained` except
  an operation whose drive ended between its last entry and its result (`cut`);
- `NoLostIdle` excepts an admission that was undone (finding 11).

## Bounds

- `AgentRun`. `MaxRuns = 2`: the second run starts from a transcript, queues and tokens
  that the first one left; nothing in the code counts runs. `MaxTurns = 1`: at most one
  turn asks for another by tools or `Continue`; together with steering and follow-ups a
  run has up to four turns, so that "first turn", "later turn" and "turn after a
  context-only turn" all occur. `Callers`: two, one running and one interfering; a
  third adds no new relation as only one can be past `start_run`. `Waiters`: one,
  waiters do not interact. `Msgs`: two with hooks, three without (two may be steered
  while a third is the prompt or a follow-up). `HookPowers`: empty in the queue and
  waiter runs, full in the hook run.
- `EventBus`. `SubCapacity = 1` is clamped to 2 by the code, `ExtCapacity = 2`; six
  events fill both and evict past a terminal.
- `ToolBatch`. Four calls over `MaxParallel = 2`: the pool is full and refilled; one
  update per call over an update channel of one: a send waits.
- `ProviderStream`. `Capacity = 2`, `MaxItems = 6`: the channel fills and drains.
- `HarnessDrive`. Two tool calls (a pair in parallel), two attempts (a retry and its
  exhaustion), three ids (one request more than the attempts allow, or a compaction and two
  responses), one queued message, one abort, one crash. Of these at most four together, an
  abort counted twice (`MaxTogether`): three requests and a crash or a queued message, two
  requests and an abort, a request with an abort and a crash, and so on. The theorems hold
  for every value of these bounds.
- `HarnessLane`. Two clients, one waiter, one crash, and together at most four entries and
  operations (`MaxWork`): three entries around one operation (a prompt, a queued message and
  a response or an append), or two operations with their prompts. One kind of queue entry:
  kinds differ only in when they are selected. Ids of operations are not reused in the run;
  the theorems allow it.
- `CredentialStore`. Two processes, three tokens (each process can refresh once after
  the other), three writes, one crash.
- `ServiceReplication`. Two publishers, two publications in flight or nested, one
  rebind, one withdrawal, at most two of the calls that interfere.
- `ServiceEndpoint`. Two subscribe calls on one ID (the second replaces the first), three
  updates and a queue limit of two: the queue overflows, and an update can overtake another.
  The safety properties were also checked with four updates (6.5 million states), where an
  update arrives behind the overflow marker, and with three subscribe calls, one update and
  a limit of one (768 thousand), where a late completion removes a newer call's reservation.

Symmetry of callers, messages, clients, processes and publishers is used in safety
runs only, never with a liveness property.

## Fairness

`AgentRun!Fairness`: a task that can run is polled by the tokio executor, hence weak
fairness of the loop's own steps and of a woken waiter. Hooks are taken to return;
`config.rs` asks preparation hooks to honour the token. The provider and the tools
owe nothing until the run is cancelled; after that the selects on the token end the
stream and the batch, which is what `ProviderStream` (`KeepsContract`) and `ToolBatch`
(`CancelSettles`) establish: there tools, after hooks and the provider have no
fairness at all. `EventBus!FairSpec`: a receiver that waits is polled once woken.

`ServiceEndpoint!FairSpec`: tasks are polled, provider and transport answer; callers owe
nothing. `HarnessDrive` and `HarnessLane` have no fairness: a drive may return with its
operation open, and whether anybody drives on is the owner's business (`run_to_result`
drives once and returns an error for an operation that waits), so that no operation is
bound to settle.

## Proofs

Each theorem holds for every value of the constants that satisfies the module's named
assumption; TLC evaluates the assumptions in every run. None restricts what the code
allows: the bounds are any natural numbers, the sets of callers, messages, clients and
processes are arbitrary (that of processes is finite, so that there always is an inode
nobody remembers), a batch has at least one call, a retry policy at least one attempt, a
queue room for at least one update.

### `AgentRun`

Assumption: `AgentRunAssumption`.

| Theorem | Statement | Argument |
|---|---|---|
| `TypeCorrect` | `Spec => []TypeOK` | one lemma per group of actions, over lemmas on the types of the helpers |
| `SingleRunHolds` | `Spec => []SingleRun` | inductive with `TypeOK`: every step of the loop before `Release` is a move between owning positions (`LoopMoves`), every caller operation leaves the run alone or acquires it (`CallerMoves`) |
| `NoLostWakeupHolds` | `Spec => []NoLostWakeup` | inductive with `SingleRun`: the run flag is cleared before the notification, and the future exists before the check |
| `EventProtocolHolds` | `Spec => []EventProtocol` | needs `ProtocolInv`: the bracket a subscriber is in is determined by the position of the active run (`PhaseAt`), by `added` while streaming, and by `terminal` in the error branch |
| `TranscriptContractHolds` | `Spec => []TranscriptContract` | needs `TranscriptInv`: a run that has not launched has an empty delta; then each step appends the same entries to transcript, tracked messages and delta, or none (`QuietJoins`, `JoinFields`) |
| `AgentImplementsContract` | `Spec => ImplementsContract` | from `TypeOK`, `SingleRun` and `TranscriptInv`: caller operations map to `Begin` or `Edit`, loop steps to `Extend` or a stutter, `Release` to `Finish` |
| `ContinueHonouredHolds` | `Spec => []ContinueHonoured` | needs `PromiseInv`: a promise is outstanding only between `finish_turn` and the next request, and until the follow-up poll the loop still remembers it in `explicit` |
| `ContextFollowsTranscriptHolds` | `Spec => []ContextFollowsTranscript` | needs `ContextInv`: the length recorded when a context was installed never exceeds the delta, and a partial is in the context only while the provider streams |
| `ConservationHolds` | `Spec => []Conservation` | needs `HeldInv` and `CountInv`; lemmas on counting (`CountConcat`, `CountDrain`, `CountUsers`), then every step of a run is one of four flows (`LoopFlows`) |
| `SteeringInOrderHolds` | `Spec => []SteeringInOrder` | needs `OrderInv`, on top of `HeldInv` and `CountInv`: the same flows (`OrderFlow`), with lemmas on ordered pieces (`OrderConcat`, `LineMoves`, `LineGrows`) |

`EventProtocol` is not inductive because it does not say where the active run is;
`TranscriptContract` is not because it is silent before the launch. `Conservation` is not
for two reasons. It is silent about messages nobody has submitted, so `CountInv` adds that
no place holds one. And it would let a poll overwrite messages that are still pending:
`HeldInv` says at which positions a run holds prompts, polled and prepared messages, so
that each poll and each hook finds its slot empty. A step of a run then moves nothing,
moves all it holds into the transcript, takes the front of a queue, or takes one new
message from a hook (`FlowsQuiet`, `FlowsOut`, `FlowsIn`, `FlowsNew`), and each keeps the
count. `SteeringInOrder` orders only what has reached the transcript; `OrderInv` puts
transcript, messages held by the run and steering queue in one line that is ordered as a
whole. Most steps do not change the line at all, only where it is cut; the others take
pieces out or put in pieces that were never steered, for which it adds that follow-up
messages are none of the steered ones. That a new `steer` call is last in the line uses
`CountInv`: a message that was not submitted is nowhere.

### `EventBus`

Assumption: `EventBusAssumption`. Any subscribers, extensions, capacities and events.

| Theorem | Statement | Rests on |
|---|---|---|
| `BusTypeCorrect` | `Spec => []TypeOK` | |
| `LossIsObservableHolds` | `Spec => []LossIsObservable` | `Complete`, `Bounded` |
| `NewestTerminalRetainedHolds` | `Spec => []NewestTerminalRetained` | `Newest` |
| `ExtensionContractHolds` | `Spec => []ExtensionContract` | `ExtensionInv` |

Subscribers and extensions do not interact, so the invariant (`BusInv`) is one predicate
of a single subscriber and one of a single extension. `Newest` puts the newest terminal
as "a terminal that no later one follows is held", which survives a `push`: room is made
at the cost of an update, which is no terminal, or of the oldest event when the new one
is itself a terminal (`PushedQueue`). `ExtensionContract` is not inductive because it
speaks only of what was reported: `ExtensionInv` adds that while its sender is there an
extension misses nothing, that without it something is missing if and only if the slot
was marked, and that a report comes after the last event.

### `ToolBatch`

Assumption: `ToolBatchAssumption`. Any number of calls, workers and updates, any capacity of
the update channel, with or without panics.

| Theorem | Statement | Rests on |
|---|---|---|
| `BatchTypeCorrect` | `Spec => []TypeOK` | |
| `StartsAndEndsPairHolds` | `Spec => []StartsAndEndsPair` | `StartInv`, `SequentialInv`, `ParallelInv`, `TruncatedInv`, `OutcomeInv` |
| `ResultsInSourceOrderHolds` | `Spec => []ResultsInSourceOrder` | the same |
| `LateOnlyAfterPanicHolds` | `Spec => []LateOnlyAfterPanic` | `UpdateInv`, `SequentialInv` |

`StartsAndEndsPair` is not inductive: it does not say which calls have ended. `BatchInv`
reads that off the coordinator's cursor and the workers: a sequential batch has ended the
calls before its cursor, a parallel one those that never got a worker or whose worker was
joined. That no outcome is ever `"lost"` needs one more fact: until it is cancelled, a
parallel batch with a queued call has a live worker, whose settlement makes room for it;
so the collecting loop cannot run dry with a call still queued. `UpdateInv` follows an
update from the worker to the channel: in a parallel batch whatever is in flight or
buffered for a call that has ended comes from a worker that panicked; in a sequential
batch the receiver is gone by the time the call ends.

### `HarnessDrive`

Assumption: `HarnessDriveAssumption`. Any intents, calls in a batch, attempts, ids, queued
messages, abort requests and crashes.

| Theorem | Statement | Rests on |
|---|---|---|
| `DriveTypeCorrect` | `Spec => []TypeOK` | `TypeInv`, which also types the locals and the abort |
| `EffectsAtMostOnceHolds` | `Spec => []EffectsAtMostOnce` | `EffectInv` |
| `DuplicatesExplainedHolds` | `Spec => []DuplicatesExplained` | `IdInv` |
| `MemoryFollowsDiskHolds` | `Spec => []MemoryFollowsDisk` | `CopyInv` |
| `CompletedIsAnsweredHolds` | `Spec => []CompletedIsAnswered` | `AnswerInv` |
| `SettledForGoodHolds` | `Spec => SettledForGood`, an action property | `GoneInv` |

All six follow from one inductive invariant, `DriveInv`. The difficulty is that an
operation has up to four copies: the durable one, the lane's, the drive's snapshot and an
abort's clone. The central part is `HeldInv`: a copy that is still running is the state
the drive takes to be current (`Current`, which reads off the position, the snapshot and
the locals what the drive last committed); only an abort makes a copy differ, and every
copy it makes is cancelled. `EffectInv` then says of every running copy that a request
which was sent, and a call which was started, is marked in it, so that no copy a drive or
a restart could act on asks for it again; `EffectsAtMostOnce` alone says nothing of the
copies and is not inductive. `IdInv` (an id about to be used is not in the log) holds only
while there is no abort and no compaction that was `cut`, which are exactly the exceptions of
`DuplicatesExplained`. `AnswerInv` says that, unless a drive was cut, a state which finishes a
run follows an answer in the log, across crashes too; `CopyInv` that without an abort the two copies differ only between the
two commits of a summarizing navigation.

The proof does not go through the invariants action by action. Every step of a drive is
shown to be of one of thirteen kinds by what it does to the operation (`DriveStepKinds`):
taking the operation up, a move between two positions of a procedure, stopping,
reconciling, a request sent, a call started, a write of the next state, a commit of an
entry together with the next state, settling, and so on. Then there is one lemma for each part of the invariant over the kinds (`DriveKeeps...`),
and one for each action of an abort, a crash and a restart. An error and a failed commit end
a drive with the copies as they are (`BreakInv`), like a crash without the loss of memory.

### `HarnessLane`

Assumption: `HarnessLaneAssumption`. Any clients, entries, operations and crashes, at most
one call of `wait_for_idle` at a time.

| Theorem | Statement | Rests on |
|---|---|---|
| `LaneTypeCorrect` | `Spec => []TypeOK` | types that grow with the number of reserved entries |
| `ExactlyOnceHolds` | `Spec => []ExactlyOnce` | inductive with `TypeOK`, from lemmas on what `ItemsAt` selects |
| `NeverForksHolds` | `Spec => []NeverForks` | `BranchInv`: `ReserveInv`, `TipInv` |
| `NoLostIdleHolds` | `Spec => []NoLostIdle` | `IdleInv` |

`ExactlyOnce` needs nothing about the inbox: a consumer reads the payload in the same
commit that consumes it (`Missing`), and that is why the stale inboxes of the findings
lose a listing but never duplicate an entry. For `NeverForks` one must know which tip is
stale when. `TipInv` says: the copy of the tip differs from the branch only between the
commit of an admission and its publication, or for ever in a harness that was sealed in
between; `ReserveInv` says that the admission then owns the lane, so that nobody commits
below the copy. Both fail once a drive has begun during an admission, hence
`BranchInv == early \/ (ReserveInv /\ TipInv)`: until then every drive is of an operation
whose admission has returned (`DrivenStep`), and `early` stays (`EarlyStays`).

### `CredentialStore`

Assumption: `CredentialStoreAssumption`. Any finite set of processes, tokens, writes and
crashes.

| Theorem | Statement | Rests on |
|---|---|---|
| `StoreTypeCorrect` | `Spec => []TypeOK` | |
| `FreshLockSparedHolds` | `~ReusesInodes` implies `Spec => []FreshLockSpared` | `ReclaimInv` |
| `TokenUsedOnceOrRobbed` | `Spec => [](refused => lost \/ gap \/ stolen)`, on any file system | `StoreInv` |
| `TokenUsedOnceHolds` | `~ReusesInodes` implies `Spec => []TokenUsedOnce` | the two before |
| `AckedSurvivesHolds` | `~ReusesInodes` implies `Spec => []AckedSurvives` | `StoreInv`, `FreshLockSparedHolds` |

The hypothesis is needed: with reused inodes `FreshLockSpared` fails (see the findings).
`ReclaimInv`: a contender that has measured a stale directory remembers an inode under
which there is, as long as inodes are not reused, nothing but that dead directory.
`OwnInv`: while no lock was taken away, whoever is past the creation owns the directory
that is there, hence is alone. `FileInv` and `TokenInv` then follow the file between a
read and a write, and the provider's token between a refresh and its write.

### `ServiceReplication`

Assumption: `ServiceReplicationAssumption`. Any set of publishers, any number of
publications, rebinds and withdrawals, and stacks of any depth.

| Theorem | Statement | Rests on |
|---|---|---|
| `ReplicationTypeCorrect` | `Spec => []Typed` | `RebindInv` |
| `HoldsItsLabelHolds` | `Spec => []HoldsItsLabel` | `SnapInv`, `StartInv` |
| `NoResurrectionHolds` | `Spec => []NoResurrection` | `ClearInv` |
| `NothingStrandedHolds` | `Spec => []NothingStranded` | `SourceInv`, `DeliveryInv`, `BufferInv` |
| `SettledIsCurrentHolds` | `Spec => []SettledIsCurrent` | `FlowInv`: `CoverInv`, `OwnInv`, `FreshInv`, `OpenInv`, `NumberInv` |

The stacks are unbounded, so the invariants speak of the set of frames a stack has
(`Frames`), and a step is described by the frames it takes away and the frames it adds
(`Move`). `SourceInv`, `DeliveryInv` and `BufferInv` say that whoever has the right to
drain has the frame that drains, and that nothing is queued while nobody has the right.
The stack of the rebinder is one of a few shapes (`RebindInv`), and a start that has not
installed its snapshot has no other frame (`StartInv`), so that nothing can come between
the snapshot and its installation on that thread and `SnapInv` holds when it is installed: a
snapshot is torn or its value is its sequence. From there only the next update is applied,
and the next update of a value that is its label fits. That every application is to an
untorn value is the hypothesis, so `HoldsItsLabel` is about gaps, repetitions and reordering
between the snapshot and the replica.

`SettledIsCurrent` only speaks of the end. `CoverInv` says the same of every state in which
no rebind is under way: the start of the newest revision is still to read (`ToStart`), has
read the sequence and holds the provider's lock (`Reading`), has a subscriber that buffers
(`Buffering`), or feeds the replica (`Following`), and each publication newer than the
snapshot's or the replica's sequence is on its way up to the subscriber (`Up`), in its
buffer, or on its way down (`Down`). That an emission reaches the right subscriber needs
that the open one is the newest revision's (`OpenInv`: any other is recorded, being started
or being closed; `OwnInv`: those are of the newest revision once the rebind is over), and
that a start finds a subscriber nobody closed or activated before (`FreshInv`). An update is
never taken for the notice of a withdrawal (`NumberInv`). When all stacks are empty only
`Following` is left, with nothing on its way: the sequence is the latest, and by
`HoldsItsLabel` the value of an untorn replica too.

### `ServiceEndpoint`

Assumption: `ServiceEndpointAssumption`. Any number of subscribe calls on one ID, updates,
and any queue limit.

| Theorem | Statement | Rests on |
|---|---|---|
| `GaplessDeliveryHolds` | `Spec => []GaplessDelivery` | `FlowInv`, `StageInv` |
| `NeverSilentHolds` | `Spec => []NeverSilent` | `CurrentInv` |
| `DisposeLeavesNothingHolds` | `Spec => []DisposeLeavesNothing` | `CountInv`, `DisposeInv`, `OwnedInv` |

`GaplessDelivery` speaks of what was delivered only; `Flow` extends it to the whole path
from the listener on: what the provider has told is, in this order, delivered, in the
worker's hands, and queued up to an overflow marker, and without a marker nothing is
missing. Nothing is assumed of the order in which the provider tells, which is not that of
publication (finding 16). For the disposal, `CountInv` says that the counter is the number of calls,
removals and deliveries under way, and `OwnedInv` that for every subscription the provider
still feeds somebody is on the way to closing it.

### Only model-checked

- Liveness, which is beyond the prover: `AbortLeadsToIdle`, `WaiterReturns`,
  `ReceiverReturns`, `CancelSettles`, `DisposeReturns` and the fairness part of
  `KeepsContract`.
- `RetriesBounded`.
- Everything about `ProviderStream`.

## Where the code and its documentation disagree

`harness_restorable` checks one disagreement. Under `Restorable`: a run whose answer
overflowed the context moves to a summary state; `validate_state_intent`
(`restore.rs:246`) takes a summary state for a compaction unless the intent is a
summarizing navigation, so that a crash in that state makes the restore of the whole
session fail, where `harness.rs:180` says "Creates a durable harness and restores every
open operation."

The following are kept as definitions and can be reproduced by checking the definition
named with the constants given (those of the module's own configuration otherwise).

Agent loop:

1. `AgentRun!TurnsAlwaysEnd`. When a hook fails after the assistant message of a turn,
   `finish_run` sends `agent_end` and no `turn_end`. Its comment (`agent.rs:738`)
   assumes that an assistant end implies a turn end. `EventProtocol` states what does
   hold: only a hook error can cut a turn.
2. `AgentRun!AbortKeepsQueued`. "Queues are not cleared by abort" (`agent.rs:421`), but a
   message already taken by the steering poll is dropped with the run at
   `run.rs:204` or `run.rs:390`. `Conservation` states what does hold: such a message
   is accounted for as dropped, all others are kept.
3. `EventBus!NewestAssistantRetained`, ten events. The newest assistant terminal does not
   stay deliverable (`bus.rs:170`) when more tool results follow it than the queue holds.
   What holds is `NewestTerminalRetained`.
4. `ToolBatch!NoLateUpdate` with panics. A panicking parallel tool never reaches
   `stop_accepting`, so a task it started can publish an update after the end of the
   call (`tool.rs:84`). `LateOnlyAfterPanic` states what does hold.

Durable harness:

5. `HarnessDrive!AckedAbortIsDurable`. `request_abort` acknowledges an abort after a
   commit that a drive's own transition, made from its own snapshot between the abort's
   commit and its update of the copy, overwrites (`admission.rs:1045`, `1173`).
6. `HarnessDrive!PendingIsUnconfirmed`. The abort writes back the state it read before
   the drive committed its response (`admission.rs:1144`): `assistant.effect_pending` is
   durable again, whose effects `operation.rs:218` calls "not yet confirmed", with the
   response already in the log.
7. `HarnessDrive!DriveProgresses`. The boundary of a run returns early when it sees the
   gate of an abort whose mark a commit has overwritten; the drive ends in "drive
   procedure made no progress" (`drive.rs:378`, `447`) instead of reconciling.
8. `HarnessDrive!PreparationCleaned`, `Intents = {"summary"}`. A settled navigation
   leaves its preparation behind (`operation.rs:317`, `drive.rs:2829`).
9. `HarnessDrive!NoDuplicateCommit`. When a drive ends between the two commits of a
   compaction, with the process or by an error, the next one offers the same entry again, and
   the refusal seals the harness (`drive.rs:3315`, `operation.rs:669`). `DuplicatesExplained`
   states what does hold. Likewise `CompletedIsAnswered` and `RetriesBounded` except `cut`:
   after such an end `drive.rs:1567` can complete a run whose last response was interrupted.
10. `HarnessLane!QueuedIsListed`, `OpenIsNamed`. Appends, drains and settlements write the
    lane state from the copy in memory (`lane.rs:867`) and can overwrite the commit of a
    queue operation or of an admission that has not converged yet; `admission.rs:923` says
    that the guard "serializes every `lane_state` writer". The payload, or the operation's
    records, stay and nothing refers to them. For the same reason `cancel_queued` can
    report `Cancelled` for an entry already consumed.
11. `NoLostIdle` without its exception: a pending admission that is undone does not
    notify, so a waiter that saw it sleeps until the next operation ends.
12. `HarnessLane!LandsAtTip`. An
    admission publishes its reservation, commits the prompt and applies the new tip in three
    steps. `abort` takes the reservation for the current operation and drives it
    (`lane.rs:563`); if that falls between the last two steps, the drive reads the old tip,
    and what it commits lands beside the prompt instead of "at the current tip"
    (`drive.rs:502`). `NeverForks` states that nothing else leads there.

Credential store:

13. `CredentialStore!FreshLockSpared`, `ReusesInodes = TRUE`. A reclaim identifies the
    directory by its inode (`lockfile.rs:552`); a file system that reuses inodes can show
    it a fresh lock under the old number, against `lockfile.rs:474`.

Services:

14. `ServiceReplication!LabelledTruly`. `snapshot_instance` reads `sequence()` and `value()`
    under two holds of the lock (`provider.rs:978`). After a publication in between, the
    consumer holds the value of `n + 1` under the label `n`, the buffered update `n + 1` is
    contiguous, and it is applied a second time; an append, a truncation or a splice then
    spoils the value and nobody is told. `replicated.rs:32` calls the label the "Sequence
    assigned to the delivered revision." `HoldsItsLabel` states what does hold.
15. `ServiceReplication!InSequenceOrder`. A publication from inside a listener is
    dispatched inline (`replicated.rs:600`), before the listeners that the outer one still
    has to call; `replicated.rs:409` promises sequence order.
16. `ServiceEndpoint!PublicationOrder`, four updates. `emit_update_inner` claims every free
    subscriber before it drains the first (`provider.rs:884`). A listener that publishes then
    finds its own thread the owner of a subscriber not yet drained, and the new update is told
    ahead of the buffered one. `endpoint.rs:465` says "The provider invokes the listener in
    publication order".
17. `ServiceEndpoint!NoLeak` (2, 2, 1 for the three bounds). The worker checks that its
    subscription is current and publishes later, and it looks up its token by ID when it
    is spawned (`endpoint.rs:527`): an update can reach a replacement subscription that
    reuses the ID.
18. `ServiceEndpoint!WorkerEnds` (1, 1, 1). A worker holds a sender of its own queue, so
    that after unsubscribe an idle one never ends.
19. `ServiceEndpoint!NothingDisplaced` (3, 1, 1). The completion of an old call removes the
    reservation of a newer one with the same ID (`endpoint.rs:75`), after which two
    subscriptions can be registered over each other, which `register_subscription`
    asserts against.

Noted while reading, not in a model: a second drive of the same operation may wait for
ever (`drive.rs:68`); a stale `Unavailable` can wipe a newer revision of a replica
(`binding.rs:525`), which then reports `UpdateBeforeHydration` for every update and stays
cold until the next rebind; `ready` takes the start handle, so that the
stop of a rebind does not await it; `dispose` can return before the close of a
subscription that an overflow evicted; `settings.rs` persists without
`check_ownership`.

## What is not modelled

Within the agent loop: models, thinking levels, system prompts, tool schemas and
result contents, API keys, retry options, telemetry (data that no control decision of
the loop depends on); the configuration setters of `Agent`, which change what the
next run snapshots; `AgentState::pending_tool_calls` (its pairing is
`StartsAndEndsPair`); a dropped `prompt` future, which leaves the token set; hooks of the
product that call `replace_messages` inside a run (`boundary.rs:165`,
`agent_session/compaction.rs:808`). `clear_queues` takes the locks of the two queues one
after the other (`agent.rs:304`) and is one step here; no property relates the queues.

Within the harness: the contents of messages and summaries, token counts (whether a
compaction is due is a free choice), two drives of one operation, a dropped drive future
(which leaves `active_drive` set), several lanes of one
session, the store's backends (a commit succeeds, is refused, or is lost with the
process). Within the services: keyed services, methods, disposal of providers and
bindings, `ready`, the encodings. Within the credential store: the in-process lock, the
branch of the reclaim for Windows, the creation of the file.

Everything else is listed under "the rest of the system", with reasons in
`PROJECT.json`. The modelled parts are a small share of the repository's lines: most of
those are the terminal interface, the providers' wire formats, extension plumbing,
command handling and tests, whose behaviour is formatting and I/O.

## Plan

1. Done: the agent loop, its queues, bus, tools and stream, and its theorems; the durable
   harness's drive and lane; the credential store and its lock; service replication and
   the service endpoint.
2. `AgentSession`, composed with `AgentRun`: the event pump and `message_end`
   replacement, persistence, deferred bash results, automatic retry and compaction.
   Properties: the persisted session and the live transcript agree when idle, a
   replacement hits the message it was made for, deferred results are appended once.
3. The session store's commit validation under `HarnessLane`; keyed services and method
   calls; extension RPC with host exit; remote sessions with reconnects; the lock file
   of `pi/core`.
4. Proofs: `RetriesBounded`; the safety part of `KeepsContract` for `ProviderStream`.
