# Specifications of the iii engine

iii is an engine that connects *workers* (processes with a WebSocket to the
engine) and routes function invocations among them: directly, through triggers,
or through queues with retries and dead letters. These modules specify the parts of
`engine/src` where several tasks share state: the built-in queue with its
subscribers and its rebuilding after a crash, the key-value store it is saved in, the function
queues and the queue triggers built on it, the invocation handler, the
ownership of registered functions, and the cron workers with their locks.
They are checked with TLC on small instances, and every safety property that the runs check is
proved with TLAPS for every instance. Paths below are relative to `src/`, and line numbers to
the commit modelled.

## 1. The system

| Component | State it keeps | Operations | What is hard about it |
|---|---|---|---|
| Built-in queue, `engine/src/builtins/queue.rs` | per queue: lists `waiting`, `active`, `dlq`, sorted set `delayed`, a record per job | push, push_fifo, push_delayed, pop, ack, nack, move_to_dlq, move_delayed_to_waiting, redrive, discard | every method is several store operations and other callers run in between |
| Queue workers, same file | a poll loop per subscription, a semaphore or a set of active groups, tasks | subscribe, unsubscribe (abort), poll, requeue, run, retry | abort at any await; jobs put back for want of a permit; order |
| Store, `queue_kv.rs`, `kv.rs` | maps behind one lock each, dirty sets, files | list and set operations, save loops, rebuild after a restart | two save loops with their own clocks, crash between them |
| Function queues, `workers/queue/adapters/builtin/adapter.rs` and `workers/queue/queue.rs` | delivery map, a channel and a window per consumer | publish, consume, ack, nack, restart on new configuration | the old consumer, its tasks, its poll loop and the new consumer overlap |
| Topic routing, same adapter | functions of each topic, handles of subscriptions | enqueue, subscribe, unsubscribe | three maps with separate locks |
| Invocation handler, `invocation/mod.rs`, `engine/mod.rs`, `worker_connections/` | table of invocations, per-worker sets of ids, channels to workers | invoke, result, disconnect and cleanup | result and cleanup race with the insertion in the table |
| Function registry and ownership, `function.rs`, `services.rs`, `engine/mod.rs` | functions, owners, services | register, unregister, claim, release | a claim between the two steps of a release |
| Trigger registry, `trigger.rs` | trigger types and triggers | register, unregister, replay to a new type | replay and insertion are separate steps |
| Configuration and reload, `workers/configuration/`, `workers/reload.rs` | stored entries, running workers | set, hot-apply, diff and replace | applying while what is replaced still runs |
| Cron, `workers/cron/` | schedulers with a job map and a loop per job, a lock per job | register, unregister, fire, change of lock backend, shutdown, destroy | two engines, one lock with a time to live; a shutdown signal in the middle of a change of backend |
| State and streams, `workers/state/`, `workers/stream/` | key-value data, subscribed sockets | get, set, update, notify | fan-out ordering |
| Pub/sub, REST API, HTTP functions, bridge, shell, engine functions, observability, telemetry, CLI | little that another part reads | | mostly I/O |
| `crates/` (micro-VM sandboxes and tools), `sdk/`, `console/`, docs and website | outside the engine process | | systems of their own |

How they meet: a client's call with a queue action becomes `push_job`; a function queue's
consumer takes it with `pop`, calls the engine's `call`, which is an invocation of
a worker, and turns its result into `ack` or `nack`. A topic subscription does the
same with a poll loop of its own. A worker that disconnects takes its functions out of
the registry, has its invocations halted and its triggers unregistered, which ends
the subscriptions of its queue triggers.

What must hold, by component:

- *queue*: a job is in one list or one caller's hand at a time; runs in one task at a
  time; is tried `max_attempts` times, no more and no fewer; is not lost; is never run
  again once handled; and everything queued is settled in the end.
- *FIFO*: jobs (of one group) run in the order they were pushed, retries included.
- *function queue*: each delivery is answered once, whoever answers, and a restart neither
  loses a message nor runs it twice without need.
- *invocation*: a caller is answered exactly once, and always; only a disconnected worker
  stops an invocation; ids do not pile up in the workers' sets.
- *ownership*: a function with an owner is served by it, in the way it registered it, and listed;
  a connection that is gone owns and serves nothing.
- *topics and triggers*: no message goes to a queue nobody polls; every poll loop can be stopped; the registry and
  the adapter agree on which triggers there are.
- *persistence*: a file that is loaded is whole; what is in memory gets to its file; what a crash leaves
  on disk is rebuilt to a queue where every job the files agree on runs, and no job that was settled on disk does.
- *cron*: one scheduler at a time works on a job; a change of lock backend loses no job and revives none; a worker told to stop stops.

`PROJECT.json` lists the hazards at their lines, with the properties that cover each.

## 2. Modules

| Module | Models | Uses |
|---|---|---|
| `JobQueue` | `BuiltinQueue` and its store: state, store operations, every method | |
| `ConcurrentWorker` | `struct Worker`: concurrent mode | `JobQueue` |
| `InlineRetry` | `process_job_with_inline_retry`, order of pushes | `JobQueue` |
| `FifoWorker` | `struct FifoWorker`: FIFO mode, concurrency 1 | `InlineRetry` |
| `GroupedFifoWorker` | `struct GroupedFifoWorker`: FIFO by message group, concurrency above 1 | `InlineRetry` |
| `FifoModes` | the choice `subscribe` makes between the two | `FifoWorker`, `GroupedFifoWorker`, `FifoLifecycle` |
| `FunctionQueue` | `consume_function_queue`, `ack/nack_function_queue`, `spawn_consumer` | `JobQueue` |
| `JobLifecycle` | abstract specification of what a queue promises for each job | |
| `FifoLifecycle` | abstract specification of what a queue in FIFO mode with one subscription promises | `JobLifecycle` |
| `Connections` | the set of worker connections, which the next two share | |
| `Invocation` | `remember_invocation`, `handle_invocation`, `InvocationResult`, the halting part of `cleanup_worker` | `Connections` |
| `FunctionOwnership` | `RegisterFunction`, `UnregisterFunction`, the functions' part of `cleanup_worker`, the service listing | `Connections` |
| `KvStore` | `BuiltinKvStore`: writes, marks, save loops, `reconfigure`, crash and load | |
| `QueueRestart` | the queue's files, their saving, a crash and `rebuild_from_storage` | `ConcurrentWorker` |
| `TopicRouting` | queue triggers: `register_trigger` to the adapter's `subscribe` and back, `unregister_worker`, `enqueue` | |
| `CronScheduler` | `CronAdapter` (job loops, locks, shutdown) and `CronWorker` (`register_trigger`, `apply_config`, `destroy`) | |
| `JobQueue_proofs` | what the methods of the queue preserve, used by the next three | `JobQueue`, `TLAPS` |
| `ConcurrentWorker_proofs` | theorems about `ConcurrentWorker` and `QueueRestart` | `QueueRestart`, `JobQueue_proofs` |
| `FifoModes_proofs` | theorems about `FifoModes`, both kinds of loop | `FifoModes`, `JobQueue_proofs` |
| `FunctionQueue_proofs` | theorems | `FunctionQueue`, `JobQueue_proofs` |
| `Connections_proofs` | theorems about `FunctionOwnership` and `Invocation` | both, `TLAPS` |
| `TopicRouting_proofs`, `CronScheduler_proofs`, `KvStore_proofs` | theorems | their component, `TLAPS` |
| `MC...` | model values and bounds for TLC | their component |

### JobQueue

The store is four variables (`waiting` a sequence, newest first; `active` and `dlq` as
numbers of entries per job, because nothing reads their order but which dead letter is
redriven first; `delayed` with whether the time has come) and `record`, the attempts
in the stored job. Payload, trace headers and timestamps are left out. A store operation
(`LPush`, `RPop`, `LRemActive`, `ZRem`, ...) is atomic in the code, because it runs under
the lock of its map, and is a step here. A method is a sequence of steps of one caller, whose program
counter, job and attempt count are `call[c]`: nack for instance is `nack.get`,
`retry.lrem`, `retry.set`, `retry.delay`, or `dlq.lrem`, `dlq.push`, `dlq.delete`. Callers are
clients, poll loops and the tasks these spawn.

`fate`, `failures` and `raced` are history variables that only properties read. `fate[j]` is
"live" from the store of its record until it is settled; "lost" when pop or nack finds no
record for an id it has; "stranded" when an abort dropped the caller that held it. `raced` has
the jobs whose redrive began while move_to_dlq had still to delete the record.

### The workers

`LoopStep` is one await-free piece of the poll loop, `TaskStep` of a spawned task. `Unsubscribe` is
`JoinHandle::abort`: it drops the loop at an await. The guard of `Unsubscribe` names the points that
are no await (between the return of pop and the spawn, when `try_acquire` succeeds). Tasks that were
spawned are not aborted. In `FifoWorker` the handler runs in the loop, so an abort drops it as well.
`GroupedFifoWorker` awaits a lock after pop, and can be aborted there; its skipped ids are a local
variable of the loop and go with it. The store operations of the code may themselves await their lock;
an abort there is the same as one just before the step.
`FifoModes` is a queue in FIFO mode whose configured `concurrency` is chosen initially: each subscription is a loop of
`FifoWorker` or of `GroupedFifoWorker`, on the same variables.
`order` is history: the pairs of jobs in the order in which their pushes listed them. A job enters it as the newest with the lpush of its push, and leaves it with a redrive or discard, or when it is pushed anew.

`FifoLifecycle` is what that queue promises, without its lists. To the lives of `JobLifecycle` it adds turns: a job starts only when no other job of its group runs, and in a queue of concurrency 1 (`strict`) only when no job runs
and every job listed before it is settled. A job that failed and has attempts left goes on running (`FailAgain`, which stands for the backoff as well), and so keeps its group. `Abort` is the end of the subscription: it strands the job the loop works on if strict, running or not, and
otherwise the job just popped and the skipped ones. Inside a group of a queue with more concurrency no order is promised, because the code has none (the finding of `group_order`).

### FunctionQueue

A generation `g` is one `spawn_consumer`: a poll loop that outlives the consumer, a channel of capacity
`prefetch`, a window of the last `prefetch` delivery ids (one more while sending), and a consumer with `prefetch`
permits. `Abort(g)` is the restart's abort of the consumer: the receiver and the channel's content are gone, and the poll loop
finds the channel closed at its next send or the head of its loop and nacks what its window still has in the delivery
map. `ack` and `nack` both begin by removing the delivery from the map, so that a job is answered by whoever removes it
first. Delivery ids are fresh UUIDs; `CHOOSE` of one nothing refers to stands for that.

### Invocation

Its definitions are named so that it can stand beside `FunctionOwnership`, on the same connections: `CallsInit`, `CallsNext`, `CallsSpec`; `Close` is the disconnect.

An invocation goes `new`, `add` (the caller's set), `send` (the channel of the runner), `note` (the runner's set),
`record` (the table), `wait`, `answered` (the answer goes to the caller, which forgets the id), `done`. `Engine` as the caller
stands for invocations in no caller's set: those of the engine's own `call` and `Void` calls. The writer of a connection is a task that
is aborted at disconnect, and the channel fails only when it has gone (`WriterStops`), a step of its own.
`cleanup_worker` keeps the read lock of the worker's set to the end (`Locked`), which holds up add and remove on
that set. `raced` is history: the result or the cleanup of the runner began before the insertion in the table.

### FunctionOwnership

A connection handles one message at a time and is cleaned up by the same task, so `task[w]` is the step it is at, of which function
and of which kind: "regular" (served by the worker) or "external" (served by HTTP). `RegisterFunction` is `Claim`, `FindService`, `CreateService`,
`ListFunction`, `Install` and, for HTTP, `Configure` or `RegisterFails`; `UnregisterFunction` is `Unregister`, `Unconfigure`, `Remove`, `UnlistFunction`, `DropService`; `cleanup_worker` goes through the same steps for each id
(`CleanRegular`, `CleanExternal`), for external ones with `Recheck` before the listing and `ReleaseExternal` at the end. A step is one operation on a concurrent map, those of code without an await as well,
because connections run on several threads. The sets `ids[w]` are read by w's own task only. A connection's id is fresh, so `gone` is for good. Ids without `::` have no service; the model has only ids with one.

`disturbed` and `contended` are history that only properties read: functions whose last claim ran against another connection at work on the same function, against an owner of the other kind,
or failed over an earlier registration; services whose listing two connections changed at once. They delimit what the code does not promise; the next undisturbed claim clears the former.

### KvStore

A writer changes the map of an index under the store's lock and marks the index dirty under another, so `Set` or `Delete` and `MarkDirty` are two steps, with `mark[c]` what the
writer has still to mark. A save loop is `Drain`, then for each index it drained `Read`, `Open`, `Write`, `Rename` (`persist_index_to_disk`) or `Unlink`; each may fail, and what fails is marked again (`SaveFails`, `UnlinkFails`).
`Reconfigure` starts another loop; the old one hears of it only between two batches (`Stop`). An open file is followed by where its name is now (`fd`), because a rename by one loop moves the file another has open: `Written` is what two
writers of one file may leave. `Crash` is that of the process: a file that was written stays written. `raced` is history: the indexes two loops had at once, and those a late "delete" mark took the place of an "upsert" on.
`With`, and the maps, abstract values to a small set; `update` and the lock operations change a map as `set` or `delete` do.

### QueueRestart

Extends `ConcurrentWorker` with `disk`, what the files hold. Each record is an index with a file of its own, all lists are one snapshot and all sorted sets another, so that `SaveRecord(j)`, `SaveLists` and `SaveDelayed` happen each at a time of its own.
That a file is replaced as a whole is what `KvStore` shows (`FileIsWhole`), and is assumed here. `Crash` loads the files and is `rebuild_from_storage` in one step, since nobody uses the queue before it returns: lists are taken as
they are when there are any (of this queue or, `others`, of another), and made from the records when there are none. History starts anew for what was found: `torn` are the jobs found in two places, or in a list without a record (what an earlier restart found torn and this one does not find at all stays torn, because its id may still be in `active` or in a record); the failures of a job are what its record says, so that
attempts counted after the last save are forgotten. Jobs in the saved active list are left there, as the code leaves them: a job running at the crash is not run again (`RestartKeeps` excepts it). The save of a list may also precede the deletion of a record, or follow it: a job acknowledged shortly before the crash may run again
unless its record is gone (`BuriedStaysBuried`), and a dead letter whose record was saved as deleted before the lists were is nowhere after.

### TopicRouting

A trigger binds a function to a topic; the topic's messages are copied to the queue `topic::function`, a *route*. Registration is `StartLoop`, `AddRoute`, `Bind`, `Enter`, one map (and one lock) each; unregistration is `Unbind`, `StopLoop`, `Look`, `RemoveRoute`, `Forget`; the cleanup of a
connection takes the triggers it finds when it begins (`Disconnect`) and goes through the same steps for each (`Sweep`). Routes of triggers are constants: the SDKs draw a trigger's id at random and send it again unchanged on a new connection (`sdk/packages/node/iii/src/iii.ts:248`, `:722`), which is how two connections come to handle one trigger.
A message is not followed into its queue, which is `JobQueue`'s part: `missed` has the triggers whose route was not among the topic's when one was published. History: `overlapped` are routes one connection subscribed while another unsubscribed, `raced` the triggers two connections were at work on at once, `overwritten` the handles replaced by a second registration.

### CronScheduler

A scheduler is one `CronAdapter`; an engine starts with one and `apply_config` makes a new one for another lock backend. A job loop is "sleep", "try", "held", "calling", "release". The locks are those of the kv store or of Redis: taken if free, released if still one's own, and gone at their time to live (`Expire`, at any time).
`op[e]` is what runs under the worker's `apply_lock`: a registration, a change of backend (`BuildScheduler`, `TakeSpecs`, `StopOld`, `OldStopped`, `Reregister`, `SetLive`) or `destroy`. The background task that hears the shutdown signal does not take that lock (`BackgroundShutdown`). `shutdown` of a scheduler is done by its first caller; a second one returns at once (`first`). The 50 ms that shutdown waits are any
time here. An aborted loop ends at once: the function it called may still run on its worker.

## 3. The runs

| Run | Instance | States | What it shows |
|---|---|---|---|
| `concurrent` | 2 jobs, 1 loop, 2 permits, 1 client, 2 attempts | 101k | one place, one handler, exact attempts, losses only by a race, and `JobsSettle` |
| `two_loops` | 2 jobs, 2 loops of 1 permit | 412k | the active list and the refinement to `JobLifecycle` for two subscriptions that share the lists |
| `fifo` | concurrency 1: 2 jobs, 2 clients; concurrency 2: groups of 2 and 1 jobs, 1 client; 1 loop, 2 attempts | 308k | FIFO order with inline retries, one task per group, attempts, nothing lost by skipping, liveness, and the refinement to `FifoLifecycle` |
| `group_order` | violation: 3 jobs of a group | | skipped jobs are overtaken in their group |
| `function_queue` | 2 jobs, 2 generations, prefetch 1, 2 attempts | 460k | one answer per delivery, exact attempts, liveness across restarts |
| `invocation` | 2 invocations, 2 workers, either may call and run | 627k | the table and the sets are exact, callers are answered |
| `ownership` | 2 connections, 2 functions of a service, symmetry | 4.3M | who owns a function serves it; who is gone owns and serves nothing; listing |
| `kv` | 1 index, 1 key, 2 values, 2 writers, 2 loops | 802k | files are whole, nothing is forgotten, all is saved at last |
| `restart` | 2 jobs, 1 loop, 1 permit, 1 client, 2 crashes of 1 job, 1 of both | 1.19M | what is safe after a crash between any two steps |
| `topics` | 2 connections, 2 triggers of 1 function, 4 handles, symmetry | 300k | routes, loops and registry agree, and nothing is missed, but for named overlaps |
| `cron` | 1 engine, 2 schedulers, 2 backends, 1 job, 2 fire times | 72k | locks exclude, changes of backend keep the jobs, a stopped worker stops |
| `cron_once` | violation: 2 engines, 1 backend | | one scheduled run runs twice |

Properties by module (each has a comment with the code behaviour it is about):

- `ConcurrentWorker`: `OnePlace`, `OneHandler`, `AttemptsExact`, `LossNeedsRace`,
  `ActiveExact`, `HandledOnce` (an action property), `ImplementsLifecycle` (refinement), `JobsSettle` (liveness).
- `FifoModes`, some stated first in the modules it joins: `FifoOrder`, `OneTaskPerGroup`, `OnePlace`, `AttemptsAgree`, `ImplementsFifo` (refinement), `JobsSettle`.
- `FunctionQueue`: `OneOwner`, `EntriesAnswered`, `DoubleRunNeedsRestart`, `AttemptsExact`, `JobsSettle`.
- `Invocation`: `RecordedWaits`, `StoppedMeansGone`, `HangNeedsRace`, `NotedInFlight`, `Answered`.
- `FunctionOwnership`: `OwnerServes`, `GoneOwnsNothing`, `GoneServesNothing`, `OwnedIsListed`.
- `KvStore`: `FileIsWhole`, `IdleIsSaved`, `SavedAtLast` (liveness).
- `QueueRestart`: `SoundAfterRestart`, `BuriedStaysBuried`, `RestartKeeps` (an action property).
- `TopicRouting`: `MissedNeedsOverlap`, `LoopsHeld`, `SettledAgree`.
- `CronScheduler`: `OneAtWork`, `JobsScheduled`, `ToldStops` (liveness).

The type invariants are theorems (section 4).

Definitions that sit just above another and look like a wrong version of it (`RPopPeek` above `RPop`, `TrimEarly` above
`Trim`) are mutants. Each property is run once with such a mistake put in the model and must fail.

### Bounds, and why they are enough

Two jobs are what the queue's races take: one whose list entry another operation takes by mistake, or
two that compete for order or a permit. Three are used where a third position matters (a group and a bystander; hand, channel and
window). Two attempts are the fewest that have both a retry and an exhaustion, and one suffices for a dead letter.
One client still interleaves with the loop and every task; `fifo` has two, with concurrency 1, so that pushes race each other. One permit makes requeues frequent, two let jobs run side by side.
The jobs are all there ever is, so no counter needs a cap. In `fifo` with concurrency 2 and in `function_queue` (`NoDeadLetterCalls`) clients do not redrive or discard: the bound
is on the environment, and `concurrent` has those calls. `InOrder` of `function_queue` is no bound: generations of a consumer are made and aborted one after the other under `apply_lock`. Five delivery ids are more than the map, the channels, the windows
and the hands of two generations with prefetch 1 refer to at once; `Deliver` would wait for one otherwise.
In `invocation`, the runner of the first invocation is fixed to be `w1`: the workers are interchangeable. In `ownership` one of the two functions is only registered as a regular one: the kinds meet on the other, the two meet in the listing. Two connections suffice for every race between two steps of one and those of another; an instance with three connections and one function
passes too. In `kv`, one index suffices because indexes share only the drain, and a crash or a failure of one tells nothing of another; the two values make a lost update visible. In `restart`, two crashes of a job that is alone: what the first restart leaves torn is still there at the second, and what
comes after the rebuild is checked with the queue running on. `Bounded` allows one crash with the second job, keeps that job to pushes, so that it is there to be disturbed by what happens to the first, and does not let the loop of two jobs be aborted; alone, a job meets every call. In `topics`, two triggers of one function are what `still_has_triggers` is about, and two connections handle one of them; an instance with three connections and three handles passes too.
In `cron`, two schedulers are the old one and the new one of a change, `MaxTick` lets each wake twice; `cron_once` adds the second engine. Symmetry is used only in runs without liveness.
Deadlock is not checked: a queue whose jobs are settled and an engine without calls do stop.

### Fairness

Weak fairness of each poll loop, task, consumer and cleanup: tokio keeps polling a task that is ready. Weak fairness
of the handler's return is an assumption about user functions, and of `BecomeDue` about the clock. A client that began a method ends it; no client has to
begin one. `JobsSettle` assumes that redrives stop, since a dead letter redriven for ever is never settled, and excepts queues whose
subscriptions have ended and jobs that an abort stranded. The number of jobs is finite in the models: the pop loop of `ConcurrentWorker` does not move delayed jobs while new ones
keep coming, and with an endless flow `JobsSettle` would not hold.
In `kv` the loops and the marking writers are polled; `SavedAtLast` assumes that writes, reconfigurations and errors stop. In `cron`, functions return, tasks are polled, and `Destroy` is strongly fair, because `apply_lock` is a tokio mutex, which is FIFO, so that a destroy that waits for it gets it however many registrations come.
In `invocation`, strong fairness of `ResultBegin` says that a worker whose read loop is again and again free delivers the result it has, unless it disconnects.

### What the violations say

1. `group_order` (`builtins/queue.rs:1088`): "Requeue skipped jobs in FIFO order" does not hold against jobs of the group that are still in `waiting`.
2. `cron_once` (`workers/cron/structs.rs:219`): the skill says that with a shared lock a job "fires once across the fleet per scheduled run". The lock is released as soon as the function has returned and does not name the fire time, so an engine whose loop wakes a moment later takes it and runs
   the same fire time again.

### What the exceptions say

The properties name what the code does not promise; these are the places:

- `LossNeedsRace` (`builtins/queue.rs:551`): move_to_dlq lists the dead letter before deleting its record. A redrive in between stores a new record that the
  delete then removes. This is the only way to lose a message while the engine runs.
- `EntriesAnswered` (`adapter.rs:503`): an id that has aged out of the window may belong to a message received but not yet spawned, which an abort strands.
- a function queue of type fifo does not block on a retry: with the built-in adapter a failed job is delayed and the next one runs (`builtins/queue.rs:511`; the README of the queue worker, line 88, says inline).
- `HangNeedsRace` (`invocation/mod.rs:315`): an invocation between its send and its insertion is not cancelled by the cleanup of its worker.
- `OwnerServes` (`engine/mod.rs:1770`): `remove_if` makes the comparison with the owner atomic with the removal of the owner, but the handler and the listing go in later steps. A new connection that claims and registers the function in
  between loses its handler and still owns the function. Likewise an HTTP registration that fails over an earlier one of the same connection leaves the old handler without an
  owner (`engine/mod.rs:1335`), and a function registered first in one way and then in the other has two owners (`engine/mod.rs:1290`).
- `MissedNeedsOverlap` (`adapter.rs:291`): `still_has_triggers` may look before a subscribe of the same function has bound its trigger and remove the route that subscribe has just added. Messages of the topic then go to a queue nobody polls, until the next subscribe.
- `LoopsHeld` (`adapter.rs:267`): a second registration of an id replaces the handle of the first, whose loop runs on with the engine.
- `SettledAgree` (`trigger.rs:227`): the cleanup of a connection removes the triggers it had when it began, also those a new connection has registered again since.
- `FileIsWhole`, `IdleIsSaved` (`builtins/kv.rs:289`, `:443`): a loop that was replaced goes on with its batch beside the new one; and a "delete" marked late takes the place of an "upsert".

## 4. The proofs

Assumptions are those of the modules: `NoJob` is no job, callers of different kinds differ, `MaxAttempts` is at least 1, and the like. A theorem that needs more says so in its `ASSUME`:

| Theorems | Assume | Why the code has it |
|---|---|---|
| `Implements` | finitely many tasks | they are counted by a semaphore |
| all of `FunctionQueue_proofs`, `OneTaskPerGroupHolds` | finitely many permits | `prefetch` and `concurrency` are numbers |
| `SoundAfterRestartHolds`, `BuriedStaysBuriedHolds`, `RestartKeepsHolds` | finitely many jobs | a restart counts entries of lists in files |
| `FifoOrderHolds`, `FifoImplements` | one loop | one subscription; two would run jobs side by side, which is a hazard of its own (`PROJECT.json`) |
| `FifoImplements` | finitely many permits, at least one | `concurrency` is a number, and `subscribe` takes the grouped loop only above 1 |

`JobQueue_proofs` has what the methods do, for whoever composes them: types (`ClientType`, `MoveType`, `PopType`, `AckNackType`), the two ends of `waiting` (`PushedWaits`, `PoppedLeaves`), and what is known of one job. `Sound(j, S)`, for a set `S` of fates, joins
`Alone` (no id is twice in `waiting`, and of `waiting`, `delayed`, `dlq` and the callers' hands at most one has the job, a holder being the only one) and `Count`
(a listed job has a record that counts its failures, a caller has the count it will store, and only a caller about to delete the record of a job does not answer for it; each with the exception of raced jobs). `AttemptsExact` alone is not inductive: the count is in a task's hand between the failure and the store.
Every method keeps `Sound(j, S)` and moves the job only together with its fate (`Moves`): `ClientSound`, `MoveSound`, `PopSound`, `AckNackSound` and the like. Nothing is asked of other jobs, so that what is broken about one (after a restart) is no concern of another, and the fates of jobs that have a place
beside the queue's own lists (the delivery map, the skipped ids, hence `S`) are left to the module that has it.

`ConcurrentWorker_proofs`, from `Safe(j)`: `Sound`, and `j` is located exactly while it is live.

- `TypeCorrect`: `Spec => []TypeOK`, one step per method step.
- `OnePlaceHolds`, `OneHandlerHolds`, `AttemptsExactHolds`, `LossNeedsRaceHolds`, `DeadMeansExhaustedHolds` follow from `Safe`; so does the action property `HandledOnceHolds`, because a task that starts a handler holds its job and an acknowledged job has no place.
- `ActiveExactHolds`: `Accounted(j)` says that the entries of `j` in the active list are no fewer than its owners, callers between the push to active and its removal, and no more unless excused. It needs that there is at most one owner (`Safe`), and for a lost job that who removes an entry still owns it (`Answers`).
- `Implements`: `Spec => ImplementsLifecycle`. With `LoopsLoop` (the steps a poll loop can be at) the invariant is `Strong`; each step is shown to leave the stages of all jobs alone or to be one action of `JobLifecycle` on one job
  (`StageKept`, `StageMoves`), and `RoomToRun` that a spawn finds fewer jobs running than there are tasks.
- `SoundAfterRestartHolds`, `BuriedStaysBuriedHolds`, `RestartKeepsHolds`: `RestartInv` has `Safe(j)` of each job that no restart found torn; and of any job that what is stored, in memory, in hand or on disk, is below the limit (`Modest`), that a job never pushed is unknown to the files (`Unknown`), and that a buried one is gone: no record
  in memory or file, no dead letter, and no caller past the read of its record (`Buried`, `Gone`). A torn job may be in two lists and two hands, so `Modest` and `Gone` are kept by every step without `Sound` (`Lasts`). The crash is then a matter of counting how often the loaded lists have a job (`Found`).

`FifoModes_proofs`. The loop of concurrency 1 is an instance (`Plain`); its steps are those of `JobQueue` and `InlineRetry` (`PlainLoop`), and with it no task runs and nothing is skipped (`NoTasks`): otherwise a job could be lost when such a loop is aborted.

- `OnePlaceHolds`, `AttemptsAgreeHolds`: `Safe(j)` is `Sound`, a job skipped once at most and then nowhere else (`SkippedOnce`), and live exactly while located or skipped. `SkipOneMore`, `SkipOneLess` and `SkipNone` are what happens to the skipped ids, one lemma for each kind of step.
- `OneTaskPerGroupHolds`: `Room(p)` adds to the property that a loop between the start of a pop and its spawn has found the groups not full. `Release` keeps it because no task of that group is at work, `Spawn` because the group was not active.
- `FifoOrderHolds`: `Ordered` says that a job in the order that is not settled waits or is the one the loop works on (`Kept`), and that no job gets past an unsettled one (`InTurn`): if `i` precedes `j` and is not settled, then `j` is not in work and every entry of `j` in `waiting` is nearer the newest end than those of `i` (`Behind`).
  The step that counts is `PopTake` (`PopTakeOrdered`): nothing unsettled precedes what it takes from the oldest end, since that would wait beyond the end. Jobs moved from `delayed` go to the oldest end, and overtake nobody in the order because they are not in it (`MoveListOrdered`).
  `Ordered` was checked with TLC first, with three jobs and two clients.
- `FifoImplements`: `ModesSpec => ImplementsFifo`. `StageOf` maps the fate of a job and whether a loop or task runs it to its stage. The invariant, `Strong`, joins those above and the steps a loop with tasks can be at (`LoopsLoop`). There is one lemma for each action (`ClientImplements`, `SpawnImplements`, `HandleImplements`, `UnsubscribeImplements`, ...),
  which shows that the step is one job's or changes nothing the abstraction sees. For a start, `Room` says that no job of the group runs and that fewer jobs run than there are permits, since the running jobs are of different groups, and `Ordered` that a strict queue has nothing older unsettled.

`FunctionQueue_proofs`:

- `TypeCorrect`: `Typed` adds to `TypeOK` that the window is one too long only between its append and the send that trims it (`Windows`), without which the bound is not inductive, and that who serves or sends has a delivery (`Hands`).
- `OneOwnerHolds`, `AttemptsExactHolds`: `Owned(j)` is `Sound` with the fates "live" and "stranded", one entry of the delivery map at most, and none beside another place. Who removes the entry owns the job, and whoever comes second finds nothing and does nothing.
- `EntriesAnsweredHolds`, `DoubleRunNeedsRestartHolds`: `Flow` follows each delivery id from `Deliver` to the last of the poll loop, channel, consumer and tasks that refer to it. No id belongs to two generations (`OwnIds`); each is in one stage of its way (`Single`); while the consumer lives, its channel holds the end of the poll loop's window (`Windowed`, with `Ends` of sequences),
  so that an abort, which drops the channel, loses nothing that the drain does not have; and every entry of the map is referred to by someone who will answer it, or its job is stranded (`Reached`).

`KvStore_proofs`: `IInv` says of each index that did not race that one loop saves it at a time, into a temporary file of its own (`Whole`), and that somebody will see to it that its file is right: a writer that has yet to mark it, the dirty marks, a loop's batch or the loop that has its latest map in hand (`Covered`). `FilesAreWhole` and `NothingForgotten` follow.

`TopicRouting_proofs`: `IInv` says how far a connection's step has brought each of the maps, for triggers that were not raced (`Phases`), that a route with a bound trigger is a topic's unless it was overlapped (`RoutesKept`), and which loop each handle stops (`Stored`, `InHand`). `LoopsAreHeld`, `MissesNeedOverlap` and `MapsAgree` follow.

`CronScheduler_proofs`: `IInv` is `TypeOK`, `LockHeld` (a loop at work has the lock of its backend, unless it expired), `Owned` (whose a scheduler is, and that one of nobody runs nothing) and `AllScheduled` (which of the wanted jobs the old and the new scheduler run at each step of an operation). `WorkIsExclusive` and `JobsAreScheduled` follow.

`Connections_proofs`, about `Invocation`: the inductive invariant `CallsInv` joins to `CallsTypeOK` what the phases of an invocation mean to the table and the sets: `Waiting` (the table has exactly what waits),
`RunnerNoted` (what the runner has to answer is in its set), `RacedKnown` and `EntryCovered` (whoever is missed by result or cleanup was raced), `HandlingUp`, `HaltsOwn` and `NewQuiet`.
`RecordedWaitsHolds`, `HangNeedsRaceHolds`, `StoppedMeansGoneHolds` and `NotedInFlightHolds` follow from it. It has been checked with TLC on the instance of `invocation`.

`Connections_proofs`, about `FunctionOwnership`: `IInv` is `TypeOK`, `Phases` (what a connection's step says of its state), `OwnerKnows` (an owner has the id in its set, or is at work on it) and, for each undisturbed function, `Good`: one connection at a time is at work on it (`Alone`),
it has owners of one kind (`OneKind`), who is at work on it owns it or is removing what nobody owns (`Working`), an idle owner serves (`Serves`) and who serves owns it (`Served`). `OwnerServes` alone is not inductive: a removal in progress must be known to
meet no new owner. Steps of other functions leave `Good(f)` alone (`Untouched`); those of f are taken one by one. `OwnerServesHolds`, `GoneOwnsNothingHolds` and `GoneServesNothingHolds` follow. `IInv` was checked with TLC first.
`OwnedIsListedHolds` takes a second invariant, `Shelved`, over `IInv`: an undisturbed function whose owner is past its listing is listed (`Shown`), and what a connection has read of a service still holds when it acts on it, unless another was in the listing of that service too (`Consistent`). Both except contended services.

Only model-checked: liveness (`JobsSettle` of the three kinds of queue, `Answered`, `SavedAtLast`, `ToldStops`), which is out of the prover's reach. Every safety and action property and both refinements that a passing run checks are theorems. Not proved is a refinement for function queues, for which no abstract specification of deliveries is stated; `OneOwner` and `EntriesAnswered` say of their states what it would say of the steps.

## 5. Not modelled

- The loss of what the operating system had not yet written: a crash is that of the process.
- The pub/sub wake-up of poll loops: a loop also wakes by timeout, and may wake at any time here.
- Redis and RabbitMQ adapters: libraries and servers of their own. (The Redis lock of cron is modelled, as it is a set and a checked delete.)
- `push_delayed` with a time in the past, backoff arithmetic: a delayed job is "later" until it is "due".
- Errors of serialisation, panics of handlers.
- Registrations of in-process workers (`remove_worker_registrations`), `RegisterService`, and the hook that may deny a registration before it changes anything.
- Registration of trigger types, their replay, and the guard of the concurrent map that `register_trigger` holds across an await (`trigger.rs:290`): the registrator modelled is the engine's queue worker, which is there from the start.
- Registrations of cron jobs that fail, among them the one of a job whose old connection is not cleaned up yet.
- Calls of HTTP-invoked functions, middleware, RBAC; and the components marked so in `PROJECT.json`, each with its reason.

Most of the repository by lines is observability, command lines, sandboxes, SDKs in several languages, views of the REST API and the console: input and output around the engine, with no protocol of their own that a model of this kind would say something about.
The modules cover the parts of `engine/src` in which tasks share state that outlives a call.

## 6. Plan

1. *Configuration* and *reload*, which add in-process workers to `FunctionOwnership`; then trigger types and their replay, on `TopicRouting`; the subscriptions of streams.
2. Compositions: `TopicRouting` with a queue per route; `QueueRestart` over `KvStore` rather than over files that are whole by assumption.
3. Proofs: an abstract specification of deliveries for `FunctionQueue`, and its refinement; `QueueRestart` over a proved `KvStore` instead of files assumed whole; with the new modules, their invariants.
