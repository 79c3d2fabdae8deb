# TLA+ models of the Distributed Task Runner

Models, checks and proofs for the scheduler of the Distributed Task Runner: its
in-memory broker, the scheduler engine around it, the SQLite rows the engine writes,
the worker nodes, the scheduler's restarts, the conversions between the processes and
the event bus. Sources are named relative to the repository.

## 1. The system

| Part | State it keeps | Operations | Talks to |
| --- | --- | --- | --- |
| Broker, `taskrunner/queue/broker.py` | envelopes `_tasks`, ready heaps per queue, delayed heap, `_inflight`, `_dead_letter`, `_cancelled` | submit, submit_many, reserve, ack, complete, retry, cancel, requeue_expired_leases, snapshot, batch, get | called by the engine, from the event loop and from threads, under one lock |
| Engine, `scheduler/engine.py` | `workers`, `completed_tasks`, `_results` | submit, submit_batch, register_worker, heartbeat, reserve_task, report_result, cancel_task, retry_task, metrics, autoscaling; three background loops | broker, store, event bus |
| Store, `database/store.py` | tables tasks, workers, logs | upsert_task, upsert_worker, mark_worker_offline, append_log, queries | written by the engine, read by the API only |
| Data model, `shared/models.py` | none | `WorkerInfo.accepts`, `TaskSpec.normalized`, conversions | everyone |
| gRPC, `grpc/` | none | one handler per engine operation; codec | worker nodes and the CLI |
| Worker node, `workers/manager.py`, `executor.py`, `ipc.py` | running executions, pools, counters | register, heartbeat loop, `capacity` consume loops, execute, report | the scheduler over gRPC |
| Event bus, `shared/events.py` | replay buffer, subscriber queues | publish, subscribe | engine to websocket clients |
| API, CLI, monitoring, locks, config, logging | none of their own | routes, commands, metrics | the engine |

A client submits a task; a worker's consume loop calls `ReserveTask`, whose handler
sends `InMemoryTaskQueue.reserve` to a thread; the thread promotes delayed tuples,
scans the heaps and leases the least eligible task; the continuation of the handler
updates worker and rows and returns the task; the worker executes it and reports; the
engine completes or retries it. A lease that is not settled in `lease_seconds` is taken
back by `_lease_reaper`; a worker that does not beat is marked OFFLINE by
`_heartbeat_reaper`.

What is hard: the two places where the event loop hands a broker call to a thread
(other handlers run in between); handlers cancelled by a client that goes away while
their thread goes on; reports that come after the lease was taken back, the task was
cancelled or somebody else reported; several heap tuples of one task; worker restarts
under the same id; statuses that no operation checks before it overwrites them; inside a
node, time-outs that leave their pool thread behind, cancellation that reaches some
futures and not others, loops that end with the first RPC error; restarts of a scheduler
that writes a database and never reads it; values that mean "absent" on the wire.
PROJECT.json lists these hazards with their lines and the properties that watch them.

## 2. Modules

| Module | Models |
| --- | --- |
| `TaskQueue` | the broker: every public method is one atomic action, since each holds the lock throughout |
| `TaskQueue_proofs` | theorems about the broker |
| `SchedulerEngine` | extends `TaskQueue` with the engine, the registry, open reserve calls, the rows and what the scheduler can see of the nodes |
| `SchedulerEngine_proofs` | the engine implements the broker; its own invariants |
| `Backpressure` | extends `SchedulerEngine` with the two measures of load, depth and pressure |
| `Backpressure_proofs` | theorems about the measures of load |
| `WorkerNode` | what a worker node promises the scheduler (abstract) |
| `WorkerRuntime` | the node: `manager.py`, `executor.py` and the queues of `ipc.py`; implements `WorkerNode` |
| `WorkerRuntime_proofs` | theorems about the node, and that it implements `WorkerNode` |
| `Cluster` | extends `SchedulerEngine` with the end and restart of the scheduler process and the consume loops of the nodes |
| `Cluster_proofs` | theorems about the scheduler process and its nodes through crashes |
| `SpecCodec` | the conversions of `codec.py` and the defaults and clamps around them |
| `SpecCodec_proofs` | theorems about the conversions |
| `EventBus` | `EventBus` of `events.py` and the `/events` websocket handler |
| `EventBus_proofs` | theorems about the event bus |
| `MCTaskQueue`, `MCSchedulerEngine`, `MCWorkerRuntime`, `MCCluster`, `MCSpecCodec`, `MCEventBus` | instances for TLC |

### TaskQueue

* **Heap tuples.** A tuple is an entry `<<t, n>>`: task `t`, pushed when its attempts
  were `n`. `_push` runs once per value of `attempts` (0 at submission, then after each
  increment), so the number identifies the tuple. `_sequence` and the id only break ties
  between tuples of equal priority and creation time; ties are a nondeterministic choice.
* **Time.** `available_at` and `lease_deadline` are ticks left; `Tick` moves the clock.
  A due tuple stays in the delayed heap until a scan or a snapshot promotes it, as in
  the code. `created_at` is a rank with ties.
* **reserve** is `ReserveHit` (promote, drop cancelled tuples from the worker's queues,
  pop the least candidate, lease it) or `ReserveMiss` (the heaps keep the promotions and
  drops). The condition variable only decides when a pass of the loop is made; here a
  pass may be made at any time.
* `handed`, `runs` and `age` are history variables that no action reads.
* `batch` and `get` change nothing and are left out, except that operations on an unknown
  id raise (`t \in Known` is the guard).
* Bound: `MaxAttempts` stops callers of `retry`.

### SchedulerEngine

A handler without an `await` between its first read and its last write is one action;
`publish` and the lock managers never suspend while anything is left to write. That makes
the broker call and the save of `report_result`, `retry_task` and the other handlers one
step, though a broker thread may run between them: the save then carries the status of
that thread's own, later step, and the thread's continuation saves again. The split
handlers are

* `reserve_task`: `ReserveTask` (handler, up to `to_thread`), `ThreadStart` (the thread
  enters `reserve`; an empty `completed_tasks` is replaced by a private set),
  `ThreadPop` / `ThreadMiss` (a pass of the loop; the call may time out only after a pass
  that found nothing), `ReserveReturn` (the continuation), `DropHandler` (grpc cancels
  the handler at any of these points: a queued thread is cancelled with it, a running one
  goes on alone, a result not yet picked up is lost);
* `_lease_reaper`: `LeaseReaper` in the thread, `LeaseReaperSave` back on the loop.

`register_worker` replaces the `WorkerInfo` object; objects are `<<w, g>>` and a call
keeps the one it started with. The nodes appear as `beating` (heartbeats arrive) and
`executing` (entries given to a worker that has not reported; an execution that never
reports stands for a crash, a lost response or a lost report). A heartbeat carries any
count up to the worker's capacity, since it may be old when it arrives. `Clock` does not
outrun a beating node: the heartbeat interval (2 s) is well below the time-out (10 s),
and late heartbeats are `BeatStop` followed by `BeatResume`.

Bounds: `Calls` (open handlers), `MaxRegistrations`, `MaxAttempts`.

### Backpressure

`submit` refuses by *depth* (tasks in no terminal status), while `_pressure_reporter` and
the metrics warn by *pressure* (heap tuples and leases, after a promotion). No new state.
`Stuck` names the tasks that take up depth for ever: cancelled ones that a failure report
or a manual retry set to RETRYING, whose id stays in `_cancelled`. `LoadSpec` is the
engine without heartbeats and their reaper, which touch neither measure, nor the open calls
and executions; the runs `engine` and `engine_chain` use it.

### WorkerNode and WorkerRuntime

The node is one asyncio loop; a coroutine is at one of its suspension points and an action
is what it does up to the next. `main` is `_run_with_transport`, `heart` the heartbeat
loop, `consumer[c]` a consume loop together with the execution it awaits, `job[d]` the
call of a task's target: `queued`, (for the process pool) `fetched` into the call queue
where it can no longer be cancelled, and `running` in a pool; or, for an async target, on
the loop itself (`OnLoop`): a `coroutine` that ends when cancelled, a `stubborn` one that
catches the cancellation, or a `blocking` function, during which nothing else of the node
runs (`LoopRuns`). RPCs may be answered or fail at any time; a failed report may have
arrived.

* `TimeOut` is `asyncio.wait_for` giving up: the future is cancelled, which reaches
  coroutines and queued jobs, while a started job goes on alone (`Cancelled`); a
  stubborn coroutine keeps its execution until it returns (`Deaf`). `EndJob` is a job
  ending in its pool, `Resume` the loop learning of it, `EndOnLoop` both at once.
* `CancelConsumers` and `Drain` are the `finally` block: cancelling a consume loop
  cancels the execution it awaits; awaiting a loop that ended with an error raises it and
  skips the rest.
* `Exit` waits for the pools' jobs and for the feeder threads of the multiprocessing
  queues, which nobody reads: with more envelopes than `PipeCapacity` (`PipesHold`) it
  never happens. It also waits for coroutines that are left over.

`WorkerNode` is what the scheduler may rely on: open calls and tasks in work never exceed
the capacity, a task is reported at most once, heartbeats count the tasks in work when
they are sent. The refinement mapping counts consume loops in `reserve` as calls and
collects the deliveries of running executions. It is the environment `SchedulerEngine`
assumes with `executing` (a report at most once for each delivery) and with the counts of
its heartbeats.

Assumed: a worker process does not die.

### Cluster

`Crash` empties the engine's memory and fails every open call, `Restart` is
`run_scheduler` on the same database: `CREATE TABLE IF NOT EXISTS` and no read. Rows,
executions and nodes live on. Task ids are fresh uuids, so tasks of earlier processes are
`forgotten`: their reports raise, which ends the reporting consume loop. `consumers` counts
the loops a node has left, as `WorkerRuntime` shows: an RPC error ends a loop for good, and
the heartbeat loop only when a call fails while the scheduler is down. A node whose
heartbeat is answered `known=False` registers again (`BeatUnknown`). `result_rows` is the
`result_json` column with its COALESCE. Batches, snapshots and dropped handlers are left to
`SchedulerEngine`.

### SpecCodec

One message at a time: a spec over gRPC or HTTP and back out to a worker, the options of a
worker command, a result. Absent values are 0 or the empty string on the wire, and
`x or default` takes both for absent. Numbers are integers (times in tenths of a second),
`MaxInt` stands for 2^31 - 1: protobuf raises for a field that does not fit. Fields that
are only copied are left out. The default capacity is any integer, as in the environment.
Results are classes of values by what `json.dumps(default=str)` and `json.loads` make of
them: JSON's own stay, a tuple becomes a list, a dict with numeric keys one with strings, an
object its `str`, and a cycle or another key raises before anything is sent.

### EventBus

Events are numbers in the order of publication. The bus lock is never held across a
suspension, so `Publish` is one step; a handler suspends in `accept`, `send_json` and
`queue.get`. The handler does not close the `subscribe()` generator when it ends:
`Finalize` is the event loop doing so later. `joined` and `refused` are history variables:
the events a connection's full queue refused.

Definitions commented as *faulty variant* are plausible bugs, used to see that each
property can fail; no specification uses them.

## 3. What TLC checks

| Run | Instance | Shows |
| --- | --- | --- |
| `queue` | two tasks (delayed, retried with backoff / dependent, with affinity), one worker, depth 1, lease 1 tick, callers retry a task that has had no attempt yet (later attempts come from expired leases); 300 thousand states | `TypeOK`, `LeaseCoversRunning`, `NoTaskLost`, `RunsBounded`, `CancelledNotLeased`, `DelayHonoured`, `LeaseRecovered` |
| `engine` | one task retried once, two workers registered up to twice, two open calls (workers and calls are symmetric); 2.3 million states | `TerminalSaved`, `ExecutedOnce` |
| `engine_chain` | two tasks in a chain, the first retried once, depth 1 (so batches fail half way and retries exceed it), up to 2 attempts by callers; 1.6 million states | `DependencyGate`, `PressureCoversDepth`, `FreshWithinLimit` |
| `engine_dispatch` | two tasks in a chain, one worker with heartbeats, no failures reported; 110 thousand states | `EngineTypeOK`, `Dispatched`, `LeaseRecovered`, `StaleWorkerOffline` |
| `retry_dead_lettered`, `cancel_running`, `stale_row` | one task, one worker (registered up to twice in the last) | the findings below |
| `node` | two slots, a task for each pool and an async one, one pool thread, pipes for two envelopes; 330 thousand states | `NodeTypeOK`, `CallAwaited`, `ImplementsNode`, `NoLateStart`, `ExecutionEnds`, `StopEnds` |
| `event_bus` | two clients, replay 2, queues of 2, 5 events; 160 thousand states | `BusTypeOK`, `InOrder`, `NothingSkipped`, `EventDelivered`, `GoneUnsubscribed` |
| `cluster` | two tasks, one of them retried once, one node with two consume loops, one open call, one crash; 3.3 million states | `ClusterTypeOK`, `SuccessHasResult`, `ExecutedOnceEver` |
| `cluster_live` | the same without retries | `NodeReturns`, `TaskServed` |
| `codec` | numbers -2000, -1, 0, 1, 2000 against an int32 of 1000, every combination; every class of result; 150 thousand states | `StoredNormal`, `CopyAgrees`, `GrpcDeliverable`, `RegisteredAsRun`, `ResultKept` |

Why the bounds are enough to be interesting: with two entries of one task the heaps hold
a stale and a current tuple at once; depth 1 makes submission and batches fail; two
workers execute an old and a new attempt of one task while two calls compete for entries,
and two registrations leave a call with a replaced object; a lease shorter than the
heartbeat time-out lets it expire under a live worker. Without heartbeats (`LoadSpec`) a
beating node lets the clock go `HeartbeatTimeout` ticks: one is enough in `engine`, where
one lease can expire before the attempts end, and there are three in `engine_chain`. Every
invariant, action property and refinement is also proved without bounds (below), so the
instances serve to find mistakes early and to cover what is not provable. In `node` one
thread lets a timed-out job hold the pool while the slot takes another task, both slots
reach the capacity, and three deliveries overflow a pipe; in `event_bus` five events fill a
queue, overflow it and follow a full replay; in `cluster` a second task is new after the
restart, one of the two loops may be lost while the other goes on, and failure results
precede successes and late reports; the number sets of `codec` have a value on each side of
every clamp and default. `engine_dispatch` and `cluster_live` exclude failure reports
(`MaxAttempts = 0`) and `engine_dispatch` a second registration, to keep the liveness graphs
small: a second registration only begins the worker's silence anew on a fresh object, and
what it does to the rows is the run `stale_row`.

**Fairness.** `FairSpec`: time passes, and the lease reaper loop never ends.
`EngineFairSpec`: the same in the engine's steps; the heartbeat reaper never ends; the
thread pool and the event loop run what they are given; live nodes beat and keep polling
(`_consume_loop`). The clock is strongly
fair, because a node that comes and goes must not stop time. Nothing is assumed of
reports: a worker may never report. `Dispatched` and `StaleWorkerOffline` speak of nodes
that are beating, or have stopped for good; nodes may also come and go for ever.
`RuntimeFairSpec`: the event loop, unless a target blocks it, runs what is ready, RPCs are
answered or fail, time-outs fire, pools start what they hold. No target is assumed to
return: `ExecutionEnds` rests on the time-out alone for pool targets and coroutines that
can be cancelled, and has as a premise that blocking and stubborn async targets return;
`StopEnds` has it for all targets. `EventBus!Spec`:
the loop runs ready handlers and finalisers, a client that stays connected reads.
`ClusterFairSpec`: as the engine's, a scheduler that is down is started again, executions
end (`ExecutionEnds`, so no target holds the loop for ever) and are reported; loops need not
fail. No fairness makes a task's turn come among others: the heaps are strict, without
ageing, and a steady stream of more urgent tasks starves the rest; the liveness properties
are of instances without such a stream.

**Findings.**

* `taskrunner retry` on a dead-lettered task leaves it dead-lettered: `retry` increments
  `attempts`, which is above `max_retries` already (`broker.py:120`), while
  `cli/main.py:97` says "Retry a failed or dead-lettered task."
* Cancelling a running task does not stand: `complete` and `retry` do not look at the
  status (`broker.py:103`), so the worker's report overwrites CANCELLED, while
  `cli/main.py:104` says "Cancel a queued or running task."
* The row of a dead worker may say busy for ever: a reserve call that began before the worker
  registered again saves the status of the object it holds (`engine.py:131-132`) after the
  heartbeat reaper marked the new object, which the reaper then skips (`engine.py:234`),
  while the repository's README says that the scheduler "marks stale workers offline when
  heartbeats stop" (line 488). The registered object does go offline (`StaleWorkerOffline`).

**Limits the properties state.** Where the code promises less than one might expect, the
property says what is left, and its comment says what is not:

* `NoLateStart` covers the thread pool only: jobs in the call queue of the process pool may
  start after their task was reported as timed out.
* `StopEnds` lets a node hang in the interpreter's exit, everything else done, when its
  envelopes do not fit into the pipes of the multiprocessing queues, which nobody reads.
* `ExecutionEnds` excludes async targets that block the event loop or catch their
  cancellation for ever: no time-out reaches them (`executor.py:91`).
* `CallAwaited` and `ImplementsNode` let a shutdown drop running tasks unreported
  (`manager.py:83` cancels them before `manager.py:89` waits).
* `NodeTypeOK` bounds what a node runs by the sizes of the pools, not by its capacity: jobs
  that timed out go on beside the tasks that took their slots.
* `TaskServed` ends when a node has no consume loop left: a node that beats and is listed
  as idle may serve nothing after an RPC error or a scheduler restart.
* `CopyAgrees` leaves out priority, backoff and batch key: priority 0 and backoff 0 arrive
  as 100 and 1.5 (`codec.py:47`).
* `RegisteredAsRun` leaves out a capacity of 0, which the environment may give: the node runs
  no loop and is registered with one slot (`codec.py:103`).
* `ResultKept` promises the JSON image of a result, not the result.
* `GrpcDeliverable` leaves out HTTP, which accepts numbers that no worker can be sent.
* `PressureCoversDepth` excludes `Stuck`, and `FreshWithinLimit` the tasks that were
  retried, which may exceed `max_depth`.
* `GoneUnsubscribed` waits for the next event.

## 4. What is proved

For every value of the constants, from the assumptions the modules state: for the broker
and what extends it `TaskSpecAssumption` (specs are normalised: numbers are naturals),
`BoundAssumption`, `EngineAssumption` and `ClusterAssumption` (bounds are naturals, sets of
tasks and calls are finite, `None` is not a worker, a number or a `WorkerInfo` object); for
the others `NodeAssumption`, `BusAssumption`, `CodecAssumption` and `NoneAssumption`, which
say the same of theirs.

* Broker: `TypeCorrect`, `LeasesTracked`, `NoTaskIsLost`, `CancelledStaysOut`,
  `RunsAreBounded`, `EntriesAreUsedOnce`, `DelayIsHonoured`.
  The base invariant `BaseInv` joins types, fresh envelopes (a submission pushes entry 0)
  and the agreement of RUNNING with `_inflight`: retry pushes within range only because
  what it takes is known, and expiry takes known tasks only because of that agreement.
  `NextShape` reduces the callers to nine kinds of step, used in all proofs.
  `RunsBounded` is not inductive: `HeapsDisjoint` (an entry is in one heap or handed out,
  never two, and is numbered no higher than `attempts`, so a push is always new) makes
  each run consume a different one of the `max_retries + 1` entries.
  `DelayHonoured` needs `DelayCountdown` (countdown plus waited time cover the delay).
* Engine: `EngineInv` ties the broker's base invariant to the types of the engine (an open
  call has a registered object; a popped one has an entry). Every step is one of the
  broker's, the variables being the same (`EngineImplementsQueue`), so what is proved of the
  broker holds here (`EngineKeepsQueueInvariants`). Further `EngineTypeCorrect`,
  `DependenciesRespected`, `TerminalIsSaved`, and `EntriesExecutedOnce` (which uses
  `HeapsDisjoint`: a thread pops an entry nobody has had).
* Load: `PressureCovers` and `FreshStaysWithinLimit`, of the whole engine (`LoadIsEngine`:
  the specification of the run has fewer steps). `LoadInv` is what they need: nobody calls
  `ack`, which would take up depth and be in no heap; a cancelled task is QUEUED no more;
  entry 0 of a task without a retry is in a heap only while the task is QUEUED, because a
  report is of an entry that was handed out (`ExecutedOnce`, `HeapsDisjoint`). So the
  latest entries of waiting tasks are an injection into the heaps (`NoTaskLost`), and only
  submissions add to the tasks without a retry.
* Node: `NodeIsTypeCorrect`, `CallIsAwaited`, `NothingStartsLate` and
  `NodeImplementsWorkerNode`. `CallAwaited` is made inductive by `HandedOver`: whatever is
  held or reported was handed to a pool or the loop once, so a reply never brings it again;
  and no loop exists before the registration. The pool sizes are invariants of their own
  (`PoolsWithinSize`): a job enters a pool only through a guard on its size. `NoLateStart`
  needs that a queued job of the thread pool always has its execution waiting
  (`QueuedAwaited`), since the cancellation of its future takes it out of the queue. The
  refinement maps consume loops in `reserve` to calls and the tasks of running executions
  to a set; `CallAwaited` makes the executions as many as their tasks (`WorkingCounted`), so
  a free consume loop is room in `WorkerNode`, and every step is a step of the abstract node
  or a stutter (`RefineStep`).
* Scheduler process: `ClusterIsTypeCorrect`, `SuccessKeepsResult`, `NothingExecutedTwice`,
  `EveryBrokerKeepsItsPromises` and `EveryProcessRespectsDependencies`. The engine's
  invariant does not hold here (an execution outlives the registration of its node), so
  `ClusterInv` is built anew on the broker's: a step is one of the broker's
  (`BrokerOperates`), or the crash, which begins an empty broker (`BrokerStep`), so the
  broker's step lemmas carry over. `LoopsHeld` counts calls and executions as finite sets:
  a call takes a free loop, its continuation hands the loop on to the execution, and a crash
  takes as many loops as it ends calls. `RowsAgree` adds to `SuccessHasResult` that the
  envelope is no further than the result column: only a report of success makes a task
  succeed, and it brings the result. `GivenOut` is what `ExecutedOnceEver` needs: an
  executed entry was handed out by the present broker or is of a forgotten task, and heaps
  hold neither.
* Event bus: `BusInvariant`, `BusIsTypeCorrect`, `EventsInOrder`, `NoEventIsSkipped`.
  `BusInv` says where each event is: the replay is the last events in order, a connection's
  stream (sent, history, queue) is increasing, and what it lacks was refused by a full queue
  at its own publication. Streams are concatenations; the proofs work with increasing sequences and the set
  of their elements.
* Conversions: `NormalizedIdempotent`, `CodecInvariant`, `StoredIsNormal`, `CopyIsFaithful`,
  `GrpcIsDeliverable`, `RegistrationIsTrue` and `ResultArrives`, for every set of integers
  that clients write and every width of at least 100. `CodecInv` says that what is stored is
  the conversion of the message on its way, and what is delivered is the conversion of what
  is stored; the properties follow because no value that `Normalized` yields for time-out,
  queue and retries is one that `SpecFromProto` takes for absent (`NormalFixed`); of a
  registration only a capacity of 0 is (`RegistrationKept`), and of a report nothing but the
  value changes (`JsonRoundTrip`).

Only model-checked: the liveness properties (`LeaseRecovered`,
`StaleWorkerOffline`, `Dispatched`, `ExecutionEnds`, `StopEnds`, `EventDelivered`,
`GoneUnsubscribed`, `NodeReturns`, `TaskServed`), since fairness is out of the prover's
reach, and the three findings.

## 5. Not modelled

Loading a target, broken process pools, the shared counters (nothing in the system reads
them), the pipe and socket of `ipc.py` (used by tests only); the generated protobuf code;
response shapes, process metrics and the autoscaling arithmetic; argument parsing and
printing of the CLI; logging and configuration; the lock manager (never contended);
`_results`, `_drain_event` and the logs table, which nothing in the scheduler reads; the
order in which a stopping scheduler closes its servers; the websocket keepalive, whose
failure ends nothing but itself; memory errors and exceptions of SQLite itself.
`from_dict` of the models has no caller.

## 6. Plan

1. Proofs: `TerminalSaved` through crashes (for the tasks of the present process), and that
   a node's executions are what `executing` says of it.
2. The condition-variable protocol of `reserve` (who is woken), and autoscaling as an
   operator over the registry.
