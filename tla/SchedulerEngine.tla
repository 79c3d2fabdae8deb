-------------------------- MODULE SchedulerEngine --------------------------
(***************************************************************************)
(* SchedulerEngine of taskrunner/scheduler/engine.py, on top of the broker *)
(* (TaskQueue) and the SQLite rows of database/store.py.                   *)
(*                                                                         *)
(* The engine runs on one asyncio loop: a handler without an await before  *)
(* its last assignment is one action.  Its locks and the event bus lock    *)
(* are never held across a suspension, so they are never contended.  Two   *)
(* handlers do suspend, because they send the broker call to a thread:     *)
(*  - reserve_task: the handler, the thread in InMemoryTaskQueue.reserve   *)
(*    and the continuation are separate steps, and the client may go away  *)
(*    between any two of them;                                             *)
(*  - _lease_reaper: expiry in a thread, then the rows on the loop.        *)
(*                                                                         *)
(* register_worker replaces the WorkerInfo object of a worker id, and a    *)
(* reserve call keeps the object it started with.  An object is <<w, g>>,  *)
(* the g-th registration of w.  Only the status of an object outlives its  *)
(* replacement (accepts reads it in the thread); running_tasks and         *)
(* last_heartbeat are kept for the registered object, the latter as ticks  *)
(* since the heartbeat.  Rows keep the status column only.                 *)
(***************************************************************************)
EXTENDS TaskQueue

CONSTANTS
    Calls,             \* ReserveTask handlers that can be open at once
    MaxRegistrations,  \* bound: registrations of one worker id
    HeartbeatTimeout   \* heartbeat_timeout_seconds, in ticks

ASSUME EngineAssumption ==
    /\ IsFiniteSet(Calls)
    /\ MaxRegistrations \in Nat
    /\ HeartbeatTimeout \in Nat

Objects == Workers \X (1 .. MaxRegistrations)

\* An open ReserveTask call.  phase: "queued" (handed to the thread pool),
\* "waiting" (a thread is in reserve), "popped" (the thread has returned a
\* task and the continuation is due).  live tells whether the thread looks at
\* the engine's own completed_tasks or at a private empty set; dropped, that
\* the handler was cancelled and nobody awaits the thread.
CallRecord ==
    [phase : {"none", "queued", "waiting", "popped"}, object : Objects \cup {None},
     live : BOOLEAN, entry : Entries \cup {None}, dropped : BOOLEAN]

NoCall ==
    [phase |-> "none", object |-> None, live |-> FALSE, entry |-> None,
     dropped |-> FALSE]

VARIABLES
    workers,         \* workers: the object registered for each id, 0 for none
    worker_status,   \* WorkerInfo.status of every object
    running_tasks,   \* WorkerInfo.running_tasks of the registered object
    silence,         \* ticks since its last_heartbeat, up to the timeout + 1
    completed_tasks, \* completed_tasks
    calls,           \* the open ReserveTask calls
    expired,         \* what the lease reaper's thread returned, not yet saved
    task_rows,       \* status column of the tasks table
    worker_rows,     \* status column of the workers table
    \* the worker nodes, as far as the scheduler can tell
    beating,         \* nodes whose heartbeats arrive
    executing        \* <<e, w>>: w was given entry e and may still report

registry == <<workers, worker_status, running_tasks, silence>>
store == <<task_rows, worker_rows>>
nodes == <<beating, executing>>
engineVars == <<queueVars, registry, completed_tasks, calls, expired, store, nodes>>

EngineInit ==
    /\ Init
    /\ workers = [w \in Workers |-> 0]
    /\ worker_status = [o \in Objects |-> "idle"]
    /\ running_tasks = [w \in Workers |-> 0]
    /\ silence = [w \in Workers |-> 0]
    /\ completed_tasks = {}
    /\ calls = [c \in Calls |-> NoCall]
    /\ expired = {}
    /\ task_rows = [t \in Tasks |-> None]
    /\ worker_rows = [w \in Workers |-> None]
    /\ beating = {}
    /\ executing = {}

-----------------------------------------------------------------------------
(* Helpers *)

Registered == {w \in Workers : workers[w] # 0}

Current(w) == <<w, workers[w]>>

\* store.upsert_task: the row takes whatever the envelope holds now.
UpsertTasks(S) ==
    task_rows' = [t \in Tasks |-> IF t \in S THEN status'[t] ELSE task_rows[t]]

\* Assignment of an object's status followed by store.upsert_worker.
SetWorkerStatus(o, s) ==
    /\ worker_status' = [worker_status EXCEPT ![o] = s]
    /\ worker_rows' = [worker_rows EXCEPT ![o[1]] = s]

Load(n) == IF n = 0 THEN "idle" ELSE "busy"

CompletedSeenTerminal(c) ==   \* faulty variant: any finished dependency will do
    {t \in Tasks : status[t] \in Terminal}

\* What the thread of call c compares depends_on with:
\* "completed_dependencies or set()".
CompletedSeen(c) == IF calls[c].live THEN completed_tasks ELSE {}

-----------------------------------------------------------------------------
(* Clients.  The broker call and the save of a handler are one step here and in  *)
(* ReportResult: a broker thread that runs between them can only make the save   *)
(* carry the status of its own, later step.                                      *)

SubmitTaskUnchecked(t) ==   \* faulty variant: no check of max_depth
    /\ t \notin Known
    /\ SubmitEach({t})
    /\ UpsertTasks({t})
    /\ UNCHANGED <<registry, completed_tasks, calls, expired, worker_rows, nodes>>

SubmitTask(t) ==
    /\ Submit(t)
    /\ UpsertTasks({t})
    /\ UNCHANGED <<registry, completed_tasks, calls, expired, worker_rows, nodes>>

\* submit_batch: when submit_many raises QueueFullError half way, the tasks it
\* has queued by then stay queued and get no row.
SubmitBatch(batch, accepted) ==
    /\ SubmitMany(batch, accepted)
    /\ UpsertTasks(IF accepted = batch THEN batch ELSE {})
    /\ UNCHANGED <<registry, completed_tasks, calls, expired, worker_rows, nodes>>

CancelTask(t) ==
    /\ Cancel(t)
    /\ UpsertTasks({t})
    /\ UNCHANGED <<registry, completed_tasks, calls, expired, worker_rows, nodes>>

RetryTask(t) ==
    /\ attempts[t] < MaxAttempts
    /\ Retry(t)
    /\ UpsertTasks({t})
    /\ UNCHANGED <<registry, completed_tasks, calls, expired, worker_rows, nodes>>

-----------------------------------------------------------------------------
(* Workers *)

\* register_worker, when a node starts or restarts under a stable id.
RegisterWorker(w) ==
    /\ workers[w] < MaxRegistrations
    /\ workers' = [workers EXCEPT ![w] = @ + 1]
    /\ SetWorkerStatus(<<w, workers[w] + 1>>, "idle")
    /\ running_tasks' = [running_tasks EXCEPT ![w] = 0]
    /\ silence' = [silence EXCEPT ![w] = 0]
    /\ beating' = beating \cup {w}
    /\ UNCHANGED <<queueVars, completed_tasks, calls, expired, task_rows, executing>>

\* heartbeat: n was len(_running) on the node when the message left it.
Heartbeat(w, n) ==
    /\ w \in beating
    /\ running_tasks' = [running_tasks EXCEPT ![w] = n]
    /\ silence' = [silence EXCEPT ![w] = 0]
    /\ SetWorkerStatus(Current(w), Load(n))
    /\ UNCHANGED <<queueVars, workers, completed_tasks, calls, expired, task_rows, nodes>>

\* reserve_task up to asyncio.to_thread; unknown and OFFLINE workers get None.
ReserveTask(c, w) ==
    /\ calls[c].phase = "none"
    /\ w \in Registered
    /\ worker_status[Current(w)] # "offline"
    /\ calls' = [calls EXCEPT ![c] =
          [NoCall EXCEPT !.phase = "queued", !.object = Current(w)]]
    /\ UNCHANGED <<queueVars, registry, completed_tasks, expired, store, nodes>>

\* The thread enters reserve: an empty completed_tasks is falsy and is replaced
\* by a fresh set that later completions do not reach.
ThreadStart(c) ==
    /\ calls[c].phase = "queued"
    /\ calls' = [calls EXCEPT ![c].phase = "waiting",
                              ![c].live = completed_tasks # {}]
    /\ UNCHANGED <<queueVars, registry, completed_tasks, expired, store, nodes>>

\* The thread pops a task.  Nobody learns of it if the handler is gone.
ThreadPop(c, e) ==
    LET o == calls[c].object IN
    /\ calls[c].phase = "waiting"
    /\ ReserveHit(o[1], worker_status[o], CompletedSeen(c), e)
    /\ calls' = [calls EXCEPT ![c] =
          IF @.dropped THEN NoCall ELSE [@ EXCEPT !.phase = "popped", !.entry = e]]
    /\ UNCHANGED <<registry, completed_tasks, expired, store, nodes>>

ThreadMissNoTimeout(c, again) ==   \* faulty variant: waits without a timeout
    LET o == calls[c].object IN
    /\ calls[c].phase = "waiting"
    /\ ReserveMiss(o[1], worker_status[o], CompletedSeen(c))
    /\ UNCHANGED <<registry, completed_tasks, calls, expired, store, nodes>>

\* The thread finds nothing, and waits on the condition or times out.
ThreadMiss(c, again) ==
    LET o == calls[c].object IN
    /\ calls[c].phase = "waiting"
    /\ ReserveMiss(o[1], worker_status[o], CompletedSeen(c))
    /\ calls' = IF again THEN calls ELSE [calls EXCEPT ![c] = NoCall]
    /\ UNCHANGED <<registry, completed_tasks, expired, store, nodes>>

ReserveReturnRunning(c) ==   \* faulty variant: saves RUNNING, not the present status
    LET o == calls[c].object
        e == calls[c].entry
    IN
    /\ calls[c].phase = "popped"
    /\ running_tasks' = [running_tasks EXCEPT
          ![o[1]] = IF o = Current(o[1]) THEN @ + 1 ELSE @]
    /\ SetWorkerStatus(o, "busy")
    /\ task_rows' = [task_rows EXCEPT ![e[1]] = "running"]
    /\ calls' = [calls EXCEPT ![c] = NoCall]
    /\ executing' = executing \cup {<<e, o[1]>>}
    /\ UNCHANGED <<queueVars, workers, silence, completed_tasks, expired, beating>>

\* reserve_task from the result of the thread to the return.
ReserveReturn(c) ==
    LET o == calls[c].object
        e == calls[c].entry
    IN
    /\ calls[c].phase = "popped"
    /\ running_tasks' = [running_tasks EXCEPT
          ![o[1]] = IF o = Current(o[1]) THEN @ + 1 ELSE @]
    /\ SetWorkerStatus(o, "busy")
    /\ UNCHANGED queueVars
    /\ UpsertTasks({e[1]})
    /\ calls' = [calls EXCEPT ![c] = NoCall]
    /\ executing' = executing \cup {<<e, o[1]>>}
    /\ UNCHANGED <<workers, silence, completed_tasks, expired, beating>>

DropHandlerDeliver(c) ==   \* faulty variant: the result is sent, then kept for a resend
    /\ calls[c].phase = "popped"
    /\ LET o == calls[c].object IN
          /\ o[1] \notin beating \/ o # Current(o[1])
          /\ executing' = executing \cup {<<calls[c].entry, o[1]>>}
    /\ UNCHANGED <<queueVars, registry, completed_tasks, calls, expired, store, beating>>

\* The client of call c is gone (its node stopped or was replaced) and grpc
\* cancels the handler: a call still in the pool's queue is cancelled with it,
\* a running thread goes on alone, a result not yet picked up is thrown away.
DropHandler(c) ==
    /\ calls[c].phase # "none"
    /\ ~ calls[c].dropped
    /\ LET o == calls[c].object IN o[1] \notin beating \/ o # Current(o[1])
    /\ calls' = [calls EXCEPT ![c] =
          IF @.phase = "waiting" THEN [@ EXCEPT !.dropped = TRUE] ELSE NoCall]
    /\ UNCHANGED <<queueVars, registry, completed_tasks, expired, store, nodes>>

NoFloor(n) == n - 1   \* faulty variant: no lower limit

\* max(0, running_tasks - 1)
OneLess(n) == IF n > 0 THEN n - 1 ELSE 0

\* report_result, however late; neither the task's status nor who holds its
\* lease is looked at.
ReportResult(e, w, s) ==
    LET t == e[1]
        n == OneLess(running_tasks[w])
    IN
    /\ <<e, w>> \in executing
    /\ running_tasks' = [running_tasks EXCEPT ![w] = n]
    /\ SetWorkerStatus(Current(w), Load(n))
    /\ \/ s = "succeeded" /\ Complete(t, s)
       \/ s = "cancelled" /\ Complete(t, s)
       \/ s = "failed" /\ attempts[t] < MaxAttempts /\ Retry(t)
    /\ completed_tasks' =
          IF s = "succeeded" THEN completed_tasks \cup {t} ELSE completed_tasks
    /\ UpsertTasks({t})
    /\ executing' = executing \ {<<e, w>>}
    /\ UNCHANGED <<workers, silence, calls, expired, beating>>

\* A node's heartbeats stop (it died, shut down, or its heartbeat loop ended on
\* an RPC error), or arrive again.  Its reports and calls may still come in.
BeatStop(w) ==
    /\ w \in beating
    /\ beating' = beating \ {w}
    /\ UNCHANGED <<queueVars, registry, completed_tasks, calls, expired, store, executing>>

BeatResume(w) ==
    /\ w \in Registered \ beating
    /\ beating' = beating \cup {w}
    /\ UNCHANGED <<queueVars, registry, completed_tasks, calls, expired, store, executing>>

-----------------------------------------------------------------------------
(* Background services *)

StaleIdle ==   \* faulty variant: a worker that died while BUSY is not looked at
    {w \in Registered : /\ worker_status[Current(w)] = "idle"
                        /\ silence[w] > HeartbeatTimeout}

Stale ==
    {w \in Registered : /\ worker_status[Current(w)] # "offline"
                        /\ silence[w] > HeartbeatTimeout}

HeartbeatReaper ==
    /\ Stale # {}
    /\ worker_status' = [o \in Objects |->
          IF o[1] \in Stale /\ o = Current(o[1]) THEN "offline" ELSE worker_status[o]]
    /\ worker_rows' = [w \in Workers |->
          IF w \in Stale THEN "offline" ELSE worker_rows[w]]
    /\ UNCHANGED <<queueVars, workers, running_tasks, silence, completed_tasks, calls,
                   expired, task_rows, nodes>>

\* _lease_reaper, in its thread.
LeaseReaper ==
    /\ expired = {}
    /\ RequeueExpiredLeases
    /\ expired' = Expired
    /\ UNCHANGED <<registry, completed_tasks, calls, store, nodes>>

LeaseReaperSaveOnce ==   \* faulty variant: the list is not emptied
    /\ expired # {}
    /\ UNCHANGED queueVars
    /\ UpsertTasks(expired)
    /\ UNCHANGED <<registry, completed_tasks, calls, expired, worker_rows, nodes>>

\* _lease_reaper, back on the loop: saves the tasks as they are by now.
LeaseReaperSave ==
    /\ expired # {}
    /\ UNCHANGED queueVars
    /\ UpsertTasks(expired)
    /\ expired' = {}
    /\ UNCHANGED <<registry, completed_tasks, calls, worker_rows, nodes>>

\* _pressure_reporter, metrics, queue_snapshot, autoscaling_recommendation.
ReadSnapshot ==
    /\ Snapshot
    /\ UNCHANGED <<registry, completed_tasks, calls, expired, store, nodes>>

\* A live node beats every heartbeat_interval_seconds, which is shorter than
\* the timeout: the clock does not outrun a node whose heartbeats arrive.
Clock ==
    /\ \A w \in beating : silence[w] < HeartbeatTimeout
    /\ Tick
    /\ silence' = [w \in Workers |->
          IF w \in Registered /\ silence[w] <= HeartbeatTimeout
          THEN silence[w] + 1 ELSE silence[w]]
    /\ UNCHANGED <<workers, worker_status, running_tasks, completed_tasks, calls, expired,
                   store, nodes>>

-----------------------------------------------------------------------------

Thread(c) ==
    \/ \E e \in Entries : ThreadPop(c, e)
    \/ ThreadMiss(c, FALSE)

EngineNext ==
    \/ \E t \in Tasks : SubmitTask(t) \/ CancelTask(t) \/ RetryTask(t)
    \/ \E batch \in SUBSET Tasks : \E accepted \in SUBSET batch :
          SubmitBatch(batch, accepted)
    \/ \E w \in Workers :
          \/ RegisterWorker(w)
          \/ \E n \in 0 .. Cardinality(Calls) : Heartbeat(w, n)
          \/ BeatStop(w)
          \/ BeatResume(w)
          \/ \E e \in Entries, s \in {"succeeded", "cancelled", "failed"} :
                ReportResult(e, w, s)
    \/ \E c \in Calls :
          \/ \E w \in Workers : ReserveTask(c, w)
          \/ ThreadStart(c)
          \/ Thread(c)
          \/ ThreadMiss(c, TRUE)
          \/ ReserveReturn(c)
          \/ DropHandler(c)
    \/ HeartbeatReaper
    \/ LeaseReaper
    \/ LeaseReaperSave
    \/ ReadSnapshot
    \/ Clock

EngineSpec == EngineInit /\ [][EngineNext]_engineVars

-----------------------------------------------------------------------------
(* Properties *)

EngineTypeOK ==
    /\ TypeOK
    /\ workers \in [Workers -> 0 .. MaxRegistrations]
    /\ worker_status \in [Objects -> WorkerStatuses]
    /\ running_tasks \in [Workers -> Nat]
    /\ silence \in [Workers -> 0 .. HeartbeatTimeout + 1]
    /\ completed_tasks \subseteq Tasks
    /\ calls \in [Calls -> CallRecord]
    /\ expired \subseteq Tasks
    /\ task_rows \in [Tasks -> Statuses \cup {None}]
    /\ worker_rows \in [Workers -> WorkerStatuses \cup {None}]
    /\ beating \subseteq Registered
    /\ executing \subseteq Entries \X Registered

\* The dependency gate: a task that holds a lease has all its dependencies in
\* completed_tasks, although reserve threads decide on the set they captured
\* when they started and completions arrive while they wait.
DependencyGate ==
    \A t \in inflight : TaskSpec[t].depends_on \subseteq completed_tasks

\* A terminal status is in the tasks table, or the lease reaper is about to
\* save it: no continuation that was suspended meanwhile writes an old status
\* over it.
TerminalSaved ==
    \A t \in Tasks : status[t] \in Terminal => task_rows[t] = status[t] \/ t \in expired

\* An execution that has not reported holds an entry of its own: no entry is
\* given to two workers, or to a worker while a call still carries it.
ExecutedOnce ==
    LET carrying == {c \in Calls : calls[c].phase = "popped"} IN
    /\ \A x, y \in executing : x[1] = y[1] => x = y
    /\ \A c \in carrying : /\ calls[c].entry \in handed
                           /\ \A x \in executing : x[1] # calls[c].entry
                           /\ \A d \in carrying \ {c} : calls[d].entry # calls[c].entry
    /\ \A x \in executing : x[1] \in handed

\* Fairness.  Time passes (strongly fair: a node that comes and goes cannot
\* stop the clock); the reapers are loops that never end; a live node beats, and
\* keeps polling ReserveTask in its consume loops; the thread pool and the event
\* loop run what they were given.
EngineFairSpec ==
    /\ EngineSpec
    /\ SF_engineVars(Clock)
    /\ WF_engineVars(HeartbeatReaper)
    /\ WF_engineVars(LeaseReaper)
    /\ WF_engineVars(LeaseReaperSave)
    /\ \A w \in Workers :
          WF_engineVars(\E n \in 0 .. Cardinality(Calls) : Heartbeat(w, n))
    /\ \A c \in Calls :
          /\ WF_engineVars(\E w \in beating : ReserveTask(c, w))
          /\ WF_engineVars(ThreadStart(c))
          /\ WF_engineVars(Thread(c))
          /\ WF_engineVars(ReserveReturn(c))

\* The scheduler takes a worker whose heartbeats have stopped for good for OFFLINE,
\* again and again if late reports or continuations bring it back to IDLE or BUSY.
StaleWorkerOffline ==
    \A w \in Workers :
        <>[](w \in Registered \ beating)
            => []<>(w \in Registered /\ worker_status[Current(w)] = "offline")

\* What the README says of the registry ("marks stale workers offline when heartbeats
\* stop"), for the rows that GET /workers shows: such a worker's row says offline.
StaleRowOffline ==
    \A w \in Workers :
        <>[](w \in Registered \ beating) => []<>(worker_rows[w] = "offline")

\* A waiting task whose dependencies are complete is dispatched as long as some
\* live worker accepts it, although threads that started before the first
\* completion look at a private empty set, and dropped calls take tasks away.
Dispatched ==
    \A t \in Tasks :
        (Waiting(t) /\ TaskSpec[t].depends_on \subseteq completed_tasks)
            ~> (~ Waiting(t) \/ ~ \E w \in beating : Accepts(w, "idle", t))

\* What the command line says of retry ("Retry a failed or dead-lettered task."):
\* a dead-lettered task that is retried goes back to the queue.
RetryRequeues ==
    [][\A t \in Tasks : RetryTask(t) /\ status[t] = "dead_lettered"
                            => status'[t] \in {"queued", "retrying"}]_engineVars

\* What the command line says of cancel ("Cancel a queued or running task."): the
\* report of the worker that was running it does not undo the cancellation.
CancelStands ==
    [][\A e \in Entries, w \in Workers, s \in {"succeeded", "cancelled", "failed"} :
          ReportResult(e, w, s) /\ status[e[1]] = "cancelled"
              => status'[e[1]] = "cancelled"]_engineVars

=============================================================================
