------------------------------- MODULE Cluster -------------------------------
(***************************************************************************)
(* The scheduler process and its worker nodes, when the scheduler stops or *)
(* crashes and is started again on the same database (service.py, store.py *)
(* initialize), and what a failed RPC does to the loops of a node          *)
(* (manager.py; client.py and server.py pass errors through).              *)
(*                                                                         *)
(* The engine's memory is gone after a crash, the rows are not, and no     *)
(* code reads them back.  Task ids are fresh uuids, so the tasks of an     *)
(* earlier process are unknown to the present one for ever: forgotten.     *)
(* Nodes live on: beating are those whose heartbeat loop runs, and a call  *)
(* that fails ends its loop without ending the node.  Nodes that stop are  *)
(* SchedulerEngine's business and are left out here.                       *)
(***************************************************************************)
EXTENDS SchedulerEngine

CONSTANTS
    Capacity,   \* WorkerInfo.capacity: consume loops of a node
    MaxCrashes  \* bound: ends of the scheduler process

ASSUME ClusterAssumption ==
    /\ {Capacity, MaxCrashes} \subseteq Nat
    /\ None \notin Objects

VARIABLES
    up,          \* whether the scheduler process runs
    crashes,     \* how often it ended
    forgotten,   \* tasks of earlier processes
    result_rows, \* status in the result_json column, None for NULL
    consumers    \* live consume loops of each node

process == <<up, crashes, forgotten>>
clusterVars == <<engineVars, process, result_rows, consumers>>

ClusterInit ==
    /\ EngineInit
    /\ up = TRUE
    /\ crashes = 0
    /\ forgotten = {}
    /\ result_rows = [t \in Tasks |-> None]
    /\ consumers = [w \in Workers |-> 0]

-----------------------------------------------------------------------------

OpenCalls(w) ==
    Cardinality({c \in Calls : calls[c].object # None /\ calls[c].object[1] = w})

\* Every open call and every execution of a node holds one of its consume loops.
Occupied(w) == OpenCalls(w) + Cardinality({x \in executing : x[2] = w})

FreeLoop(w) == Occupied(w) < consumers[w]

LoopsLostBusy(w) == Occupied(w)   \* faulty variant: executions end with the scheduler

\* The consume loops that await a call when the process ends.
LoopsLost(w) == OpenCalls(w)

-----------------------------------------------------------------------------
(* The scheduler process *)

\* The process ends; every open call fails in its consume loop.
Crash ==
    /\ up
    /\ crashes < MaxCrashes
    /\ up' = FALSE
    /\ crashes' = crashes + 1
    /\ forgotten' = forgotten \cup Known
    /\ consumers' = [w \in Workers |-> consumers[w] - LoopsLost(w)]
    /\ status' = [t \in Tasks |-> "pending"]
    /\ attempts' = [t \in Tasks |-> 0]
    /\ created_at' = [t \in Tasks |-> 0]
    /\ assigned_worker' = [t \in Tasks |-> None]
    /\ lease_deadline' = [t \in Tasks |-> None]
    /\ ready' = {} /\ delayed' = {}
    /\ inflight' = {} /\ dead_letter' = {} /\ cancelled' = {}
    /\ available_at' = [e \in Entries |-> 0]
    /\ handed' = {}
    /\ runs' = [t \in Tasks |-> 0]
    /\ age' = [t \in Tasks |-> 0]
    /\ workers' = [w \in Workers |-> 0]
    /\ worker_status' = [o \in Objects |-> "idle"]
    /\ running_tasks' = [w \in Workers |-> 0]
    /\ silence' = [w \in Workers |-> 0]
    /\ completed_tasks' = {}
    /\ calls' = [c \in Calls |-> NoCall]
    /\ expired' = {}
    /\ UNCHANGED <<store, nodes, result_rows>>

RestartRequeues ==   \* faulty variant: unfinished rows are queued again
    LET unfinished == {t \in Tasks : task_rows[t] \in {"queued", "running"}} IN
    /\ ~ up
    /\ up' = TRUE
    /\ forgotten' = {}
    /\ status' = [t \in Tasks |-> IF t \in unfinished THEN "queued" ELSE status[t]]
    /\ ready' = {<<t, 0>> : t \in unfinished}
    /\ UNCHANGED <<attempts, created_at, assigned_worker, lease_deadline, delayed,
                   available_at, indexes, history, registry, completed_tasks, calls,
                   expired, store, nodes, crashes, result_rows, consumers>>

\* run_scheduler on the same database: CREATE TABLE IF NOT EXISTS, and no read.
Restart ==
    /\ ~ up
    /\ up' = TRUE
    /\ UNCHANGED <<engineVars, crashes, forgotten, result_rows, consumers>>

-----------------------------------------------------------------------------
(* The engine's steps while the process runs *)

\* Steps of the engine that no node takes part in; a client names no new task by
\* an old id, and cancel and retry raise KeyError for one.  Batches and snapshots
\* add nothing here and are left to SchedulerEngine; handlers are cancelled there
\* too (DropHandler), since a node that lives keeps its calls open.
EngineStep ==
    /\ up
    /\ \/ \E t \in Tasks \ forgotten : SubmitTask(t) \/ CancelTask(t) \/ RetryTask(t)
       \/ \E c \in Calls : ThreadStart(c) \/ Thread(c) \/ ThreadMiss(c, TRUE)
                              \/ ReserveReturn(c)
       \/ HeartbeatReaper
       \/ LeaseReaper
       \/ Clock
    /\ UNCHANGED <<process, result_rows, consumers>>

ResultsOverwritten(S) ==   \* faulty variant: result_json=excluded.result_json
    [t \in Tasks |-> IF t \in S THEN None ELSE result_rows[t]]

\* upsert_task without a result: COALESCE keeps the column.
ResultsKept(S) == result_rows

SaveExpired ==
    /\ up
    /\ result_rows' = ResultsKept(expired)
    /\ LeaseReaperSave
    /\ UNCHANGED <<process, consumers>>

-----------------------------------------------------------------------------
(* The nodes *)

\* A node starts: register_worker succeeds, then the loops are created.
StartNode(w) ==
    /\ up
    /\ w \notin beating
    /\ consumers[w] = 0
    /\ RegisterWorker(w)
    /\ consumers' = [consumers EXCEPT ![w] = Capacity]
    /\ UNCHANGED <<process, result_rows>>

\* A heartbeat is answered known=True.
Beat(w) ==
    /\ up
    /\ w \in Registered
    /\ \E n \in 0 .. Capacity : Heartbeat(w, n)
    /\ UNCHANGED <<process, result_rows, consumers>>

RejoinNever(w) == FALSE   \* faulty variant: the answer is not looked at

\* The answer is known=False, and the heartbeat loop registers the node again.
Rejoin(w) ==
    /\ w \in beating \ Registered
    /\ RegisterWorker(w)

BeatUnknown(w) ==
    /\ up
    /\ Rejoin(w)
    /\ UNCHANGED <<process, result_rows, consumers>>

\* An RPC to a scheduler that is down raises: the heartbeat loop ends, or a
\* consume loop that was about to reserve, or one that reports its result.
LoopFails(w) ==
    /\ ~ up
    /\ \/ BeatStop(w) /\ UNCHANGED consumers
       \/ /\ FreeLoop(w)
          /\ consumers' = [consumers EXCEPT ![w] = @ - 1]
          /\ UNCHANGED engineVars
    /\ UNCHANGED <<process, result_rows>>

ReportFailsRetried(x) ==   \* faulty variant: repeated while the scheduler answers
    /\ x \in executing
    /\ ~ up
    /\ executing' = executing \ {x}
    /\ consumers' = [consumers EXCEPT ![x[2]] = @ - 1]
    /\ UNCHANGED <<queueVars, registry, completed_tasks, calls, expired, store, beating,
                   process, result_rows>>

\* report_result fails, the scheduler being down or, since a restart, not knowing
\* the task: TaskNotFoundError before anything is changed.
ReportFails(x) ==
    /\ x \in executing
    /\ ~ up \/ x[1][1] \in forgotten
    /\ executing' = executing \ {x}
    /\ consumers' = [consumers EXCEPT ![x[2]] = @ - 1]
    /\ UNCHANGED <<queueVars, registry, completed_tasks, calls, expired, store, beating,
                   process, result_rows>>

ReserveCall(c, w) ==
    /\ up
    /\ FreeLoop(w)
    /\ ReserveTask(c, w)
    /\ UNCHANGED <<process, result_rows, consumers>>

\* report_result of a task the scheduler knows: the row takes the result too.
Report(x, s) ==
    /\ up
    /\ x[1][1] \notin forgotten
    /\ ReportResult(x[1], x[2], s)
    /\ result_rows' = [result_rows EXCEPT ![x[1][1]] = s]
    /\ UNCHANGED <<process, consumers>>

-----------------------------------------------------------------------------

ClusterNext ==
    \/ Crash
    \/ Restart
    \/ EngineStep
    \/ SaveExpired
    \/ \E w \in Workers :
          \/ StartNode(w) \/ Beat(w) \/ BeatUnknown(w) \/ LoopFails(w)
          \/ \E c \in Calls : ReserveCall(c, w)
    \/ \E x \in executing :
          ReportFails(x) \/ \E s \in {"succeeded", "failed"} : Report(x, s)

ClusterSpec == ClusterInit /\ [][ClusterNext]_clusterVars

-----------------------------------------------------------------------------
(* Properties *)

\* Every open call and execution has a loop of its node to return to, and nothing
\* of the engine's memory is left while the process is down.
ClusterTypeOK ==
    /\ up \in BOOLEAN
    /\ crashes \in 0 .. MaxCrashes
    /\ forgotten \subseteq Tasks \ Known
    /\ result_rows \in [Tasks -> {"succeeded", "failed", None}]
    /\ \A w \in Workers : consumers[w] \in Occupied(w) .. Capacity
    /\ ~ up => Known = {} /\ Registered = {} /\ completed_tasks = {}

\* The status column and the result column of a task agree on success, through
\* late reports, retries, restarts and saves that carry no result.
SuccessHasResult ==
    \A t \in Tasks : task_rows[t] = "succeeded" => result_rows[t] = "succeeded"

\* No entry is executed twice, although nodes go on executing what an earlier
\* process gave them while the present one dispatches: it knows none of those tasks.
ExecutedOnceEver ==
    LET carrying == {c \in Calls : calls[c].phase = "popped"} IN
    /\ \A x, y \in executing : x[1] = y[1] => x = y
    /\ \A c \in carrying : /\ \A x \in executing : x[1] # calls[c].entry
                           /\ \A d \in carrying \ {c} : calls[d].entry # calls[c].entry

\* Fairness: as in EngineFairSpec, and a scheduler that is down is started again;
\* executions end (WorkerRuntime!ExecutionEnds, if no target holds the node's event
\* loop for ever) and are reported.  No fairness for LoopFails: a loop may sleep through the time the scheduler is down.
ClusterFairSpec ==
    /\ ClusterSpec
    /\ WF_clusterVars(Restart)
    /\ SF_clusterVars(up /\ Clock /\ UNCHANGED <<process, result_rows, consumers>>)
    /\ WF_clusterVars(up /\ LeaseReaper /\ UNCHANGED <<process, result_rows, consumers>>)
    /\ WF_clusterVars(SaveExpired)
    /\ \A w \in Workers : WF_clusterVars(Beat(w)) /\ WF_clusterVars(BeatUnknown(w))
    /\ \A e \in Entries, w \in Workers :
          WF_clusterVars(ReportFails(<<e, w>>) \/ Report(<<e, w>>, "succeeded"))
    /\ \A c \in Calls :
          /\ \A w \in Workers : SF_clusterVars(w \in beating /\ ReserveCall(c, w))
          /\ WF_clusterVars(up /\ (ThreadStart(c) \/ Thread(c) \/ ReserveReturn(c))
                               /\ UNCHANGED <<process, result_rows, consumers>>)

\* After a restart a node whose heartbeats go on is registered again.
NodeReturns ==
    \A w \in Workers :
        w \in beating ~> (w \in Registered \/ w \notin beating \/ ~ up)

\* A waiting task without open dependencies is dispatched while a node that
\* accepts it beats and has a consume loop left, also after restarts.
TaskServed ==
    \A t \in Tasks :
        (Waiting(t) /\ TaskSpec[t].depends_on \subseteq completed_tasks)
            ~> \/ ~ Waiting(t)
               \/ ~ \E w \in beating : consumers[w] > 0 /\ Accepts(w, "idle", t)

=============================================================================
