--------------------------- MODULE Cluster_proofs ---------------------------
(* Proofs about the scheduler process and its nodes, for any number of nodes, *)
(* calls, consume loops and ends of the process.                             *)
(*                                                                           *)
(* A crash leaves an empty broker, so a step of the cluster either is a step *)
(* the broker's specification allows or begins a new broker: what            *)
(* TaskQueue_proofs shows of one broker holds of each in turn.               *)
EXTENDS Cluster, TaskQueue_proofs

\* What the calls, the node loops and the rows are made of.
MemoryOK ==
    /\ workers \in [Workers -> 0 .. MaxRegistrations]
    /\ worker_status \in [Objects -> WorkerStatuses]
    /\ completed_tasks \subseteq Tasks
    /\ expired \subseteq Tasks
    /\ executing \subseteq Entries \X Workers

\* A call has its object from the beginning to the end, and an entry to return
\* once its thread has popped one.
CallOK(r) ==
    /\ r \in CallRecord
    /\ r.phase = "none" <=> r.object = None
    /\ r.phase = "popped" => r.entry \in Entries

CallsOK ==
    /\ calls \in [Calls -> CallRecord]
    /\ \A c \in Calls : CallOK(calls[c])

\* The process that is down has no memory, and one that is up knows none of the
\* tasks of an earlier one.
ProcessOK ==
    /\ up \in BOOLEAN
    /\ crashes \in 0 .. MaxCrashes
    /\ forgotten \subseteq Tasks \ Known
    /\ ~ up => Known = {} /\ Registered = {} /\ completed_tasks = {}

\* The result column of a task that succeeded says so before the status column
\* does: the envelope's status, which every save copies, is ahead of the row.
RowsAgree ==
    /\ task_rows \in [Tasks -> Statuses \cup {None}]
    /\ result_rows \in [Tasks -> {"succeeded", "failed", None}]
    /\ \A t \in Tasks : status[t] = "succeeded" => result_rows[t] = "succeeded"
    /\ SuccessHasResult

\* Every open call and every execution has a consume loop of its node.
LoopsHeld ==
    /\ IsFiniteSet(executing)
    /\ consumers \in [Workers -> Nat]
    /\ \A w \in Workers : Occupied(w) <= consumers[w] /\ consumers[w] <= Capacity

MemoryInv == BaseInv /\ HeapsDisjoint /\ MemoryOK /\ CallsOK
ClusterInv == MemoryInv /\ ProcessOK /\ RowsAgree /\ LoopsHeld

CallsOf(w) == {c \in Calls : calls[c].object # None /\ calls[c].object[1] = w}
ExecutionsOf(w) == {x \in executing : x[2] = w}

-----------------------------------------------------------------------------
(* Shapes *)

\* An open call names a worker, and a carried entry a task.
LEMMA CallShape ==
    ASSUME CallsOK, NEW c \in Calls, calls[c].phase # "none"
    PROVE  /\ calls[c].object \in Objects
           /\ calls[c].object[1] \in Workers
           /\ calls[c].phase = "popped" => calls[c].entry \in Entries
                                            /\ calls[c].entry[1] \in Tasks
  <1>1. calls[c].object \in Objects
    BY DEF CallsOK, CallOK, CallRecord
  <1> QED BY <1>1, EntryShape DEF CallsOK, CallOK, Objects

\* An execution is an entry of a task and a node.
LEMMA ExecutionShape ==
    ASSUME MemoryOK, NEW x \in executing
    PROVE  x = <<x[1], x[2]>> /\ x[1] \in Entries /\ x[1][1] \in Tasks /\ x[2] \in Workers
  BY EntryShape DEF MemoryOK

\* The object of a registered worker, and the one its next registration makes.
LEMMA RegistrationShape ==
    ASSUME MemoryOK, NEW w \in Workers
    PROVE  /\ w \in Registered => Current(w) \in Objects
           /\ workers[w] < MaxRegistrations => <<w, workers[w] + 1>> \in Objects
  BY EngineAssumption DEF MemoryOK, Registered, Current, Objects

\* The start of the first process.
LEMMA ClusterInvInit == ClusterInit => ClusterInv
  <1> SUFFICES ASSUME ClusterInit PROVE ClusterInv
    OBVIOUS
  <1> USE DEF ClusterInit, EngineInit
  <1>1. BaseInv /\ HeapsDisjoint
    BY BaseInit, EntriesInit
  <1>2. MemoryOK
    BY EngineAssumption DEF MemoryOK, WorkerStatuses
  <1>3. CallOK(NoCall)
    BY DEF CallOK, NoCall, CallRecord
  <1>4. CallsOK
    BY <1>3 DEF CallsOK, CallOK
  <1>5. ProcessOK
    BY ClusterAssumption DEF ProcessOK, Init, Known, Registered
  <1>6. RowsAgree
    BY DEF RowsAgree, SuccessHasResult, Init
  <1>7. LoopsHeld
    <2>1. IsFiniteSet(executing) /\ consumers \in [Workers -> Nat]
      BY FS_EmptySet
    <2>2. ASSUME NEW w \in Workers
          PROVE  Occupied(w) = 0 /\ consumers[w] = 0
      <3>1. CallsOf(w) = {} /\ ExecutionsOf(w) = {}
        BY DEF CallsOf, ExecutionsOf, NoCall
      <3> QED BY <3>1, FS_EmptySet DEF Occupied, OpenCalls, CallsOf, ExecutionsOf
    <2> QED BY <2>1, <2>2, ClusterAssumption DEF LoopsHeld
  <1> QED BY <1>1, <1>2, <1>4, <1>5, <1>6, <1>7 DEF ClusterInv, MemoryInv

-----------------------------------------------------------------------------
(* The broker through the ends of the process *)

\* Unless the process ends, a step of the cluster is an operation of its broker,
\* with legal arguments, or leaves the broker alone.
LEMMA BrokerOperates ==
    MemoryInv /\ [ClusterNext]_clusterVars /\ ~ Crash => [Next]_queueVars
  <1> SUFFICES ASSUME MemoryInv, [ClusterNext]_clusterVars, ~ Crash
               PROVE  [Next]_queueVars
    OBVIOUS
  <1> USE DEF MemoryInv
  <1>2. CASE EngineStep
    <2>1. ASSUME NEW t \in Tasks, SubmitTask(t) \/ CancelTask(t) \/ RetryTask(t)
          PROVE  Next
      BY <2>1 DEF SubmitTask, CancelTask, RetryTask, Next
    <2>2. ASSUME NEW c \in Calls, Thread(c) \/ ThreadMiss(c, TRUE)
          PROVE  Next
      <3> DEFINE o == calls[c].object
      <3>1. o \in Objects /\ o[1] \in Workers
        BY <2>2, CallShape DEF Thread, ThreadPop, ThreadMiss
      <3>2. worker_status[o] \in WorkerStatuses /\ CompletedSeen(c) \in SUBSET Tasks
        BY <3>1 DEF MemoryOK, CompletedSeen
      <3>3. Reserve(o[1], worker_status[o], CompletedSeen(c))
        BY <2>2 DEF Thread, ThreadPop, ThreadMiss, Reserve
      <3> QED BY <3>1, <3>2, <3>3 DEF Next
    <2>3. ASSUME LeaseReaper \/ Clock PROVE Next
      BY <2>3 DEF LeaseReaper, Clock, Next
    <2>4. ASSUME NEW c \in Calls, ThreadStart(c) \/ ReserveReturn(c) PROVE UNCHANGED queueVars
      BY <2>4 DEF ThreadStart, ReserveReturn
    <2>5. ASSUME HeartbeatReaper PROVE UNCHANGED queueVars
      BY <2>5 DEF HeartbeatReaper
    <2> QED BY <1>2, <2>1, <2>2, <2>3, <2>4, <2>5 DEF EngineStep
  <1>3. ASSUME NEW x \in executing, NEW s \in {"succeeded", "failed"}, Report(x, s)
        PROVE  Next
    <2>1. x[1][1] \in Tasks
      BY ExecutionShape
    <2>2. \/ s \in Terminal \ {"failed"} /\ Complete(x[1][1], s)
          \/ attempts[x[1][1]] < MaxAttempts /\ Retry(x[1][1])
      BY <1>3 DEF Report, ReportResult, Terminal
    <2> QED BY <2>1, <2>2 DEF Next
  <1>4. ASSUME Restart \/ SaveExpired PROVE UNCHANGED queueVars
    BY <1>4 DEF Restart, SaveExpired, LeaseReaperSave, engineVars
  <1>5. ASSUME NEW w \in Workers,
               \/ StartNode(w) \/ Beat(w) \/ BeatUnknown(w) \/ LoopFails(w)
               \/ \E c \in Calls : ReserveCall(c, w)
        PROVE  UNCHANGED queueVars
    BY <1>5 DEF StartNode, Beat, BeatUnknown, Rejoin, RegisterWorker, Heartbeat, LoopFails,
                BeatStop, ReserveCall, ReserveTask, engineVars
  <1>6. ASSUME NEW x \in executing, ReportFails(x) PROVE UNCHANGED queueVars
    BY <1>6 DEF ReportFails
  <1>7. CASE UNCHANGED clusterVars
    BY <1>7 DEF clusterVars, engineVars
  <1> QED BY <1>2, <1>3, <1>4, <1>5, <1>6, <1>7 DEF ClusterNext

\* A step of the cluster is a step of the broker or begins a new one.
LEMMA BrokerStep == MemoryInv /\ [ClusterNext]_clusterVars => [Next]_queueVars \/ Init'
  <1>1. Crash => Init'
    BY DEF Crash, Init
  <1> QED BY <1>1, BrokerOperates

\* The broker's invariants hold of the broker of every process.
LEMMA BrokerKept ==
    MemoryInv /\ [ClusterNext]_clusterVars => BaseInv' /\ HeapsDisjoint'
  <1>1. Init => BaseInv /\ HeapsDisjoint
    BY BaseInit, EntriesInit
  <1>2. Init' => BaseInv' /\ HeapsDisjoint'
    BY <1>1, PTL
  <1> QED BY <1>2, BrokerStep, BaseStep, HeapsStep DEF MemoryInv

-----------------------------------------------------------------------------
(* What the process and the nodes remember *)

\* Registrations, heartbeats, continuations, reports and a crash keep the
\* registry, the reaper's list and the executions in range.
LEMMA MemoryStep == MemoryInv /\ [ClusterNext]_clusterVars => MemoryOK'
  <1> SUFFICES ASSUME MemoryInv, [ClusterNext]_clusterVars PROVE MemoryOK'
    OBVIOUS
  <1> USE DEF MemoryInv
  <1>1. CASE Crash
    BY <1>1, EngineAssumption DEF Crash, MemoryOK, WorkerStatuses, nodes
  <1>2. ASSUME NEW w \in Workers, RegisterWorker(w) PROVE MemoryOK'
    <2>1. <<w, workers[w] + 1>> \in Objects /\ workers[w] + 1 \in 0 .. MaxRegistrations
      BY <1>2, RegistrationShape, EngineAssumption DEF RegisterWorker, MemoryOK
    <2> QED BY <1>2, <2>1 DEF RegisterWorker, SetWorkerStatus, MemoryOK, WorkerStatuses
  <1>3. ASSUME NEW w \in Workers, NEW n, Heartbeat(w, n) PROVE MemoryOK'
    BY <1>3 DEF Heartbeat, SetWorkerStatus, Load, MemoryOK, WorkerStatuses, nodes
  <1>4. ASSUME NEW c \in Calls, ReserveReturn(c) PROVE MemoryOK'
    <2>1. calls[c].object[1] \in Workers /\ calls[c].entry \in Entries
      BY <1>4, CallShape DEF ReserveReturn
    <2>2. worker_status' \in [Objects -> WorkerStatuses]
      BY <1>4 DEF ReserveReturn, SetWorkerStatus, MemoryOK, WorkerStatuses
    <2>3. executing' \subseteq Entries \X Workers
      <3>1. executing' = executing \cup {<<calls[c].entry, calls[c].object[1]>>}
        BY <1>4 DEF ReserveReturn
      <3> QED BY <2>1, <3>1 DEF MemoryOK
    <2>4. UNCHANGED <<workers, completed_tasks, expired>>
      BY <1>4 DEF ReserveReturn
    <2> QED BY <2>2, <2>3, <2>4 DEF MemoryOK
  <1>5. ASSUME NEW x \in executing, NEW s \in {"succeeded", "failed"}, Report(x, s)
        PROVE  MemoryOK'
    <2>1. x[1][1] \in Tasks
      BY ExecutionShape
    <2> QED BY <1>5, <2>1
            DEF Report, ReportResult, SetWorkerStatus, Load, MemoryOK, WorkerStatuses
  <1>6. CASE HeartbeatReaper
    BY <1>6 DEF HeartbeatReaper, MemoryOK, WorkerStatuses, nodes
  <1>7. CASE LeaseReaper
    <2>1. Expired \subseteq Tasks
      BY DEF Expired, BaseInv, TypeOK
    <2> QED BY <1>7, <2>1 DEF LeaseReaper, MemoryOK, registry, nodes
  <1>8. CASE SaveExpired
    BY <1>8 DEF SaveExpired, LeaseReaperSave, MemoryOK, registry, nodes
  <1>9. ASSUME NEW x \in executing, ReportFails(x) PROVE MemoryOK'
    BY <1>9 DEF ReportFails, MemoryOK, registry
  <1>10. CASE UNCHANGED <<workers, worker_status, completed_tasks, expired, executing>>
    BY <1>10 DEF MemoryOK
  <1>11. EngineStep => \/ HeartbeatReaper \/ LeaseReaper
                       \/ \E c \in Calls : ReserveReturn(c)
                       \/ UNCHANGED <<workers, worker_status, completed_tasks, expired,
                                      executing>>
    BY DEF EngineStep, SubmitTask, CancelTask, RetryTask, ThreadStart, Thread, ThreadPop,
           ThreadMiss, Clock, registry, nodes
  <1>12. ASSUME NEW w \in Workers,
                \/ StartNode(w) \/ Beat(w) \/ BeatUnknown(w) \/ LoopFails(w)
                \/ \E c \in Calls : ReserveCall(c, w)
         PROVE  \/ RegisterWorker(w)
                \/ \E n \in 0 .. Capacity : Heartbeat(w, n)
                \/ UNCHANGED <<workers, worker_status, completed_tasks, expired, executing>>
    BY <1>12 DEF StartNode, Beat, BeatUnknown, Rejoin, LoopFails, BeatStop, ReserveCall,
                 ReserveTask, engineVars, registry, nodes
  <1>13. Restart \/ UNCHANGED clusterVars
            => UNCHANGED <<workers, worker_status, completed_tasks, expired, executing>>
    BY DEF Restart, clusterVars, engineVars, registry, nodes
  <1> QED BY <1>1, <1>2, <1>3, <1>4, <1>5, <1>6, <1>7, <1>8, <1>9, <1>10, <1>11, <1>12,
             <1>13 DEF ClusterNext

\* What a step does to the open calls: it ends them all, begins or hands on one,
\* or touches none.
LEMMA CallsChange ==
    ASSUME MemoryInv, [ClusterNext]_clusterVars
    PROVE  \/ calls' = [c \in Calls |-> NoCall]
           \/ calls' = calls
           \/ \E c \in Calls, r \in CallRecord :
                 /\ CallOK(r)
                 /\ calls' = [calls EXCEPT ![c] = r]
                 /\ \/ r = NoCall
                    \/ r.object = calls[c].object
                    \/ \E w \in Workers : ReserveCall(c, w) /\ r.object = Current(w)
  <1> DEFINE Goal == \/ calls' = [c \in Calls |-> NoCall]
                     \/ calls' = calls
                     \/ \E c \in Calls, r \in CallRecord :
                          /\ CallOK(r)
                          /\ calls' = [calls EXCEPT ![c] = r]
                          /\ \/ r = NoCall
                             \/ r.object = calls[c].object
                             \/ \E w \in Workers : ReserveCall(c, w) /\ r.object = Current(w)
  <1> SUFFICES Goal
    OBVIOUS
  <1> USE DEF MemoryInv
  <1>1. NoCall \in CallRecord /\ CallOK(NoCall)
    BY DEF NoCall, CallOK, CallRecord
  <1>2. \A c \in Calls : calls[c] \in CallRecord /\ CallOK(calls[c])
    BY DEF CallsOK, CallOK
  <1>3. ASSUME NEW w \in Workers, NEW c \in Calls, ReserveCall(c, w) PROVE Goal
    <2> DEFINE r == [NoCall EXCEPT !.phase = "queued", !.object = Current(w)]
    <2>1. Current(w) \in Objects /\ Current(w) # None
      BY <1>3, RegistrationShape, ClusterAssumption DEF ReserveCall, ReserveTask
    <2>2. r \in CallRecord /\ CallOK(r) /\ r.object = Current(w)
      BY <2>1 DEF NoCall, CallRecord, CallOK
    <2>3. calls' = [calls EXCEPT ![c] = r]
      BY <1>3 DEF ReserveCall, ReserveTask
    <2> HIDE DEF r
    <2> QED BY <1>3, <2>2, <2>3
  <1>4. ASSUME NEW c \in Calls, ThreadStart(c) PROVE Goal
    <2> DEFINE r == [calls[c] EXCEPT !.phase = "waiting", !.live = (completed_tasks # {})]
    <2>1. r \in CallRecord /\ CallOK(r) /\ r.object = calls[c].object
      BY <1>2, <1>4 DEF ThreadStart, CallRecord, CallOK
    <2>2. calls' = [calls EXCEPT ![c] = r]
      BY <1>4 DEF ThreadStart
    <2> HIDE DEF r
    <2> QED BY <2>1, <2>2
  <1>5. ASSUME NEW c \in Calls, NEW e \in Entries, ThreadPop(c, e) PROVE Goal
    <2> DEFINE r == [calls[c] EXCEPT !.phase = "popped", !.entry = e]
    <2>1. r \in CallRecord /\ CallOK(r) /\ r.object = calls[c].object
      BY <1>2, <1>5 DEF ThreadPop, CallRecord, CallOK
    <2>2. calls' = [calls EXCEPT ![c] = r] \/ calls' = [calls EXCEPT ![c] = NoCall]
      BY <1>5 DEF ThreadPop, CallsOK
    <2> HIDE DEF r
    <2> QED BY <1>1, <2>1, <2>2
  <1>6. ASSUME NEW c \in Calls, \/ ThreadMiss(c, TRUE) \/ ThreadMiss(c, FALSE)
                                \/ ReserveReturn(c)
        PROVE  Goal
    <2>1. calls' = calls \/ calls' = [calls EXCEPT ![c] = NoCall]
      BY <1>6 DEF ThreadMiss, ReserveReturn
    <2> QED BY <1>1, <2>1
  <1>7. CASE Crash
    BY <1>7 DEF Crash
  <1>8. EngineStep => \/ calls' = calls
                      \/ \E c \in Calls : ThreadStart(c) \/ Thread(c) \/ ThreadMiss(c, TRUE)
                                             \/ ReserveReturn(c)
    BY DEF EngineStep, SubmitTask, CancelTask, RetryTask, HeartbeatReaper, LeaseReaper, Clock
  <1>9. ASSUME \/ Restart \/ SaveExpired
               \/ \E w \in Workers : StartNode(w) \/ Beat(w) \/ BeatUnknown(w) \/ LoopFails(w)
               \/ \E x \in executing :
                     ReportFails(x) \/ \E s \in {"succeeded", "failed"} : Report(x, s)
               \/ UNCHANGED clusterVars
        PROVE  calls' = calls
    BY <1>9 DEF Restart, SaveExpired, LeaseReaperSave, StartNode, Beat, BeatUnknown, Rejoin,
                RegisterWorker, Heartbeat, LoopFails, BeatStop, ReportFails, Report,
                ReportResult, clusterVars, engineVars
  <1> HIDE DEF Goal
  <1>10. calls' = calls => Goal
    BY DEF Goal
  <1> QED BY <1>3, <1>4, <1>5, <1>6, <1>7, <1>8, <1>9, <1>10 DEF ClusterNext, Thread

\* Every open call keeps its object and, once popped, its entry.
LEMMA CallsKept == MemoryInv /\ [ClusterNext]_clusterVars => CallsOK'
  <1> SUFFICES ASSUME MemoryInv, [ClusterNext]_clusterVars PROVE CallsOK'
    OBVIOUS
  <1> USE DEF MemoryInv
  <1>1. NoCall \in CallRecord /\ CallOK(NoCall)
    BY DEF NoCall, CallOK, CallRecord
  <1>2. ASSUME NEW c \in Calls, NEW r \in CallRecord, CallOK(r),
               calls' = [calls EXCEPT ![c] = r]
        PROVE  CallsOK'
    BY <1>2 DEF CallsOK
  <1>3. CASE calls' = [c \in Calls |-> NoCall]
    BY <1>1, <1>3 DEF CallsOK
  <1>4. CASE calls' = calls
    BY <1>4 DEF CallsOK
  <1> QED BY <1>2, <1>3, <1>4, CallsChange

-----------------------------------------------------------------------------
(* A task id means one task, and a process that is down has no memory *)

\* Only a submission makes a task known, and a submission names no old id.
LEMMA KnownGrows ==
    ASSUME ClusterInv, EngineStep
    PROVE  /\ Known' \subseteq Tasks
           /\ \A t \in Known' : t \in Known \/ t \notin forgotten
  <1> USE DEF ClusterInv, MemoryInv
  <1>1. status \in [Tasks -> Statuses]
    BY DEF BaseInv, TypeOK
  <1>2. ASSUME NEW t \in Tasks \ forgotten, SubmitTask(t)
        PROVE  \A u \in Known' : u \in Known \/ u \notin forgotten
    BY <1>2 DEF SubmitTask, Submit, SubmitEach, Known
  <1>3. ASSUME NEW t \in Tasks \ forgotten, CancelTask(t) \/ RetryTask(t)
        PROVE  Known' \subseteq Known
    <2>1. t \in Known /\ \A u \in Tasks \ {t} : status'[u] = status[u]
      BY <1>1, <1>3 DEF CancelTask, Cancel, RetryTask, Retry, RetryEach
    <2> QED BY <2>1 DEF Known
  <1>4. ASSUME NEW c \in Calls, NEW e \in Entries, ThreadPop(c, e)
        PROVE  Known' \subseteq Known
    <2>1. e[1] \in Known
      BY <1>4 DEF ThreadPop, ReserveHit, Candidates, Retained, Promoted, HeapsDisjoint
    <2> QED BY <1>4, <2>1 DEF ThreadPop, ReserveHit, Known
  <1>5. ASSUME NEW c \in Calls, NEW again \in BOOLEAN, ThreadMiss(c, again)
        PROVE  status' = status
    BY <1>5 DEF ThreadMiss, ReserveMiss, envelopes
  <1>6. ASSUME NEW c \in Calls, ThreadStart(c) \/ ReserveReturn(c) PROVE status' = status
    BY <1>6 DEF ThreadStart, ReserveReturn, queueVars, envelopes
  <1>7. ASSUME HeartbeatReaper \/ Clock PROVE status' = status
    BY <1>7 DEF HeartbeatReaper, Clock, Tick, queueVars, envelopes
  <1>8. ASSUME LeaseReaper PROVE Known' \subseteq Known
    <2>1. Expired \subseteq Known
      BY InflightKnown DEF Expired
    <2> QED BY <1>8, <2>1 DEF LeaseReaper, RequeueExpiredLeases, RetryEach, Known
  <1>9. status' = status => Known' \subseteq Known
    BY DEF Known
  <1>10. \A t \in Known' : t \in Known \/ t \notin forgotten
    BY <1>2, <1>3, <1>4, <1>5, <1>6, <1>7, <1>8, <1>9 DEF EngineStep, Thread
  <1>11. Known' \subseteq Tasks
    BY DEF Known
  <1> QED BY <1>10, <1>11

\* Crashes forget what is known, restarts forget nothing, and while the process
\* is down no call reaches it.
LEMMA ProcessStep == ClusterInv /\ [ClusterNext]_clusterVars => ProcessOK'
  <1> SUFFICES ASSUME ClusterInv, [ClusterNext]_clusterVars PROVE ProcessOK'
    OBVIOUS
  <1> USE DEF ClusterInv, MemoryInv
  <1>1. CASE Crash
    <2>1. up' = FALSE /\ crashes' \in 0 .. MaxCrashes
      BY <1>1, ClusterAssumption DEF Crash, ProcessOK
    <2>2. Known' = {} /\ Registered' = {} /\ completed_tasks' = {}
      BY <1>1 DEF Crash, Known, Registered
    <2>3. forgotten' \subseteq Tasks
      BY <1>1 DEF Crash, ProcessOK, Known
    <2> QED BY <2>1, <2>2, <2>3 DEF ProcessOK
  <1>2. CASE EngineStep
    <2>1. up /\ UNCHANGED process
      BY <1>2 DEF EngineStep
    <2> QED BY <1>2, <2>1, KnownGrows DEF ProcessOK, process
  <1>3. ASSUME NEW x \in executing, NEW s \in {"succeeded", "failed"}, Report(x, s)
        PROVE  ProcessOK'
    <2>1. up /\ UNCHANGED process
      BY <1>3 DEF Report
    <2>2. Known' \subseteq Known
      <3>1. status \in [Tasks -> Statuses]
        BY DEF BaseInv, TypeOK
      <3>2. /\ x[1][1] \in Known
            /\ \A u \in Tasks \ {x[1][1]} : status'[u] = status[u]
        BY <1>3, <3>1 DEF Report, ReportResult, Complete, Retry, RetryEach
      <3> QED BY <3>2 DEF Known
    <2> QED BY <2>1, <2>2 DEF ProcessOK, process
  <1>4. ASSUME up', UNCHANGED <<status, forgotten, crashes>> PROVE ProcessOK'
    BY <1>4 DEF ProcessOK, Known
  <1>5. ASSUME UNCHANGED <<status, process, workers, completed_tasks>> PROVE ProcessOK'
    BY <1>5 DEF ProcessOK, Known, Registered, process
  <1>6. CASE Restart
    BY <1>4, <1>6 DEF Restart, engineVars, queueVars, envelopes
  <1>7. CASE SaveExpired
    BY <1>4, <1>7 DEF SaveExpired, LeaseReaperSave, process, queueVars, envelopes
  <1>8. ASSUME NEW w \in Workers,
               \/ StartNode(w) \/ Beat(w) \/ BeatUnknown(w)
               \/ \E c \in Calls : ReserveCall(c, w)
        PROVE  ProcessOK'
    BY <1>4, <1>8 DEF StartNode, Beat, BeatUnknown, Rejoin, RegisterWorker, Heartbeat,
                      ReserveCall, ReserveTask, process, queueVars, envelopes
  <1>9. ASSUME NEW w \in Workers, LoopFails(w) PROVE ProcessOK'
    BY <1>5, <1>9 DEF LoopFails, BeatStop, engineVars, queueVars, envelopes, registry
  <1>10. ASSUME NEW x \in executing, ReportFails(x) PROVE ProcessOK'
    BY <1>5, <1>10 DEF ReportFails, queueVars, envelopes, registry
  <1>11. CASE UNCHANGED clusterVars
    BY <1>5, <1>11 DEF clusterVars, engineVars, queueVars, envelopes, registry
  <1> QED BY <1>1, <1>2, <1>3, <1>6, <1>7, <1>8, <1>9, <1>10, <1>11 DEF ClusterNext

-----------------------------------------------------------------------------
(* Status column and result column *)

\* A step that saves envelopes writes the status they have then, or nothing.
LEMMA RowsFollow ==
    ASSUME RowsAgree, BaseInv', result_rows' = result_rows,
           task_rows' \in [Tasks -> Statuses \cup {None}],
           \A t \in Tasks : /\ task_rows'[t] \in {task_rows[t], status'[t]}
                            /\ status'[t] = "succeeded" => status[t] = "succeeded"
    PROVE  RowsAgree'
  BY DEF RowsAgree, SuccessHasResult

\* Only a report of success makes a task succeed, and it brings the result.
LEMMA RowsStep ==
    ClusterInv /\ BaseInv' /\ [ClusterNext]_clusterVars => RowsAgree'
  <1> SUFFICES ASSUME ClusterInv, BaseInv', [ClusterNext]_clusterVars PROVE RowsAgree'
    OBVIOUS
  <1> USE DEF ClusterInv, MemoryInv
  <1>0. status \in [Tasks -> Statuses] /\ status' \in [Tasks -> Statuses]
    BY DEF BaseInv, TypeOK
  <1>1. ASSUME NEW S, UpsertTasks(S)
        PROVE  /\ task_rows' \in [Tasks -> Statuses \cup {None}]
               /\ \A t \in Tasks : task_rows'[t] \in {task_rows[t], status'[t]}
    BY <1>0, <1>1 DEF UpsertTasks, RowsAgree
  <1>2. ASSUME UNCHANGED task_rows
        PROVE  /\ task_rows' \in [Tasks -> Statuses \cup {None}]
               /\ \A t \in Tasks : task_rows'[t] \in {task_rows[t], status'[t]}
    BY <1>2 DEF RowsAgree
  <1> DEFINE NoneSucceeds ==
               \A t \in Tasks : status'[t] = "succeeded" => status[t] = "succeeded"
  <1>3. CASE Crash
    <2>1. NoneSucceeds /\ task_rows' = task_rows /\ result_rows' = result_rows
      BY <1>3 DEF Crash, store
    <2> QED BY <1>2, <2>1, RowsFollow
  <1>4. ASSUME NEW x \in executing, NEW s \in {"succeeded", "failed"}, Report(x, s)
        PROVE  RowsAgree'
    <2> DEFINE t == x[1][1]
    <2>1. t \in Tasks
      BY ExecutionShape
    <2>2. UpsertTasks({t}) /\ result_rows' = [result_rows EXCEPT ![t] = s]
      BY <1>4 DEF Report, ReportResult
    <2>3. /\ \A u \in Tasks \ {t} : status'[u] = status[u]
          /\ s = "failed" => status'[t] # "succeeded"
      BY <1>0, <1>4, <2>1 DEF Report, ReportResult, Complete, Retry, RetryEach
    <2>4. /\ \A u \in Tasks \ {t} : task_rows'[u] = task_rows[u]
          /\ task_rows'[t] = status'[t]
      BY <2>1, <2>2 DEF UpsertTasks
    <2>5. task_rows' \in [Tasks -> Statuses \cup {None}]
      BY <1>1, <2>2
    <2> HIDE DEF t
    <2>6. result_rows' \in [Tasks -> {"succeeded", "failed", None}]
      BY <2>1, <2>2 DEF RowsAgree
    <2>7. \A u \in Tasks : result_rows'[u] = IF u = t THEN s ELSE result_rows[u]
      BY <2>1, <2>2 DEF RowsAgree
    <2> QED BY <2>1, <2>3, <2>4, <2>5, <2>6, <2>7 DEF RowsAgree, SuccessHasResult
  <1>5. CASE EngineStep
    <2>1. result_rows' = result_rows
      BY <1>5 DEF EngineStep
    <2>2. ASSUME NEW t \in Tasks \ forgotten, SubmitTask(t) \/ CancelTask(t) \/ RetryTask(t)
          PROVE  NoneSucceeds /\ UpsertTasks({t})
      BY <1>0, <2>2 DEF SubmitTask, Submit, SubmitEach, CancelTask, Cancel, RetryTask, Retry,
                        RetryEach
    <2>3. ASSUME NEW c \in Calls, NEW e \in Entries, ThreadPop(c, e)
          PROVE  NoneSucceeds /\ UNCHANGED task_rows
      BY <1>0, <2>3, EntryShape DEF ThreadPop, ReserveHit, store
    <2>4. ASSUME NEW c \in Calls, NEW again \in BOOLEAN, ThreadMiss(c, again)
          PROVE  NoneSucceeds /\ UNCHANGED task_rows
      BY <2>4 DEF ThreadMiss, ReserveMiss, envelopes, store
    <2>5. ASSUME NEW c \in Calls, ThreadStart(c)
          PROVE  NoneSucceeds /\ UNCHANGED task_rows
      BY <2>5 DEF ThreadStart, queueVars, envelopes, store
    <2>6. ASSUME NEW c \in Calls, ReserveReturn(c)
          PROVE  NoneSucceeds /\ UpsertTasks({calls[c].entry[1]})
      BY <2>6 DEF ReserveReturn, queueVars, envelopes
    <2>7. ASSUME HeartbeatReaper \/ Clock
          PROVE  NoneSucceeds /\ UNCHANGED task_rows
      BY <2>7 DEF HeartbeatReaper, Clock, Tick, queueVars, envelopes, store
    <2>8. ASSUME LeaseReaper
          PROVE  NoneSucceeds /\ UNCHANGED task_rows
      BY <2>8 DEF LeaseReaper, RequeueExpiredLeases, RetryEach, store
    <2> HIDE DEF NoneSucceeds
    <2>9. NoneSucceeds /\ (UNCHANGED task_rows \/ \E S : UpsertTasks(S))
      BY <1>5, <2>2, <2>3, <2>4, <2>5, <2>6, <2>7, <2>8 DEF EngineStep, Thread
    <2> QED BY <1>1, <1>2, <2>1, <2>9, RowsFollow DEF NoneSucceeds
  <1>6. CASE SaveExpired
    <2>1. NoneSucceeds /\ UpsertTasks(expired) /\ result_rows' = result_rows
      BY <1>6 DEF SaveExpired, LeaseReaperSave, ResultsKept, queueVars, envelopes
    <2> QED BY <1>1, <2>1, RowsFollow
  <1>7. ASSUME UNCHANGED <<status, task_rows, result_rows>> PROVE RowsAgree'
    BY <1>7 DEF RowsAgree, SuccessHasResult
  <1>8. ASSUME \/ Restart
               \/ \E w \in Workers :
                    \/ StartNode(w) \/ Beat(w) \/ BeatUnknown(w) \/ LoopFails(w)
                    \/ \E c \in Calls : ReserveCall(c, w)
               \/ \E x \in executing : ReportFails(x)
               \/ UNCHANGED clusterVars
        PROVE  UNCHANGED <<status, task_rows, result_rows>>
    BY <1>8 DEF Restart, StartNode, Beat, BeatUnknown, Rejoin, RegisterWorker, Heartbeat,
                LoopFails, BeatStop, ReserveCall, ReserveTask, ReportFails, clusterVars,
                engineVars, queueVars, envelopes, store
  <1> QED BY <1>3, <1>4, <1>5, <1>6, <1>7, <1>8 DEF ClusterNext

-----------------------------------------------------------------------------
(* Every open call and execution has a consume loop *)

\* The two kinds of work that occupy loops are finite sets.
LEMMA WorkFinite ==
    ASSUME IsFiniteSet(executing), NEW w
    PROVE  /\ IsFiniteSet(CallsOf(w)) /\ Cardinality(CallsOf(w)) \in Nat
           /\ IsFiniteSet(ExecutionsOf(w)) /\ Cardinality(ExecutionsOf(w)) \in Nat
           /\ Occupied(w) = Cardinality(CallsOf(w)) + Cardinality(ExecutionsOf(w))
  <1>1. CallsOf(w) \in SUBSET Calls /\ ExecutionsOf(w) \in SUBSET executing
    BY DEF CallsOf, ExecutionsOf
  <1>2. IsFiniteSet(CallsOf(w)) /\ IsFiniteSet(ExecutionsOf(w))
    BY <1>1, EngineAssumption, FS_Subset
  <1>3. Occupied(w) = Cardinality(CallsOf(w)) + Cardinality(ExecutionsOf(w))
    BY DEF Occupied, OpenCalls, CallsOf, ExecutionsOf
  <1> QED BY <1>2, <1>3, FS_CardinalityType

\* What occupies loops after a step, given what occupied them before.
LEMMA WorkAfter ==
    ASSUME IsFiniteSet(executing'), NEW w
    PROVE  /\ Occupied(w)' = Cardinality(CallsOf(w)') + Cardinality(ExecutionsOf(w)')
           /\ Cardinality(CallsOf(w)') \in Nat /\ Cardinality(ExecutionsOf(w)') \in Nat
  <1>1. CallsOf(w)' \in SUBSET Calls /\ ExecutionsOf(w)' \in SUBSET executing'
    BY DEF CallsOf, ExecutionsOf
  <1>2. IsFiniteSet(CallsOf(w)') /\ IsFiniteSet(ExecutionsOf(w)')
    BY <1>1, EngineAssumption, FS_Subset
  <1>3. Occupied(w)' = Cardinality(CallsOf(w)') + Cardinality(ExecutionsOf(w)')
    BY DEF Occupied, OpenCalls, CallsOf, ExecutionsOf
  <1> QED BY <1>2, <1>3, FS_CardinalityType

\* Work that ends, or goes on as it was, occupies no more loops than before.
LEMMA WorkShrinks ==
    ASSUME IsFiniteSet(executing), NEW w,
           CallsOf(w)' \subseteq CallsOf(w), ExecutionsOf(w)' \subseteq ExecutionsOf(w),
           executing' \subseteq executing
    PROVE  Occupied(w)' <= Occupied(w)
  <1>1. CallsOf(w)' \in SUBSET CallsOf(w) /\ ExecutionsOf(w)' \in SUBSET ExecutionsOf(w)
        /\ executing' \in SUBSET executing
    OBVIOUS
  <1>2. /\ Cardinality(CallsOf(w)') <= Cardinality(CallsOf(w))
        /\ Cardinality(ExecutionsOf(w)') <= Cardinality(ExecutionsOf(w))
    BY <1>1, WorkFinite, FS_Subset
  <1>3. IsFiniteSet(executing')
    BY <1>1, FS_Subset
  <1> QED BY <1>2, <1>3, WorkFinite, WorkAfter

\* The nodes to which the calls belong after a step.
LEMMA CallsOfAfter ==
    ASSUME MemoryInv, NEW c \in Calls, NEW r \in CallRecord,
           calls' = [calls EXCEPT ![c] = r], NEW w
    PROVE  IF r.object # None /\ r.object[1] = w
             THEN CallsOf(w)' = CallsOf(w) \cup {c}
             ELSE CallsOf(w)' = CallsOf(w) \ {c}
  <1>1. /\ \A d \in Calls \ {c} : calls'[d] = calls[d]
        /\ calls'[c] = r
    BY DEF MemoryInv, CallsOK
  <1> QED BY <1>1 DEF CallsOf

\* The continuation of a call turns it into an execution in the same loop.
LEMMA ReturnKeepsLoop ==
    ASSUME ClusterInv, NEW c \in Calls, ReserveReturn(c), NEW w \in Workers
    PROVE  IsFiniteSet(executing') /\ Occupied(w)' <= Occupied(w)
  <1> USE DEF ClusterInv, MemoryInv, LoopsHeld
  <1> DEFINE x == <<calls[c].entry, calls[c].object[1]>>
  <1>1. /\ executing' = executing \cup {x}
        /\ calls' = [calls EXCEPT ![c] = NoCall]
        /\ calls[c].phase = "popped"
    BY DEF ReserveReturn
  <1>2. NoCall \in CallRecord /\ NoCall.object = None
    BY DEF NoCall, CallRecord
  <1>3. CallsOf(w)' = CallsOf(w) \ {c}
    <2>1. MemoryInv
      OBVIOUS
    <2> HIDE DEF ClusterInv, MemoryInv, LoopsHeld, x
    <2> QED BY <1>1, <1>2, <2>1, CallsOfAfter
  <1>4. IsFiniteSet(executing')
    BY <1>1, FS_AddElement
  <1>5. CASE calls[c].object[1] = w
    <2>1. c \in CallsOf(w)
      BY <1>1, <1>5, CallShape, ClusterAssumption DEF CallsOf
    <2>2. ExecutionsOf(w)' = ExecutionsOf(w) \cup {x}
      BY <1>1, <1>5 DEF ExecutionsOf
    <2>3. Cardinality(CallsOf(w)') = Cardinality(CallsOf(w)) - 1
      BY <1>3, <2>1, WorkFinite, FS_RemoveElement
    <2>4. \/ Cardinality(ExecutionsOf(w)') = Cardinality(ExecutionsOf(w))
          \/ Cardinality(ExecutionsOf(w)') = Cardinality(ExecutionsOf(w)) + 1
      <3> HIDE DEF x
      <3> QED BY <2>2, WorkFinite, FS_AddElement
    <2> QED BY <1>4, <2>3, <2>4, WorkFinite, WorkAfter
  <1>6. CASE calls[c].object[1] # w
    <2>1. ExecutionsOf(w)' = ExecutionsOf(w)
      BY <1>1, <1>6 DEF ExecutionsOf
    <2>2. CallsOf(w)' \in SUBSET CallsOf(w)
      BY <1>3
    <2>3. Cardinality(CallsOf(w)') <= Cardinality(CallsOf(w))
      BY <2>2, WorkFinite, FS_Subset
    <2> QED BY <1>4, <2>1, <2>3, WorkFinite, WorkAfter
  <1> QED BY <1>4, <1>5, <1>6

\* Only reserve_task opens a call.
LEMMA CallsEnd ==
    ASSUME MemoryInv, [ClusterNext]_clusterVars,
           ~ \E c \in Calls, v \in Workers : ReserveCall(c, v), NEW w
    PROVE  CallsOf(w)' \subseteq CallsOf(w)
  <1>1. CASE calls' = [c \in Calls |-> NoCall]
    BY <1>1 DEF CallsOf, NoCall
  <1>2. CASE calls' = calls
    BY <1>2 DEF CallsOf
  <1>3. ASSUME NEW c \in Calls, NEW r \in CallRecord, calls' = [calls EXCEPT ![c] = r],
               r = NoCall \/ r.object = calls[c].object
        PROVE  CallsOf(w)' \subseteq CallsOf(w)
    <2>1. \A d \in Calls \ {c} : calls'[d] = calls[d]
      BY <1>3 DEF MemoryInv, CallsOK
    <2>2. calls'[c].object = None \/ calls'[c].object = calls[c].object
      BY <1>3 DEF MemoryInv, CallsOK, NoCall
    <2> QED BY <2>1, <2>2 DEF CallsOf
  <1> QED BY <1>1, <1>2, <1>3, CallsChange

\* A new call takes a free loop of its node.
LEMMA CallTakesLoop ==
    ASSUME ClusterInv, NEW c \in Calls, NEW v \in Workers, ReserveCall(c, v), NEW w \in Workers
    PROVE  Occupied(w)' <= consumers[w]
  <1> USE DEF ClusterInv, MemoryInv
  <1>1. /\ calls[c].phase = "none" /\ FreeLoop(v)
        /\ calls' = [calls EXCEPT ![c] = [NoCall EXCEPT !.phase = "queued", !.object = Current(v)]]
        /\ executing' = executing
    BY DEF ReserveCall, ReserveTask, nodes
  <1>2. /\ Current(v) \in Objects /\ Current(v) # None /\ Current(v)[1] = v
        /\ [NoCall EXCEPT !.phase = "queued", !.object = Current(v)] \in CallRecord
        /\ [NoCall EXCEPT !.phase = "queued", !.object = Current(v)].object = Current(v)
    BY RegistrationShape, ClusterAssumption
       DEF ReserveCall, ReserveTask, Current, NoCall, CallRecord
  <1>3. PICK r \in CallRecord : /\ calls' = [calls EXCEPT ![c] = r]
                                /\ r.object # None /\ r.object[1] = v
    BY <1>1, <1>2
  <1>4. ExecutionsOf(w)' = ExecutionsOf(w) /\ IsFiniteSet(executing) /\ IsFiniteSet(executing')
    BY <1>1 DEF ExecutionsOf, LoopsHeld
  <1>5. Occupied(w) <= consumers[w] /\ consumers[w] \in Nat
    BY DEF LoopsHeld
  <1>6. MemoryInv
    OBVIOUS
  <1> HIDE DEF ClusterInv, MemoryInv
  <1>7. CASE w = v
    <2>1. CallsOf(w)' = CallsOf(w) \cup {c}
      BY <1>3, <1>6, <1>7, CallsOfAfter
    <2>2. c \notin CallsOf(w)
      BY <1>1, <1>6 DEF MemoryInv, CallsOK, CallOK, CallsOf
    <2>3. Cardinality(CallsOf(w)') = Cardinality(CallsOf(w)) + 1
      BY <1>4, <2>1, <2>2, WorkFinite, FS_AddElement
    <2>4. Occupied(w) < consumers[w]
      BY <1>1, <1>7 DEF FreeLoop
    <2> QED BY <1>4, <1>5, <2>3, <2>4, WorkFinite, WorkAfter
  <1>8. CASE w # v
    <2>1. CallsOf(w)' \subseteq CallsOf(w)
      BY <1>3, <1>6, <1>8, CallsOfAfter
    <2>2. Occupied(w)' <= Occupied(w)
      BY <1>1, <1>4, <2>1, WorkShrinks
    <2> QED BY <1>4, <1>5, <2>2, WorkFinite, WorkAfter
  <1> QED BY <1>7, <1>8

\* A loop that cannot report ends with its execution.
LEMMA LoopEndsWithExecution ==
    ASSUME ClusterInv, NEW x \in executing, ReportFails(x), NEW w \in Workers
    PROVE  /\ IsFiniteSet(executing')
           /\ consumers' \in [Workers -> Nat]
           /\ Occupied(w)' <= consumers'[w] /\ consumers'[w] <= consumers[w]
  <1> USE DEF ClusterInv, MemoryInv
  <1>1. /\ executing' = executing \ {x}
        /\ consumers' = [consumers EXCEPT ![x[2]] = @ - 1]
        /\ calls' = calls
    BY DEF ReportFails
  <1>2. /\ IsFiniteSet(executing) /\ consumers \in [Workers -> Nat]
        /\ \A v \in Workers : Occupied(v) <= consumers[v]
    BY DEF LoopsHeld
  <1>3. IsFiniteSet(executing')
    BY <1>1, <1>2, FS_RemoveElement
  <1>4. x[2] \in Workers
    BY ExecutionShape
  <1> HIDE DEF ClusterInv, MemoryInv
  <1>5. \A v \in Workers : CallsOf(v)' = CallsOf(v)
    BY <1>1 DEF CallsOf
  <1>6. /\ Cardinality(ExecutionsOf(x[2])') = Cardinality(ExecutionsOf(x[2])) - 1
        /\ Cardinality(ExecutionsOf(x[2])) > 0
    <2>1. ExecutionsOf(x[2])' = ExecutionsOf(x[2]) \ {x} /\ x \in ExecutionsOf(x[2])
      BY <1>1 DEF ExecutionsOf
    <2>2. IsFiniteSet(ExecutionsOf(x[2]))
      BY <1>2, WorkFinite
    <2>3. IsFiniteSet(ExecutionsOf(x[2])')
      BY <2>1, <2>2, FS_RemoveElement
    <2>4. Cardinality(ExecutionsOf(x[2])') = Cardinality(ExecutionsOf(x[2])) - 1
      BY <2>1, <2>2, FS_RemoveElement
    <2>5. Cardinality(ExecutionsOf(x[2])') \in Nat /\ Cardinality(ExecutionsOf(x[2])) \in Nat
      BY <2>2, <2>3, FS_CardinalityType
    <2> QED BY <2>4, <2>5
  <1>7. /\ Occupied(x[2])' = Occupied(x[2]) - 1
        /\ Occupied(x[2]) \in Nat /\ Occupied(x[2]) > 0
    BY <1>2, <1>3, <1>4, <1>5, <1>6, WorkFinite, WorkAfter
  <1>8. consumers[x[2]] \in Nat /\ consumers[x[2]] > 0
    BY <1>2, <1>4, <1>7
  <1>9. consumers' \in [Workers -> Nat]
    BY <1>1, <1>2, <1>4, <1>8
  <1>10. CASE w = x[2]
    <2>1. consumers'[w] = consumers[w] - 1
      BY <1>1, <1>2, <1>10
    <2>2. Occupied(w) <= consumers[w]
      BY <1>2
    <2> QED BY <1>3, <1>7, <1>8, <1>9, <1>10, <2>1, <2>2
  <1>11. CASE w # x[2]
    <2>1. consumers'[w] = consumers[w] /\ consumers[w] \in Nat /\ Occupied(w) <= consumers[w]
      BY <1>1, <1>2, <1>11
    <2>2. ExecutionsOf(w)' = ExecutionsOf(w)
      BY <1>1, <1>11 DEF ExecutionsOf
    <2>3. Occupied(w)' = Occupied(w)
      BY <1>2, <1>3, <1>5, <2>2, WorkFinite, WorkAfter
    <2> QED BY <1>3, <1>9, <2>1, <2>3
  <1> QED BY <1>10, <1>11

\* The loops whose call a crash fails are the calls it ends.
LEMMA CrashEndsCalls ==
    ASSUME ClusterInv, Crash, NEW w \in Workers
    PROVE  /\ consumers'[w] \in Nat
           /\ Occupied(w)' <= consumers'[w] /\ consumers'[w] <= consumers[w]
  <1>1. /\ consumers' = [v \in Workers |-> consumers[v] - LoopsLost(v)]
        /\ calls' = [c \in Calls |-> NoCall]
        /\ executing' = executing
    BY DEF Crash, nodes
  <1>2. /\ IsFiniteSet(executing) /\ IsFiniteSet(executing')
        /\ consumers[w] \in Nat /\ Occupied(w) <= consumers[w]
    BY <1>1 DEF ClusterInv, LoopsHeld
  <1>3. consumers'[w] = consumers[w] - Cardinality(CallsOf(w))
    BY <1>1 DEF LoopsLost, OpenCalls, CallsOf
  <1>4. ExecutionsOf(w)' = ExecutionsOf(w)
    BY <1>1 DEF ExecutionsOf
  <1>5. Cardinality(CallsOf(w)') = 0
    <2>1. CallsOf(w)' = {}
      BY <1>1 DEF CallsOf, NoCall
    <2> QED BY <2>1, FS_EmptySet
  <1> QED BY <1>2, <1>3, <1>4, <1>5, WorkFinite, WorkAfter

\* Loops begin when a node starts with none, and end one by one.
LEMMA LoopsStep == ClusterInv /\ [ClusterNext]_clusterVars => LoopsHeld'
  <1> SUFFICES ASSUME ClusterInv, [ClusterNext]_clusterVars PROVE LoopsHeld'
    OBVIOUS
  <1>0. /\ MemoryInv /\ IsFiniteSet(executing) /\ consumers \in [Workers -> Nat]
        /\ \A w \in Workers : Occupied(w) <= consumers[w] /\ consumers[w] <= Capacity
        /\ \A w \in Workers : consumers[w] \in Nat /\ Occupied(w) \in Nat
        /\ Capacity \in Nat
    BY WorkFinite, ClusterAssumption DEF ClusterInv, LoopsHeld
  <1>1. ASSUME UNCHANGED <<calls, executing>>
        PROVE  \A w \in Workers : Occupied(w)' = Occupied(w)
    BY <1>1 DEF Occupied, OpenCalls
  <1>2. CASE Crash
    <2>1. executing' = executing /\ consumers' = [w \in Workers |-> consumers[w] - LoopsLost(w)]
      BY <1>2 DEF Crash, nodes
    <2>2. consumers' \in [Workers -> Nat]
      BY <1>2, <2>1, CrashEndsCalls
    <2>3. ASSUME NEW w \in Workers PROVE Occupied(w)' <= consumers'[w] /\ consumers'[w] <= Capacity
      BY <1>0, <1>2, CrashEndsCalls
    <2> QED BY <1>0, <2>1, <2>2, <2>3 DEF LoopsHeld
  <1>3. ASSUME NEW v \in Workers, StartNode(v) PROVE LoopsHeld'
    <2>1. /\ UNCHANGED <<calls, executing>> /\ consumers[v] = 0
          /\ consumers' = [consumers EXCEPT ![v] = Capacity]
      BY <1>3 DEF StartNode, RegisterWorker
    <2>2. consumers' \in [Workers -> Nat]
      BY <1>0, <2>1
    <2>3. ASSUME NEW w \in Workers PROVE Occupied(w)' <= consumers'[w] /\ consumers'[w] <= Capacity
      <3>1. Occupied(w)' = Occupied(w)
        BY <1>1, <2>1
      <3>2. consumers'[w] = IF w = v THEN Capacity ELSE consumers[w]
        BY <1>0, <2>1
      <3> QED BY <1>0, <2>1, <3>1, <3>2
    <2> QED BY <1>0, <2>1, <2>2, <2>3 DEF LoopsHeld
  <1>4. ASSUME NEW v \in Workers, LoopFails(v), FreeLoop(v),
               consumers' = [consumers EXCEPT ![v] = @ - 1], UNCHANGED engineVars
        PROVE  LoopsHeld'
    <2>1. UNCHANGED <<calls, executing>>
      BY <1>4 DEF engineVars, nodes
    <2>2. Occupied(v) < consumers[v]
      BY <1>4 DEF FreeLoop
    <2>3. consumers[v] - 1 \in Nat
      BY <1>0, <2>2
    <2>4. consumers' \in [Workers -> Nat]
      BY <1>0, <1>4, <2>3
    <2>5. ASSUME NEW w \in Workers PROVE Occupied(w)' <= consumers'[w] /\ consumers'[w] <= Capacity
      <3>1. Occupied(w)' = Occupied(w)
        BY <1>1, <2>1
      <3>2. consumers'[w] = IF w = v THEN consumers[v] - 1 ELSE consumers[w]
        BY <1>0, <1>4
      <3> QED BY <1>0, <2>2, <3>1, <3>2
    <2> QED BY <1>0, <2>1, <2>4, <2>5 DEF LoopsHeld
  <1>5. ASSUME NEW c \in Calls, NEW v \in Workers, ReserveCall(c, v) PROVE LoopsHeld'
    <2>1. UNCHANGED <<executing, consumers>>
      BY <1>5 DEF ReserveCall, ReserveTask, nodes
    <2>2. \A w \in Workers : Occupied(w)' <= consumers[w]
      BY <1>5, CallTakesLoop
    <2> QED BY <1>0, <2>1, <2>2 DEF LoopsHeld
  <1>6. ASSUME NEW c \in Calls, ReserveReturn(c), consumers' = consumers PROVE LoopsHeld'
    <2>1. ASSUME NEW w \in Workers PROVE IsFiniteSet(executing') /\ Occupied(w)' <= Occupied(w)
      BY <1>6, ReturnKeepsLoop
    <2>2. IsFiniteSet(executing')
      <3>1. executing' = executing \cup {<<calls[c].entry, calls[c].object[1]>>}
        BY <1>6 DEF ReserveReturn
      <3> QED BY <1>0, <3>1, FS_AddElement
    <2>3. ASSUME NEW w \in Workers PROVE Occupied(w)' <= consumers[w]
      <3>1. Occupied(w)' \in Nat
        BY <2>2, WorkAfter
      <3> QED BY <1>0, <2>1, <3>1
    <2> QED BY <1>0, <1>6, <2>2, <2>3 DEF LoopsHeld
  <1>7. ASSUME NEW x \in executing, ReportFails(x) PROVE LoopsHeld'
    <2>1. \A w \in Workers : /\ IsFiniteSet(executing') /\ consumers' \in [Workers -> Nat]
                             /\ Occupied(w)' <= consumers'[w] /\ consumers'[w] <= consumers[w]
      BY <1>7, LoopEndsWithExecution
    <2>2. x[2] \in Workers
      BY <1>0, ExecutionShape DEF MemoryInv
    <2>3. ASSUME NEW w \in Workers PROVE consumers'[w] <= Capacity
      BY <1>0, <2>1
    <2> QED BY <2>1, <2>2, <2>3 DEF LoopsHeld
  <1>8. ASSUME executing' \subseteq executing, consumers' = consumers,
               ~ \E c \in Calls, v \in Workers : ReserveCall(c, v)
        PROVE  LoopsHeld'
    <2>1. IsFiniteSet(executing')
      <3>1. executing' \in SUBSET executing
        BY <1>8
      <3> QED BY <1>0, <3>1, FS_Subset
    <2>2. ASSUME NEW w \in Workers PROVE Occupied(w)' <= consumers[w]
      <3>1. CallsOf(w)' \subseteq CallsOf(w) /\ ExecutionsOf(w)' \subseteq ExecutionsOf(w)
        BY <1>0, <1>8, CallsEnd DEF ExecutionsOf
      <3>2. Occupied(w)' <= Occupied(w) /\ Occupied(w)' \in Nat
        BY <1>0, <1>8, <2>1, <3>1, WorkShrinks, WorkAfter
      <3> QED BY <1>0, <3>2
    <2> QED BY <1>0, <1>8, <2>1, <2>2 DEF LoopsHeld
  <1>9. CASE EngineStep
    <2>1. consumers' = consumers
      BY <1>9 DEF EngineStep
    <2>2. executing' = executing \/ \E c \in Calls : ReserveReturn(c)
      BY <1>9 DEF EngineStep, SubmitTask, CancelTask, RetryTask, ThreadStart, Thread, ThreadPop,
                  ThreadMiss, HeartbeatReaper, LeaseReaper, Clock, nodes
    <2> QED BY <1>5, <1>6, <1>8, <2>1, <2>2
  <1>10. ASSUME NEW v \in Workers, LoopFails(v)
         PROVE  \/ consumers' = consumers /\ executing' = executing
                \/ /\ FreeLoop(v) /\ UNCHANGED engineVars
                   /\ consumers' = [consumers EXCEPT ![v] = @ - 1]
    BY <1>10 DEF LoopFails, BeatStop
  <1>11. ASSUME \/ Restart \/ SaveExpired
                \/ \E w \in Workers : Beat(w) \/ BeatUnknown(w)
                \/ \E x \in executing, s \in {"succeeded", "failed"} : Report(x, s)
                \/ UNCHANGED clusterVars
         PROVE  executing' \subseteq executing /\ consumers' = consumers
    BY <1>11 DEF Restart, SaveExpired, LeaseReaperSave, Beat, BeatUnknown, Rejoin,
                 RegisterWorker, Heartbeat, Report, ReportResult, clusterVars, engineVars, nodes
  <1> QED BY <1>2, <1>3, <1>4, <1>5, <1>7, <1>8, <1>9, <1>10, <1>11 DEF ClusterNext

-----------------------------------------------------------------------------
(* Theorems *)

\* The parts of the invariant hold each other up: the broker's steps need the
\* calls, the loops need the calls, the rows need the broker.
LEMMA ClusterInvStep == ClusterInv /\ [ClusterNext]_clusterVars => ClusterInv'
  BY BrokerKept, MemoryStep, CallsKept, ProcessStep, RowsStep, LoopsStep
     DEF ClusterInv, MemoryInv

THEOREM ClusterInvariant == ClusterSpec => []ClusterInv
  BY ClusterInvInit, ClusterInvStep, PTL DEF ClusterSpec

\* Every open call and execution has a loop of its node to return to, nothing is
\* left of the memory of a process that is down, and no process knows a task of
\* an earlier one.
THEOREM ClusterIsTypeCorrect == ClusterSpec => []ClusterTypeOK
  <1>1. ClusterInv => ClusterTypeOK
    <2> SUFFICES ASSUME ClusterInv PROVE ClusterTypeOK
      OBVIOUS
    <2>1. ASSUME NEW w \in Workers PROVE consumers[w] \in Occupied(w) .. Capacity
      <3>1. /\ Occupied(w) \in Nat /\ consumers[w] \in Nat
            /\ Occupied(w) <= consumers[w] /\ consumers[w] <= Capacity
        BY WorkFinite DEF ClusterInv, LoopsHeld
      <3> QED BY <3>1, ClusterAssumption
    <2> QED BY <2>1 DEF ClusterInv, ProcessOK, RowsAgree, ClusterTypeOK
  <1> QED BY <1>1, ClusterInvariant, PTL

\* A row that says succeeded has the result, through late reports, retries,
\* restarts and saves that carry no result.
THEOREM SuccessKeepsResult == ClusterSpec => []SuccessHasResult
  <1>1. ClusterInv => SuccessHasResult
    BY DEF ClusterInv, RowsAgree
  <1> QED BY <1>1, ClusterInvariant, PTL

\* Each process has a broker that keeps all it promises: leases cover what runs,
\* no task is lost, none that was cancelled is leased, runs are bounded and
\* delays are honoured, although nodes still report what an earlier one gave them.
THEOREM EveryBrokerKeepsItsPromises ==
    ClusterSpec => [](/\ LeaseCoversRunning /\ NoTaskLost /\ CancelledNotLeased
                      /\ RunsBounded /\ DelayHonoured)
  <1> DEFINE Promises == /\ NoTaskLost /\ CancelledNotLeased /\ RunsCounted
                         /\ DelayCountdown /\ DelayHonoured
  <1>1. Init => Promises
    BY EntriesInit DEF Init, NoTaskLost, Waiting, CancelledNotLeased, DelayCountdown, DelayHonoured
  <1>2. Init' => Promises'
    BY <1>1, PTL
  <1>3. BaseInv /\ HeapsDisjoint /\ Promises /\ [Next]_queueVars => Promises'
    BY LostStep, CancelStep, RunsStep, DelayStep
  <1>4. ClusterInv /\ Promises /\ [ClusterNext]_clusterVars => Promises'
    <2> HIDE DEF Promises
    <2> QED BY <1>2, <1>3, BrokerStep DEF ClusterInv, MemoryInv
  <1>5. ClusterInit => Promises
    BY <1>1 DEF ClusterInit, EngineInit
  <1>6. ClusterInv /\ Promises
            => LeaseCoversRunning /\ NoTaskLost /\ CancelledNotLeased /\ RunsBounded /\ DelayHonoured
    BY HandedFinite DEF ClusterInv, MemoryInv, BaseInv, RunsCounted, RunsBounded
  <1> HIDE DEF Promises
  <1> QED BY <1>4, <1>5, <1>6, ClusterInvariant, PTL DEF ClusterSpec

-----------------------------------------------------------------------------
(* Executions outlive the process that dispatched them *)

\* What makes ExecutedOnceEver inductive: an entry that is carried was handed out
\* by this process, and one that is executed by this one or an earlier one.
GivenOut ==
    /\ \A c \in Calls : calls[c].phase = "popped" => calls[c].entry \in handed
    /\ \A x \in executing : x[1] \in handed \/ x[1][1] \in forgotten

\* What the broker handed out stays handed out until the process ends.
LEMMA HandedGrows ==
    ASSUME MemoryInv, [Next]_queueVars
    PROVE  handed \subseteq handed'
  BY NextShape, InflightKnown
     DEF MemoryInv, BaseInv, SubmitEach, RetryEach, ReserveHit, ReserveMiss, Ack, Complete,
         Cancel, Snapshot, Tick, queueVars, history

\* A step that hands nothing out keeps what is carried and executed apart.
LEMMA OnceKept ==
    ASSUME GivenOut, ExecutedOnceEver, handed \subseteq handed', forgotten \subseteq forgotten',
           executing' \subseteq executing,
           \A c \in Calls : calls'[c].phase = "popped" =>
                calls[c].phase = "popped" /\ calls'[c].entry = calls[c].entry
    PROVE  GivenOut' /\ ExecutedOnceEver'
  BY DEF GivenOut, ExecutedOnceEver

\* A popped entry was handed out by no reserve of this process, and its task is
\* of this process, so no execution of an earlier one holds it.
LEMMA OncePop ==
    ASSUME ClusterInv, GivenOut, ExecutedOnceEver, handed \subseteq handed',
           forgotten' = forgotten, NEW c \in Calls, NEW e \in Entries, ThreadPop(c, e)
    PROVE  GivenOut' /\ ExecutedOnceEver'
  <1> USE DEF ClusterInv, MemoryInv
  <1>1. e \notin handed /\ e \in handed' /\ e[1] \notin forgotten
    BY DEF ThreadPop, ReserveHit, Candidates, Retained, Promoted, HeapsDisjoint, ProcessOK
  <1>2. executing' = executing
    BY DEF ThreadPop, nodes
  <1>3. \A d \in Calls \ {c} : calls'[d] = calls[d]
    BY DEF ThreadPop, CallsOK
  <1>4. calls'[c].phase = "popped" => calls'[c].entry = e
    BY DEF ThreadPop, CallsOK, CallRecord, NoCall
  <1>5. \A x \in executing : x[1] # e
    BY <1>1 DEF GivenOut
  <1>6. \A d \in Calls \ {c} : calls'[d].phase = "popped" =>
            calls[d].phase = "popped" /\ calls'[d].entry = calls[d].entry
               /\ calls[d].entry \in handed
    BY <1>3 DEF GivenOut
  <1> HIDE DEF ClusterInv, MemoryInv
  <1>7. GivenOut'
    BY <1>1, <1>2, <1>4, <1>6 DEF GivenOut
  <1>8. \A d \in Calls : calls'[d].phase = "popped" => \A x \in executing : x[1] # calls'[d].entry
    BY <1>4, <1>5, <1>6 DEF ExecutedOnceEver
  <1>9. ASSUME NEW d \in Calls, NEW f \in Calls, calls'[d].phase = "popped",
               calls'[f].phase = "popped", d # f
        PROVE  calls'[d].entry # calls'[f].entry
    <2>1. CASE d = c
      BY <1>1, <1>4, <1>6, <1>9, <2>1
    <2>2. CASE f = c
      BY <1>1, <1>4, <1>6, <1>9, <2>2
    <2>3. CASE d # c /\ f # c
      BY <1>6, <1>9, <2>3 DEF ExecutedOnceEver
    <2> QED BY <2>1, <2>2, <2>3
  <1> QED BY <1>2, <1>7, <1>8, <1>9 DEF ExecutedOnceEver

\* The continuation moves an entry from its call to an execution.
LEMMA OnceReturn ==
    ASSUME ClusterInv, GivenOut, ExecutedOnceEver, handed \subseteq handed',
           forgotten' = forgotten, NEW c \in Calls, ReserveReturn(c)
    PROVE  GivenOut' /\ ExecutedOnceEver'
  <1> DEFINE x0 == <<calls[c].entry, calls[c].object[1]>>
  <1>1. calls[c].phase = "popped" /\ executing' = executing \cup {x0}
    BY DEF ReserveReturn
  <1>2. calls[c].entry \in handed /\ \A x \in executing : x[1] # calls[c].entry
    BY <1>1 DEF GivenOut, ExecutedOnceEver
  <1>3. \A d \in Calls : calls'[d].phase = "popped" => d # c /\ calls'[d] = calls[d]
    BY DEF ReserveReturn, NoCall, ClusterInv, MemoryInv, CallsOK
  <1>4. GivenOut'
    BY <1>1, <1>2, <1>3 DEF GivenOut
  <1>5. \A x, y \in executing' : x[1] = y[1] => x = y
    BY <1>1, <1>2 DEF ExecutedOnceEver
  <1>6. \A d \in Calls : calls'[d].phase = "popped" =>
            /\ \A x \in executing' : x[1] # calls'[d].entry
            /\ \A f \in Calls \ {d} : calls'[f].phase = "popped"
                                         => calls'[f].entry # calls'[d].entry
    BY <1>1, <1>3 DEF ExecutedOnceEver
  <1> HIDE DEF x0
  <1> QED BY <1>4, <1>5, <1>6 DEF ExecutedOnceEver

\* The crash makes every task of the process forgotten, so every entry it handed
\* out is one of an earlier process from then on.
LEMMA OnceCrash ==
    ASSUME ClusterInv, GivenOut, ExecutedOnceEver, Crash
    PROVE  GivenOut' /\ ExecutedOnceEver'
  <1>1. /\ executing' = executing /\ forgotten' = forgotten \cup Known
        /\ \A c \in Calls : calls'[c].phase = "none"
    BY DEF Crash, nodes, NoCall
  <1>2. \A e \in handed : e[1] \in Known
    BY DEF ClusterInv, MemoryInv, HeapsDisjoint
  <1> QED BY <1>1, <1>2 DEF GivenOut, ExecutedOnceEver

LEMMA OnceStep ==
    ClusterInv /\ GivenOut /\ ExecutedOnceEver /\ [ClusterNext]_clusterVars
        => GivenOut' /\ ExecutedOnceEver'
  <1> SUFFICES ASSUME ClusterInv, GivenOut, ExecutedOnceEver, [ClusterNext]_clusterVars, ~ Crash
               PROVE  GivenOut' /\ ExecutedOnceEver'
    BY OnceCrash
  <1> DEFINE HandsOnlyOn ==
               \A d \in Calls : calls'[d].phase = "popped" =>
                    calls[d].phase = "popped" /\ calls'[d].entry = calls[d].entry
  <1>1. handed \subseteq handed'
    BY BrokerOperates, HandedGrows DEF ClusterInv
  <1>2. forgotten' = forgotten
    BY DEF ClusterNext, Restart, EngineStep, SaveExpired, StartNode, Beat, BeatUnknown, LoopFails,
           ReserveCall, ReportFails, Report, clusterVars, process
  <1>3. ASSUME NEW c \in Calls,
               \/ ThreadStart(c) \/ ThreadMiss(c, TRUE) \/ ThreadMiss(c, FALSE)
               \/ \E v \in Workers : ReserveCall(c, v)
        PROVE  executing' = executing /\ HandsOnlyOn
    <2>0. calls \in [Calls -> CallRecord]
      BY DEF ClusterInv, MemoryInv, CallsOK
    <2>1. \A d \in Calls \ {c} : calls'[d] = calls[d]
      BY <1>3, <2>0 DEF ThreadStart, ThreadMiss, ReserveCall, ReserveTask
    <2>2. calls'[c] = calls[c] \/ calls'[c].phase # "popped"
      <3>1. ThreadStart(c) => calls'[c].phase = "waiting"
        BY <2>0 DEF ThreadStart, CallRecord
      <3>2. ThreadMiss(c, TRUE) \/ ThreadMiss(c, FALSE)
               => calls'[c] = calls[c] \/ calls'[c].phase = "none"
        BY <2>0 DEF ThreadMiss, NoCall
      <3>3. ASSUME NEW v \in Workers, ReserveCall(c, v) PROVE calls'[c].phase = "queued"
        BY <2>0, <3>3 DEF ReserveCall, ReserveTask, NoCall
      <3> QED BY <1>3, <3>1, <3>2, <3>3
    <2>3. executing' = executing
      BY <1>3 DEF ThreadStart, ThreadMiss, ReserveCall, ReserveTask, nodes
    <2> QED BY <2>1, <2>2, <2>3
  <1>4. EngineStep => \/ \E c \in Calls : \/ ThreadStart(c) \/ ThreadMiss(c, TRUE)
                                          \/ ThreadMiss(c, FALSE) \/ ReserveReturn(c)
                                          \/ \E e \in Entries : ThreadPop(c, e)
                      \/ UNCHANGED <<calls, executing>>
    BY DEF EngineStep, SubmitTask, CancelTask, RetryTask, Thread, HeartbeatReaper, LeaseReaper,
           Clock, nodes
  <1>5. ASSUME \/ Restart \/ SaveExpired
               \/ \E w \in Workers : StartNode(w) \/ Beat(w) \/ BeatUnknown(w) \/ LoopFails(w)
               \/ \E x \in executing :
                     ReportFails(x) \/ \E s \in {"succeeded", "failed"} : Report(x, s)
               \/ UNCHANGED clusterVars
        PROVE  executing' \subseteq executing /\ calls' = calls
    BY <1>5 DEF Restart, SaveExpired, LeaseReaperSave, StartNode, Beat, BeatUnknown, Rejoin,
                RegisterWorker, Heartbeat, LoopFails, BeatStop, ReportFails, Report,
                ReportResult, clusterVars, engineVars, nodes
  <1>6. executing' \subseteq executing /\ HandsOnlyOn => GivenOut' /\ ExecutedOnceEver'
    BY <1>1, <1>2, OnceKept
  <1>7. calls' = calls => HandsOnlyOn
    OBVIOUS
  <1>8. ASSUME NEW c \in Calls, NEW e \in Entries, ThreadPop(c, e)
        PROVE  GivenOut' /\ ExecutedOnceEver'
    BY <1>1, <1>2, <1>8, OncePop
  <1>9. ASSUME NEW c \in Calls, ReserveReturn(c)
        PROVE  GivenOut' /\ ExecutedOnceEver'
    BY <1>1, <1>2, <1>9, OnceReturn
  <1> HIDE DEF HandsOnlyOn
  <1> QED BY <1>3, <1>4, <1>5, <1>6, <1>7, <1>8, <1>9 DEF ClusterNext

\* Through any number of crashes, no entry is executed by two nodes, or twice by
\* one: neither the nodes nor the rows bring back a task of an earlier process.
THEOREM NothingExecutedTwice == ClusterSpec => []ExecutedOnceEver
  <1>1. ClusterInit => GivenOut /\ ExecutedOnceEver
    BY DEF ClusterInit, EngineInit, GivenOut, ExecutedOnceEver, NoCall
  <1> QED BY <1>1, ClusterInvariant, OnceStep, PTL DEF ClusterSpec

-----------------------------------------------------------------------------
(* Dependencies in every process *)

\* completed_tasks only grows while the process runs, and ends with its leases.
LEMMA DependenciesStep ==
    ClusterInv /\ DependencyGate /\ [ClusterNext]_clusterVars => DependencyGate'
  <1> SUFFICES ASSUME ClusterInv, DependencyGate, [ClusterNext]_clusterVars
               PROVE  DependencyGate'
    OBVIOUS
  <1>1. CASE Crash
    BY <1>1 DEF Crash, DependencyGate
  <1>2. ASSUME inflight' \subseteq inflight, completed_tasks \subseteq completed_tasks'
        PROVE  DependencyGate'
    BY <1>2 DEF DependencyGate
  <1>3. CASE EngineStep
    <2>1. completed_tasks' = completed_tasks
      BY <1>3 DEF EngineStep, SubmitTask, CancelTask, RetryTask, ThreadStart, Thread, ThreadPop,
                  ThreadMiss, ReserveReturn, HeartbeatReaper, LeaseReaper, Clock
    <2>2. ASSUME NEW c \in Calls, NEW e \in Entries, ThreadPop(c, e) PROVE DependencyGate'
      <3>1. /\ inflight' = inflight \cup {e[1]}
            /\ TaskSpec[e[1]].depends_on \subseteq CompletedSeen(c)
        BY <2>2 DEF ThreadPop, ReserveHit, Candidates
      <3>2. CompletedSeen(c) \subseteq completed_tasks
        BY DEF CompletedSeen
      <3> QED BY <2>1, <3>1, <3>2 DEF DependencyGate
    <2>3. ASSUME NEW t \in Tasks \ forgotten, SubmitTask(t) \/ CancelTask(t) \/ RetryTask(t)
          PROVE  inflight' \subseteq inflight
      BY <2>3 DEF SubmitTask, Submit, SubmitEach, CancelTask, Cancel, RetryTask, Retry,
                  RetryEach, indexes
    <2>4. ASSUME NEW c \in Calls, NEW again \in BOOLEAN, ThreadMiss(c, again)
          PROVE  inflight' \subseteq inflight
      BY <2>4 DEF ThreadMiss, ReserveMiss, indexes
    <2>5. ASSUME \/ LeaseReaper \/ Clock \/ HeartbeatReaper
                 \/ \E c \in Calls : ThreadStart(c) \/ ReserveReturn(c)
          PROVE  inflight' \subseteq inflight
      BY <2>5 DEF LeaseReaper, RequeueExpiredLeases, RetryEach, Clock, Tick, HeartbeatReaper,
                  ThreadStart, ReserveReturn, queueVars, indexes
    <2> QED BY <1>2, <1>3, <2>1, <2>2, <2>3, <2>4, <2>5 DEF EngineStep, Thread
  <1>4. ASSUME NEW x \in executing, NEW s \in {"succeeded", "failed"}, Report(x, s)
        PROVE  inflight' \subseteq inflight /\ completed_tasks \subseteq completed_tasks'
    BY <1>4 DEF Report, ReportResult, Complete, Retry, RetryEach
  <1>5. ASSUME \/ Restart \/ SaveExpired
               \/ \E w \in Workers :
                     \/ StartNode(w) \/ Beat(w) \/ BeatUnknown(w) \/ LoopFails(w)
                     \/ \E c \in Calls : ReserveCall(c, w)
               \/ \E x \in executing : ReportFails(x)
               \/ UNCHANGED clusterVars
        PROVE  inflight' = inflight /\ completed_tasks' = completed_tasks
    BY <1>5 DEF Restart, SaveExpired, LeaseReaperSave, StartNode, Beat, BeatUnknown, Rejoin,
                RegisterWorker, Heartbeat, LoopFails, BeatStop, ReserveCall, ReserveTask,
                ReportFails, clusterVars, engineVars, queueVars, indexes
  <1> QED BY <1>1, <1>2, <1>3, <1>4, <1>5 DEF ClusterNext

\* No process leases a task before all its dependencies were reported SUCCEEDED to
\* that process.
THEOREM EveryProcessRespectsDependencies == ClusterSpec => []DependencyGate
  <1>1. ClusterInit => DependencyGate
    BY DEF ClusterInit, EngineInit, Init, DependencyGate
  <1> QED BY <1>1, ClusterInvariant, DependenciesStep, PTL DEF ClusterSpec

=============================================================================
