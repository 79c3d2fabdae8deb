----------------------- MODULE SchedulerEngine_proofs -----------------------
(* Proofs about the engine: it uses the broker as TaskQueue specifies, so all *)
(* theorems of TaskQueue_proofs hold of it, and its own invariants hold.      *)
EXTENDS SchedulerEngine, TaskQueue_proofs

\* The types of the engine's own variables, without the broker's.
RegistryOK ==
    /\ workers \in [Workers -> 0 .. MaxRegistrations]
    /\ worker_status \in [Objects -> WorkerStatuses]
    /\ running_tasks \in [Workers -> Nat]
    /\ silence \in [Workers -> 0 .. HeartbeatTimeout + 1]
    /\ worker_rows \in [Workers -> WorkerStatuses \cup {None}]
    /\ beating \subseteq Registered

DispatchOK ==
    /\ completed_tasks \subseteq Tasks
    /\ calls \in [Calls -> CallRecord]
    /\ expired \subseteq Tasks
    /\ executing \subseteq Entries \X Registered

RowsOK == task_rows \in [Tasks -> Statuses \cup {None}]

\* An open call has the object it started with, and carries an entry once its
\* thread has popped one.
CallsCarry ==
    \A c \in Calls :
        /\ calls[c].phase # "none" =>
              calls[c].object \in Objects /\ calls[c].object[1] \in Registered
        /\ calls[c].phase = "popped" => calls[c].entry \in Entries

\* The engine's typing needs the broker's (rows copy statuses), the broker's
\* steps need the engine's (reserve is called with the status of an object), and
\* both need that a call has an object.
EngineInv == BaseInv /\ RegistryOK /\ DispatchOK /\ RowsOK /\ CallsCarry

\* An object of the registry and the object of a registered worker.
LEMMA ObjectShape ==
    ASSUME RegistryOK
    PROVE  /\ \A o \in Objects : o = <<o[1], o[2]>> /\ o[1] \in Workers
           /\ \A w \in Registered : w \in Workers /\ Current(w) \in Objects
           /\ \A w \in Workers : workers[w] < MaxRegistrations
                 => <<w, workers[w] + 1>> \in Objects
  BY EngineAssumption DEF RegistryOK, Objects, Registered, Current

\* Nothing is registered, called or saved at the start.
LEMMA EngineInvInit == EngineInit => EngineInv
  <1> SUFFICES ASSUME EngineInit PROVE EngineInv
    OBVIOUS
  <1>1. BaseInv
    BY BaseInit DEF EngineInit
  <1>2. RegistryOK
    BY EngineAssumption DEF EngineInit, RegistryOK, WorkerStatuses
  <1>3. DispatchOK
    BY DEF EngineInit, DispatchOK, CallRecord, NoCall
  <1>4. RowsOK
    BY DEF EngineInit, RowsOK
  <1>5. CallsCarry
    BY DEF EngineInit, CallsCarry, NoCall
  <1> QED BY <1>1, <1>2, <1>3, <1>4, <1>5 DEF EngineInv

-----------------------------------------------------------------------------
(* The engine implements the broker *)

\* Every engine step is a broker operation or leaves the broker alone.
LEMMA EngineStep == EngineInv /\ [EngineNext]_engineVars => [Next]_queueVars
  <1> SUFFICES ASSUME EngineInv, [EngineNext]_engineVars PROVE [Next]_queueVars
    OBVIOUS
  <1> USE DEF EngineInv
  <1>1. ASSUME NEW t \in Tasks, SubmitTask(t) \/ CancelTask(t) \/ RetryTask(t)
        PROVE  Next
    BY <1>1 DEF SubmitTask, CancelTask, RetryTask, Next
  <1>2. ASSUME NEW batch \in SUBSET Tasks, NEW accepted \in SUBSET batch,
               SubmitBatch(batch, accepted)
        PROVE  Next
    BY <1>2 DEF SubmitBatch, Next
  <1>3. ASSUME NEW w \in Workers, NEW e \in Entries,
               NEW s \in {"succeeded", "cancelled", "failed"}, ReportResult(e, w, s)
        PROVE  Next
    <2>1. e[1] \in Tasks
      BY EntryShape
    <2>2. \/ s \in Terminal \ {"failed"} /\ Complete(e[1], s)
          \/ attempts[e[1]] < MaxAttempts /\ Retry(e[1])
      BY <1>3 DEF ReportResult, Terminal
    <2> QED BY <2>1, <2>2 DEF Next
  <1>4. ASSUME NEW c \in Calls, Thread(c) \/ ThreadMiss(c, TRUE)
        PROVE  Next
    <2> DEFINE o == calls[c].object
    <2>1. calls[c].phase = "waiting"
      BY <1>4 DEF Thread, ThreadPop, ThreadMiss
    <2>2. o \in Objects /\ o[1] \in Workers /\ worker_status[o] \in WorkerStatuses
      BY <2>1, ObjectShape DEF CallsCarry, RegistryOK
    <2>3. CompletedSeen(c) \in SUBSET Tasks
      BY DEF CompletedSeen, DispatchOK
    <2>4. Reserve(o[1], worker_status[o], CompletedSeen(c))
      BY <1>4 DEF Thread, ThreadPop, ThreadMiss, Reserve
    <2> QED BY <2>2, <2>3, <2>4 DEF Next
  <1>5. ASSUME LeaseReaper \/ ReadSnapshot \/ Clock PROVE Next
    BY <1>5 DEF LeaseReaper, ReadSnapshot, Clock, Next
  <1>6. ASSUME NEW w \in Workers,
               \/ RegisterWorker(w) \/ BeatStop(w) \/ BeatResume(w)
               \/ \E n \in 0 .. Cardinality(Calls) : Heartbeat(w, n)
        PROVE  UNCHANGED queueVars
    BY <1>6 DEF RegisterWorker, BeatStop, BeatResume, Heartbeat
  <1>7. ASSUME NEW c \in Calls,
               \/ \E w \in Workers : ReserveTask(c, w)
               \/ ThreadStart(c) \/ ReserveReturn(c) \/ DropHandler(c)
        PROVE  UNCHANGED queueVars
    BY <1>7 DEF ReserveTask, ThreadStart, ReserveReturn, DropHandler
  <1>8. ASSUME HeartbeatReaper \/ LeaseReaperSave PROVE UNCHANGED queueVars
    BY <1>8 DEF HeartbeatReaper, LeaseReaperSave
  <1>9. ASSUME UNCHANGED engineVars PROVE UNCHANGED queueVars
    BY <1>9 DEF engineVars
  <1> QED BY <1>1, <1>2, <1>3, <1>4, <1>5, <1>6, <1>7, <1>8, <1>9 DEF EngineNext

-----------------------------------------------------------------------------
(* Type correctness of the engine *)

\* registration, heartbeats, continuations, reports and the heartbeat reaper
\* keep the registry well formed.
LEMMA RegistryStep == EngineInv /\ [EngineNext]_engineVars => RegistryOK'
  <1> SUFFICES ASSUME EngineInv, [EngineNext]_engineVars PROVE RegistryOK'
    OBVIOUS
  <1> USE DEF EngineInv
  <1>1. ASSUME NEW w \in Workers, RegisterWorker(w) PROVE RegistryOK'
    <2>1. <<w, workers[w] + 1>> \in Objects /\ w \in Workers
      BY <1>1, ObjectShape DEF RegisterWorker
    <2>2. workers[w] \in Int /\ workers[w] + 1 \in 1 .. MaxRegistrations
      BY <1>1, EngineAssumption DEF RegisterWorker, RegistryOK
    <2>3. Registered' = Registered \cup {w}
      BY <1>1, <2>2 DEF RegisterWorker, Registered, RegistryOK
    <2>4. workers' \in [Workers -> 0 .. MaxRegistrations]
      BY <1>1, <2>2 DEF RegisterWorker, RegistryOK
    <2> QED BY <1>1, <2>1, <2>3, <2>4, EngineAssumption
            DEF RegisterWorker, SetWorkerStatus, RegistryOK, WorkerStatuses
  <1>2. ASSUME NEW w \in Workers, NEW n \in 0 .. Cardinality(Calls), Heartbeat(w, n)
        PROVE  RegistryOK'
    <2>1. n \in Nat
      BY EngineAssumption, FS_CardinalityType
    <2>2. w \in Registered /\ Current(w) \in Objects /\ Current(w)[1] = w
      BY <1>2, ObjectShape DEF Heartbeat, RegistryOK, Current
    <2> QED BY <1>2, <2>1, <2>2, EngineAssumption
            DEF Heartbeat, SetWorkerStatus, Load, RegistryOK, WorkerStatuses, Registered, nodes
  <1>3. ASSUME NEW c \in Calls, ReserveReturn(c) PROVE RegistryOK'
    <2>1. calls[c].object \in Objects /\ calls[c].object[1] \in Workers
      BY <1>3, ObjectShape DEF ReserveReturn, CallsCarry
    <2> QED BY <1>3, <2>1
            DEF ReserveReturn, SetWorkerStatus, RegistryOK, WorkerStatuses, Registered
  <1>4. ASSUME NEW w \in Workers, NEW e \in Entries,
               NEW s \in {"succeeded", "cancelled", "failed"}, ReportResult(e, w, s)
        PROVE  RegistryOK'
    <2>1. w \in Registered /\ Current(w) \in Objects /\ Current(w)[1] = w
      BY <1>4, ObjectShape DEF ReportResult, DispatchOK, Current
    <2>2. OneLess(running_tasks[w]) \in Nat
      BY DEF RegistryOK, OneLess
    <2> QED BY <1>4, <2>1, <2>2
            DEF ReportResult, SetWorkerStatus, Load, RegistryOK, WorkerStatuses, Registered
  <1>5. CASE HeartbeatReaper
    BY <1>5 DEF HeartbeatReaper, Stale, RegistryOK, WorkerStatuses, Registered, nodes
  <1>6. CASE Clock
    BY <1>6, EngineAssumption DEF Clock, RegistryOK, Registered, nodes, store
  <1>7. ASSUME NEW w \in Workers, BeatStop(w) \/ BeatResume(w) PROVE RegistryOK'
    BY <1>7 DEF BeatStop, BeatResume, RegistryOK, Registered, registry, store
  <1>8. CASE UNCHANGED <<registry, worker_rows, beating>>
    BY <1>8 DEF RegistryOK, Registered, registry
  <1> QED BY <1>1, <1>2, <1>3, <1>4, <1>5, <1>6, <1>7, <1>8
          DEF EngineNext, SubmitTask, CancelTask, RetryTask, SubmitBatch, ReserveTask,
              ThreadStart, Thread, ThreadPop, ThreadMiss, DropHandler, LeaseReaper,
              LeaseReaperSave, ReadSnapshot, engineVars, store, nodes

\* Registration is for good: no worker id leaves the registry.
LEMMA RegisteredGrows == EngineInv /\ [EngineNext]_engineVars => Registered \subseteq Registered'
  <1> SUFFICES ASSUME EngineInv, [EngineNext]_engineVars PROVE Registered \subseteq Registered'
    OBVIOUS
  <1>1. ASSUME NEW w \in Workers, RegisterWorker(w) PROVE Registered \subseteq Registered'
    BY <1>1 DEF RegisterWorker, Registered, EngineInv, RegistryOK
  <1>2. CASE UNCHANGED workers
    BY <1>2 DEF Registered
  <1> QED BY <1>1, <1>2
          DEF EngineNext, SubmitTask, CancelTask, RetryTask, SubmitBatch, Heartbeat,
              ReserveTask, ThreadStart, Thread, ThreadPop, ThreadMiss, ReserveReturn,
              DropHandler, ReportResult, BeatStop, BeatResume, HeartbeatReaper, LeaseReaper,
              LeaseReaperSave, ReadSnapshot, Clock, engineVars, registry

\* The steps of a reserve call hand on its object, its flags and its entry.
LEMMA CallsStep ==
    EngineInv /\ [EngineNext]_engineVars => calls' \in [Calls -> CallRecord] /\ CallsCarry'
  <1> SUFFICES ASSUME EngineInv, [EngineNext]_engineVars
               PROVE  calls' \in [Calls -> CallRecord] /\ CallsCarry'
    OBVIOUS
  <1> DEFINE Good(r) ==
               /\ r \in CallRecord
               /\ r.phase # "none" => r.object \in Objects /\ r.object[1] \in Registered
               /\ r.phase = "popped" => r.entry \in Entries
  <1> USE DEF EngineInv
  <1>1. \A c \in Calls : Good(calls[c])
    BY DEF DispatchOK, CallsCarry
  <1>2. Good(NoCall)
    BY DEF NoCall, CallRecord
  <1>3. ASSUME NEW c \in Calls, NEW r, Good(r), calls' = [calls EXCEPT ![c] = r]
        PROVE  calls' \in [Calls -> CallRecord] /\ CallsCarry'
    <2>1. calls' \in [Calls -> CallRecord]
      BY <1>3 DEF DispatchOK
    <2>2. \A d \in Calls : Good(calls'[d])
      BY <1>1, <1>3 DEF DispatchOK
    <2> QED BY <2>1, <2>2, RegisteredGrows DEF CallsCarry
  <1>4. CASE UNCHANGED calls
    BY <1>4, RegisteredGrows DEF CallsCarry, DispatchOK
  <1>5. ASSUME NEW c \in Calls, NEW w \in Workers, ReserveTask(c, w)
        PROVE  calls' \in [Calls -> CallRecord] /\ CallsCarry'
    <2> DEFINE r == [NoCall EXCEPT !.phase = "queued", !.object = Current(w)]
    <2>1. Current(w) \in Objects /\ Current(w)[1] \in Registered
      BY <1>5, ObjectShape DEF ReserveTask, Current
    <2>2. Good(r)
      BY <2>1 DEF NoCall, CallRecord
    <2>3. calls' = [calls EXCEPT ![c] = r]
      BY <1>5 DEF ReserveTask
    <2> HIDE DEF r, Good
    <2> QED BY <1>3, <2>2, <2>3
  <1>6. ASSUME NEW c \in Calls, ThreadStart(c)
        PROVE  calls' \in [Calls -> CallRecord] /\ CallsCarry'
    <2> DEFINE r == [calls[c] EXCEPT !.phase = "waiting", !.live = (completed_tasks # {})]
    <2>1. Good(r)
      BY <1>1, <1>6 DEF ThreadStart, CallRecord
    <2>2. calls' = [calls EXCEPT ![c] = r]
      BY <1>6 DEF ThreadStart
    <2> HIDE DEF r, Good
    <2> QED BY <1>3, <2>1, <2>2
  <1>7. ASSUME NEW c \in Calls, NEW e \in Entries, ThreadPop(c, e)
        PROVE  calls' \in [Calls -> CallRecord] /\ CallsCarry'
    <2> DEFINE r == [calls[c] EXCEPT !.phase = "popped", !.entry = e]
    <2>1. Good(r)
      BY <1>1, <1>7 DEF ThreadPop, CallRecord
    <2>2. calls' = [calls EXCEPT ![c] = NoCall] \/ calls' = [calls EXCEPT ![c] = r]
      BY <1>7 DEF ThreadPop, DispatchOK
    <2> HIDE DEF r, Good
    <2> QED BY <1>2, <1>3, <2>1, <2>2
  <1>8. ASSUME NEW c \in Calls,
               ThreadMiss(c, TRUE) \/ ThreadMiss(c, FALSE) \/ ReserveReturn(c)
        PROVE  calls' \in [Calls -> CallRecord] /\ CallsCarry'
    <2>1. calls' = [calls EXCEPT ![c] = NoCall] \/ calls' = calls
      BY <1>8 DEF ThreadMiss, ReserveReturn
    <2> HIDE DEF Good
    <2> QED BY <1>2, <1>3, <1>4, <2>1
  <1>9. ASSUME NEW c \in Calls, DropHandler(c)
        PROVE  calls' \in [Calls -> CallRecord] /\ CallsCarry'
    <2> DEFINE r == [calls[c] EXCEPT !.dropped = TRUE]
    <2>1. Good(r)
      BY <1>1 DEF CallRecord
    <2>2. calls' = [calls EXCEPT ![c] = NoCall] \/ calls' = [calls EXCEPT ![c] = r]
      BY <1>9 DEF DropHandler, DispatchOK
    <2> HIDE DEF r, Good
    <2> QED BY <1>2, <1>3, <2>1, <2>2
  <1> QED BY <1>4, <1>5, <1>6, <1>7, <1>8, <1>9
          DEF EngineNext, SubmitTask, CancelTask, RetryTask, SubmitBatch, RegisterWorker,
              Heartbeat, Thread, ReportResult, BeatStop, BeatResume, HeartbeatReaper,
              LeaseReaper, LeaseReaperSave, ReadSnapshot, Clock, engineVars

\* The rows, the reaper's list, completed_tasks and the executions stay in range.
LEMMA DispatchStep ==
    EngineInv /\ BaseInv' /\ [EngineNext]_engineVars
        => /\ completed_tasks' \subseteq Tasks
           /\ expired' \subseteq Tasks
           /\ executing' \subseteq Entries \X Registered'
           /\ RowsOK'
  <1> SUFFICES ASSUME EngineInv, BaseInv', [EngineNext]_engineVars
               PROVE  /\ completed_tasks' \subseteq Tasks
                      /\ expired' \subseteq Tasks
                      /\ executing' \subseteq Entries \X Registered'
                      /\ RowsOK'
    OBVIOUS
  <1> USE DEF EngineInv
  <1>1. expired' \subseteq Tasks
    <2>1. Expired \subseteq Tasks
      BY DEF Expired, BaseInv, TypeOK
    <2> QED BY <2>1
        DEF EngineNext, SubmitTask, CancelTask, RetryTask, SubmitBatch, RegisterWorker,
            Heartbeat, ReserveTask, ThreadStart, Thread, ThreadPop, ThreadMiss, ReserveReturn,
            DropHandler, ReportResult, BeatStop, BeatResume, HeartbeatReaper, LeaseReaper,
            LeaseReaperSave, ReadSnapshot, Clock, engineVars, DispatchOK
  <1>2. completed_tasks' \subseteq Tasks
    <2>1. \A e \in Entries : e[1] \in Tasks
      BY EntryShape
    <2> QED BY <2>1
        DEF EngineNext, SubmitTask, CancelTask, RetryTask, SubmitBatch, RegisterWorker,
            Heartbeat, ReserveTask, ThreadStart, Thread, ThreadPop, ThreadMiss, ReserveReturn,
            DropHandler, ReportResult, BeatStop, BeatResume, HeartbeatReaper, LeaseReaper,
            LeaseReaperSave, ReadSnapshot, Clock, engineVars, DispatchOK
  <1>3. executing' \subseteq Entries \X Registered'
    <2>1. ASSUME NEW c \in Calls, ReserveReturn(c)
          PROVE  executing' \subseteq Entries \X Registered
      BY <2>1 DEF ReserveReturn, CallsCarry, DispatchOK
    <2>2. executing' \subseteq executing \/ \E c \in Calls : ReserveReturn(c)
      BY DEF EngineNext, SubmitTask, CancelTask, RetryTask, SubmitBatch, RegisterWorker,
             Heartbeat, ReserveTask, ThreadStart, Thread, ThreadPop, ThreadMiss,
             DropHandler, ReportResult, BeatStop, BeatResume, HeartbeatReaper, LeaseReaper,
             LeaseReaperSave, ReadSnapshot, Clock, engineVars, nodes
    <2> QED BY <2>1, <2>2, RegisteredGrows DEF DispatchOK
  <1>4. RowsOK'
    <2>1. \A S : UpsertTasks(S) => RowsOK'
      BY DEF UpsertTasks, RowsOK, BaseInv, TypeOK
    <2>2. UNCHANGED task_rows => RowsOK'
      BY DEF RowsOK
    <2> QED BY <2>1, <2>2
        DEF EngineNext, SubmitTask, CancelTask, RetryTask, SubmitBatch, RegisterWorker,
            Heartbeat, ReserveTask, ThreadStart, Thread, ThreadPop, ThreadMiss, ReserveReturn,
            DropHandler, ReportResult, BeatStop, BeatResume, HeartbeatReaper, LeaseReaper,
            LeaseReaperSave, ReadSnapshot, Clock, engineVars, store
  <1> QED BY <1>1, <1>2, <1>3, <1>4

\* The engine's invariant is inductive.
LEMMA EngineInvStep == EngineInv /\ [EngineNext]_engineVars => EngineInv'
  <1> SUFFICES ASSUME EngineInv, [EngineNext]_engineVars PROVE EngineInv'
    OBVIOUS
  <1>1. BaseInv'
    BY EngineStep, BaseStep DEF EngineInv
  <1> QED BY <1>1, RegistryStep, CallsStep, DispatchStep DEF EngineInv, DispatchOK

\* The engine is type correct: every reserve call has a registered object, every
\* execution an entry within the retry budget, every row a legal status.
THEOREM EngineTypeCorrect == EngineSpec => []EngineTypeOK
  <1>1. EngineInv => EngineTypeOK
    BY DEF EngineInv, BaseInv, RegistryOK, DispatchOK, RowsOK, EngineTypeOK
  <1> QED BY <1>1, EngineInvInit, EngineInvStep, PTL DEF EngineSpec

\* The engine implements the broker specification: no interleaving of handlers,
\* reserve threads, dropped calls and reapers makes the broker do anything that
\* TaskQueue does not allow.
LEMMA EngineImplementsQueue == EngineSpec => Spec
  <1>1. EngineInit => Init
    BY DEF EngineInit
  <1> QED BY <1>1, EngineInvInit, EngineInvStep, EngineStep, PTL
          DEF EngineSpec, Spec

\* What is proved of the broker holds in the engine.
THEOREM EngineKeepsQueueInvariants ==
    EngineSpec => [](/\ LeaseCoversRunning
                     /\ NoTaskLost
                     /\ RunsBounded
                     /\ CancelledNotLeased)
  BY EngineImplementsQueue, LeasesTracked, NoTaskIsLost, RunsAreBounded, CancelledStaysOut,
     PTL

-----------------------------------------------------------------------------
(* The dependency gate *)

\* Only a reserve thread adds to _inflight, and completed_tasks only grows.
LEMMA GateStep == EngineInv /\ DependencyGate /\ [EngineNext]_engineVars => DependencyGate'
  <1> SUFFICES ASSUME EngineInv, DependencyGate, [EngineNext]_engineVars
               PROVE  DependencyGate'
    OBVIOUS
  <1>1. completed_tasks \subseteq completed_tasks'
    BY DEF EngineNext, SubmitTask, CancelTask, RetryTask, SubmitBatch, RegisterWorker,
           Heartbeat, ReserveTask, ThreadStart, Thread, ThreadPop, ThreadMiss, ReserveReturn,
           DropHandler, ReportResult, BeatStop, BeatResume, HeartbeatReaper, LeaseReaper,
           LeaseReaperSave, ReadSnapshot, Clock, engineVars
  <1>2. CASE inflight' \subseteq inflight
    BY <1>1, <1>2 DEF DependencyGate
  <1>3. ASSUME NEW c \in Calls, NEW e \in Entries, ThreadPop(c, e) PROVE DependencyGate'
    <2>1. inflight' = inflight \cup {e[1]}
      BY <1>3 DEF ThreadPop, ReserveHit
    <2>2. TaskSpec[e[1]].depends_on \subseteq CompletedSeen(c)
      BY <1>3 DEF ThreadPop, ReserveHit, Candidates
    <2>3. CompletedSeen(c) \subseteq completed_tasks
      BY DEF CompletedSeen
    <2> QED BY <1>1, <2>1, <2>2, <2>3 DEF DependencyGate
  <1>4. ASSUME NEW t \in Tasks, SubmitTask(t) \/ CancelTask(t) \/ RetryTask(t)
        PROVE  inflight' \subseteq inflight
    BY <1>4 DEF SubmitTask, Submit, SubmitEach, CancelTask, Cancel, RetryTask, Retry,
                RetryEach, indexes
  <1>5. ASSUME NEW batch \in SUBSET Tasks, NEW accepted \in SUBSET batch,
               SubmitBatch(batch, accepted)
        PROVE  inflight' \subseteq inflight
    BY <1>5 DEF SubmitBatch, SubmitMany, SubmitEach, indexes
  <1>6. ASSUME NEW w \in Workers, NEW e \in Entries,
               NEW s \in {"succeeded", "cancelled", "failed"}, ReportResult(e, w, s)
        PROVE  inflight' \subseteq inflight
    BY <1>6 DEF ReportResult, Complete, Retry, RetryEach
  <1>7. ASSUME NEW c \in Calls, NEW again \in BOOLEAN, ThreadMiss(c, again)
        PROVE  inflight' \subseteq inflight
    BY <1>7 DEF ThreadMiss, ReserveMiss, indexes
  <1>8. ASSUME LeaseReaper \/ ReadSnapshot \/ Clock PROVE inflight' \subseteq inflight
    BY <1>8 DEF LeaseReaper, RequeueExpiredLeases, RetryEach, ReadSnapshot, Snapshot, Clock,
                Tick, indexes
  <1>9. ASSUME UNCHANGED queueVars PROVE inflight' \subseteq inflight
    BY <1>9 DEF queueVars, indexes
  <1> QED BY <1>2, <1>3, <1>4, <1>5, <1>6, <1>7, <1>8, <1>9
          DEF EngineNext, RegisterWorker, Heartbeat, ReserveTask, ThreadStart, Thread,
              ReserveReturn, DropHandler, BeatStop, BeatResume, HeartbeatReaper,
              LeaseReaperSave, engineVars

\* No task is ever under a lease before all its dependencies were reported
\* SUCCEEDED, whatever set a reserve thread captured.
THEOREM DependenciesRespected == EngineSpec => []DependencyGate
  <1>1. EngineInit => DependencyGate
    BY DEF EngineInit, Init, DependencyGate
  <1> QED BY <1>1, EngineInvInit, EngineInvStep, GateStep, PTL DEF EngineSpec

-----------------------------------------------------------------------------
(* Terminal statuses are saved *)

\* Every step that gives a task a terminal status saves it in the same step, or
\* is the lease reaper's, which keeps the task on its list until it does.
LEMMA SavedStep == EngineInv /\ TerminalSaved /\ [EngineNext]_engineVars => TerminalSaved'
  <1> SUFFICES ASSUME EngineInv, TerminalSaved, [EngineNext]_engineVars
               PROVE  TerminalSaved'
    OBVIOUS
  <1> USE DEF TerminalSaved, EngineInv, BaseInv, TypeOK
  <1>1. ASSUME NEW t \in Tasks, UpsertTasks({t}), UNCHANGED expired,
               \A u \in Tasks \ {t} : status'[u] = status[u]
        PROVE  TerminalSaved'
    BY <1>1 DEF UpsertTasks
  <1>2. ASSUME UNCHANGED <<task_rows, expired>>,
               \A u \in Tasks : status'[u] = status[u] \/ status'[u] \notin Terminal
        PROVE  TerminalSaved'
    BY <1>2
  <1>3. ASSUME NEW t \in Tasks, SubmitTask(t) \/ CancelTask(t) \/ RetryTask(t)
        PROVE  TerminalSaved'
    BY <1>1, <1>3 DEF SubmitTask, Submit, SubmitEach, CancelTask, Cancel, RetryTask, Retry,
                      RetryEach
  <1>4. ASSUME NEW batch \in SUBSET Tasks, NEW accepted \in SUBSET batch,
               SubmitBatch(batch, accepted)
        PROVE  TerminalSaved'
    <2>1. UNCHANGED expired
          /\ \A u \in Tasks : status'[u] = IF u \in accepted THEN "queued" ELSE status[u]
      BY <1>4 DEF SubmitBatch, SubmitMany, SubmitEach
    <2>2. \A u \in Tasks : task_rows'[u] = task_rows[u] \/ task_rows'[u] = status'[u]
      BY <1>4 DEF SubmitBatch, UpsertTasks
    <2> QED BY <2>1, <2>2 DEF Terminal
  <1>5. ASSUME NEW w \in Workers, NEW e \in Entries,
               NEW s \in {"succeeded", "cancelled", "failed"}, ReportResult(e, w, s)
        PROVE  TerminalSaved'
    <2>1. e[1] \in Tasks
      BY EntryShape
    <2>2. \A u \in Tasks \ {e[1]} : status'[u] = status[u]
      BY <1>5 DEF ReportResult, Complete, Retry, RetryEach
    <2> QED BY <1>1, <1>5, <2>1, <2>2 DEF ReportResult
  <1>6. ASSUME NEW c \in Calls, NEW e \in Entries, ThreadPop(c, e) PROVE TerminalSaved'
    BY <1>2, <1>6, EntryShape DEF ThreadPop, ReserveHit, Terminal, store
  <1>7. ASSUME NEW c \in Calls, NEW again \in BOOLEAN, ThreadMiss(c, again)
        PROVE  TerminalSaved'
    BY <1>2, <1>7 DEF ThreadMiss, ReserveMiss, envelopes, store
  <1>8. ASSUME NEW c \in Calls, ReserveReturn(c) PROVE TerminalSaved'
    BY <1>8 DEF ReserveReturn, UpsertTasks, queueVars, envelopes
  <1>9. CASE LeaseReaper
    BY <1>9 DEF LeaseReaper, RequeueExpiredLeases, RetryEach, store
  <1>10. CASE LeaseReaperSave
    BY <1>10 DEF LeaseReaperSave, UpsertTasks, queueVars, envelopes
  <1>11. CASE ReadSnapshot \/ Clock
    BY <1>2, <1>11 DEF ReadSnapshot, Snapshot, Clock, Tick, envelopes, store
  <1>12. CASE UNCHANGED <<queueVars, task_rows, expired>>
    BY <1>2, <1>12 DEF queueVars, envelopes
  <1> QED BY <1>3, <1>4, <1>5, <1>6, <1>7, <1>8, <1>9, <1>10, <1>11, <1>12
          DEF EngineNext, RegisterWorker, Heartbeat, ReserveTask, ThreadStart, Thread,
              DropHandler, BeatStop, BeatResume, HeartbeatReaper, engineVars, store

\* A terminal status is in the tasks table, or on the list the lease reaper is
\* about to save.
THEOREM TerminalIsSaved == EngineSpec => []TerminalSaved
  <1>1. EngineInit => TerminalSaved
    BY DEF EngineInit, Init, TerminalSaved, Terminal
  <1> QED BY <1>1, EngineInvInit, EngineInvStep, SavedStep, PTL DEF EngineSpec

-----------------------------------------------------------------------------
(* Every entry is executed once *)

\* A thread pops an entry no reserve popped before, so it differs from all the
\* entries that calls carry and workers hold; the continuation moves it from the
\* call to the worker.
LEMMA OnceStep ==
    EngineInv /\ HeapsDisjoint /\ ExecutedOnce /\ [EngineNext]_engineVars => ExecutedOnce'
  <1> SUFFICES ASSUME EngineInv, HeapsDisjoint, ExecutedOnce, [EngineNext]_engineVars
               PROVE  ExecutedOnce'
    OBVIOUS
  <1> USE DEF EngineInv, DispatchOK
  <1>1. handed \subseteq handed'
    <2>1. [Next]_queueVars
      BY EngineStep
    <2> QED BY <2>1, NextShape, InflightKnown
            DEF BaseInv, SubmitEach, RetryEach, ReserveHit, ReserveMiss, Ack, Complete, Cancel,
                Snapshot, Tick, queueVars, history
  <1>2. ASSUME executing' \subseteq executing,
               \A c \in Calls : calls'[c].phase = "popped" =>
                    calls[c].phase = "popped" /\ calls'[c].entry = calls[c].entry
        PROVE  ExecutedOnce'
    BY <1>1, <1>2 DEF ExecutedOnce
  <1>3. ASSUME NEW c \in Calls, NEW e \in Entries, ThreadPop(c, e) PROVE ExecutedOnce'
    <2>1. e \notin handed /\ e \in handed'
      BY <1>3 DEF ThreadPop, ReserveHit, Candidates, Retained, Promoted, HeapsDisjoint
    <2>2. executing' = executing
      BY <1>3 DEF ThreadPop, nodes
    <2>3. \A d \in Calls \ {c} : calls'[d] = calls[d]
      BY <1>3 DEF ThreadPop
    <2>4. calls[c].phase # "popped"
      BY <1>3 DEF ThreadPop
    <2>5. calls'[c] = NoCall \/ calls'[c] = [calls[c] EXCEPT !.phase = "popped", !.entry = e]
      BY <1>3 DEF ThreadPop
    <2>6. calls'[c].phase = "none" \/ calls'[c].entry = e
      <3>1. calls[c] \in CallRecord
        OBVIOUS
      <3>2. [calls[c] EXCEPT !.phase = "popped", !.entry = e].entry = e
        BY <3>1 DEF CallRecord
      <3>3. NoCall.phase = "none"
        BY DEF NoCall
      <3>4. CASE calls'[c] = NoCall
        BY <3>3, <3>4
      <3>5. CASE calls'[c] = [calls[c] EXCEPT !.phase = "popped", !.entry = e]
        BY <3>2, <3>5, Zenon
      <3> QED BY <2>5, <3>4, <3>5
    <2>7. \A d \in Calls \ {c} : calls'[d].phase = "popped" =>
             calls[d].phase = "popped" /\ calls'[d].entry = calls[d].entry
                /\ calls[d].entry \in handed
      BY <2>3 DEF ExecutedOnce
    <2>8. \A x \in executing : x[1] \in handed
      BY DEF ExecutedOnce
    <2>9. \A d \in Calls : calls'[d].phase = "popped" => calls'[d].entry \in handed'
      BY <1>1, <2>1, <2>6, <2>7
    <2>10. \A d \in Calls : calls'[d].phase = "popped" =>
              \A x \in executing : x[1] # calls'[d].entry
      BY <2>1, <2>6, <2>7, <2>8 DEF ExecutedOnce
    <2>11. \A d, f \in Calls : /\ calls'[d].phase = "popped" /\ calls'[f].phase = "popped"
                               /\ d # f
                               => calls'[d].entry # calls'[f].entry
      <3> SUFFICES ASSUME NEW d \in Calls, NEW f \in Calls, calls'[d].phase = "popped",
                          calls'[f].phase = "popped", d # f
                   PROVE  calls'[d].entry # calls'[f].entry
        OBVIOUS
      <3>1. CASE d = c
        BY <2>1, <2>6, <2>7, <3>1
      <3>2. CASE f = c
        BY <2>1, <2>6, <2>7, <3>2
      <3>3. CASE d # c /\ f # c
        BY <2>7, <3>3 DEF ExecutedOnce
      <3> QED BY <3>1, <3>2, <3>3
    <2> QED BY <1>1, <2>2, <2>8, <2>9, <2>10, <2>11 DEF ExecutedOnce
  <1>4. ASSUME NEW c \in Calls, ReserveReturn(c) PROVE ExecutedOnce'
    <2> DEFINE x0 == <<calls[c].entry, calls[c].object[1]>>
    <2>1. calls[c].phase = "popped" /\ executing' = executing \cup {x0}
      BY <1>4 DEF ReserveReturn
    <2>2. calls[c].entry \in handed /\ \A x \in executing : x[1] # calls[c].entry
      BY <2>1 DEF ExecutedOnce
    <2>3. \A d \in Calls : calls'[d].phase = "popped" => d # c /\ calls'[d] = calls[d]
      BY <1>4 DEF ReserveReturn, NoCall
    <2>4. \A d \in Calls : calls'[d].phase = "popped" =>
             /\ calls'[d].entry \in handed
             /\ calls'[d].entry # calls[c].entry
             /\ \A x \in executing : x[1] # calls'[d].entry
      BY <2>1, <2>3 DEF ExecutedOnce
    <2>5. \A d, f \in Calls : /\ calls'[d].phase = "popped" /\ calls'[f].phase = "popped"
                              /\ d # f
                              => calls'[d].entry # calls'[f].entry
      BY <2>3 DEF ExecutedOnce
    <2>6. \A x, y \in executing' : x[1] = y[1] => x = y
      BY <2>1, <2>2 DEF ExecutedOnce
    <2> QED BY <1>1, <2>1, <2>2, <2>4, <2>5, <2>6 DEF ExecutedOnce
  <1>5. ASSUME NEW c \in Calls, NEW w \in Workers, ReserveTask(c, w) PROVE ExecutedOnce'
    BY <1>2, <1>5 DEF ReserveTask, NoCall, nodes
  <1>6. ASSUME NEW c \in Calls, ThreadStart(c) PROVE ExecutedOnce'
    BY <1>2, <1>6 DEF ThreadStart, CallRecord, nodes
  <1>7. ASSUME NEW c \in Calls, NEW again \in BOOLEAN, ThreadMiss(c, again)
        PROVE  ExecutedOnce'
    BY <1>2, <1>7 DEF ThreadMiss, NoCall, nodes
  <1>8. ASSUME NEW c \in Calls, DropHandler(c) PROVE ExecutedOnce'
    BY <1>2, <1>8 DEF DropHandler, NoCall, CallRecord, nodes
  <1>9. CASE executing' \subseteq executing /\ UNCHANGED calls
    BY <1>2, <1>9
  <1> QED BY <1>3, <1>4, <1>5, <1>6, <1>7, <1>8, <1>9
          DEF EngineNext, SubmitTask, CancelTask, RetryTask, SubmitBatch, RegisterWorker,
              Heartbeat, Thread, ReportResult, BeatStop, BeatResume, HeartbeatReaper,
              LeaseReaper, LeaseReaperSave, ReadSnapshot, Clock, engineVars, nodes

\* No two workers, and no worker and no open call, ever hold the same entry: a
\* task is executed once per entry, however calls are dropped and repeated.
THEOREM EntriesExecutedOnce == EngineSpec => []ExecutedOnce
  <1>1. EngineInit => HeapsDisjoint /\ ExecutedOnce
    BY EntriesInit DEF EngineInit, ExecutedOnce, NoCall
  <1>2. EngineInv /\ HeapsDisjoint /\ [EngineNext]_engineVars => HeapsDisjoint'
    BY EngineStep, HeapsStep DEF EngineInv
  <1> QED BY <1>1, <1>2, EngineInvInit, EngineInvStep, OnceStep, PTL DEF EngineSpec

=============================================================================
