--------------------------- MODULE WorkerRuntime ----------------------------
(***************************************************************************)
(* One worker node: WorkerRuntime (workers/manager.py), its TaskExecutor   *)
(* (executor.py) and the queues of IPCChannels (ipc.py).  The scheduler is  *)
(* the other end of the RPCs and may answer or fail at will.               *)
(*                                                                         *)
(* The node is one asyncio loop.  A coroutine is at one of its suspension  *)
(* points, and what it does up to the next one is an action.  A consumer   *)
(* and the execution it awaits share one position: "call" and "report" are *)
(* the awaits of _execute_and_report.  The pools run beside the loop, also *)
(* while it blocks in executor.shutdown or in a target: _execute_by_kind   *)
(* calls an "async" target on the loop itself.                             *)
(***************************************************************************)
EXTENDS Integers, FiniteSets

CONSTANTS
    Deliveries,   \* tasks handed over by ReserveTask replies
    Kind,         \* TaskKind of each: "cpu", "async", or "io" for the others
    Consumers,    \* the consume loops, one per unit of capacity
    Threads,      \* TaskExecutor(max_threads)
    PipeCapacity, \* envelopes that fit into the pipe of a multiprocessing.Queue
    None          \* Python's None

CapacityOneLess == Cardinality(Consumers) - 1   \* faulty variant: a loop too many

\* WorkerInfo.capacity: there are as many consume loops.
Capacity == Cardinality(Consumers)

ASSUME NodeAssumption ==
    /\ IsFiniteSet(Consumers)
    /\ IsFiniteSet(Deliveries)
    /\ Kind \in [Deliveries -> {"cpu", "async", "io"}]
    /\ Threads \in Nat
    /\ PipeCapacity \in Nat
    /\ None \notin Deliveries

VARIABLES
    main,      \* where _run_with_transport is
    stop,      \* _stop
    heart,     \* where _heartbeat_loop is
    told,      \* running_tasks in the last heartbeat sent
    consumer,  \* where each consume loop is
    delivery,  \* the task its execution is about
    job,       \* the call of each delivery's target
    puts,      \* envelopes put into ipc.task_queue and ipc.result_queue
    reported   \* deliveries the scheduler has got a report of

loops == <<main, stop, heart, told>>
executions == <<consumer, delivery>>
runtimeVars == <<loops, executions, job, puts, reported>>

Init ==
    /\ main = "register"
    /\ stop = FALSE
    /\ heart = "none"
    /\ told = 0
    /\ consumer = [c \in Consumers |-> "none"]
    /\ delivery = [c \in Consumers |-> None]
    /\ job = [d \in Deliveries |-> "none"]
    /\ puts = [tasks |-> 0, results |-> 0]
    /\ reported = {}

-----------------------------------------------------------------------------
(* Helpers *)

\* _running: executions that have not ended.
Running == {c \in Consumers : consumer[c] \in {"call", "report"}}

InPool(kind, at) == {d \in Deliveries : Kind[d] = kind /\ job[d] = at}

\* What an "async" target does on the loop: a coroutine that ends when it is
\* cancelled, one that catches CancelledError and goes on, or a function that
\* blocks the loop until it returns.
OnLoop == {"coroutine", "stubborn", "blocking"}

\* Where the call of a target begins.
Starts(d) == IF Kind[d] = "async" THEN OnLoop ELSE {"queued"}

\* No target keeps the event loop: coroutines and signal handlers can run.
LoopRuns == \A d \in Deliveries : job[d] # "blocking"

\* An execution that no cancellation ends.
Deaf(c) == consumer[c] = "call" /\ job[delivery[c]] = "stubborn"

\* Jobs a pool shutdown waits for: cancel_futures does not reach them.
Started == {d \in Deliveries : job[d] \in {"fetched", "running"}}

Ended(c) == consumer[c] \in {"none", "ended", "failed"}

-----------------------------------------------------------------------------
(* _run_with_transport *)

RegisterOk ==
    /\ main = "register"
    /\ main' = "wait"
    /\ heart' = "loop"
    /\ consumer' = [c \in Consumers |-> "loop"]
    /\ UNCHANGED <<stop, told, delivery, job, puts, reported>>

RegisterError ==
    /\ main = "register"
    /\ main' = "raised"
    /\ UNCHANGED <<stop, heart, told, executions, job, puts, reported>>

\* SIGINT, SIGTERM or request_shutdown.
RequestShutdown ==
    /\ LoopRuns
    /\ stop' = TRUE
    /\ UNCHANGED <<main, heart, told, executions, job, puts, reported>>

\* The futures that cancelling the executions of S cancels: those of coroutines
\* and of jobs no pool thread has taken yet.
Cancelled(S) ==
    [d \in Deliveries |->
        IF (\E c \in S : delivery[c] = d) /\ job[d] \in {"queued", "coroutine"}
        THEN "cancelled" ELSE job[d]]

\* The main coroutine wakes and cancels the consume loops.  Cancelling a loop
\* cancels the execution it awaits, and that the call or the report RPC; a
\* target that catches the cancellation takes it from the loop as well.
CancelConsumers ==
    /\ main = "wait"
    /\ stop
    /\ main' = "drain"
    /\ consumer' = [c \in Consumers |->
                       IF Ended(c) \/ Deaf(c) THEN consumer[c] ELSE "ended"]
    /\ delivery' = [c \in Consumers |-> IF Deaf(c) THEN delivery[c] ELSE None]
    /\ job' = Cancelled(Running)
    /\ \E S \in SUBSET {c \in Running : consumer[c] = "report"} :
          reported' = reported \cup {delivery[c] : c \in S}
    /\ UNCHANGED <<stop, heart, told, puts>>

\* The rest of the finally block up to executor.shutdown: it awaits the
\* heartbeat loop and then the others; awaiting one that ended with an exception
\* raises it, and nothing below is done.
Drain ==
    /\ main = "drain"
    /\ \/ heart = "failed" /\ main' = "raised"
       \/ /\ heart = "ended"
          /\ \E c \in Consumers : consumer[c] = "failed"
          /\ main' = "raised"
       \/ /\ heart = "ended"
          /\ \A c \in Consumers : consumer[c] \in {"none", "ended"}
          /\ main' = "join"
    /\ UNCHANGED <<stop, heart, told, executions, job, puts, reported>>

\* executor.shutdown(wait=True) and ipc.close.
JoinPools ==
    /\ main = "join"
    /\ Started = {}
    /\ main' = "closed"
    /\ UNCHANGED <<stop, heart, told, executions, job, puts, reported>>

\* The envelopes of both queues are in the pipes, which nobody reads: what does
\* not fit keeps the feeder thread of its queue.
PipesHold == puts.tasks <= PipeCapacity /\ puts.results <= PipeCapacity

\* asyncio.run waits for the coroutines that are left; then the interpreter exits
\* and joins the pool threads and the feeder threads.
Exit ==
    /\ main \in {"closed", "raised"}
    /\ \A c \in Consumers : Ended(c)
    /\ Started = {}
    /\ PipesHold
    /\ main' = "exited"
    /\ UNCHANGED <<stop, heart, told, executions, job, puts, reported>>

-----------------------------------------------------------------------------
(* _heartbeat_loop *)

HeartLoopForever ==   \* faulty variant: the loop does not look at _stop
    /\ heart = "loop"
    /\ heart' = "beat"
    /\ told' = Cardinality(Running)
    /\ UNCHANGED <<main, stop, executions, job, puts, reported>>

HeartLoopCalls ==   \* faulty variant: counts the open reserve calls too
    /\ heart = "loop"
    /\ heart' = IF stop THEN "ended" ELSE "beat"
    /\ told' = IF stop THEN told
               ELSE Cardinality({c \in Consumers : consumer[c] \in {"reserve", "call", "report"}})
    /\ UNCHANGED <<main, stop, executions, job, puts, reported>>

HeartLoop ==
    /\ heart = "loop"
    /\ heart' = IF stop THEN "ended" ELSE "beat"
    /\ told' = IF stop THEN told ELSE Cardinality(Running)
    /\ UNCHANGED <<main, stop, executions, job, puts, reported>>

\* The heartbeat or the new registration is answered, or fails; the sleep ends.
HeartStep ==
    /\ \/ heart = "beat" /\ heart' \in {"sleep", "register", "failed"}
       \/ heart = "register" /\ heart' \in {"sleep", "failed"}
       \/ heart = "sleep" /\ heart' = "loop"
    /\ UNCHANGED <<main, stop, told, executions, job, puts, reported>>

-----------------------------------------------------------------------------
(* _consume_loop and _execute_and_report *)

ConsumerLoop(c) ==
    /\ consumer[c] = "loop"
    /\ consumer' = [consumer EXCEPT ![c] = IF stop THEN "ended" ELSE "reserve"]
    /\ UNCHANGED <<loops, delivery, job, puts, reported>>

\* The reply holds no task, or the RPC fails; the sleep ends.
ReserveNone(c) ==
    /\ \/ /\ consumer[c] = "reserve"
          /\ \E next \in {"sleep", "failed"} :
                consumer' = [consumer EXCEPT ![c] = next]
       \/ /\ consumer[c] = "sleep"
          /\ consumer' = [consumer EXCEPT ![c] = "loop"]
    /\ UNCHANGED <<loops, delivery, job, puts, reported>>

\* The reply holds a task: its execution starts and hands the target to a pool
\* or calls it on the loop.
ReserveFound(c, d) ==
    /\ consumer[c] = "reserve"
    /\ job[d] = "none"
    /\ consumer' = [consumer EXCEPT ![c] = "call"]
    /\ delivery' = [delivery EXCEPT ![c] = d]
    /\ \E at \in Starts(d) : job' = [job EXCEPT ![d] = at]
    /\ puts' = [puts EXCEPT !.tasks = @ + 1]
    /\ UNCHANGED <<loops, reported>>

TimeOutKeepsFuture(c) ==   \* faulty variant: the future is not cancelled
    /\ consumer[c] = "call"
    /\ ~ Deaf(c)
    /\ consumer' = [consumer EXCEPT ![c] = "report"]
    /\ UNCHANGED <<loops, delivery, job, puts, reported>>

TimeOutIfQueued(c) ==   \* faulty variant: waits for a call that has started
    /\ consumer[c] = "call"
    /\ job[delivery[c]] \notin {"running", "stubborn"}
    /\ consumer' = [consumer EXCEPT ![c] = "report"]
    /\ job' = Cancelled({c})
    /\ UNCHANGED <<loops, delivery, puts, reported>>

\* asyncio.wait_for gives up after timeout_seconds, whatever the pool does; what
\* a target that catches the cancellation then returns is the result.
TimeOut(c) ==
    /\ consumer[c] = "call"
    /\ ~ Deaf(c)
    /\ consumer' = [consumer EXCEPT ![c] = "report"]
    /\ job' = Cancelled({c})
    /\ UNCHANGED <<loops, delivery, puts, reported>>

\* The target of a coroutine or of a plain function returns, or raises, on the
\* loop, and its execution goes on to the report without a pause.
EndOnLoop(c) ==
    /\ consumer[c] = "call"
    /\ job[delivery[c]] \in OnLoop
    /\ LoopRuns \/ job[delivery[c]] = "blocking"
    /\ job' = [job EXCEPT ![delivery[c]] = "ended"]
    /\ consumer' = [consumer EXCEPT ![c] = "report"]
    /\ UNCHANGED <<loops, delivery, puts, reported>>

\* The loop learns that the pool has ended the call.
Resume(c) ==
    /\ consumer[c] = "call"
    /\ job[delivery[c]] = "ended"
    /\ consumer' = [consumer EXCEPT ![c] = "report"]
    /\ UNCHANGED <<loops, delivery, job, puts, reported>>

\* report_result returned.
ReportOk(c) ==
    /\ consumer[c] = "report"
    /\ reported' = reported \cup {delivery[c]}
    /\ puts' = [puts EXCEPT !.results = @ + 1]
    /\ consumer' = [consumer EXCEPT ![c] = "loop"]
    /\ delivery' = [delivery EXCEPT ![c] = None]
    /\ UNCHANGED <<loops, job>>

ReportErrorAgain(c) ==   \* faulty variant: the report is sent again
    /\ consumer[c] = "report"
    /\ reported' \in {reported, reported \cup {delivery[c]}}
    /\ UNCHANGED <<loops, executions, job, puts>>

\* report_result raised, in the execution and in the consume loop that awaits
\* it; the scheduler may have got the report.
ReportError(c) ==
    /\ consumer[c] = "report"
    /\ reported' \in {reported, reported \cup {delivery[c]}}
    /\ consumer' = [consumer EXCEPT ![c] = "failed"]
    /\ delivery' = [delivery EXCEPT ![c] = None]
    /\ UNCHANGED <<loops, job, puts>>

-----------------------------------------------------------------------------
(* The pools of TaskExecutor *)

StartThread(d) ==
    /\ d \in InPool("io", "queued")
    /\ Cardinality(InPool("io", "running")) < Threads
    /\ job' = [job EXCEPT ![d] = "running"]
    /\ UNCHANGED <<loops, executions, puts, reported>>

\* The process pool moves jobs into its call queue, one more than it has
\* processes; a future that is there can no longer be cancelled.
Fetch(d) ==
    /\ d \in InPool("cpu", "queued")
    /\ Cardinality(InPool("cpu", "fetched")) < Capacity + 1
    /\ job' = [job EXCEPT ![d] = "fetched"]
    /\ UNCHANGED <<loops, executions, puts, reported>>

StartProcess(d) ==
    /\ d \in InPool("cpu", "fetched")
    /\ Cardinality(InPool("cpu", "running")) < Capacity
    /\ job' = [job EXCEPT ![d] = "running"]
    /\ UNCHANGED <<loops, executions, puts, reported>>

\* The target returns or raises in its pool.
EndJob(d) ==
    /\ job[d] = "running"
    /\ job' = [job EXCEPT ![d] = "ended"]
    /\ UNCHANGED <<loops, executions, puts, reported>>

-----------------------------------------------------------------------------

Main ==
    /\ LoopRuns
    /\ RegisterOk \/ RegisterError \/ CancelConsumers \/ Drain \/ JoinPools \/ Exit

Heart == LoopRuns /\ (HeartLoop \/ HeartStep)

Consume(c) ==
    /\ LoopRuns
    /\ \/ ConsumerLoop(c)
       \/ ReserveNone(c)
       \/ \E d \in Deliveries : ReserveFound(c, d)
       \/ Resume(c)
       \/ ReportOk(c)
       \/ ReportError(c)

GiveUp(c) == LoopRuns /\ TimeOut(c)

Pool(d) == StartThread(d) \/ Fetch(d) \/ StartProcess(d)

Next ==
    \/ Main
    \/ RequestShutdown
    \/ Heart
    \/ \E c \in Consumers : Consume(c) \/ GiveUp(c) \/ EndOnLoop(c)
    \/ \E d \in Deliveries : Pool(d) \/ EndJob(d)

Spec == Init /\ [][Next]_runtimeVars

-----------------------------------------------------------------------------
(* Properties *)

Loops == {"none", "loop", "ended", "failed"}

\* The pools keep within their sizes, the call queue of the process pool too.
NodeTypeOK ==
    /\ main \in {"register", "wait", "drain", "join", "closed", "raised", "exited"}
    /\ stop \in BOOLEAN
    /\ heart \in Loops \cup {"beat", "register", "sleep"}
    /\ told \in 0 .. Capacity
    /\ consumer \in [Consumers -> Loops \cup {"reserve", "sleep", "call", "report"}]
    /\ delivery \in [Consumers -> Deliveries \cup {None}]
    /\ job \in [Deliveries ->
                   OnLoop \cup {"none", "queued", "fetched", "running", "ended", "cancelled"}]
    /\ puts \in [tasks : Nat, results : Nat]
    /\ reported \subseteq Deliveries
    /\ Cardinality(InPool("io", "running")) <= Threads
    /\ Cardinality(InPool("cpu", "running")) <= Capacity
    /\ Cardinality(InPool("cpu", "fetched")) <= Capacity + 1

\* An execution holds a task of its own, which nobody has reported yet, and while
\* it awaits the call a pool or the loop has it or has ended it: no cancellation
\* or time-out leaves an execution waiting for a call that will never end.
CallAwaited ==
    \A c \in Consumers :
        /\ c \in Running <=> delivery[c] # None
        /\ c \in Running =>
              /\ delivery[c] \notin reported
              /\ \A b \in Consumers \ {c} : delivery[b] # delivery[c]
        /\ consumer[c] = "call" => job[delivery[c]] \notin {"none", "cancelled"}

\* What the scheduler sees of the node is what WorkerNode promises: never more
\* calls and tasks than capacity, each task reported at most once, heartbeats
\* that count the tasks in work.
Node == INSTANCE WorkerNode WITH
    calls <- Cardinality({c \in Consumers : consumer[c] = "reserve"}),
    working <- {delivery[c] : c \in Running},
    load <- told

ImplementsNode == Node!Spec

\* A task of the thread pool that was reported as timed out, or dropped at
\* shutdown, does not start afterwards (by then the scheduler may have given it
\* to another node).  The call queue of the process pool breaks this for "cpu".
NoLateStart ==
    [][\A d \in Deliveries :
          Kind[d] = "io" /\ job[d] # "running" /\ job'[d] = "running" =>
              \E c \in Consumers : consumer[c] = "call" /\ delivery[c] = d]_runtimeVars

\* Fairness: the event loop, unless a target blocks it, runs what is ready, RPCs
\* are answered or fail, the time-out of wait_for fires, pools start what they
\* hold.  No target is assumed to return.
RuntimeFairSpec ==
    /\ Spec
    /\ WF_runtimeVars(Main)
    /\ WF_runtimeVars(Heart)
    /\ \A c \in Consumers : WF_runtimeVars(Consume(c)) /\ WF_runtimeVars(GiveUp(c))
    /\ \A d \in Deliveries : WF_runtimeVars(Pool(d))

\* No job stays for ever at one of the positions in S.
Leave(S) == \A d \in Deliveries : []<>(job[d] \notin S)

\* A target that never returns does not hold its consume loop for ever: the
\* time-out ends the execution, in a pool or as a coroutine, whatever the other
\* executions do.  It cannot do so while an "async" target blocks the event loop,
\* or for a coroutine that catches the cancellation, so these must return.
ExecutionEnds ==
    Leave({"blocking", "stubborn"}) =>
        \A c \in Consumers : c \in Running ~> c \notin Running

\* A node that is asked to stop, and whose targets return, exits, also after RPC
\* errors and time-outs; or it has done everything else and hangs for ever in the
\* interpreter's exit, because the queues nobody reads do not fit into the pipes.
StopEnds ==
    Leave({"running", "blocking", "stubborn"}) =>
        (stop ~> \/ main = "exited"
                 \/ main \in {"closed", "raised"} /\ Started = {} /\ ~ PipesHold)

=============================================================================
