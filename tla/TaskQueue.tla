----------------------------- MODULE TaskQueue -----------------------------
(***************************************************************************)
(* The broker of taskrunner/queue/broker.py: InMemoryTaskQueue, a priority *)
(* queue with delayed tasks, leases, retries, cancellation and a dead      *)
(* letter store.  Every public method runs under one re-entrant lock, so   *)
(* each is one atomic action here; the callers (gRPC and HTTP handlers on  *)
(* the event loop, ReserveTask threads, the lease reaper) are the          *)
(* existentials of Next and may call in any order with any argument.       *)
(*                                                                         *)
(* Representation.                                                         *)
(*  - A heap tuple is an entry <<t, n>>: the tuple pushed for task t when  *)
(*    its attempts were n.  _push runs once per value of attempts, so n    *)
(*    identifies the tuple; _sequence and the id only break ties between   *)
(*    equal (priority, created_at), which are a nondeterministic choice.   *)
(*    _ready is keyed by the task's queue, which never changes, so one set *)
(*    of entries holds all the ready heaps.                                *)
(*  - A point in time is the number of ticks left until it: available_at   *)
(*    and lease_deadline count down as Tick moves the clock.  created_at   *)
(*    is only compared, so it is a rank, with ties.                        *)
(*  - A task is in _tasks exactly when its status is not "pending".        *)
(***************************************************************************)
EXTENDS Integers, FiniteSets

CONSTANTS
    Tasks,        \* task ids
    Workers,      \* worker ids
    TaskSpec,     \* the normalised TaskSpec of each task id
    WorkerSpec,   \* queues and labels each worker registers with
    MaxDepth,     \* InMemoryTaskQueue(max_depth)
    LeaseSeconds, \* lease_seconds, in ticks
    MaxAttempts,  \* bound: callers of retry stop at this many attempts
    None          \* Python's None

Statuses == {"pending", "queued", "running", "acked", "succeeded", "failed",
             "retrying", "cancelled", "dead_lettered"}

\* The WorkerStatus values a registered worker can have: register_worker
\* overwrites STARTING, and DRAINING is set on the worker node only.
WorkerStatuses == {"idle", "busy", "offline"}

ASSUME TaskSpecAssumption ==
    /\ DOMAIN TaskSpec = Tasks
    /\ \A t \in Tasks :
          /\ TaskSpec[t].priority \in Nat
          /\ TaskSpec[t].delay_seconds \in Nat
          /\ TaskSpec[t].max_retries \in Nat
          /\ TaskSpec[t].retry_backoff_seconds \in Nat
          /\ TaskSpec[t].depends_on \subseteq Tasks

ASSUME BoundAssumption ==
    /\ IsFiniteSet(Tasks)
    /\ MaxDepth \in Nat
    /\ LeaseSeconds \in Nat
    /\ MaxAttempts \in Nat
    /\ None \notin Int
    /\ None \notin Workers

\* The heap tuples that can ever be pushed: _push follows a submit (attempts 0)
\* or a retry that left attempts within max_retries.
Entries == UNION {{t} \X (0 .. TaskSpec[t].max_retries) : t \in Tasks}

VARIABLES
    status,          \* TaskEnvelope.status
    attempts,        \* TaskEnvelope.attempts
    created_at,      \* TaskEnvelope.created_at, as a rank
    assigned_worker, \* TaskEnvelope.assigned_worker
    lease_deadline,  \* TaskEnvelope.lease_deadline, ticks left, -1 once past
    ready,           \* _ready: entries a reserve may pop
    delayed,         \* _delayed: entries whose time has not come
    available_at,    \* ticks left until each delayed entry is due
    inflight,        \* _inflight: tasks under a lease
    dead_letter,     \* _dead_letter
    cancelled,       \* _cancelled: ids a scan of the heaps drops
    \* history, read by no action
    handed,          \* entries popped by a reserve so far
    runs,            \* number of reserves that returned the task
    age              \* ticks since submission, up to delay_seconds

envelopes == <<status, attempts, created_at, assigned_worker, lease_deadline>>
heaps == <<ready, delayed, available_at>>
indexes == <<inflight, dead_letter, cancelled>>
history == <<handed, runs, age>>
queueVars == <<envelopes, heaps, indexes, history>>

Init ==
    /\ status = [t \in Tasks |-> "pending"]
    /\ attempts = [t \in Tasks |-> 0]
    /\ created_at = [t \in Tasks |-> 0]
    /\ assigned_worker = [t \in Tasks |-> None]
    /\ lease_deadline = [t \in Tasks |-> None]
    /\ ready = {}
    /\ delayed = {}
    /\ available_at = [e \in Entries |-> 0]
    /\ inflight = {}
    /\ dead_letter = {}
    /\ cancelled = {}
    /\ handed = {}
    /\ runs = [t \in Tasks |-> 0]
    /\ age = [t \in Tasks |-> 0]

-----------------------------------------------------------------------------
(* Helpers *)

Known == {t \in Tasks : status[t] # "pending"}

Terminal == {"succeeded", "failed", "cancelled", "dead_lettered"}

Depth == Cardinality({t \in Known : status[t] \notin Terminal})

Room == IF Depth >= MaxDepth THEN 0 ELSE MaxDepth - Depth

\* _push for every task of S, due in wait[t] ticks: heap entries that are due
\* go to the ready heap, the others to the delayed heap.
PushEach(S, wait) ==
    LET entry(t) == <<t, attempts'[t]>> IN
    /\ ready' = ready \cup {entry(t) : t \in {u \in S : wait[u] = 0}}
    /\ delayed' = delayed \cup {entry(t) : t \in {u \in S : wait[u] > 0}}
    /\ available_at' = [e \in Entries |->
          IF e[1] \in S /\ e = entry(e[1]) THEN wait[e[1]] ELSE available_at[e]]

PromotedQueued ==   \* faulty variant: forgets that RETRYING tasks wait too
    {e \in delayed : available_at[e] = 0 /\ status[e[1]] = "queued"}

PromotedEarly ==    \* faulty variant: off by one tick
    {e \in delayed : /\ available_at[e] <= 1
                     /\ status[e[1]] \notin {"cancelled", "dead_lettered"}}

\* _promote_delayed_locked: every due entry leaves the delayed heap, and those
\* of cancelled or dead-lettered tasks are dropped on the way.
Promoted ==
    {e \in delayed : /\ available_at[e] = 0
                     /\ status[e[1]] \notin {"cancelled", "dead_lettered"}}

NotDueAll == delayed   \* faulty variant: due entries are read but not popped

NotDue == {e \in delayed : available_at[e] > 0}

\* WorkerInfo.accepts
Accepts(w, wstatus, t) ==
    /\ TaskSpec[t].queue \in WorkerSpec[w].queues
    /\ \/ TaskSpec[t].affinity = {}
       \/ TaskSpec[t].affinity \cap WorkerSpec[w].labels # {}
    /\ wstatus \in {"idle", "busy"}

RetainedAll(w) == ready \cup Promoted   \* faulty variant: ignores _cancelled

\* The ready heaps after a worker's scan: entries of ids in _cancelled are
\* dropped from the queues the worker subscribes to, and only from those.
Retained(w) ==
    {e \in ready \cup Promoted :
        TaskSpec[e[1]].queue \in WorkerSpec[w].queues => e[1] \notin cancelled}

Candidates(w, wstatus, completed) ==
    {e \in Retained(w) : /\ Accepts(w, wstatus, e[1])
                         /\ TaskSpec[e[1]].depends_on \subseteq completed}

\* Order of two heap tuples by priority, then created_at.
NotAfter(e, f) ==
    LET p(x) == TaskSpec[x[1]].priority
        c(x) == created_at[x[1]]
    IN p(e) < p(f) \/ (p(e) = p(f) /\ c(e) <= c(f))

-----------------------------------------------------------------------------
(* Operations *)

\* Values time() may give a batch of new envelopes: not before any earlier one.
CreationRanks(S) ==
    {c \in {created_at[u] + d : u \in Tasks, d \in 0 .. Cardinality(S)} :
        \A u \in Tasks : created_at[u] <= c}

SubmitEach(S) ==
    /\ status' = [t \in Tasks |-> IF t \in S THEN "queued" ELSE status[t]]
    /\ \E c \in [S -> CreationRanks(S)] :
          created_at' = [t \in Tasks |-> IF t \in S THEN c[t] ELSE created_at[t]]
    /\ UNCHANGED <<attempts, assigned_worker, lease_deadline, indexes, history>>
    /\ PushEach(S, [t \in S |-> TaskSpec[t].delay_seconds])

\* submit: refused with QueueFullError, leaving no trace, at max_depth.
Submit(t) ==
    /\ t \notin Known
    /\ Depth < MaxDepth
    /\ SubmitEach({t})

\* submit_many: depth is checked before each task, so a batch that does not
\* fit raises QueueFullError after the tasks that did fit are already queued.
SubmitMany(batch, accepted) ==
    /\ batch \cap Known = {}
    /\ accepted \subseteq batch
    /\ accepted # {}
    /\ \/ accepted = batch /\ Cardinality(batch) <= Room
       \/ Cardinality(batch) > Room /\ Cardinality(accepted) = Room
    /\ SubmitEach(accepted)

\* One pass of the loop in reserve that finds a task: promote, scan, pop the
\* least candidate and lease it to the worker.
ReserveHit(w, wstatus, completed, e) ==
    /\ e \in Candidates(w, wstatus, completed)
    /\ \A f \in Candidates(w, wstatus, completed) : NotAfter(e, f)
    /\ ready' = Retained(w) \ {e}
    /\ delayed' = NotDue
    /\ status' = [status EXCEPT ![e[1]] = "running"]
    /\ assigned_worker' = [assigned_worker EXCEPT ![e[1]] = w]
    /\ lease_deadline' = [lease_deadline EXCEPT ![e[1]] = LeaseSeconds]
    /\ inflight' = inflight \cup {e[1]}
    /\ handed' = handed \cup {e}
    /\ runs' = [runs EXCEPT ![e[1]] = @ + 1]
    /\ UNCHANGED <<attempts, created_at, available_at, dead_letter, cancelled, age>>

\* A pass that finds none: the heaps keep the promotions and the drops, and
\* the caller waits on the condition or returns None.
ReserveMiss(w, wstatus, completed) ==
    /\ Candidates(w, wstatus, completed) = {}
    /\ ready' = Retained(w)
    /\ delayed' = NotDue
    /\ UNCHANGED <<envelopes, available_at, indexes, history>>

Ack(t) ==
    /\ t \in Known
    /\ status' = [status EXCEPT ![t] = "acked"]
    /\ lease_deadline' = [lease_deadline EXCEPT ![t] = None]
    /\ inflight' = inflight \ {t}
    /\ UNCHANGED <<attempts, created_at, assigned_worker, heaps, dead_letter,
                   cancelled, history>>

\* complete: whatever the task's present status is, and leaving its heap
\* entries, if it still has any, where they are.
Complete(t, s) ==
    /\ t \in Known
    /\ status' = [status EXCEPT ![t] = s]
    /\ lease_deadline' = [lease_deadline EXCEPT ![t] = None]
    /\ inflight' = inflight \ {t}
    /\ dead_letter' = IF s = "dead_lettered" THEN dead_letter \cup {t} ELSE dead_letter
    /\ UNCHANGED <<attempts, created_at, assigned_worker, heaps, cancelled, history>>

RetriableOnceMore(t) ==   \* faulty variant: off by one
    attempts[t] <= TaskSpec[t].max_retries

\* The attempt that retry adds is still within max_retries.
Retriable(t) == attempts[t] + 1 <= TaskSpec[t].max_retries

\* retry, for every task of S under one hold of the lock.
RetryEach(S) ==
    LET again == {t \in S : Retriable(t)} IN
    /\ attempts' = [t \in Tasks |-> IF t \in S THEN attempts[t] + 1 ELSE attempts[t]]
    /\ status' = [t \in Tasks |->
          IF t \in again THEN "retrying"
          ELSE IF t \in S THEN "dead_lettered" ELSE status[t]]
    /\ assigned_worker' =
          [t \in Tasks |-> IF t \in S THEN None ELSE assigned_worker[t]]
    /\ lease_deadline' =
          [t \in Tasks |-> IF t \in S THEN None ELSE lease_deadline[t]]
    /\ inflight' = inflight \ S
    /\ dead_letter' = dead_letter \cup (S \ again)
    /\ PushEach(again, [t \in again |->
          TaskSpec[t].retry_backoff_seconds * (attempts[t] + 1)])
    /\ UNCHANGED <<created_at, cancelled, history>>

Retry(t) ==
    /\ t \in Known
    /\ RetryEach({t})

CancelKeepsLease(t) ==   \* faulty variant: the task stays in _inflight
    /\ t \in Known
    /\ status' = [status EXCEPT ![t] = "cancelled"]
    /\ cancelled' = cancelled \cup {t}
    /\ UNCHANGED <<attempts, created_at, assigned_worker, lease_deadline, heaps,
                   inflight, dead_letter, history>>

\* cancel: the heap entry stays and is dropped by the next scan of its queue.
Cancel(t) ==
    /\ t \in Known
    /\ status' = [status EXCEPT ![t] = "cancelled"]
    /\ cancelled' = cancelled \cup {t}
    /\ inflight' = inflight \ {t}
    /\ UNCHANGED <<attempts, created_at, assigned_worker, lease_deadline, heaps,
                   dead_letter, history>>

ExpiredButLast ==   \* faulty variant: leaves the last attempt leased
    {t \in inflight : /\ lease_deadline[t] # None /\ lease_deadline[t] < 0
                      /\ attempts[t] < TaskSpec[t].max_retries}

Expired == {t \in inflight : lease_deadline[t] # None /\ lease_deadline[t] < 0}

RequeueExpiredLeases ==
    /\ Expired # {}
    /\ RetryEach(Expired)

\* snapshot: a read for its caller, but it promotes what is due.
Snapshot ==
    /\ ready' = ready \cup Promoted
    /\ delayed' = NotDue
    /\ UNCHANGED <<envelopes, available_at, indexes, history>>

\* One tick of time().
Tick ==
    /\ available_at' = [e \in Entries |->
          IF available_at[e] > 0 THEN available_at[e] - 1 ELSE 0]
    /\ lease_deadline' = [t \in Tasks |->
          IF lease_deadline[t] = None THEN None
          ELSE IF lease_deadline[t] > 0 THEN lease_deadline[t] - 1 ELSE -1]
    /\ age' = [t \in Tasks |->
          IF t \in Known /\ age[t] < TaskSpec[t].delay_seconds
          THEN age[t] + 1 ELSE age[t]]
    /\ UNCHANGED <<status, attempts, created_at, assigned_worker, ready, delayed,
                   indexes, handed, runs>>

-----------------------------------------------------------------------------
(* Callers *)

Reserve(w, wstatus, completed) ==
    \/ \E e \in Entries : ReserveHit(w, wstatus, completed, e)
    \/ ReserveMiss(w, wstatus, completed)

Next ==
    \/ \E t \in Tasks :
          \/ Submit(t)
          \/ Ack(t)
          \/ \E s \in Terminal \ {"failed"} : Complete(t, s)
          \/ attempts[t] < MaxAttempts /\ Retry(t)
          \/ Cancel(t)
    \/ \E batch \in SUBSET Tasks : \E accepted \in SUBSET batch :
          SubmitMany(batch, accepted)
    \/ \E w \in Workers, wstatus \in WorkerStatuses, completed \in SUBSET Tasks :
          Reserve(w, wstatus, completed)
    \/ RequeueExpiredLeases
    \/ Snapshot
    \/ Tick

Spec == Init /\ [][Next]_queueVars

-----------------------------------------------------------------------------
(* Properties *)

TypeOK ==
    /\ status \in [Tasks -> Statuses]
    /\ attempts \in [Tasks -> Nat]
    /\ created_at \in [Tasks -> Nat]
    /\ assigned_worker \in [Tasks -> Workers \cup {None}]
    /\ lease_deadline \in [Tasks -> Int \cup {None}]
    /\ ready \subseteq Entries
    /\ delayed \subseteq Entries
    /\ available_at \in [Entries -> Nat]
    /\ inflight \subseteq Tasks
    /\ dead_letter \subseteq Tasks
    /\ cancelled \subseteq Tasks
    /\ handed \subseteq Entries
    /\ runs \in [Tasks -> Nat]
    /\ age \in [Tasks -> Nat]

\* A task is RUNNING exactly while it is in _inflight, and then it has a worker
\* and a deadline: requeue_expired_leases looks at nothing but _inflight, so a
\* RUNNING task outside it, or one without a deadline, could never be recovered.
LeaseCoversRunning ==
    \A t \in Tasks :
        /\ status[t] = "running" <=> t \in inflight
        /\ t \in inflight => lease_deadline[t] # None /\ assigned_worker[t] # None

Waiting(t) == status[t] \in {"queued", "retrying"} /\ t \notin cancelled

\* No task is lost: one that is QUEUED or RETRYING (and was never cancelled) is
\* still in a heap, with the entry of its latest push, whatever stale entries,
\* late reports, lease expiries and promotions happened in between.
NoTaskLost ==
    \A t \in Tasks : Waiting(t) => <<t, attempts[t]>> \in ready \cup delayed

\* reserve hands a task out at most max_retries + 1 times, even though manual
\* retries and late failure reports can put several entries of one task in the
\* heaps, and reserve does not look at the status of what it pops.
RunsBounded ==
    \A t \in Tasks : runs[t] <= TaskSpec[t].max_retries + 1

\* A cancelled task never holds a lease again, also when it is retried after
\* the cancellation: _cancelled is never cleared and every scan obeys it.
CancelledNotLeased == inflight \cap cancelled = {}

\* The entry of a submission is never ready, let alone handed out, before
\* delay_seconds have passed, at whatever moment a scan or a snapshot promotes.
DelayHonoured ==
    \A t \in Tasks :
        <<t, 0>> \in ready \cup handed => age[t] >= TaskSpec[t].delay_seconds

\* What makes RunsBounded inductive: an entry is in at most one of the heaps and
\* the popped entries, is no younger than the task's attempts, and each run
\* consumed a different one.
EntriesUsedOnce ==
    /\ ready \cap delayed = {}
    /\ (ready \cup delayed) \cap handed = {}
    /\ \A e \in ready \cup delayed \cup handed :
          e[1] \in Known /\ e[2] <= attempts[e[1]]
    /\ \A t \in Tasks : runs[t] = Cardinality({e \in handed : e[1] = t})

\* What makes DelayHonoured inductive: the countdown of a submission's entry
\* and the time already waited add up to the delay.
DelayCountdown ==
    \A t \in Tasks : <<t, 0>> \in delayed =>
        age[t] + available_at[<<t, 0>>] >= TaskSpec[t].delay_seconds

\* A task id that was not submitted yet has a fresh envelope.
FreshEnvelopes == \A t \in Tasks \ Known : age[t] = 0 /\ attempts[t] = 0

\* Fairness: time passes, and _lease_reaper runs every lease_seconds / 3.
FairSpec ==
    /\ Spec
    /\ WF_queueVars(Tick)
    /\ WF_queueVars(RequeueExpiredLeases)

\* A leased task does not stay leased for ever, although its worker may die:
\* the lease expires and requeue_expired_leases takes the task back.
LeaseRecovered ==
    \A t \in Tasks : status[t] = "running" ~> status[t] # "running"

=============================================================================
