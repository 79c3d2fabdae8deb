-------------------------- MODULE TaskQueue_proofs --------------------------
(* Proofs about the broker, for any sets of tasks and workers and any specs. *)
EXTENDS TaskQueue, FiniteSetTheorems, TLAPS

\* A heap entry is a pair of a task and an attempt number within max_retries.
LEMMA EntryShape ==
    /\ \A e \in Entries : /\ e = <<e[1], e[2]>>
                           /\ e[1] \in Tasks
                           /\ e[2] \in Nat
                           /\ e[2] <= TaskSpec[e[1]].max_retries
    /\ \A t \in Tasks, n \in Nat :
          n <= TaskSpec[t].max_retries => <<t, n>> \in Entries
  BY TaskSpecAssumption DEF Entries

\* Every step of the broker is one of nine kinds: the two submissions push for a
\* set of new tasks, retry and requeue_expired_leases retry a set of known ones.
LEMMA NextShape ==
    ASSUME TypeOK, inflight \subseteq Known, [Next]_queueVars
    PROVE  \/ \E S \in SUBSET (Tasks \ Known) : SubmitEach(S)
           \/ \E S \in SUBSET Known : RetryEach(S)
           \/ \E w \in Workers, ws \in WorkerStatuses, c \in SUBSET Tasks, e \in Entries :
                 ReserveHit(w, ws, c, e)
           \/ \E w \in Workers, ws \in WorkerStatuses, c \in SUBSET Tasks :
                 ReserveMiss(w, ws, c)
           \/ \E t \in Tasks : Ack(t)
           \/ \E t \in Tasks, s \in Terminal : Complete(t, s)
           \/ \E t \in Tasks : Cancel(t)
           \/ Snapshot
           \/ Tick
           \/ UNCHANGED queueVars
  <1>1. ASSUME NEW t \in Tasks, Submit(t)
        PROVE  \E S \in SUBSET (Tasks \ Known) : SubmitEach(S)
    <2>1. {t} \in SUBSET (Tasks \ Known) /\ SubmitEach({t})
      BY <1>1 DEF Submit
    <2> QED BY <2>1
  <1>2. ASSUME NEW batch \in SUBSET Tasks, NEW accepted \in SUBSET batch,
               SubmitMany(batch, accepted)
        PROVE  \E S \in SUBSET (Tasks \ Known) : SubmitEach(S)
    <2>1. accepted \in SUBSET (Tasks \ Known) /\ SubmitEach(accepted)
      BY <1>2 DEF SubmitMany
    <2> QED BY <2>1
  <1>3. ASSUME NEW t \in Tasks, Retry(t)
        PROVE  \E S \in SUBSET Known : RetryEach(S)
    <2>1. {t} \in SUBSET Known /\ RetryEach({t})
      BY <1>3 DEF Retry
    <2> QED BY <2>1
  <1>4. ASSUME RequeueExpiredLeases
        PROVE  \E S \in SUBSET Known : RetryEach(S)
    <2>1. Expired \in SUBSET Known
      BY DEF Expired
    <2> QED BY <2>1, <1>4 DEF RequeueExpiredLeases
  <1> QED BY <1>1, <1>2, <1>3, <1>4 DEF Next, Reserve

\* The heaps after _push, for a set of tasks whose attempts are within bounds.
LEMMA PushType ==
    ASSUME NEW S \in SUBSET Tasks, NEW wait \in [S -> Nat], TypeOK,
           \A t \in S : attempts'[t] \in Nat /\ attempts'[t] <= TaskSpec[t].max_retries,
           PushEach(S, wait)
    PROVE  /\ ready' \subseteq Entries
           /\ delayed' \subseteq Entries
           /\ available_at' \in [Entries -> Nat]
  <1>1. \A t \in S : <<t, attempts'[t]>> \in Entries
    BY EntryShape
  <1>2. ready' \subseteq Entries /\ delayed' \subseteq Entries
    BY <1>1 DEF PushEach, TypeOK
  <1>3. available_at' \in [Entries -> Nat]
    BY DEF PushEach, TypeOK
  <1> QED BY <1>2, <1>3

\* The part of the type invariant that _push relies on: a submission pushes the
\* entry numbered 0.
TypeInv == TypeOK /\ FreshEnvelopes

\* An empty broker is well typed.
LEMMA TypeInit == Init => TypeInv
  BY DEF Init, TypeInv, TypeOK, FreshEnvelopes, Known, Statuses

\* submit and submit_many push entries numbered 0, in the range of every task.
LEMMA TypeSubmit ==
    ASSUME TypeInv, NEW S \in SUBSET (Tasks \ Known), SubmitEach(S)
    PROVE  TypeInv'
  <1> DEFINE wait == [t \in S |-> TaskSpec[t].delay_seconds]
  <1> USE DEF TypeInv
  <1>1. wait \in [S -> Nat]
    BY TaskSpecAssumption
  <1>2. \A t \in S : attempts'[t] \in Nat /\ attempts'[t] <= TaskSpec[t].max_retries
    BY TaskSpecAssumption DEF SubmitEach, FreshEnvelopes, TypeOK
  <1>3. PushEach(S, wait)
    BY DEF SubmitEach
  <1>4. /\ ready' \subseteq Entries
        /\ delayed' \subseteq Entries
        /\ available_at' \in [Entries -> Nat]
    BY <1>1, <1>2, <1>3, PushType
  <1>5. status' \in [Tasks -> Statuses]
    BY DEF SubmitEach, TypeOK, Statuses
  <1>6. created_at' \in [Tasks -> Nat]
    <2>1. IsFiniteSet(S)
      BY BoundAssumption, FS_Subset
    <2>2. Cardinality(S) \in Nat
      BY <2>1, FS_CardinalityType
    <2>3. CreationRanks(S) \subseteq Nat
      BY <2>2 DEF CreationRanks, TypeOK
    <2> QED BY <2>3 DEF SubmitEach, TypeOK
  <1>7. TypeOK'
    BY <1>4, <1>5, <1>6 DEF SubmitEach, TypeOK, indexes, history
  <1>8. FreshEnvelopes'
    BY DEF SubmitEach, FreshEnvelopes, Known, TypeOK, history
  <1> QED BY <1>7, <1>8

\* retry pushes the entry of the new attempt only within max_retries.
LEMMA TypeRetry ==
    ASSUME TypeInv, NEW S \in SUBSET Known, RetryEach(S)
    PROVE  TypeInv'
  <1> DEFINE again == {t \in S : attempts[t] + 1 <= TaskSpec[t].max_retries}
             wait == [t \in again |-> TaskSpec[t].retry_backoff_seconds * (attempts[t] + 1)]
  <1> USE DEF TypeInv
  <1>0. S \subseteq Tasks /\ again \subseteq Tasks
    BY DEF Known
  <1>1. wait \in [again -> Nat]
    <2>1. ASSUME NEW t \in again
          PROVE  TaskSpec[t].retry_backoff_seconds * (attempts[t] + 1) \in Nat
      <3>1. TaskSpec[t].retry_backoff_seconds \in Nat /\ attempts[t] + 1 \in Nat
        BY <1>0, TaskSpecAssumption DEF TypeOK
      <3> HIDE DEF again
      <3> QED BY <3>1
    <2> HIDE DEF again
    <2> QED BY <2>1
  <1>2. \A t \in again : attempts'[t] \in Nat /\ attempts'[t] <= TaskSpec[t].max_retries
    BY <1>0, TaskSpecAssumption DEF RetryEach, Retriable, TypeOK
  <1>3. PushEach(again, wait)
    BY DEF RetryEach, Retriable
  <1>4. /\ ready' \subseteq Entries
        /\ delayed' \subseteq Entries
        /\ available_at' \in [Entries -> Nat]
    <2> HIDE DEF again, wait
    <2> QED BY <1>0, <1>1, <1>2, <1>3, PushType
  <1>5. TypeOK'
    BY <1>0, <1>4 DEF RetryEach, Retriable, TypeOK, Statuses, history
  <1>6. FreshEnvelopes'
    BY DEF RetryEach, Retriable, FreshEnvelopes, Known, TypeOK, history
  <1> QED BY <1>5, <1>6

\* Types, fresh envelopes and the agreement of status and _inflight support one
\* another: retry pushes an entry in range because what it takes is known, and
\* what requeue_expired_leases takes is known because _inflight is.
BaseInv == TypeOK /\ FreshEnvelopes /\ LeaseCoversRunning

\* What is under a lease was submitted.
LEMMA InflightKnown == BaseInv => inflight \subseteq Known
  BY DEF BaseInv, LeaseCoversRunning, Known, TypeOK

\* The base invariant holds of an empty broker.
LEMMA BaseInit == Init => BaseInv
  BY DEF Init, BaseInv, TypeOK, FreshEnvelopes, LeaseCoversRunning, Known, Statuses

\* A submission touches no lease.
LEMMA BaseSubmit ==
    ASSUME BaseInv, NEW S \in SUBSET (Tasks \ Known), SubmitEach(S)
    PROVE  BaseInv'
  <1>1. TypeOK' /\ FreshEnvelopes'
    BY TypeSubmit DEF BaseInv, TypeInv
  <1>2. LeaseCoversRunning'
    BY DEF SubmitEach, BaseInv, LeaseCoversRunning, TypeOK, Known, indexes
  <1> QED BY <1>1, <1>2 DEF BaseInv

\* retry takes the lease away together with the RUNNING status.
LEMMA BaseRetry ==
    ASSUME BaseInv, NEW S \in SUBSET Known, RetryEach(S)
    PROVE  BaseInv'
  <1>1. TypeOK' /\ FreshEnvelopes'
    BY TypeRetry DEF BaseInv, TypeInv, Known
  <1>2. LeaseCoversRunning'
    BY DEF RetryEach, Retriable, BaseInv, LeaseCoversRunning, TypeOK, Known
  <1> QED BY <1>1, <1>2 DEF BaseInv

\* What a scan leaves in the heaps are entries that were there before.
LEMMA ScanShrinks ==
    ASSUME NEW w \in Workers
    PROVE  /\ Promoted \subseteq delayed
           /\ NotDue \subseteq delayed
           /\ Retained(w) \subseteq ready \cup Promoted
           /\ Promoted \cap NotDue = {}
  BY DEF Promoted, NotDue, Retained

\* reserve sets status, worker, deadline and _inflight together.
LEMMA BaseHit ==
    ASSUME BaseInv, NEW w \in Workers, NEW ws \in WorkerStatuses,
           NEW c \in SUBSET Tasks, NEW e \in Entries, ReserveHit(w, ws, c, e)
    PROVE  BaseInv'
  <1>1. e[1] \in Tasks
    BY EntryShape
  <1>2. ready' \subseteq Entries /\ delayed' \subseteq Entries /\ handed' \subseteq Entries
    BY ScanShrinks DEF ReserveHit, BaseInv, TypeOK
  <1>3. TypeOK'
    BY <1>1, <1>2, BoundAssumption DEF ReserveHit, BaseInv, TypeOK, Statuses
  <1>4. FreshEnvelopes'
    BY <1>1 DEF ReserveHit, BaseInv, FreshEnvelopes, TypeOK, Known
  <1>5. LeaseCoversRunning'
    BY <1>1, BoundAssumption DEF ReserveHit, BaseInv, LeaseCoversRunning, TypeOK
  <1> QED BY <1>3, <1>4, <1>5 DEF BaseInv

\* Every broker operation keeps the base invariant.
LEMMA BaseStep == BaseInv /\ [Next]_queueVars => BaseInv'
  <1> SUFFICES ASSUME BaseInv, [Next]_queueVars PROVE BaseInv'
    OBVIOUS
  <1>1. ASSUME NEW S \in SUBSET (Tasks \ Known), SubmitEach(S) PROVE BaseInv'
    BY <1>1, BaseSubmit
  <1>2. ASSUME NEW S \in SUBSET Known, RetryEach(S) PROVE BaseInv'
    BY <1>2, BaseRetry
  <1>3. ASSUME NEW w \in Workers, NEW ws \in WorkerStatuses, NEW c \in SUBSET Tasks,
               NEW e \in Entries, ReserveHit(w, ws, c, e)
        PROVE  BaseInv'
    BY <1>3, BaseHit
  <1>4. ASSUME NEW w \in Workers, NEW ws \in WorkerStatuses, NEW c \in SUBSET Tasks,
               ReserveMiss(w, ws, c)
        PROVE  BaseInv'
    <2>1. ready' \subseteq Entries /\ delayed' \subseteq Entries
      BY <1>4, ScanShrinks DEF ReserveMiss, BaseInv, TypeOK
    <2> QED BY <1>4, <2>1 DEF ReserveMiss, BaseInv, TypeOK, FreshEnvelopes,
                              LeaseCoversRunning, Known, envelopes, indexes, history
  <1>5. ASSUME NEW t \in Tasks, Ack(t) PROVE BaseInv'
    BY <1>5 DEF Ack, BaseInv, TypeOK, FreshEnvelopes, LeaseCoversRunning, Known,
                Statuses, heaps, history
  <1>6. ASSUME NEW t \in Tasks, NEW s \in Terminal, Complete(t, s) PROVE BaseInv'
    <2>1. s \in Statuses /\ s # "pending" /\ s # "running"
      BY DEF Terminal, Statuses
    <2> QED BY <1>6, <2>1 DEF Complete, BaseInv, TypeOK, FreshEnvelopes,
                              LeaseCoversRunning, Known, heaps, history
  <1>7. ASSUME NEW t \in Tasks, Cancel(t) PROVE BaseInv'
    BY <1>7 DEF Cancel, BaseInv, TypeOK, FreshEnvelopes, LeaseCoversRunning, Known,
                Statuses, heaps, history
  <1>8. CASE Snapshot
    <2>1. ready' \subseteq Entries /\ delayed' \subseteq Entries
      BY <1>8 DEF Snapshot, BaseInv, TypeOK, Promoted, NotDue
    <2> QED BY <1>8, <2>1 DEF Snapshot, BaseInv, TypeOK, FreshEnvelopes,
                              LeaseCoversRunning, Known, envelopes, indexes, history
  <1>9. CASE Tick
    BY <1>9, BoundAssumption DEF Tick, BaseInv, TypeOK, FreshEnvelopes,
       LeaseCoversRunning, Known, indexes
  <1>10. CASE UNCHANGED queueVars
    BY <1>10 DEF queueVars, envelopes, heaps, indexes, history, BaseInv, TypeOK,
       FreshEnvelopes, LeaseCoversRunning, Known
  <1> QED BY <1>1, <1>2, <1>3, <1>4, <1>5, <1>6, <1>7, <1>8, <1>9, <1>10,
            NextShape, InflightKnown DEF BaseInv

\* The broker is type correct: in particular the heaps only ever hold entries of
\* submitted tasks whose number is within the task's retry budget.
THEOREM TypeCorrect == Spec => []TypeOK
  <1>1. BaseInv => TypeOK
    BY DEF BaseInv
  <1> QED BY <1>1, BaseInit, BaseStep, PTL DEF Spec

\* A task is RUNNING exactly while requeue_expired_leases can see it, with a
\* worker and a deadline.
THEOREM LeasesTracked == Spec => []LeaseCoversRunning
  <1>1. BaseInv => LeaseCoversRunning
    BY DEF BaseInv
  <1> QED BY <1>1, BaseInit, BaseStep, PTL DEF Spec

-----------------------------------------------------------------------------
(* No task is lost *)

\* A step keeps the latest entry of a task that was waiting and still is.
LEMMA LostStep == BaseInv /\ NoTaskLost /\ [Next]_queueVars => NoTaskLost'
  <1> SUFFICES ASSUME BaseInv, NoTaskLost, [Next]_queueVars PROVE NoTaskLost'
    OBVIOUS
  <1> USE DEF BaseInv, TypeOK, NoTaskLost, Waiting
  <1>1. ASSUME NEW S \in SUBSET (Tasks \ Known), SubmitEach(S) PROVE NoTaskLost'
    <2> DEFINE wait == [t \in S |-> TaskSpec[t].delay_seconds]
    <2>1. \A t \in S : wait[t] \in Nat
      BY TaskSpecAssumption
    <2>2. PushEach(S, wait) /\ cancelled' = cancelled /\ attempts' = attempts
      BY <1>1 DEF SubmitEach, indexes
    <2>3. \A t \in Tasks \ S : status'[t] = status[t]
      BY <1>1 DEF SubmitEach
    <2> HIDE DEF wait
    <2> QED BY <2>1, <2>2, <2>3 DEF PushEach
  <1>2. ASSUME NEW S \in SUBSET Known, RetryEach(S) PROVE NoTaskLost'
    <2> DEFINE again == {t \in S : attempts[t] + 1 <= TaskSpec[t].max_retries}
               wait == [t \in again |->
                          TaskSpec[t].retry_backoff_seconds * (attempts[t] + 1)]
    <2>1. \A t \in again : wait[t] \in Nat
      <3> SUFFICES ASSUME NEW t \in again PROVE wait[t] \in Nat
        OBVIOUS
      <3>1. TaskSpec[t].retry_backoff_seconds \in Nat /\ attempts[t] + 1 \in Nat
        BY TaskSpecAssumption DEF Known
      <3>2. wait[t] = TaskSpec[t].retry_backoff_seconds * (attempts[t] + 1)
        OBVIOUS
      <3> HIDE DEF again, wait
      <3> QED BY <3>1, <3>2
    <2>2. PushEach(again, wait) /\ cancelled' = cancelled
      BY <1>2 DEF RetryEach, Retriable
    <2>3. \A t \in Tasks \ S : attempts'[t] = attempts[t] /\ status'[t] = status[t]
      BY <1>2 DEF RetryEach, Retriable
    <2>4. \A t \in S \ again : status'[t] = "dead_lettered"
      BY <1>2 DEF RetryEach, Retriable, Known
    <2> HIDE DEF again, wait
    <2> QED BY <2>1, <2>2, <2>3, <2>4 DEF PushEach
  <1>3. ASSUME NEW w \in Workers, NEW ws \in WorkerStatuses, NEW c \in SUBSET Tasks,
               NEW e \in Entries, ReserveHit(w, ws, c, e)
        PROVE  NoTaskLost'
    BY <1>3, EntryShape DEF ReserveHit, Retained, Promoted, NotDue
  <1>4. ASSUME NEW w \in Workers, NEW ws \in WorkerStatuses, NEW c \in SUBSET Tasks,
               ReserveMiss(w, ws, c)
        PROVE  NoTaskLost'
    BY <1>4, EntryShape DEF ReserveMiss, Retained, Promoted, NotDue, envelopes, indexes
  <1>5. ASSUME NEW t \in Tasks, Ack(t) PROVE NoTaskLost'
    BY <1>5 DEF Ack, heaps
  <1>6. ASSUME NEW t \in Tasks, NEW s \in Terminal, Complete(t, s) PROVE NoTaskLost'
    BY <1>6 DEF Complete, heaps, Terminal
  <1>7. ASSUME NEW t \in Tasks, Cancel(t) PROVE NoTaskLost'
    BY <1>7 DEF Cancel, heaps
  <1>8. CASE Snapshot
    BY <1>8, EntryShape DEF Snapshot, Promoted, NotDue, envelopes, indexes
  <1>9. CASE Tick
    BY <1>9 DEF Tick, indexes
  <1>10. CASE UNCHANGED queueVars
    BY <1>10 DEF queueVars, envelopes, heaps, indexes
  <1> QED BY <1>1, <1>2, <1>3, <1>4, <1>5, <1>6, <1>7, <1>8, <1>9, <1>10,
            NextShape, InflightKnown

\* No task is lost: whatever callers do in whatever order, a task that is QUEUED
\* or RETRYING and was never cancelled is in a heap with its latest entry.
THEOREM NoTaskIsLost == Spec => []NoTaskLost
  <1>1. Init => NoTaskLost
    BY DEF Init, NoTaskLost, Waiting
  <1> QED BY <1>1, BaseInit, BaseStep, LostStep, PTL DEF Spec

-----------------------------------------------------------------------------
(* A cancelled task is never leased again *)

\* No operation leases a task whose id is in _cancelled.
LEMMA CancelStep ==
    BaseInv /\ CancelledNotLeased /\ [Next]_queueVars => CancelledNotLeased'
  <1> SUFFICES ASSUME BaseInv, CancelledNotLeased, [Next]_queueVars
               PROVE  CancelledNotLeased'
    OBVIOUS
  <1> USE DEF CancelledNotLeased
  <1>1. ASSUME NEW w \in Workers, NEW ws \in WorkerStatuses, NEW c \in SUBSET Tasks,
               NEW e \in Entries, ReserveHit(w, ws, c, e)
        PROVE  CancelledNotLeased'
    BY <1>1 DEF ReserveHit, Candidates, Retained, Accepts
  <1>2. ASSUME NEW S \in SUBSET (Tasks \ Known), SubmitEach(S)
        PROVE  CancelledNotLeased'
    BY <1>2 DEF SubmitEach, indexes
  <1>3. ASSUME NEW S \in SUBSET Known, RetryEach(S) PROVE CancelledNotLeased'
    BY <1>3 DEF RetryEach, Retriable
  <1>4. ASSUME NEW w \in Workers, NEW ws \in WorkerStatuses, NEW c \in SUBSET Tasks,
               ReserveMiss(w, ws, c)
        PROVE  CancelledNotLeased'
    BY <1>4 DEF ReserveMiss, indexes
  <1>5. ASSUME NEW t \in Tasks, Ack(t) PROVE CancelledNotLeased'
    BY <1>5 DEF Ack
  <1>6. ASSUME NEW t \in Tasks, NEW s \in Terminal, Complete(t, s)
        PROVE  CancelledNotLeased'
    BY <1>6 DEF Complete
  <1>7. ASSUME NEW t \in Tasks, Cancel(t) PROVE CancelledNotLeased'
    BY <1>7 DEF Cancel
  <1>8. CASE Snapshot \/ Tick \/ UNCHANGED queueVars
    BY <1>8 DEF Snapshot, Tick, queueVars, indexes
  <1> QED BY <1>1, <1>2, <1>3, <1>4, <1>5, <1>6, <1>7, <1>8,
            NextShape, InflightKnown DEF BaseInv

\* A cancelled task never holds a lease again: cancel takes it out of _inflight
\* and no later scan of the heaps can pick it, also after a retry pushed it again.
THEOREM CancelledStaysOut == Spec => []CancelledNotLeased
  <1>1. Init => CancelledNotLeased
    BY DEF Init, CancelledNotLeased
  <1> QED BY <1>1, BaseInit, BaseStep, CancelStep, PTL DEF Spec

-----------------------------------------------------------------------------
(* The number of runs of a task is bounded *)

\* The entries of one task are finitely many, max_retries + 1 of them.
LEMMA EntriesOfTask ==
    ASSUME NEW t \in Tasks
    PROVE  LET E == {t} \X (0 .. TaskSpec[t].max_retries)
           IN  /\ \A e \in Entries : e[1] = t => e \in E
               /\ IsFiniteSet(E)
               /\ Cardinality(E) = TaskSpec[t].max_retries + 1
  <1> DEFINE m == TaskSpec[t].max_retries
             E == {t} \X (0 .. m)
  <1>1. m \in Nat
    BY TaskSpecAssumption
  <1>2. IsFiniteSet(0 .. m) /\ Cardinality(0 .. m) = m + 1
    <2> HIDE DEF m
    <2> QED BY <1>1, FS_Interval
  <1>3. IsFiniteSet({t}) /\ Cardinality({t}) = 1
    BY FS_Singleton
  <1>4. IsFiniteSet(E) /\ Cardinality(E) = 1 * (m + 1)
    <2> HIDE DEF m
    <2> QED BY <1>2, <1>3, FS_Product
  <1>5. \A e \in Entries : e[1] = t => e \in E
    BY EntryShape
  <1> HIDE DEF m
  <1> QED BY <1>1, <1>4, <1>5 DEF m

\* The entries of t that a reserve popped.
HandedOf(t) == {e \in handed : e[1] = t}

\* A task has at most max_retries + 1 entries that were handed out.
LEMMA HandedFinite ==
    ASSUME TypeOK, NEW t \in Tasks
    PROVE  /\ IsFiniteSet(HandedOf(t))
           /\ Cardinality(HandedOf(t)) <= TaskSpec[t].max_retries + 1
  <1> DEFINE E == {t} \X (0 .. TaskSpec[t].max_retries)
  <1>1. IsFiniteSet(E) /\ Cardinality(E) = TaskSpec[t].max_retries + 1
    BY EntriesOfTask
  <1>2. HandedOf(t) \in SUBSET E
    BY EntriesOfTask DEF HandedOf, TypeOK
  <1> HIDE DEF E
  <1> QED BY <1>1, <1>2, FS_Subset

\* The part of EntriesUsedOnce that speaks of the heaps alone.
HeapsDisjoint ==
    /\ ready \cap delayed = {}
    /\ (ready \cup delayed) \cap handed = {}
    /\ \A e \in ready \cup delayed \cup handed :
          e[1] \in Known /\ e[2] <= attempts[e[1]]

\* Every operation keeps the places of the entries apart: pushes are numbered
\* above all earlier entries of the task, promotions and pops only move entries.
LEMMA HeapsStep == BaseInv /\ HeapsDisjoint /\ [Next]_queueVars => HeapsDisjoint'
  <1> SUFFICES ASSUME BaseInv, HeapsDisjoint, [Next]_queueVars PROVE HeapsDisjoint'
    OBVIOUS
  <1> USE DEF BaseInv, TypeOK, HeapsDisjoint
  <1>1. ASSUME NEW S \in SUBSET (Tasks \ Known), SubmitEach(S) PROVE HeapsDisjoint'
    <2> DEFINE wait == [t \in S |-> TaskSpec[t].delay_seconds]
    <2>1. PushEach(S, wait) /\ attempts' = attempts /\ handed' = handed
      BY <1>1 DEF SubmitEach, history
    <2>2. Known' = Known \cup S
      BY <1>1 DEF SubmitEach, Known
    <2>3. \A t \in S : attempts[t] \in Nat
      OBVIOUS
    <2> HIDE DEF wait
    <2> QED BY <2>1, <2>2, <2>3 DEF PushEach
  <1>2. ASSUME NEW S \in SUBSET Known, RetryEach(S) PROVE HeapsDisjoint'
    <2> DEFINE again == {t \in S : attempts[t] + 1 <= TaskSpec[t].max_retries}
               wait == [t \in again |->
                          TaskSpec[t].retry_backoff_seconds * (attempts[t] + 1)]
    <2>1. PushEach(again, wait) /\ handed' = handed /\ again \subseteq S
      BY <1>2 DEF RetryEach, Retriable, history
    <2>2. Known' = Known
      BY <1>2 DEF RetryEach, Retriable, Known
    <2>3. \A t \in Tasks : attempts'[t] = IF t \in S THEN attempts[t] + 1 ELSE attempts[t]
      BY <1>2 DEF RetryEach, Retriable
    <2>4. \A t \in again : t \in Known /\ attempts'[t] = attempts[t] + 1
      BY <2>1, <2>3 DEF Known
    <2>5. \A e \in ready \cup delayed \cup handed : e[1] \in Tasks /\ e[2] \in Nat
      BY EntryShape
    <2>6. \A e \in ready \cup delayed \cup handed : \A t \in again :
             e # <<t, attempts'[t]>>
      BY <2>4, <2>5
    <2>7. \A e \in ready \cup delayed \cup handed : e[2] <= attempts'[e[1]]
      BY <2>3, <2>5
    <2>8. \A t \in again : <<t, attempts'[t]>>[1] \in Known
                           /\ <<t, attempts'[t]>>[2] <= attempts'[t]
      BY <2>4 DEF Known
    <2> HIDE DEF again, wait
    <2> QED BY <2>1, <2>2, <2>6, <2>7, <2>8 DEF PushEach
  <1>3. ASSUME NEW w \in Workers, NEW ws \in WorkerStatuses, NEW c \in SUBSET Tasks,
               NEW e \in Entries, ReserveHit(w, ws, c, e)
        PROVE  HeapsDisjoint'
    <2>1. Known' = Known
      BY <1>3, EntryShape DEF ReserveHit, Candidates, Retained, Promoted, Known
    <2> QED BY <1>3, <2>1 DEF ReserveHit, Candidates, Retained, Promoted, NotDue
  <1>4. ASSUME NEW w \in Workers, NEW ws \in WorkerStatuses, NEW c \in SUBSET Tasks,
               ReserveMiss(w, ws, c)
        PROVE  HeapsDisjoint'
    BY <1>4 DEF ReserveMiss, Retained, Promoted, NotDue, Known, envelopes, history
  <1>5. ASSUME NEW t \in Tasks, Ack(t) PROVE HeapsDisjoint'
    BY <1>5 DEF Ack, Known, heaps, history
  <1>6. ASSUME NEW t \in Tasks, NEW s \in Terminal, Complete(t, s) PROVE HeapsDisjoint'
    BY <1>6 DEF Complete, Known, Terminal, heaps, history
  <1>7. ASSUME NEW t \in Tasks, Cancel(t) PROVE HeapsDisjoint'
    BY <1>7 DEF Cancel, Known, heaps, history
  <1>8. CASE Snapshot
    BY <1>8 DEF Snapshot, Promoted, NotDue, Known, envelopes, history
  <1>9. CASE Tick \/ UNCHANGED queueVars
    BY <1>9 DEF Tick, Known, queueVars, envelopes, heaps, history
  <1> QED BY <1>1, <1>2, <1>3, <1>4, <1>5, <1>6, <1>7, <1>8, <1>9,
            NextShape, InflightKnown

\* The history counter agrees with the history set.
RunsCounted == \A t \in Tasks : runs[t] = Cardinality(HandedOf(t))

\* A reserve pops an entry that no reserve popped before, so it adds one to the
\* runs of its task and one element to the entries handed out for it.
LEMMA RunsStep ==
    BaseInv /\ HeapsDisjoint /\ RunsCounted /\ [Next]_queueVars => RunsCounted'
  <1> SUFFICES ASSUME BaseInv, HeapsDisjoint, RunsCounted, [Next]_queueVars
               PROVE  RunsCounted'
    OBVIOUS
  <1> USE DEF BaseInv
  <1>1. ASSUME NEW w \in Workers, NEW ws \in WorkerStatuses, NEW c \in SUBSET Tasks,
               NEW e \in Entries, ReserveHit(w, ws, c, e)
        PROVE  RunsCounted'
    <2> SUFFICES ASSUME NEW t \in Tasks PROVE runs'[t] = Cardinality(HandedOf(t)')
      BY DEF RunsCounted
    <2>1. e[1] \in Tasks /\ e \notin handed
      BY <1>1, EntryShape DEF ReserveHit, Candidates, Retained, Promoted, HeapsDisjoint
    <2>2. CASE t = e[1]
      <3>1. HandedOf(t)' = HandedOf(t) \cup {e} /\ e \notin HandedOf(t)
        BY <1>1, <2>1, <2>2 DEF ReserveHit, HandedOf
      <3>2. Cardinality(HandedOf(t)') = Cardinality(HandedOf(t)) + 1
        BY <3>1, HandedFinite, FS_AddElement
      <3>3. runs'[t] = runs[t] + 1
        BY <1>1, <2>1, <2>2 DEF ReserveHit, TypeOK
      <3> QED BY <3>2, <3>3 DEF RunsCounted
    <2>3. CASE t # e[1]
      <3>1. HandedOf(t)' = HandedOf(t)
        BY <1>1, <2>3 DEF ReserveHit, HandedOf
      <3>2. runs'[t] = runs[t]
        BY <1>1, <2>1, <2>3 DEF ReserveHit, TypeOK
      <3> QED BY <3>1, <3>2 DEF RunsCounted
    <2> QED BY <2>2, <2>3
  <1>2. CASE UNCHANGED <<handed, runs>>
    BY <1>2 DEF RunsCounted, HandedOf
  <1>3. \/ UNCHANGED <<handed, runs>>
        \/ \E w \in Workers, ws \in WorkerStatuses, c \in SUBSET Tasks, e \in Entries :
              ReserveHit(w, ws, c, e)
    BY NextShape, InflightKnown DEF SubmitEach, RetryEach, Retriable, ReserveMiss, Ack, Complete,
       Cancel, Snapshot, Tick, queueVars, history
  <1> QED BY <1>1, <1>2, <1>3

\* No entries, no runs.
LEMMA EntriesInit == Init => HeapsDisjoint /\ RunsCounted
  BY FS_EmptySet DEF Init, HeapsDisjoint, RunsCounted, HandedOf

\* However many entries retries, late failure reports and lease expiries put in
\* the heaps, reserve hands a task out at most max_retries + 1 times.
THEOREM RunsAreBounded == Spec => []RunsBounded
  <1>1. BaseInv /\ RunsCounted => RunsBounded
    BY HandedFinite DEF BaseInv, RunsCounted, RunsBounded
  <1> QED BY <1>1, BaseInit, EntriesInit, BaseStep, HeapsStep, RunsStep, PTL DEF Spec

\* A heap entry is in one place at a time and is handed out at most once.
THEOREM EntriesAreUsedOnce == Spec => []EntriesUsedOnce
  <1>1. HeapsDisjoint /\ RunsCounted => EntriesUsedOnce
    BY DEF HeapsDisjoint, RunsCounted, HandedOf, EntriesUsedOnce
  <1> QED BY <1>1, BaseInit, EntriesInit, BaseStep, HeapsStep, RunsStep, PTL DEF Spec

-----------------------------------------------------------------------------
(* The delay of a submission is honoured *)

\* Countdown and waited time of a submission's entry add up to its delay in the
\* delayed heap; the entry leaves that heap only when the countdown is over.
LEMMA DelayStep ==
    BaseInv /\ HeapsDisjoint /\ DelayCountdown /\ DelayHonoured /\ [Next]_queueVars
        => DelayCountdown' /\ DelayHonoured'
  <1> SUFFICES ASSUME BaseInv, HeapsDisjoint, DelayCountdown, DelayHonoured, [Next]_queueVars
               PROVE  DelayCountdown' /\ DelayHonoured'
    OBVIOUS
  <1> USE DEF BaseInv, TypeOK, DelayCountdown, DelayHonoured
  <1>0. \A t \in Tasks : TaskSpec[t].delay_seconds \in Nat /\ <<t, 0>> \in Entries
    <2> SUFFICES ASSUME NEW t \in Tasks
                 PROVE  TaskSpec[t].delay_seconds \in Nat /\ <<t, 0>> \in Entries
      OBVIOUS
    <2>1. TaskSpec[t].delay_seconds \in Nat /\ 0 <= TaskSpec[t].max_retries
      BY TaskSpecAssumption
    <2> QED BY <2>1, EntryShape
  <1>1. ASSUME NEW S \in SUBSET (Tasks \ Known), SubmitEach(S)
        PROVE  DelayCountdown' /\ DelayHonoured'
    <2> DEFINE wait == [t \in S |-> TaskSpec[t].delay_seconds]
    <2>1. PushEach(S, wait) /\ attempts' = attempts /\ handed' = handed /\ age' = age
      BY <1>1 DEF SubmitEach, history
    <2>2. \A t \in S : wait[t] = TaskSpec[t].delay_seconds
      OBVIOUS
    <2>3. \A t \in S : t \in Tasks /\ attempts[t] = 0 /\ age[t] = 0
      BY DEF FreshEnvelopes
    <2> HIDE DEF wait
    <2>4. DelayCountdown'
      BY <1>0, <2>1, <2>2, <2>3 DEF PushEach
    <2>5. DelayHonoured'
      BY <1>0, <2>1, <2>2, <2>3 DEF PushEach
    <2> QED BY <2>4, <2>5
  <1>2. ASSUME NEW S \in SUBSET Known, RetryEach(S)
        PROVE  DelayCountdown' /\ DelayHonoured'
    <2> DEFINE again == {t \in S : Retriable(t)}
               wait == [t \in again |->
                          TaskSpec[t].retry_backoff_seconds * (attempts[t] + 1)]
    <2>1. PushEach(again, wait) /\ handed' = handed /\ age' = age
      BY <1>2 DEF RetryEach, history
    <2>2. \A t \in again : t \in Tasks /\ attempts'[t] = attempts[t] + 1
      BY <1>2 DEF RetryEach, Known
    <2>3. \A t \in again : attempts'[t] # 0
      BY <2>2
    <2> HIDE DEF again, wait
    <2>4. \A t \in Tasks : /\ <<t, 0>> \in delayed' => <<t, 0>> \in delayed
                           /\ <<t, 0>> \in ready' => <<t, 0>> \in ready
                           /\ available_at'[<<t, 0>>] = available_at[<<t, 0>>]
      BY <1>0, <2>1, <2>3 DEF PushEach
    <2> QED BY <2>1, <2>4
  <1>3. ASSUME NEW w \in Workers, NEW ws \in WorkerStatuses, NEW c \in SUBSET Tasks,
               NEW e \in Entries, ReserveHit(w, ws, c, e)
        PROVE  DelayCountdown' /\ DelayHonoured'
    BY <1>0, <1>3 DEF ReserveHit, Candidates, Retained, Promoted, NotDue
  <1>4. ASSUME NEW w \in Workers, NEW ws \in WorkerStatuses, NEW c \in SUBSET Tasks,
               ReserveMiss(w, ws, c)
        PROVE  DelayCountdown' /\ DelayHonoured'
    BY <1>0, <1>4 DEF ReserveMiss, Retained, Promoted, NotDue, history
  <1>5. CASE Snapshot
    BY <1>0, <1>5 DEF Snapshot, Promoted, NotDue, history
  <1>6. CASE Tick
    <2>1. \A t \in Tasks : <<t, 0>> \in delayed => t \in Known
      BY DEF HeapsDisjoint
    <2>2. \A t \in Tasks : /\ age'[t] = IF t \in Known /\ age[t] < TaskSpec[t].delay_seconds
                                       THEN age[t] + 1 ELSE age[t]
                           /\ available_at'[<<t, 0>>] = IF available_at[<<t, 0>>] > 0
                                       THEN available_at[<<t, 0>>] - 1 ELSE 0
      BY <1>0, <1>6 DEF Tick
    <2>3. UNCHANGED <<ready, delayed, handed>>
      BY <1>6 DEF Tick
    <2>4. \A t \in Tasks : available_at[<<t, 0>>] \in Nat
      BY <1>0
    <2>5. DelayCountdown'
      BY <1>0, <2>1, <2>2, <2>3, <2>4
    <2>6. DelayHonoured'
      BY <1>0, <2>2, <2>3
    <2> QED BY <2>5, <2>6
  <1>7. CASE UNCHANGED <<heaps, handed, age>>
    BY <1>7 DEF heaps
  <1> QED BY <1>1, <1>2, <1>3, <1>4, <1>5, <1>6, <1>7, NextShape, InflightKnown
          DEF Ack, Complete, Cancel, queueVars, history

\* No task is handed out, or even ready, before its delay_seconds have passed.
THEOREM DelayIsHonoured == Spec => []DelayHonoured
  <1>1. Init => DelayCountdown /\ DelayHonoured
    BY DEF Init, DelayCountdown, DelayHonoured
  <1> QED BY <1>1, BaseInit, EntriesInit, BaseStep, HeapsStep, DelayStep, PTL DEF Spec

============================================================================
