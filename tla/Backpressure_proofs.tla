------------------------ MODULE Backpressure_proofs ------------------------
(* Proofs about the two measures of load, for the whole engine. *)
EXTENDS Backpressure, SchedulerEngine_proofs

\* The load specification is the engine with fewer steps.
THEOREM LoadIsEngine == LoadSpec => EngineSpec
  <1>1. [LoadNext]_engineVars => [EngineNext]_engineVars
    BY DEF LoadNext, EngineNext
  <1> QED BY <1>1, PTL DEF LoadSpec, EngineSpec

-----------------------------------------------------------------------------
(* The steps of the engine, as the broker sees them *)

\* What EngineStep leaves out: nobody calls ack, a report settles an entry that
\* was handed out, and submissions stay within the room that depth leaves.
LEMMA EngineShape ==
    ASSUME EngineInv, ExecutedOnce, [EngineNext]_engineVars
    PROVE  \/ \E S \in SUBSET (Tasks \ Known) : SubmitEach(S) /\ Cardinality(S) <= Room
           \/ \E S \in SUBSET Known : RetryEach(S)
           \/ \E w \in Workers, ws \in WorkerStatuses, c \in SUBSET Tasks, e \in Entries :
                 ReserveHit(w, ws, c, e)
           \/ \E w \in Workers, ws \in WorkerStatuses, c \in SUBSET Tasks :
                 ReserveMiss(w, ws, c)
           \/ \E e \in handed, s \in Terminal : Complete(e[1], s)
           \/ \E t \in Tasks : Cancel(t)
           \/ Snapshot
           \/ Tick
           \/ UNCHANGED queueVars
  <1> USE DEF EngineInv
  <1>0. IsFiniteSet(Known) /\ Depth \in Nat /\ Room \in Nat
    <2>1. IsFiniteSet(Tasks) /\ MaxDepth \in Nat
      BY BoundAssumption
    <2>2. Depth \in Nat /\ IsFiniteSet(Known)
      BY <2>1, FS_Subset, FS_CardinalityType DEF Depth, Known
    <2> QED BY <2>1, <2>2 DEF Room
  <1>1. ASSUME NEW t \in Tasks, SubmitTask(t)
        PROVE  \E S \in SUBSET (Tasks \ Known) : SubmitEach(S) /\ Cardinality(S) <= Room
    <2>1. {t} \in SUBSET (Tasks \ Known) /\ SubmitEach({t}) /\ Depth < MaxDepth
      BY <1>1 DEF SubmitTask, Submit
    <2>2. Cardinality({t}) <= Room
      BY <1>0, <2>1, BoundAssumption, FS_Singleton DEF Room
    <2> QED BY <2>1, <2>2
  <1>2. ASSUME NEW batch \in SUBSET Tasks, NEW accepted \in SUBSET batch,
               SubmitBatch(batch, accepted)
        PROVE  \E S \in SUBSET (Tasks \ Known) : SubmitEach(S) /\ Cardinality(S) <= Room
    <2>1. accepted \in SUBSET (Tasks \ Known) /\ SubmitEach(accepted)
      BY <1>2 DEF SubmitBatch, SubmitMany
    <2>2. \/ accepted = batch /\ Cardinality(batch) <= Room
          \/ Cardinality(accepted) = Room
      BY <1>2 DEF SubmitBatch, SubmitMany
    <2> QED BY <1>0, <2>1, <2>2
  <1>3. ASSUME NEW t \in Tasks, RetryTask(t)
        PROVE  \E S \in SUBSET Known : RetryEach(S)
    <2>1. {t} \in SUBSET Known /\ RetryEach({t})
      BY <1>3 DEF RetryTask, Retry
    <2> QED BY <2>1
  <1>4. ASSUME NEW w \in Workers, NEW e \in Entries,
               NEW s \in {"succeeded", "cancelled", "failed"}, ReportResult(e, w, s)
        PROVE  \/ \E S \in SUBSET Known : RetryEach(S)
               \/ \E f \in handed, r \in Terminal : Complete(f[1], r)
    <2>1. e \in handed
      BY <1>4 DEF ReportResult, ExecutedOnce
    <2>2. CASE Complete(e[1], s)
      BY <2>1, <2>2 DEF Terminal
    <2>3. CASE Retry(e[1])
      <3>1. {e[1]} \in SUBSET Known /\ RetryEach({e[1]})
        BY <2>3 DEF Retry
      <3> QED BY <3>1
    <2> QED BY <1>4, <2>2, <2>3 DEF ReportResult
  <1>5. ASSUME NEW c \in Calls, Thread(c) \/ ThreadMiss(c, TRUE)
        PROVE  \E w \in Workers, ws \in WorkerStatuses, d \in SUBSET Tasks :
                  Reserve(w, ws, d)
    <2> DEFINE o == calls[c].object
    <2>1. calls[c].phase = "waiting"
      BY <1>5 DEF Thread, ThreadPop, ThreadMiss
    <2>2. o \in Objects /\ o[1] \in Workers /\ worker_status[o] \in WorkerStatuses
      BY <2>1, ObjectShape DEF CallsCarry, RegistryOK
    <2>3. CompletedSeen(c) \in SUBSET Tasks
      BY DEF CompletedSeen, DispatchOK
    <2>4. Reserve(o[1], worker_status[o], CompletedSeen(c))
      BY <1>5 DEF Thread, ThreadPop, ThreadMiss, Reserve
    <2> QED BY <2>2, <2>3, <2>4
  <1>6. ASSUME LeaseReaper PROVE \E S \in SUBSET Known : RetryEach(S)
    <2>1. Expired \in SUBSET Known
      BY InflightKnown DEF Expired
    <2> QED BY <1>6, <2>1 DEF LeaseReaper, RequeueExpiredLeases
  <1>7. ASSUME NEW t \in Tasks, CancelTask(t) PROVE Cancel(t)
    BY <1>7 DEF CancelTask
  <1>8. CASE ReadSnapshot \/ Clock
    BY <1>8 DEF ReadSnapshot, Clock
  <1>9. ASSUME \/ HeartbeatReaper \/ LeaseReaperSave \/ UNCHANGED engineVars
               \/ \E w \in Workers : \/ RegisterWorker(w) \/ BeatStop(w) \/ BeatResume(w)
                                     \/ \E n \in 0 .. Cardinality(Calls) : Heartbeat(w, n)
               \/ \E c \in Calls : \/ \E w \in Workers : ReserveTask(c, w)
                                   \/ ThreadStart(c) \/ ReserveReturn(c) \/ DropHandler(c)
        PROVE  UNCHANGED queueVars
    BY <1>9 DEF HeartbeatReaper, LeaseReaperSave, engineVars, RegisterWorker, BeatStop,
                BeatResume, Heartbeat, ReserveTask, ThreadStart, ReserveReturn, DropHandler
  <1> QED BY <1>1, <1>2, <1>3, <1>4, <1>5, <1>6, <1>7, <1>8, <1>9 DEF EngineNext, Reserve

-----------------------------------------------------------------------------
(* What the measures rest on *)

\* No status but those the two measures know; a cancelled task that takes up
\* room again was retried; the entry of a submission is in a heap only while the
\* task waits for its first run, was retried or was cancelled.
LoadInv ==
    /\ \A t \in Tasks : status[t] # "acked"
    /\ \A t \in cancelled : status[t] \notin {"pending", "queued"}
    /\ \A t \in Tasks : attempts[t] = 0 /\ <<t, 0>> \in ready \cup delayed
                            => status[t] = "queued" \/ t \in cancelled

\* The engine's invariants that the measures rest on.
LoadBase == EngineInv /\ HeapsDisjoint /\ ExecutedOnce

\* They hold initially and are kept by every step.
LEMMA LoadBaseHolds ==
    /\ EngineInit => LoadBase
    /\ LoadBase /\ [EngineNext]_engineVars => LoadBase'
  <1>1. EngineInit => HeapsDisjoint /\ ExecutedOnce
    BY EntriesInit DEF EngineInit, ExecutedOnce, NoCall
  <1>2. EngineInv /\ HeapsDisjoint /\ [EngineNext]_engineVars => HeapsDisjoint'
    BY EngineStep, HeapsStep DEF EngineInv
  <1> QED BY <1>1, <1>2, EngineInvInit, EngineInvStep, OnceStep DEF LoadBase

\* A submission pushes entry 0 of a task it queues; a retry leaves attempts above
\* 0; a report is of an entry that is in no heap any more.
LEMMA LoadStep == LoadBase /\ LoadInv /\ [EngineNext]_engineVars => LoadInv'
  <1> SUFFICES ASSUME LoadBase, LoadInv, [EngineNext]_engineVars PROVE LoadInv'
    OBVIOUS
  <1> USE DEF LoadInv
  <1>0. TypeOK /\ HeapsDisjoint /\ (\A e \in handed : e \in Entries)
    BY DEF LoadBase, EngineInv, BaseInv, TypeOK
  <1> USE <1>0 DEF TypeOK
  <1>1. ASSUME NEW S \in SUBSET (Tasks \ Known), SubmitEach(S) PROVE LoadInv'
    <2>1. \A t \in Tasks \ S : <<t, 0>> \in ready' \cup delayed'
                                 => <<t, 0>> \in ready \cup delayed
      BY <1>1 DEF SubmitEach, PushEach
    <2>2. attempts' = attempts /\ cancelled' = cancelled
      BY <1>1 DEF SubmitEach, indexes
    <2>3. \A t \in Tasks : status'[t] = IF t \in S THEN "queued" ELSE status[t]
      BY <1>1 DEF SubmitEach
    <2>4. \A t \in cancelled : t \in Known
      BY DEF Known
    <2> QED BY <2>1, <2>2, <2>3, <2>4
  <1>2. ASSUME NEW S \in SUBSET Known, RetryEach(S) PROVE LoadInv'
    <2>1. \A t \in Tasks \ S : <<t, 0>> \in ready' \cup delayed'
                                 => <<t, 0>> \in ready \cup delayed
      BY <1>2 DEF RetryEach, PushEach, Retriable
    <2>2. \A t \in Tasks : attempts'[t] = IF t \in S THEN attempts[t] + 1 ELSE attempts[t]
      BY <1>2 DEF RetryEach
    <2>3. \A t \in Tasks : IF t \in S THEN status'[t] \in {"retrying", "dead_lettered"}
                           ELSE status'[t] = status[t]
      BY <1>2 DEF RetryEach
    <2>4. cancelled' = cancelled
      BY <1>2 DEF RetryEach
    <2> QED BY <2>1, <2>2, <2>3, <2>4
  <1>3. ASSUME NEW w \in Workers, NEW ws \in WorkerStatuses, NEW c \in SUBSET Tasks,
               NEW e \in Entries, ReserveHit(w, ws, c, e)
        PROVE  LoadInv'
    <2>1. e[1] \in Tasks /\ e \in ready \cup delayed /\ e = <<e[1], e[2]>> /\ e[2] \in Nat
      BY <1>3, EntryShape DEF ReserveHit, Candidates, Retained, Promoted
    <2>2. e[2] <= attempts[e[1]]
      BY <2>1 DEF HeapsDisjoint
    <2>3. /\ ready' \cup delayed' \subseteq (ready \cup delayed) \ {e}
      BY <1>3 DEF ReserveHit, Retained, Promoted, NotDue, HeapsDisjoint, Candidates
    <2>4. attempts[e[1]] = 0 => <<e[1], 0>> \notin ready' \cup delayed'
      BY <2>1, <2>2, <2>3
    <2>5. /\ status' = [status EXCEPT ![e[1]] = "running"]
          /\ attempts' = attempts /\ cancelled' = cancelled
      BY <1>3 DEF ReserveHit
    <2> QED BY <2>1, <2>3, <2>4, <2>5
  <1>4. ASSUME ready' \cup delayed' \subseteq ready \cup delayed,
               UNCHANGED <<status, attempts, cancelled>>
        PROVE  LoadInv'
    BY <1>4
  <1>5. ASSUME NEW w \in Workers, NEW ws \in WorkerStatuses, NEW c \in SUBSET Tasks,
               ReserveMiss(w, ws, c)
        PROVE  LoadInv'
    BY <1>4, <1>5 DEF ReserveMiss, Retained, Promoted, NotDue, envelopes, indexes
  <1>6. ASSUME NEW e \in handed, NEW s \in Terminal, Complete(e[1], s) PROVE LoadInv'
    <2>1. e \in Entries /\ e = <<e[1], e[2]>> /\ e[1] \in Tasks /\ e[2] \in Nat
      BY <1>0, EntryShape
    <2>2. attempts[e[1]] = 0 => <<e[1], 0>> \notin ready \cup delayed
      BY <2>1 DEF HeapsDisjoint
    <2>3. /\ status' = [status EXCEPT ![e[1]] = s] /\ s \notin {"acked", "pending", "queued"}
          /\ UNCHANGED <<attempts, cancelled, ready, delayed>>
      BY <1>6 DEF Complete, heaps, Terminal
    <2> QED BY <2>1, <2>2, <2>3
  <1>7. ASSUME NEW t \in Tasks, Cancel(t) PROVE LoadInv'
    BY <1>7 DEF Cancel, heaps
  <1>8. CASE Snapshot
    BY <1>4, <1>8 DEF Snapshot, Promoted, NotDue, envelopes, indexes
  <1>9. CASE Tick \/ UNCHANGED queueVars
    BY <1>4, <1>9 DEF Tick, queueVars, envelopes, heaps, indexes
  <1> QED BY <1>1, <1>2, <1>3, <1>5, <1>6, <1>7, <1>8, <1>9, EngineShape DEF LoadBase

\* An empty scheduler.
LEMMA LoadInit == EngineInit => LoadInv
  BY DEF EngineInit, Init, LoadInv

-----------------------------------------------------------------------------
(* Pressure covers depth *)

\* There are finitely many heap entries.
LEMMA EntriesFinite == IsFiniteSet(Entries)
  <1> DEFINE of == [t \in Tasks |-> {t} \X (0 .. TaskSpec[t].max_retries)]
             T == {of[t] : t \in Tasks}
  <1>1. IsFiniteSet(T)
    <2>1. of \in Surjection(Tasks, T)
      BY DEF Surjection
    <2> QED BY <2>1, BoundAssumption, FS_Surjection
  <1>2. \A E \in T : IsFiniteSet(E)
    BY EntriesOfTask
  <1>3. IsFiniteSet(UNION T)
    <2> HIDE DEF T
    <2> QED BY <1>1, <1>2, FS_UNION
  <1>4. Entries = UNION T
    BY DEF Entries
  <1> QED BY <1>3, <1>4

\* A union has at most as many elements as its parts together.
LEMMA AtMostSum ==
    ASSUME NEW S, IsFiniteSet(S), NEW T, IsFiniteSet(T)
    PROVE  /\ IsFiniteSet(S \cup T)
           /\ Cardinality(S \cup T) <= Cardinality(S) + Cardinality(T)
  <1>1. /\ IsFiniteSet(S \cup T)
        /\ Cardinality(S \cup T) = Cardinality(S) + Cardinality(T) - Cardinality(S \cap T)
    BY FS_Union
  <1>2. S \cap T \in SUBSET S
    OBVIOUS
  <1>3. /\ Cardinality(S \cap T) \in Nat /\ Cardinality(S) \in Nat
        /\ Cardinality(T) \in Nat
    BY <1>2, FS_Subset, FS_CardinalityType
  <1> QED BY <1>1, <1>3

\* An open task that is not stuck is leased, or waits with an entry of its own in
\* a heap; an entry that is due is promoted, since a waiting task is neither
\* cancelled nor dead-lettered.
LEMMA PressureHolds ==
    ASSUME BaseInv, NoTaskLost, LoadInv
    PROVE  PressureCoversDepth
  <1> USE DEF BaseInv, TypeOK
  <1> DEFINE waiting == {t \in Tasks : Waiting(t)}
             R == ready \cup Promoted
             D == NotDue
             latest == [t \in waiting |-> <<t, attempts[t]>>]
  <1>1. /\ IsFiniteSet(Tasks) /\ IsFiniteSet(waiting) /\ IsFiniteSet(inflight)
        /\ IsFiniteSet(Stuck) /\ IsFiniteSet(Open)
    <2>1. /\ waiting \in SUBSET Tasks /\ inflight \in SUBSET Tasks
          /\ Stuck \in SUBSET Tasks /\ Open \in SUBSET Tasks
      BY DEF Stuck, Open, Known
    <2> HIDE DEF waiting
    <2> QED BY <2>1, BoundAssumption, FS_Subset
  <1>2. IsFiniteSet(R) /\ IsFiniteSet(D)
    <2>1. R \in SUBSET Entries /\ D \in SUBSET Entries
      BY DEF Promoted, NotDue
    <2> HIDE DEF R, D
    <2> QED BY <2>1, EntriesFinite, FS_Subset
  <1>3. latest \in Injection(waiting, R \cup D)
    <2>1. ASSUME NEW t \in waiting PROVE <<t, attempts[t]>> \in R \cup D
      <3>1. /\ <<t, attempts[t]>> \in ready \cup delayed
            /\ status[t] \in {"queued", "retrying"}
        BY DEF NoTaskLost, Waiting
      <3>2. <<t, attempts[t]>> \in delayed =>
               \/ available_at[<<t, attempts[t]>>] = 0
               \/ available_at[<<t, attempts[t]>>] > 0
        OBVIOUS
      <3> QED BY <3>1, <3>2 DEF Promoted, NotDue
    <2>2. latest \in [waiting -> R \cup D]
      BY <2>1
    <2>3. \A t, u \in waiting : latest[t] = latest[u] => t = u
      OBVIOUS
    <2> HIDE DEF latest, waiting, R, D
    <2> QED BY <2>2, <2>3 DEF Injection, IsInjective
  <1>4. Cardinality(waiting) <= Cardinality(R) + Cardinality(D)
    <2> HIDE DEF R, D, waiting, latest
    <2>1. /\ IsFiniteSet(R \cup D)
          /\ Cardinality(R \cup D) <= Cardinality(R) + Cardinality(D)
      BY <1>2, AtMostSum
    <2>2. Cardinality(waiting) <= Cardinality(R \cup D)
      BY <1>3, <2>1, FS_Injection
    <2>3. /\ Cardinality(R \cup D) \in Nat /\ Cardinality(R) \in Nat
          /\ Cardinality(D) \in Nat /\ Cardinality(waiting) \in Nat
      BY <1>1, <1>2, <2>1, FS_CardinalityType
    <2> QED BY <2>1, <2>2, <2>3
  <1>5. Open \subseteq (waiting \cup inflight) \cup Stuck
    <2> SUFFICES ASSUME NEW t \in Open, t \notin inflight, t \notin Stuck
                 PROVE  Waiting(t)
      BY DEF Open, Known
    <2>1. status[t] \in {"queued", "retrying"}
      BY DEF Open, Known, Terminal, Statuses, LoadInv, LeaseCoversRunning
    <2>2. t \notin cancelled
      BY <2>1 DEF LoadInv, Stuck
    <2> QED BY <2>1, <2>2 DEF Waiting
  <1>6. Cardinality(Open) <=
           Cardinality(waiting) + Cardinality(inflight) + Cardinality(Stuck)
    <2> HIDE DEF waiting
    <2>1. /\ IsFiniteSet(waiting \cup inflight)
          /\ Cardinality(waiting \cup inflight) <= Cardinality(waiting) + Cardinality(inflight)
      BY <1>1, AtMostSum
    <2>2. /\ IsFiniteSet((waiting \cup inflight) \cup Stuck)
          /\ Cardinality((waiting \cup inflight) \cup Stuck)
                <= Cardinality(waiting \cup inflight) + Cardinality(Stuck)
      BY <1>1, <2>1, AtMostSum
    <2>3. Cardinality(Open) <= Cardinality((waiting \cup inflight) \cup Stuck)
      BY <1>5, <2>2, FS_Subset
    <2>4. /\ Cardinality(waiting) \in Nat /\ Cardinality(inflight) \in Nat
          /\ Cardinality(Stuck) \in Nat /\ Cardinality(Open) \in Nat
          /\ Cardinality(waiting \cup inflight) \in Nat
          /\ Cardinality((waiting \cup inflight) \cup Stuck) \in Nat
      BY <1>1, <2>1, <2>2, FS_CardinalityType
    <2> QED BY <2>1, <2>2, <2>3, <2>4
  <1>7. Depth = Cardinality(Open) /\ ActiveDepth =
           Cardinality(R) + Cardinality(D) + Cardinality(inflight)
    BY DEF Depth, Open, ActiveDepth, QueueSnapshot
  <1>8. /\ Cardinality(waiting) \in Nat /\ Cardinality(inflight) \in Nat
        /\ Cardinality(Stuck) \in Nat /\ Cardinality(Open) \in Nat
        /\ Cardinality(R) \in Nat /\ Cardinality(D) \in Nat
    BY <1>1, <1>2, FS_CardinalityType
  <1> HIDE DEF R, D, waiting, latest
  <1> QED BY <1>4, <1>6, <1>7, <1>8 DEF PressureCoversDepth

\* Pressure, by which the scheduler warns, never falls below depth, by which it
\* refuses, except for the tasks stuck after a cancellation.
THEOREM PressureCovers == EngineSpec => []PressureCoversDepth
  <1>1. LoadBase => BaseInv
    BY DEF LoadBase, EngineInv
  <1>2. EngineSpec => []NoTaskLost
    BY EngineKeepsQueueInvariants, PTL
  <1> QED BY <1>1, <1>2, LoadBaseHolds, LoadInit, LoadStep, PressureHolds, PTL DEF EngineSpec

-----------------------------------------------------------------------------
(* Tasks that were never retried stay within max_depth *)

\* The open tasks without a retry.
Fresh == {t \in Open : attempts[t] = 0}

\* Only submissions add to them: a task that is handed out with no attempt yet
\* was queued, since a cancelled one is dropped by the scan that would pop it.
LEMMA FreshGrows ==
    ASSUME LoadBase, LoadInv, [EngineNext]_engineVars
    PROVE  \/ \E S \in SUBSET Tasks : Fresh' \subseteq Fresh \cup S /\ Cardinality(S) <= Room
           \/ Fresh' \subseteq Fresh
  <1> USE DEF Fresh, Open, Known
  <1>0. TypeOK /\ HeapsDisjoint /\ (\A e \in handed : e \in Entries)
    BY DEF LoadBase, EngineInv, BaseInv, TypeOK
  <1> USE <1>0 DEF TypeOK
  <1>1. ASSUME NEW S \in SUBSET (Tasks \ Known), SubmitEach(S)
        PROVE  Fresh' \subseteq Fresh \cup S
    BY <1>1 DEF SubmitEach
  <1>2. ASSUME NEW S \in SUBSET Known, RetryEach(S) PROVE Fresh' \subseteq Fresh
    <2>1. \A t \in Tasks : attempts'[t] = IF t \in S THEN attempts[t] + 1 ELSE attempts[t]
      BY <1>2 DEF RetryEach
    <2>2. \A t \in Tasks \ S : status'[t] = status[t]
      BY <1>2 DEF RetryEach
    <2> QED BY <2>1, <2>2
  <1>3. ASSUME NEW w \in Workers, NEW ws \in WorkerStatuses, NEW c \in SUBSET Tasks,
               NEW e \in Entries, ReserveHit(w, ws, c, e)
        PROVE  Fresh' \subseteq Fresh
    <2>1. e[1] \in Tasks /\ e \in ready \cup delayed /\ e = <<e[1], e[2]>> /\ e[2] \in Nat
      BY <1>3, EntryShape DEF ReserveHit, Candidates, Retained, Promoted
    <2>2. e[2] <= attempts[e[1]]
      BY <2>1 DEF HeapsDisjoint
    <2>3. e[1] \notin cancelled
      BY <1>3 DEF ReserveHit, Candidates, Retained, Accepts
    <2>4. attempts[e[1]] = 0 => status[e[1]] = "queued"
      BY <2>1, <2>2, <2>3 DEF LoadInv
    <2>5. status' = [status EXCEPT ![e[1]] = "running"] /\ attempts' = attempts
      BY <1>3 DEF ReserveHit
    <2> QED BY <2>1, <2>4, <2>5 DEF Terminal
  <1>4. ASSUME UNCHANGED <<status, attempts>> PROVE Fresh' \subseteq Fresh
    BY <1>4
  <1>5. ASSUME NEW e \in handed, NEW s \in Terminal, Complete(e[1], s)
        PROVE  Fresh' \subseteq Fresh
    BY <1>5, EntryShape DEF Complete
  <1>6. ASSUME NEW t \in Tasks, Cancel(t) PROVE Fresh' \subseteq Fresh
    BY <1>6 DEF Cancel, Terminal
  <1>7. ASSUME NEW S \in SUBSET (Tasks \ Known), SubmitEach(S), Cardinality(S) <= Room
        PROVE  \E T \in SUBSET Tasks : Fresh' \subseteq Fresh \cup T /\ Cardinality(T) <= Room
    <2>1. S \in SUBSET Tasks /\ Fresh' \subseteq Fresh \cup S
      BY <1>1, <1>7
    <2> HIDE DEF Fresh, Open
    <2> QED BY <1>7, <2>1
  <1>8. ASSUME \/ \E w \in Workers, ws \in WorkerStatuses, c \in SUBSET Tasks :
                    ReserveMiss(w, ws, c)
               \/ Snapshot \/ Tick \/ UNCHANGED queueVars
        PROVE  Fresh' \subseteq Fresh
    BY <1>4, <1>8 DEF ReserveMiss, Snapshot, Tick, queueVars, envelopes
  <1> HIDE DEF Fresh, Open
  <1> QED BY <1>2, <1>3, <1>5, <1>6, <1>7, <1>8, EngineShape DEF LoadBase

\* When there is room, depth and the submitted tasks stay within max_depth; when
\* there is none, nothing was submitted.
LEMMA FreshStep ==
    LoadBase /\ LoadInv /\ FreshWithinLimit /\ [EngineNext]_engineVars => FreshWithinLimit'
  <1> SUFFICES ASSUME LoadBase, LoadInv, FreshWithinLimit, [EngineNext]_engineVars
               PROVE  Cardinality(Fresh') <= MaxDepth
    BY DEF FreshWithinLimit, Fresh
  <1>0. IsFiniteSet(Tasks) /\ MaxDepth \in Nat
    BY BoundAssumption
  <1>1. Open \in SUBSET Tasks /\ Fresh \in SUBSET Open /\ Fresh' \in SUBSET Tasks
    BY DEF Open, Fresh, Known
  <1>2. /\ IsFiniteSet(Open) /\ IsFiniteSet(Fresh) /\ IsFiniteSet(Fresh')
        /\ Cardinality(Open) \in Nat /\ Cardinality(Fresh) \in Nat
        /\ Cardinality(Fresh') \in Nat
    BY <1>0, <1>1, FS_Subset, FS_CardinalityType
  <1>3. Cardinality(Fresh) <= MaxDepth /\ Depth = Cardinality(Open)
    BY DEF FreshWithinLimit, Fresh, Depth, Open
  <1>4. CASE Fresh' \subseteq Fresh
    <2>1. Cardinality(Fresh') <= Cardinality(Fresh)
      BY <1>2, <1>4, FS_Subset
    <2> QED BY <1>0, <1>2, <1>3, <2>1
  <1>5. ASSUME NEW S \in SUBSET Tasks, Fresh' \subseteq Fresh \cup S, Cardinality(S) <= Room
        PROVE  Cardinality(Fresh') <= MaxDepth
    <2>1. IsFiniteSet(S) /\ Cardinality(S) \in Nat
      BY <1>0, FS_Subset, FS_CardinalityType
    <2>2. CASE Depth < MaxDepth
      <3>1. Room = MaxDepth - Depth
        BY <1>0, <1>2, <1>3, <2>2 DEF Room
      <3>2. /\ IsFiniteSet(Fresh \cup S)
            /\ Cardinality(Fresh \cup S) <= Cardinality(Fresh) + Cardinality(S)
        BY <1>2, <2>1, AtMostSum
      <3>3. Cardinality(Fresh') <= Cardinality(Fresh \cup S)
        BY <1>5, <3>2, FS_Subset
      <3>4. Cardinality(Fresh \cup S) \in Nat
        BY <3>2, FS_CardinalityType
      <3>5. Cardinality(Fresh) <= Cardinality(Open)
        BY <1>1, <1>2, FS_Subset
      <3> QED BY <1>0, <1>2, <1>3, <1>5, <2>1, <3>1, <3>2, <3>3, <3>4, <3>5
    <2>3. CASE Depth >= MaxDepth
      <3>1. S = {}
        BY <1>5, <2>1, <2>3, FS_EmptySet DEF Room
      <3> QED BY <1>4, <1>5, <3>1
    <2> QED BY <1>0, <1>2, <1>3, <2>2, <2>3
  <1> QED BY <1>4, <1>5, FreshGrows

\* max_depth holds for the tasks that were never retried, through batches that
\* fail half way, stale entries and late reports.
THEOREM FreshStaysWithinLimit == EngineSpec => []FreshWithinLimit
  <1>1. EngineInit => FreshWithinLimit
    <2> SUFFICES ASSUME EngineInit PROVE FreshWithinLimit
      OBVIOUS
    <2>1. {t \in Open : attempts[t] = 0} = {}
      BY DEF EngineInit, Init, Open, Known
    <2> QED BY <2>1, FS_EmptySet, BoundAssumption DEF FreshWithinLimit
  <1> QED BY <1>1, LoadBaseHolds, LoadInit, LoadStep, FreshStep, PTL DEF EngineSpec

=============================================================================
