---------------------------- MODULE Backpressure ----------------------------
(***************************************************************************)
(* The two measures the scheduler takes of its load: depth (broker.py),    *)
(* the tasks in no terminal status, by which submit refuses; and pressure  *)
(* (snapshot), the heap tuples and leases, by which _pressure_reporter and *)
(* the metrics warn.  Retries, stale tuples and cancelled tasks set them   *)
(* apart; this module says how far.  No new state: snapshot is the step    *)
(* ReadSnapshot of SchedulerEngine, and these are the numbers it returns.  *)
(***************************************************************************)
EXTENDS SchedulerEngine

-----------------------------------------------------------------------------

\* QueueSnapshot, taken after the promotion of what is due.
QueueSnapshot ==
    [queued |-> Cardinality(ready \cup Promoted),
     delayed |-> Cardinality(NotDue),
     inflight |-> Cardinality(inflight),
     dead_lettered |-> Cardinality(dead_letter)]

\* active_depth with leased tasks left out
ActiveUnleased == QueueSnapshot.queued + QueueSnapshot.delayed   \* faulty variant

ActiveDepth == QueueSnapshot.queued + QueueSnapshot.delayed + QueueSnapshot.inflight

\* Tasks that take up room in depth.
Open == {t \in Known : status[t] \notin Terminal}

\* Cancelled tasks that a late failure report or a manual retry has set to
\* RETRYING: they take up room, and no scan of the heaps hands them out.
Stuck == {t \in cancelled : status[t] = "retrying"}

\* The engine without heartbeats and their reaper, which leave the queue, the open
\* calls and the executions alone.
LoadNext ==
    \/ \E t \in Tasks : SubmitTask(t) \/ CancelTask(t) \/ RetryTask(t)
    \/ \E batch \in SUBSET Tasks : \E accepted \in SUBSET batch :
          SubmitBatch(batch, accepted)
    \/ \E w \in Workers :
          \/ RegisterWorker(w)
          \/ \E e \in Entries, s \in {"succeeded", "cancelled", "failed"} :
                ReportResult(e, w, s)
          \/ \E c \in Calls : ReserveTask(c, w)
    \/ \E c \in Calls :
          \/ ThreadStart(c) \/ Thread(c) \/ ThreadMiss(c, TRUE)
          \/ ReserveReturn(c) \/ DropHandler(c)
    \/ LeaseReaper
    \/ LeaseReaperSave
    \/ ReadSnapshot
    \/ Clock

LoadSpec == EngineInit /\ [][LoadNext]_engineVars

-----------------------------------------------------------------------------
(* Properties *)

\* Every task that takes up room is in the snapshot, in a heap or under a lease,
\* except the stuck ones; so pressure never falls below depth unnoticed.
PressureCoversDepth == Depth <= ActiveDepth + Cardinality(Stuck)

\* max_depth holds for the tasks that were never retried, through batches that
\* fail half way and late reports.  Retried tasks come on top: retry puts a
\* finished task back without looking at max_depth.
FreshWithinLimit == Cardinality({t \in Open : attempts[t] = 0}) <= MaxDepth

=============================================================================
