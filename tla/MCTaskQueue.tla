---------------------------- MODULE MCTaskQueue ----------------------------
(* Instances of TaskQueue for TLC: two tasks and a worker.                 *)
EXTENDS TaskQueue, TLC

CONSTANTS t1, t2, w1

\* t1 is urgent, delayed and retried once after a backoff; t2 depends on t1,
\* needs a worker with one of two labels and is not retried.
MCTaskSpec ==
    t1 :> [queue |-> "default", priority |-> 1, delay_seconds |-> 1,
           max_retries |-> 1, retry_backoff_seconds |-> 1,
           affinity |-> {}, depends_on |-> {}]
    @@
    t2 :> [queue |-> "default", priority |-> 2, delay_seconds |-> 0,
           max_retries |-> 0, retry_backoff_seconds |-> 0,
           affinity |-> {"cpu", "gpu"}, depends_on |-> {t1}]

MCWorkerSpec == w1 :> [queues |-> {"default"}, labels |-> {"gpu"}]
============================================================================
