-------------------------- MODULE MCSchedulerEngine --------------------------
(* Instances of SchedulerEngine for TLC.                                     *)
EXTENDS Backpressure, TLC

CONSTANTS t1, t2, w1, w2, c1, c2

\* One task, retried once.
OneTaskSpec ==
    t1 :> [queue |-> "default", priority |-> 1, delay_seconds |-> 0,
           max_retries |-> 1, retry_backoff_seconds |-> 0,
           affinity |-> {}, depends_on |-> {}]

\* t2 depends on t1; neither is retried.
ChainSpec ==
    t1 :> [queue |-> "default", priority |-> 2, delay_seconds |-> 0,
           max_retries |-> 0, retry_backoff_seconds |-> 0,
           affinity |-> {}, depends_on |-> {}]
    @@
    t2 :> [queue |-> "default", priority |-> 1, delay_seconds |-> 0,
           max_retries |-> 0, retry_backoff_seconds |-> 0,
           affinity |-> {}, depends_on |-> {t1}]

\* t2 depends on t1, which is retried once.
RetriedChainSpec == [ChainSpec EXCEPT ![t1].max_retries = 1]

MCWorkerSpec ==
    w1 :> [queues |-> {"default"}, labels |-> {}]
    @@
    w2 :> [queues |-> {"default"}, labels |-> {}]

\* Workers and calls are alike.
Symmetry == Permutations({w1, w2}) \cup Permutations({c1, c2})
=============================================================================
