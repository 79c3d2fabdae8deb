------------------------------ MODULE MCCluster ------------------------------
(* Instances of Cluster for TLC: one node with two consume loops.            *)
EXTENDS Cluster, TLC

CONSTANTS t1, t2, w1, c1, c2

Plain ==
    [queue |-> "default", priority |-> 1, delay_seconds |-> 0,
     max_retries |-> 0, retry_backoff_seconds |-> 0,
     affinity |-> {}, depends_on |-> {}]

\* Two tasks, so that one can be new after a restart.
PairSpec == t1 :> Plain @@ t2 :> Plain

\* The same, and t1 is retried once: failure results and late reports.
RetriedPair == [PairSpec EXCEPT ![t1].max_retries = 1]

MCWorkerSpec == w1 :> [queues |-> {"default"}, labels |-> {}]
=============================================================================
