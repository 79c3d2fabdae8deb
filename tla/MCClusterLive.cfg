CONSTANTS
    t1 = t1
    t2 = t2
    w1 = w1
    c1 = c1
    c2 = c2
    None = None
    Tasks = {t1, t2}
    Workers = {w1}
    Calls = {c1}
    TaskSpec <- PairSpec
    WorkerSpec <- MCWorkerSpec
    MaxDepth = 1
    LeaseSeconds = 0
    MaxAttempts = 0
    MaxRegistrations = 1
    HeartbeatTimeout = 1
    Capacity = 2
    MaxCrashes = 1

SPECIFICATION ClusterFairSpec

PROPERTIES
    NodeReturns
    TaskServed
