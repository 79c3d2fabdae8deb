CONSTANTS
    t1 = t1
    t2 = t2
    w1 = w1
    w2 = w2
    c1 = c1
    c2 = c2
    None = None
    Tasks = {t1}
    Workers = {w1}
    Calls = {c1}
    TaskSpec <- OneTaskSpec
    WorkerSpec <- MCWorkerSpec
    MaxDepth = 1
    LeaseSeconds = 0
    MaxAttempts = 3
    MaxRegistrations = 1
    HeartbeatTimeout = 1

SPECIFICATION EngineSpec

PROPERTY
    RetryRequeues
