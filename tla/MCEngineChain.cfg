CONSTANTS
    t1 = t1
    t2 = t2
    w1 = w1
    w2 = w2
    c1 = c1
    c2 = c2
    None = None
    Tasks = {t1, t2}
    Workers = {w1}
    Calls = {c1}
    TaskSpec <- RetriedChainSpec
    WorkerSpec <- MCWorkerSpec
    MaxDepth = 1
    LeaseSeconds = 0
    MaxAttempts = 2
    MaxRegistrations = 1
    HeartbeatTimeout = 3

SPECIFICATION LoadSpec

INVARIANTS
    DependencyGate
    PressureCoversDepth
    FreshWithinLimit
