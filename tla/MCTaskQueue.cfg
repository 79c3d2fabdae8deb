CONSTANTS
    t1 = t1
    t2 = t2
    w1 = w1
    None = None
    Tasks = {t1, t2}
    Workers = {w1}
    TaskSpec <- MCTaskSpec
    WorkerSpec <- MCWorkerSpec
    MaxDepth = 1
    LeaseSeconds = 1
    MaxAttempts = 1

SPECIFICATION FairSpec

INVARIANTS
    TypeOK
    LeaseCoversRunning
    NoTaskLost
    RunsBounded
    CancelledNotLeased
    DelayHonoured

PROPERTY
    LeaseRecovered
