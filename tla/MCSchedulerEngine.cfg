CONSTANTS
    t1 = t1
    t2 = t2
    w1 = w1
    w2 = w2
    c1 = c1
    c2 = c2
    None = None
    Tasks = {t1}
    Workers = {w1, w2}
    Calls = {c1, c2}
    TaskSpec <- OneTaskSpec
    WorkerSpec <- MCWorkerSpec
    MaxDepth = 1
    LeaseSeconds = 0
    MaxAttempts = 1
    MaxRegistrations = 2
    HeartbeatTimeout = 1

SPECIFICATION LoadSpec

SYMMETRY Symmetry

INVARIANTS
    TerminalSaved
    ExecutedOnce
