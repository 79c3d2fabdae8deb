CONSTANTS
    d1 = d1
    d2 = d2
    d3 = d3
    c1 = c1
    c2 = c2
    None = None
    Deliveries = {d1, d2, d3}
    Kind <- MCKind
    Consumers = {c1, c2}
    Threads = 1
    PipeCapacity = 2

SPECIFICATION RuntimeFairSpec

INVARIANTS
    NodeTypeOK
    CallAwaited

PROPERTIES
    ImplementsNode
    NoLateStart
    ExecutionEnds
    StopEnds

\* A stopped node does nothing more.
CHECK_DEADLOCK FALSE
