CONSTANTS
    None = None
    Ints <- MCInts
    MaxInt = 1000

SPECIFICATION Spec

INVARIANTS
    StoredNormal
    CopyAgrees
    GrpcDeliverable
    RegisteredAsRun
    ResultKept

\* A message that has arrived, or was refused, is at its end.
CHECK_DEADLOCK FALSE
