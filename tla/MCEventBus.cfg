CONSTANTS
    c1 = c1
    c2 = c2
    Connections = {c1, c2}
    ReplaySize = 2
    QueueSize = 2
    MaxEvents = 5

SPECIFICATION Spec

INVARIANTS
    BusTypeOK
    InOrder
    NothingSkipped

PROPERTIES
    EventDelivered
    GoneUnsubscribed

\* MaxEvents ends every behaviour.
CHECK_DEADLOCK FALSE
