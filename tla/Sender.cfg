\* Two receivers, one of which may hang; queues of two events, a buffer of one, a ring of two.
CONSTANTS
    Pump = pump
    Subscribers = {pump}
    RingCap = 2
    BufferCap = 1
    MaxEvents = 4
    NumEndpoints = 2
    QueueCap = 2
    Retries = 1
    Alive = {2}
CHECK_DEADLOCK FALSE
SPECIFICATION Spec
INVARIANTS
    Accounted
    NewestIsKept
PROPERTIES
    InOrder
    OthersAreServed
