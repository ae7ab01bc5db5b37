\* Two clients of a hub that remembers two events and buffers one: cut off, disconnected, behind the ring.
CONSTANTS
    Subscribers = {c1, c2}
    RingCap = 2
    BufferCap = 1
    MaxEvents = 4
    MaxLosses = 1
CHECK_DEADLOCK FALSE
SPECIFICATION Spec
INVARIANTS
    NothingMissedOrRepeated
PROPERTY EveryoneCatchesUp
