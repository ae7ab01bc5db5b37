SPECIFICATION SlateSpec
CONSTANTS
    film = film
    slate = slate
    Sources = {film, slate}
    Slate = slate
    Tick = tick
    Nobody = nobody
    Workers = {w1, w2}
    Size <- SizeOf
    OkTTL = 3
    ErrTTL = 1
    SegTTL = 1
    MaxCached = 2
    MaxSegCache = 2
    MaxTime = 2
INVARIANTS
    SlateAtHand
CHECK_DEADLOCK FALSE
