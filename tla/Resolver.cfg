SPECIFICATION Spec
CONSTANTS
    film = film
    slate = slate
    Sources = {film, slate}
    Slate = slate
    Tick = tick
    Nobody = nobody
    Workers = {w1, w2}
    Size <- SizeOf
    OkTTL = 1
    ErrTTL = 1
    SegTTL = 1
    MaxCached = 2
    MaxSegCache = 2
    MaxTime = 2
INVARIANTS
    TypeOK
    BytesCounted
    OneDownload
    WaitsForSomeone
CHECK_DEADLOCK FALSE
