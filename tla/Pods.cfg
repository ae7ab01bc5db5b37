\* Three breaks in a row, one of which an ordinary registry has nothing for.
CONSTANTS
    Breaks <- ThreeBreaks
    Pods = {p1, p2}
    NoPod = NoPod
    Error = Error
    LiveLead = 2
    PublishAhead = 4
    RetryEvery = 1
    Keep = 3
    MaxStall = 1
    MaxTime = 9
    MaxAsks = 9
    FirstRegistries <- AnyRegistry
    NewRegistries <- TwoRegistries
    MaxWrites = 2
CHECK_DEADLOCK FALSE
SPECIFICATION SourcesSpec
INVARIANTS
    BreakOfOnePiece
    NothingHeldBack
    NotTwiceInARow
PROPERTIES
    FileCounts
