\* Files, numbers, crashes and failed writes: one film, a window of 2 or 3, a lead of 1.
CONSTANTS
    Programmes <- FilmOnly
    Sources = {"film", "spot", "slate"}
    SlateSrc = "slate"
    NoSource = "none"
    SlateLen = 2
    LiveLead = 1
    Retain = 2
    WindowSizes = {2, 3}
    MaxTime = 5
    MaxStall = 2
    MaxBack = 1
    MaxCrashes = 1
    MaxFailures = 1
    MayLose = TRUE
SPECIFICATION Spec
INVARIANTS
    TypeOK
    PlaylistServable
    OverdueNeedsFailures
    SeqBehindClock
PROPERTIES
    LiveStreamSpec
