\* Events, discontinuities and break markers: a film, a jump in it, breaks with ads and padding; the window is longer than twice the lead.
CONSTANTS
    Programmes <- FilmAndBreaks
    Sources = {"film", "spot", "slate"}
    SlateSrc = "slate"
    NoSource = "none"
    SlateLen = 2
    LiveLead = 1
    Retain = 2
    WindowSizes = {3}
    MaxTime = 4
    MaxStall = 2
    MaxBack = 0
    MaxCrashes = 1
    MaxFailures = 1
    MayLose = FALSE
SPECIFICATION EventsSpec
INVARIANTS
    SubscriberAgrees
    DiscontinuityMarked
    EndMarkerNotLost
PROPERTIES
    NoneLeavesUnannounced
