\* A player and retired files; the process does not die and every playlist write works.
CONSTANTS
    Programmes <- FilmOnly
    Sources = {"film", "spot", "slate"}
    SlateSrc = "slate"
    NoSource = "none"
    SlateLen = 2
    LiveLead = 1
    Retain = 3
    WindowSizes = {2}
    MaxTime = 6
    MaxStall = 2
    MaxBack = 0
    MaxCrashes = 0
    MaxFailures = 0
    MayLose = FALSE
SPECIFICATION PlayerSpec
INVARIANT PlayerCanDownload
