\* Three clients with a request each, on three channels, one with an entry, and two assets; two services with two migrations.
CONSTANTS
    Services = {api, engine}
    Steps = 2
    Clients = {1, 2, 3}
    Requests <- Some
    FirstChannels <- ThreeChannels
    FirstAssets <- TwoAssets
    FirstEntries <- OneEntry
CHECK_DEADLOCK FALSE
SPECIFICATION Spec
INVARIANTS
    TypeOK
    AppliedOnce
    AcknowledgedStays
    WalkIsComplete
PROPERTIES
    AllOrNothing
    EveryRequestIsAnswered
