CONSTANTS
    Cells <- MCCells
    Segments <- MCSegments
    Anchors <- MCAnchors
    Nominals = {0, 1, 2}
    Span = 64
    Base = 2
    TickRate = 3
    Messages <- MCMessages
    Playlists <- MCPlaylists
    Registries <- MCRegistries
    BreakLengths = {1, 4, 5, 10, 12}
    SegmentSec = 2
SPECIFICATION CodecsSpec
INVARIANTS
    ChildrenTile
    RetimeIsExact
    DecodeInverts
    MarkersTellTheBreak
    ParseIsRight
    FillIsBest
