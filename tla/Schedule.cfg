\* Two clients: commands on a film, or replacements and commands with repeats.  The moment of a command is ahead of what
\* the engine has released, by the wait for the row and the age of the engine's copy, an outage of a second included.
CONSTANTS
    NoClip = NoClip
    NoKey = NoKey
    NoRequest = NoRequest
    film = film
    promo = promo
    next = next
    k1 = k1
    k2 = k2
    Clients = {c1, c2}
    Clips = {NoClip, film, promo, next}
    Keys = {NoKey, k1, k2}
    Workloads <- CommandsAndEdits
    Tables <- MCTables
    FilmLen <- MCFilmLen
    CueLead = 5
    LiveLead = 1
    MaxAge = 2
    MaxWait = 1
SYMMETRY ClientSymmetry
CHECK_DEADLOCK FALSE
SPECIFICATION Spec
INVARIANTS
    MovieIsWhole
    KeyChangesOnce
    NoOverlap
PROPERTIES
    ChangesWhatItRead
