\* CUE_LEAD_S below LIVE_LEAD_S, as the defaults have it.
CONSTANTS
    NoClip = NoClip
    NoKey = NoKey
    NoRequest = NoRequest
    film = film
    promo = promo
    next = next
    k1 = k1
    k2 = k2
    Clients = {c1, c2}
    Clips = {NoClip, film, promo, next}
    Keys = {NoKey, k1, k2}
    Workloads <- CommandsOnly
    Tables <- MCTables
    FilmLen <- MCFilmLen
    CueLead = 1
    LiveLead = 2
    MaxAge = 1
    MaxWait = 0
CHECK_DEADLOCK FALSE
SPECIFICATION Spec
INVARIANTS
    MovieIsWhole
