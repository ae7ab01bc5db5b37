------------------------------ MODULE Resolver ------------------------------
(***************************************************************************)
(* Source playlists and segments: the resolver of services/engine/stitch.go *)
(* as the tick (services/engine/engine.go) and its background downloads use *)
(* it.  The tick warms the caches for the clips it sees coming, then makes  *)
(* the clip that is due, with the slate in its place if it cannot.  What is *)
(* done under resolver.mu is one step; a download, and everything between   *)
(* two locks, is not.                                                       *)
(*                                                                          *)
(* A source is an http source with one playlist and one segment.  Which     *)
(* clips a tick looks at is any choice.  The init section is left out: its  *)
(* cache is filled like the one of playlists, without errors.               *)
(*                                                                          *)
(* An operator that is commented as a mutant is the definition below it     *)
(* with a mistake in it.  Nothing uses it: it stands for a bug that a       *)
(* property has to notice.                                                  *)
(***************************************************************************)
EXTENDS Iteration

CONSTANTS
    Sources,        \* the sources of the schedule
    Slate,          \* SLATE_URI, one of them
    Tick,           \* the loop of the engine
    Workers,        \* bound: the goroutines of prefetchBlob that run at a time
    Nobody,         \* a channel that is closed, or none
    Size,           \* the length of the segment of a source
    OkTTL, ErrTTL,  \* how long a playlist and an error are kept
    SegTTL,         \* how long a segment is kept
    MaxCached,      \* how many playlists are kept
    MaxSegCache,    \* maxSegCacheBytes
    MaxTime         \* bound: the last second a tick may begin at

ASSUME ResolverAssumption ==
    /\ Slate \in Sources /\ Tick \notin Workers /\ Nobody \notin Workers \cup {Tick}
    /\ Size \in [Sources -> 1..MaxSegCache]     \* maxSegmentBytes = maxSegCacheBytes
    /\ {OkTTL, ErrTTL, SegTTL, MaxCached, MaxSegCache, MaxTime} \subseteq Nat \ {0}

VARIABLES
    now,        \* the clock
    slot,       \* the second of the last tick
    seen,       \* the clips this tick has prefetched
    late,       \* whether fetchBudget is used up
    cache,      \* resolver.cache: source -> playlist or error
    inflight,   \* resolver.inflight
    fetching,   \* where the background download of a playlist is
    segs,       \* resolver.segs: source -> when its segment was stored
    segBytes,   \* resolver.segBytes
    flight,     \* resolver.flight: source -> who downloads it and will close the channel
    joined,     \* whose channel a caller of getCached waits for
    pc, on,     \* where the tick and the goroutines are, and with which source
    got,        \* whether the own download of a caller of getCached worked
    clip        \* the clip the tick makes; on[Tick] is this clip or the slate

tickVars  == <<slot, seen, late, clip>>
listVars  == <<cache, inflight, fetching>>
blobVars  == <<segs, segBytes, flight, joined, got>>
vars      == <<now, tickVars, listVars, blobVars, pc, on>>

Callers == Workers \cup {Tick}

-----------------------------------------------------------------------------
\* The cache of playlists.

With(f, k, v) == [x \in DOMAIN f \cup {k} |-> IF x = k THEN v ELSE f[x]]
Only(f, S)    == [x \in DOMAIN f \cap S |-> f[x]]

Fresh(src) ==
    /\ src \in DOMAIN cache
    /\ now - cache[src].at < IF cache[src].ok THEN OkTTL ELSE ErrTTL

BlobFresh(src) == src \in DOMAIN segs /\ now - segs[src] < SegTTL

Good(src) == Fresh(src) /\ cache[src].ok

\* a full cache is cleared of what is not fresh, or altogether
Room(src) ==
    LET fresh == {s \in DOMAIN cache : Fresh(s)} IN
    IF Cardinality(DOMAIN cache) < MaxCached THEN DOMAIN cache
    ELSE IF Cardinality(fresh) < MaxCached THEN fresh ELSE {}

StorePlaylist(src, ok) ==
    cache' = With(Only(cache, Room(src)), src, [ok |-> ok, at |-> now])

-----------------------------------------------------------------------------
\* The cache of segments.

Bytes(S) == SumOver(Size, S)

\* mutant of Kept: the last two files always stay
KeptTwo(src) ==
    LET all == DOMAIN segs \cup {src} IN
    {S \in SUBSET all : src \in S /\ (S = all \/ Cardinality(S) = 2)}

\* what may be left when src has been stored: the oldest of the others go, one by one, until the rest fits
Kept(src) ==
    LET all == DOMAIN segs \cup {src}
        Fits(S) == Bytes(S) <= MaxSegCache \/ S = {src}
    IN  {S \in SUBSET all :
            /\ src \in S /\ Fits(S)
            /\ \A gone \in all \ S, stays \in S \ {src} : segs[gone] <= segs[stays]
            /\ S # all => \E gone \in all \ S :
                  /\ \A x \in all \ S : segs[x] <= segs[gone]
                  /\ ~ Fits(S \cup {gone})}

\* mutant of Replaced: the segment that is overwritten is not taken off
ReplacedNothing(src) == 0

\* the bytes of the segment that is overwritten
Replaced(src) == IF src \in DOMAIN segs THEN Size[src] ELSE 0

StoreBlob(src) ==
    \E S \in Kept(src) :
        /\ segs' = Only(With(segs, src, now), S)
        /\ segBytes' = segBytes - Replaced(src) + Size[src] - Bytes(DOMAIN segs \ (S \cup {src}))

-----------------------------------------------------------------------------

\* engine.prepare has downloaded the slate, or could not
Init ==
    /\ now = 1 /\ slot = 0 /\ seen = {} /\ late = FALSE
    /\ \E there \in SUBSET {Slate} :
        /\ cache = [s \in there |-> [ok |-> TRUE, at |-> 1]]
        /\ segs = [s \in there |-> 1] /\ segBytes = Bytes(there)
    /\ inflight = {} /\ fetching = [s \in Sources |-> "idle"] /\ flight = <<>>
    /\ pc = [p \in Callers |-> "idle"] /\ on = [p \in Callers |-> Slate]
    /\ got = [p \in Callers |-> FALSE] /\ joined = [p \in Callers |-> Nobody]
    /\ clip = Slate

Goto(p, l) == pc' = [pc EXCEPT ![p] = l]

\* what a call held is gone when it returns
Return(p) ==
    /\ Goto(p, "idle")
    /\ on' = [on EXCEPT ![p] = Slate]

TickOver ==
    /\ Return(Tick)
    /\ seen' = {} /\ late' = FALSE /\ clip' = Slate

\* The clock.  A tick that has something to do for a second begins in that second.
Clock ==
    /\ now < MaxTime
    /\ now' = now + 1
    /\ UNCHANGED <<tickVars, listVars, blobVars, pc, on>>

\* a tick begins with its prefetches
TickStart ==
    /\ pc[Tick] = "idle" /\ slot < now
    /\ slot' = now
    /\ Goto(Tick, "plan")
    /\ UNCHANGED <<now, seen, late, clip, listVars, blobVars, on>>

\* prefetchClip, its look at the cache of playlists
PrefetchClip(c) ==
    /\ pc[Tick] = "plan" /\ c \notin seen
    /\ seen' = seen \cup {c}
    /\ on' = [on EXCEPT ![Tick] = c]
    /\ Goto(Tick, IF Good(c) THEN "lookup" ELSE "warm")
    /\ UNCHANGED <<now, slot, late, clip, listVars, blobVars>>

\* prefetch: a download of the playlist in the background, unless it is there or on its way
Prefetch ==
    /\ pc[Tick] = "warm"
    /\ Goto(Tick, "plan")
    /\ LET c == on[Tick] IN
       IF Fresh(c) \/ c \in inflight
       THEN UNCHANGED <<inflight, fetching>>
       ELSE /\ inflight' = inflight \cup {c}
            /\ fetching' = [fetching EXCEPT ![c] = "look"]
    /\ UNCHANGED <<now, tickVars, cache, blobVars, on>>

\* the goroutine of prefetch: playlist, which looks at the cache again
FetchLooks(s) ==
    /\ fetching[s] = "look"
    /\ fetching' = [fetching EXCEPT ![s] = IF Fresh(s) THEN "done" ELSE "get"]
    /\ UNCHANGED <<now, tickVars, cache, inflight, blobVars, pc, on>>

FetchStores(s, ok) ==
    /\ fetching[s] = "get"
    /\ StorePlaylist(s, ok)
    /\ fetching' = [fetching EXCEPT ![s] = "done"]
    /\ UNCHANGED <<now, slot, seen, late, clip, inflight, blobVars, pc, on>>

FetchEnds(s) ==
    /\ fetching[s] = "done"
    /\ fetching' = [fetching EXCEPT ![s] = "idle"]
    /\ inflight' = inflight \ {s}
    /\ UNCHANGED <<now, tickVars, cache, blobVars, pc, on>>

\* lookup in prefetchClip, which has just seen a good playlist but looks again
LookupAhead ==
    /\ pc[Tick] = "lookup"
    /\ Goto(Tick, IF Good(on[Tick]) THEN "blob" ELSE IF Fresh(on[Tick]) THEN "plan" ELSE "lookup_get")
    /\ UNCHANGED <<now, tickVars, listVars, blobVars, on>>

LookupGets(ok) ==
    /\ pc[Tick] = "lookup_get"
    /\ StorePlaylist(on[Tick], ok)
    /\ Goto(Tick, IF ok THEN "blob" ELSE "plan")
    /\ UNCHANGED <<now, slot, seen, late, clip, inflight, fetching, blobVars, on>>

\* prefetchBlob
PrefetchBlob ==
    /\ pc[Tick] = "blob"
    /\ LET c == on[Tick] IN
       IF BlobFresh(c) \/ c \in DOMAIN flight
       THEN Goto(Tick, "plan") /\ UNCHANGED on
       ELSE \E w \in Workers :
              /\ pc[w] = "idle"
              /\ pc' = [pc EXCEPT ![w] = "look", ![Tick] = "plan"]
              /\ on' = [on EXCEPT ![w] = c]
    /\ UNCHANGED <<now, tickVars, listVars, blobVars>>

-----------------------------------------------------------------------------
\* getCached

\* mutant of Running: a download that is under way is not noticed
RunningNever(src) == FALSE

\* a download of src is under way
Running(src) == src \in DOMAIN flight

\* a call of getCached is over
Over(p, ok) ==
    \/ p # Tick /\ Return(p)
    \/ p = Tick /\ Goto(p, IF ok THEN "made" ELSE "failed") /\ UNCHANGED on

\* a look at the cache and at the downloads under way
Look(p) ==
    /\ pc[p] = "look"
    /\ LET src == on[p] IN
       \/ /\ BlobFresh(src)
          /\ Over(p, TRUE)
          /\ UNCHANGED <<flight, joined>>
       \/ /\ ~ BlobFresh(src) /\ Running(src)
          /\ Goto(p, "wait")
          /\ joined' = [joined EXCEPT ![p] = flight[src]]
          /\ UNCHANGED <<flight, on>>
       \/ /\ ~ BlobFresh(src) /\ ~ Running(src)
          /\ Goto(p, "download")
          /\ flight' = With(flight, src, p)
          /\ UNCHANGED <<joined, on>>
    /\ UNCHANGED <<now, tickVars, listVars, segs, segBytes, got>>

\* the channel is closed: look again
LookAgain(p) ==
    /\ pc[p] = "wait" /\ joined[p] = Nobody
    /\ Goto(p, "look")
    /\ UNCHANGED <<now, tickVars, listVars, blobVars, on>>

\* the context of the tick is over before the download of somebody else is
GivesUpWaiting ==
    /\ pc[Tick] = "wait" /\ late
    /\ Goto(Tick, "failed")
    /\ joined' = [joined EXCEPT ![Tick] = Nobody]
    /\ UNCHANGED <<now, tickVars, listVars, segs, segBytes, flight, got, on>>

\* mutant of Landed: a download that failed is still registered
LandedIfGood(src, ok) == IF ok THEN Only(flight, Sources \ {src}) ELSE flight

\* the downloads under way when the one of src is over
Landed(src, ok) == Only(flight, Sources \ {src})

\* the own download is over
Download(p, ok) ==
    /\ pc[p] = "download"
    /\ ok => ~ (p = Tick /\ late)
    /\ IF ok THEN StoreBlob(on[p]) ELSE UNCHANGED <<segs, segBytes>>
    /\ flight' = Landed(on[p], ok)
    /\ got' = [got EXCEPT ![p] = ok]
    /\ Goto(p, "close")
    /\ UNCHANGED <<now, slot, seen, late, clip, listVars, joined, on>>

\* close, outside the lock: whoever waits for this channel may go on
CloseFlight(p) ==
    /\ pc[p] = "close"
    /\ Over(p, got[p])
    /\ joined' = [q \in Callers |-> IF joined[q] = p THEN Nobody ELSE joined[q]]
    /\ got' = [got EXCEPT ![p] = FALSE]
    /\ UNCHANGED <<now, tickVars, listVars, segs, segBytes, flight>>

GetCached(p) == Look(p) \/ LookAgain(p) \/ (\E ok \in BOOLEAN : Download(p, ok)) \/ CloseFlight(p)

-----------------------------------------------------------------------------
\* The release of a clip.

\* resolve: the clip is made within fetchBudget
Resolve(c) ==
    /\ pc[Tick] = "plan"
    /\ clip' = c
    /\ on' = [on EXCEPT ![Tick] = c]
    /\ Goto(Tick, "prepare")
    /\ UNCHANGED <<now, slot, seen, late, listVars, blobVars>>

NothingDue ==
    /\ pc[Tick] = "plan"
    /\ TickOver
    /\ UNCHANGED <<now, slot, listVars, blobVars>>

\* fetchBudget is used up
Deadline ==
    /\ ~ late
    /\ pc[Tick] \in {"playlist", "wait", "download"}
    /\ late' = TRUE
    /\ UNCHANGED <<now, slot, seen, clip, listVars, blobVars, pc, on>>

\* prepare: the playlist from the cache, or from the network
Prepare ==
    /\ pc[Tick] = "prepare"
    /\ Goto(Tick, IF Good(on[Tick]) THEN "look" ELSE IF Fresh(on[Tick]) THEN "failed" ELSE "playlist")
    /\ UNCHANGED <<now, tickVars, listVars, blobVars, on>>

PlaylistGets(ok) ==
    /\ pc[Tick] = "playlist"
    /\ ok => ~ late
    /\ StorePlaylist(on[Tick], ok)
    /\ Goto(Tick, IF ok THEN "look" ELSE "failed")
    /\ UNCHANGED <<now, slot, seen, late, clip, inflight, fetching, blobVars, on>>

Made ==
    /\ pc[Tick] = "made"
    /\ TickOver
    /\ UNCHANGED <<now, slot, listVars, blobVars>>

\* the slate in place of the clip, with what is left of the budget
SlateInstead ==
    /\ pc[Tick] = "failed" /\ on[Tick] = clip /\ clip # Slate
    /\ on' = [on EXCEPT ![Tick] = Slate]
    /\ Goto(Tick, "prepare")
    /\ UNCHANGED <<now, tickVars, listVars, blobVars>>

\* there is nothing to show for this second
Drop ==
    /\ pc[Tick] = "failed" /\ on[Tick] = Slate
    /\ TickOver
    /\ UNCHANGED <<now, slot, listVars, blobVars>>

TickStep ==
    \/ \E c \in Sources : PrefetchClip(c) \/ Resolve(c)
    \/ Prefetch \/ LookupAhead \/ PrefetchBlob \/ NothingDue
    \/ \E ok \in BOOLEAN : LookupGets(ok) \/ PlaylistGets(ok)
    \/ Prepare \/ GivesUpWaiting \/ Made \/ SlateInstead \/ Drop
    \/ GetCached(Tick)

FetchStep(s) == FetchLooks(s) \/ (\E ok \in BOOLEAN : FetchStores(s, ok)) \/ FetchEnds(s)

Next ==
    \/ Clock \/ TickStart \/ Deadline \/ TickStep
    \/ \E s \in Sources : FetchStep(s)
    \/ \E w \in Workers : GetCached(w)

Spec == Init /\ [][Next]_vars

\* the engine has found the slate when it started
SlateSpec == Init /\ Slate \in DOMAIN segs /\ [][Next]_vars

-----------------------------------------------------------------------------
\* Properties.

\* The types of the variables; neither cache grows over its limit, whatever is fresh: segments are within
\* maxSegCacheBytes and playlists within maxCached; and the count of bytes is never negative.
TypeOK ==
    /\ now \in 1..MaxTime /\ slot \in 0..now /\ seen \subseteq Sources
    /\ late \in BOOLEAN /\ clip \in Sources
    /\ DOMAIN cache \subseteq Sources
    /\ \A s \in DOMAIN cache : cache[s] \in [ok : BOOLEAN, at : 1..now]
    /\ inflight \subseteq Sources
    /\ fetching \in [Sources -> {"idle", "look", "get", "done"}]
    /\ DOMAIN segs \subseteq Sources /\ \A s \in DOMAIN segs : segs[s] \in 1..now
    /\ segBytes \in Nat
    /\ Bytes(DOMAIN segs) <= MaxSegCache /\ Cardinality(DOMAIN cache) <= MaxCached
    /\ DOMAIN flight \subseteq Sources /\ \A s \in DOMAIN flight : flight[s] \in Callers
    /\ pc \in [Callers -> {"idle", "plan", "warm", "lookup", "lookup_get", "blob", "look", "wait",
                           "download", "close", "made", "failed", "prepare", "playlist"}]
    /\ on \in [Callers -> Sources] /\ got \in [Callers -> BOOLEAN]
    /\ joined \in [Callers -> Callers \cup {Nobody}]

\* storeBlob keeps the count of bytes by differences, over files that are stored again and files that
\* make room; it is always what the cached segments add up to.
BytesCounted == segBytes = Bytes(DOMAIN segs)

\* The tick and the goroutines of prefetchBlob never download one segment at the same time, and the
\* channel a caller closes is the one it made ("A download that is already running is joined, not
\* repeated"): otherwise the second close would be one of nil.
OneDownload ==
    \A p \in Callers : pc[p] = "download" =>
        /\ on[p] \in DOMAIN flight /\ flight[on[p]] = p
        /\ \A q \in Callers \ {p} : pc[q] = "download" => on[q] # on[p]

\* Nobody waits for a download that is over, has failed or was given up: the one whose channel a caller waits
\* for is still at work on the same file and will close it.
WaitsForSomeone ==
    \A p \in Callers : pc[p] = "wait" /\ joined[p] # Nobody =>
        LET q == joined[p] IN q # p /\ pc[q] \in {"download", "close"} /\ on[q] = on[p]

\* "the slate is what airs when anything else fails, so it must be at hand: download it now": an engine that
\* has found the slate when it started never drops a clip because of a network that fails later.
SlateAtHand == ~ (pc[Tick] = "failed" /\ on[Tick] = Slate)

=============================================================================
