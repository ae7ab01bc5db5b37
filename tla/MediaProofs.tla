---------------------------- MODULE MediaProofs -----------------------------
(***************************************************************************)
(* Proofs about what a channel takes from sources and puts out.  The caches *)
(* of the resolver and the downloads that its callers share, for any number *)
(* of sources and of goroutines, any sizes and any limits.  The formats of  *)
(* segments, of messages and of playlists, whatever is in them.             *)
(***************************************************************************)
EXTENDS Resolver, Codecs, IterationProofs, SequenceTheorems

-----------------------------------------------------------------------------
(* The inductive invariant *)

TickOK ==
    /\ now \in 1..MaxTime /\ slot \in 0..now /\ seen \subseteq Sources
    /\ late \in BOOLEAN /\ clip \in Sources
    /\ inflight \subseteq Sources
    /\ fetching \in [Sources -> {"idle", "look", "get", "done"}]

CacheOK ==
    /\ IsFiniteSet(DOMAIN cache) /\ DOMAIN cache \subseteq Sources
    /\ \A s \in DOMAIN cache : cache[s] \in [ok : BOOLEAN, at : 1..now]
    /\ Cardinality(DOMAIN cache) <= MaxCached

SegsOK ==
    /\ IsFiniteSet(DOMAIN segs) /\ DOMAIN segs \subseteq Sources
    /\ \A s \in DOMAIN segs : segs[s] \in 1..now
    /\ Bytes(DOMAIN segs) <= MaxSegCache
    /\ BytesCounted

CallersOK ==
    /\ DOMAIN flight \subseteq Sources /\ \A s \in DOMAIN flight : flight[s] \in Callers
    /\ pc \in [Callers -> {"idle", "plan", "warm", "lookup", "lookup_get", "blob", "look", "wait",
                           "download", "close", "made", "failed", "prepare", "playlist"}]
    /\ on \in [Callers -> Sources] /\ got \in [Callers -> BOOLEAN]
    /\ joined \in [Callers -> Callers \cup {Nobody}]

\* a download that is registered is one that somebody makes, ...
FlightOwned == \A s \in DOMAIN flight : pc[flight[s]] = "download" /\ on[flight[s]] = s

\* ... one that somebody makes is registered for him, ...
DownloadRegistered == \A p \in Callers : pc[p] = "download" => on[p] \in DOMAIN flight /\ flight[on[p]] = p

\* ... and only who waits has a channel to wait for
JoinedWaits == \A p \in Callers : joined[p] # Nobody => pc[p] = "wait"

Downloads == FlightOwned /\ DownloadRegistered /\ JoinedWaits /\ WaitsForSomeone

IndInv == TickOK /\ CacheOK /\ SegsOK /\ CallersOK /\ Downloads

-----------------------------------------------------------------------------
(* Storing *)

\* The sizes of segments, and what they add up to, are numbers.
LEMMA SizesAreNumbers ==
    /\ \A s \in Sources : Size[s] \in Nat /\ Size[s] <= MaxSegCache
    /\ \A S \in SUBSET Sources : IsFiniteSet(S) => Bytes(S) \in Nat
<1>1. \A s \in Sources : Size[s] \in Nat /\ Size[s] <= MaxSegCache
  BY ResolverAssumption
<1>2. \A S \in SUBSET Sources : IsFiniteSet(S) => Bytes(S) \in Nat
  BY <1>1, SumType DEF Bytes
<1> QED BY <1>1, <1>2

\* The cache of playlists stays within its limit, because room is made first.
LEMMA StorePlaylistKeeps ==
    ASSUME CacheOK, TickOK, NEW src \in Sources, NEW ok \in BOOLEAN, StorePlaylist(src, ok), now' = now
    PROVE  CacheOK'
<1> DEFINE R == Room(src)
           D == DOMAIN cache
<1>1. R \in SUBSET D /\ IsFiniteSet(R) /\ Cardinality(R) < MaxCached
  <2>1. \A S \in SUBSET D : IsFiniteSet(S) /\ Cardinality(S) \in Nat
    BY FS_Subset, FS_CardinalityType DEF CacheOK
  <2>2. Cardinality({}) = 0 /\ MaxCached \in Nat \ {0}
    BY FS_EmptySet, ResolverAssumption
  <2>3. CASE Cardinality(D) < MaxCached
    BY <2>1, <2>3 DEF Room
  <2>4. CASE ~ (Cardinality(D) < MaxCached)
    BY <2>1, <2>2, <2>4 DEF Room
  <2> QED BY <2>3, <2>4
<1>2. DOMAIN cache' = R \cup {src}
  BY <1>1 DEF StorePlaylist, With, Only
<1>3. IsFiniteSet(R \cup {src}) /\ Cardinality(R \cup {src}) <= MaxCached
  <2> HIDE DEF R
  <2>1. IsFiniteSet(R \cup {src})
        /\ Cardinality(R \cup {src}) = IF src \in R THEN Cardinality(R) ELSE Cardinality(R) + 1
    BY <1>1, FS_AddElement
  <2>2. Cardinality(R) \in Nat /\ MaxCached \in Nat
    BY <1>1, FS_CardinalityType, ResolverAssumption
  <2> QED BY <1>1, <2>1, <2>2
<1>4. \A s \in DOMAIN cache' : cache'[s] \in [ok : BOOLEAN, at : 1..now]
  BY <1>1 DEF StorePlaylist, With, Only, CacheOK, TickOK
<1>5. DOMAIN cache' \subseteq Sources
  BY <1>1, <1>2 DEF CacheOK
<1> HIDE DEF R
<1> QED BY <1>2, <1>3, <1>4, <1>5 DEF CacheOK

\* The cache of segments stays within its limit, and the differences add up: what is overwritten and what makes room
\* is taken off, what comes is added.
LEMMA StoreBlobKeeps ==
    ASSUME SegsOK, TickOK, NEW src \in Sources, StoreBlob(src), now' = now
    PROVE  SegsOK'
<1> DEFINE D == DOMAIN segs
           all == D \cup {src}
<1>1. PICK S \in SUBSET all :
        /\ src \in S /\ (Bytes(S) <= MaxSegCache \/ S = {src})
        /\ segs' = Only(With(segs, src, now), S)
        /\ segBytes' = segBytes - Replaced(src) + Size[src] - Bytes(D \ (S \cup {src}))
  BY DEF StoreBlob, Kept
<1>2. DOMAIN segs' = S
  BY <1>1 DEF Only, With
<1>3. all \in SUBSET Sources /\ IsFiniteSet(all) /\ IsFiniteSet(S) /\ IsFiniteSet(D)
  BY <1>1, FS_AddElement, FS_Subset DEF SegsOK
<1>4. Bytes(S) <= MaxSegCache
  <2>1. CASE S = {src}
    <3>1. IsFiniteSet({}) /\ src \notin {} /\ {} \cup {src} = S
      BY <2>1, FS_EmptySet
    <3>2. SumOver(Size, {} \cup {src}) = Size[src] + SumOver(Size, {})
      BY <3>1, SumAdd, SizesAreNumbers
    <3>3. Bytes(S) = Size[src] + 0
      BY <3>1, <3>2, SumEmpty DEF Bytes
    <3> QED BY <3>3, SizesAreNumbers
  <2> QED BY <1>1, <2>1
<1>5. Bytes(all) = segBytes - Replaced(src) + Size[src]
  <2>1. segBytes = Bytes(D) /\ Bytes(D) \in Nat /\ Size[src] \in Nat
    BY <1>3, SizesAreNumbers DEF SegsOK, BytesCounted
  <2>2. CASE src \in D
    <3>1. all = D
      BY <2>2
    <3> QED BY <2>1, <2>2, <3>1 DEF Replaced
  <2>3. CASE src \notin D
    <3>1. \A y \in D \cup {src} : Size[y] \in Nat
      BY <1>3, SizesAreNumbers
    <3>2. SumOver(Size, D \cup {src}) = Size[src] + SumOver(Size, D)
      BY <1>3, <2>3, <3>1, SumAdd
    <3> QED BY <2>1, <2>3, <3>2 DEF Replaced, Bytes
  <2> QED BY <2>2, <2>3
<1>6. Bytes(all) = Bytes(S) + Bytes(D \ (S \cup {src}))
  <2>1. all \ S = D \ (S \cup {src})
    BY <1>1
  <2>2. \A y \in all : Size[y] \in Nat
    BY <1>3, SizesAreNumbers
  <2>3. SumOver(Size, all) = SumOver(Size, S) + SumOver(Size, all \ S)
    BY <1>3, <2>2, SumSplit
  <2> QED BY <2>1, <2>3 DEF Bytes
<1>7. segBytes' = Bytes(S)
  <2>1. IsFiniteSet(D \ (S \cup {src})) /\ D \ (S \cup {src}) \in SUBSET Sources
    BY <1>3, FS_Subset
  <2>2. Bytes(S) \in Nat /\ Bytes(D \ (S \cup {src})) \in Nat
    BY <1>1, <1>3, <2>1, SizesAreNumbers
  <2>3. segBytes \in Nat /\ Replaced(src) \in Nat /\ Size[src] \in Nat
    BY <1>3, SizesAreNumbers DEF SegsOK, BytesCounted, Replaced
  <2> QED BY <1>1, <1>5, <1>6, <2>2, <2>3
<1>8. \A s \in DOMAIN segs' : segs'[s] \in 1..now
  BY <1>1 DEF Only, With, SegsOK, TickOK
<1>9. DOMAIN segs' \subseteq Sources
  BY <1>1, <1>2, <1>3
<1>10. Bytes(DOMAIN segs)' = Bytes(S)
  BY <1>2 DEF Bytes
<1> QED BY <1>2, <1>3, <1>4, <1>7, <1>8, <1>9, <1>10 DEF SegsOK, BytesCounted
-----------------------------------------------------------------------------
(* Steps *)

\* What a step may do to the clock and to the caches.
LEMMA Effects ==
    ASSUME TickOK, CallersOK, Next
    PROVE  /\ now' \in {now, now + 1}
           /\ cache' = cache \/ \E s \in Sources, ok \in BOOLEAN : StorePlaylist(s, ok) /\ now' = now
           /\ UNCHANGED <<segs, segBytes>> \/ \E s \in Sources : StoreBlob(s) /\ now' = now
<1> USE DEF Callers, CallersOK, tickVars, listVars, blobVars
<1>1. CASE Clock \/ TickStart \/ Deadline
  BY <1>1 DEF Clock, TickStart, Deadline
<1>2. CASE \E s \in Sources : FetchStep(s)
  BY <1>2 DEF FetchStep, FetchLooks, FetchStores, FetchEnds
<1>3. ASSUME NEW p \in Callers, GetCached(p) PROVE
        /\ now' = now /\ cache' = cache
        /\ UNCHANGED <<segs, segBytes>> \/ \E s \in Sources : StoreBlob(s)
  BY <1>3 DEF GetCached, Look, LookAgain, Download, CloseFlight
<1>4. CASE \E c \in Sources : PrefetchClip(c) \/ Resolve(c)
  BY <1>4 DEF PrefetchClip, Resolve
<1>5. CASE Prefetch \/ LookupAhead \/ PrefetchBlob \/ NothingDue
  BY <1>5 DEF Prefetch, LookupAhead, PrefetchBlob, NothingDue
<1>6. CASE \E ok \in BOOLEAN : LookupGets(ok) \/ PlaylistGets(ok)
  BY <1>6 DEF LookupGets, PlaylistGets
<1>7. CASE Prepare \/ GivesUpWaiting \/ Made \/ SlateInstead \/ Drop
  BY <1>7 DEF Prepare, GivesUpWaiting, Made, SlateInstead, Drop
<1> QED BY <1>1, <1>2, <1>3, <1>4, <1>5, <1>6, <1>7 DEF Next, TickStep

\* The caches keep within their limits.
LEMMA CachesKept ==
    ASSUME TickOK, CacheOK, SegsOK, CallersOK, Next
    PROVE  CacheOK' /\ SegsOK'
<1>1. now' \in {now, now + 1} /\ now \in Int
  BY Effects DEF TickOK
<1>2. CacheOK'
  <2>1. CASE cache' = cache
    BY <1>1, <2>1 DEF CacheOK
  <2> QED BY <2>1, Effects, StorePlaylistKeeps
<1>3. SegsOK'
  <2>1. CASE UNCHANGED <<segs, segBytes>>
    BY <1>1, <2>1 DEF SegsOK, BytesCounted, Bytes
  <2> QED BY <2>1, Effects, StoreBlobKeeps
<1> QED BY <1>2, <1>3

\* The types of what the tick keeps.
LEMMA TickKept ==
    ASSUME TickOK, CallersOK, Next
    PROVE  TickOK'
<1> USE ResolverAssumption DEF Callers, CallersOK, TickOK, tickVars, listVars, blobVars
<1>1. CASE Clock \/ TickStart
  BY <1>1 DEF Clock, TickStart
<1>2. CASE Deadline
  BY <1>2 DEF Deadline
<1>3. CASE \E s \in Sources : FetchStep(s)
  BY <1>3 DEF FetchStep, FetchLooks, FetchStores, FetchEnds
<1>4. ASSUME NEW p \in Callers, GetCached(p) PROVE TickOK'
  BY <1>4 DEF GetCached, Look, LookAgain, Download, CloseFlight
<1>5. CASE \E c \in Sources : PrefetchClip(c) \/ Resolve(c)
  BY <1>5 DEF PrefetchClip, Resolve
<1>6. CASE Prefetch
  BY <1>6 DEF Prefetch
<1>7. CASE LookupAhead \/ PrefetchBlob \/ NothingDue
  BY <1>7 DEF LookupAhead, PrefetchBlob, NothingDue, TickOver
<1>8. CASE \E ok \in BOOLEAN : LookupGets(ok) \/ PlaylistGets(ok)
  BY <1>8 DEF LookupGets, PlaylistGets
<1>9. CASE Prepare \/ GivesUpWaiting \/ Made \/ SlateInstead \/ Drop
  BY <1>9 DEF Prepare, GivesUpWaiting, Made, SlateInstead, Drop, TickOver
<1> QED BY <1>1, <1>2, <1>3, <1>4, <1>5, <1>6, <1>7, <1>8, <1>9 DEF Next, TickStep

\* A caller of getCached that looks joins a download that is under way, or registers its own.
LEMMA LookKeeps ==
    ASSUME CallersOK, Downloads, NEW p \in Callers, Look(p)
    PROVE  CallersOK' /\ Downloads'
<1> DEFINE src == on[p]
<1>1. Tick \in Callers /\ Slate \in Sources /\ Nobody \notin Callers /\ src \in Sources /\ pc[p] = "look"
  BY ResolverAssumption DEF Callers, CallersOK, Look
<1>2. CASE Over(p, TRUE) /\ UNCHANGED <<flight, joined, got>>
  <2>1. CallersOK'
    BY <1>1, <1>2 DEF CallersOK, Over, Return, Goto
  <2>2. Downloads'
    BY <1>1, <1>2 DEF CallersOK, Downloads, FlightOwned, DownloadRegistered, JoinedWaits, WaitsForSomeone, Over, Return, Goto
  <2> QED BY <2>1, <2>2
<1>3. CASE /\ Running(src) /\ Goto(p, "wait") /\ joined' = [joined EXCEPT ![p] = flight[src]]
           /\ UNCHANGED <<flight, on, got>>
  <2>1. CallersOK'
    BY <1>1, <1>3 DEF CallersOK, Goto, Running
  <2>2. Downloads'
    BY <1>1, <1>3 DEF CallersOK, Downloads, FlightOwned, DownloadRegistered, JoinedWaits, WaitsForSomeone, Goto, Running
  <2> QED BY <2>1, <2>2
<1>4. CASE /\ ~ Running(src) /\ Goto(p, "download") /\ flight' = With(flight, src, p)
           /\ UNCHANGED <<joined, on, got>>
  <2>1. CallersOK'
    BY <1>1, <1>4 DEF CallersOK, Goto, With
  <2>2. FlightOwned' /\ DownloadRegistered'
    BY <1>1, <1>4 DEF CallersOK, Downloads, FlightOwned, DownloadRegistered, Goto, With, Running
  <2>3. JoinedWaits' /\ WaitsForSomeone'
    BY <1>1, <1>4 DEF CallersOK, Downloads, JoinedWaits, WaitsForSomeone, Goto
  <2> QED BY <2>1, <2>2, <2>3 DEF Downloads
<1> QED BY <1>2, <1>3, <1>4 DEF Look

\* When a download is over it is taken off, and its maker goes to close the channel.
LEMMA DownloadKeeps ==
    ASSUME CallersOK, Downloads, NEW p \in Callers, NEW ok \in BOOLEAN, Download(p, ok)
    PROVE  CallersOK' /\ Downloads'
<1>1. /\ pc[p] = "download" /\ on[p] \in Sources
      /\ flight' = Only(flight, Sources \ {on[p]})
      /\ got' = [got EXCEPT ![p] = ok] /\ pc' = [pc EXCEPT ![p] = "close"] /\ joined' = joined /\ on' = on
  BY DEF Download, Landed, Goto, CallersOK
<1>2. CallersOK'
  BY <1>1 DEF CallersOK, Only
<1>3. FlightOwned' /\ DownloadRegistered'
  BY <1>1 DEF CallersOK, Downloads, FlightOwned, DownloadRegistered, Only
<1>4. JoinedWaits' /\ WaitsForSomeone'
  BY <1>1 DEF CallersOK, Downloads, JoinedWaits, WaitsForSomeone
<1> QED BY <1>2, <1>3, <1>4 DEF Downloads

\* When a channel is closed, nobody waits for it any more.
LEMMA CloseKeeps ==
    ASSUME CallersOK, Downloads, NEW p \in Callers, CloseFlight(p)
    PROVE  CallersOK' /\ Downloads'
<1>1. Tick \in Callers /\ Slate \in Sources /\ Nobody \notin Callers
  BY ResolverAssumption DEF Callers
<1>2. PICK l \in {"idle", "made", "failed"} :
        /\ pc[p] = "close" /\ pc' = [pc EXCEPT ![p] = l]
        /\ on' = on \/ on' = [on EXCEPT ![p] = Slate]
        /\ joined' = [q \in Callers |-> IF joined[q] = p THEN Nobody ELSE joined[q]]
        /\ got' = [got EXCEPT ![p] = FALSE] /\ flight' = flight
  BY DEF CloseFlight, Over, Return, Goto
<1>3. CallersOK'
  BY <1>1, <1>2 DEF CallersOK
<1>4. FlightOwned' /\ DownloadRegistered'
  BY <1>1, <1>2 DEF CallersOK, Downloads, FlightOwned, DownloadRegistered
<1>5. JoinedWaits' /\ WaitsForSomeone'
  BY <1>1, <1>2 DEF CallersOK, Downloads, JoinedWaits, WaitsForSomeone
<1> QED BY <1>3, <1>4, <1>5 DEF Downloads

\* A caller that neither downloads nor waits for anybody may go anywhere but to a download.
LEMMA MoveKeeps ==
    ASSUME CallersOK, Downloads, NEW p \in Callers, pc[p] \notin {"download", "close"}, joined[p] = Nobody,
           NEW l \in {"idle", "plan", "warm", "lookup", "lookup_get", "blob", "look", "made", "failed", "prepare", "playlist"},
           NEW src \in Sources,
           pc' = [pc EXCEPT ![p] = l], on' = [on EXCEPT ![p] = src], UNCHANGED <<flight, got, joined>>
    PROVE  CallersOK' /\ Downloads'
<1>1. CallersOK'
  BY DEF CallersOK
<1>2. Nobody \notin Callers
  BY ResolverAssumption DEF Callers
<1>3. FlightOwned' /\ DownloadRegistered'
  BY DEF CallersOK, Downloads, FlightOwned, DownloadRegistered
<1>4. JoinedWaits' /\ WaitsForSomeone'
  BY <1>2 DEF CallersOK, Downloads, JoinedWaits, WaitsForSomeone
<1> QED BY <1>1, <1>3, <1>4 DEF Downloads
\* The downloads stay in order, whatever is done next.
LEMMA DownloadsKept ==
    ASSUME TickOK, CallersOK, Downloads, Next
    PROVE  CallersOK' /\ Downloads'
<1> USE DEF tickVars, listVars, blobVars
<1>1. Tick \in Callers /\ Slate \in Sources /\ Workers \subseteq Callers /\ Tick \notin Workers /\ Nobody \notin Callers
  BY ResolverAssumption DEF Callers
<1>2. \A p \in Callers : on[p] \in Sources /\ on = [on EXCEPT ![p] = on[p]]
  BY DEF CallersOK
<1>3. \A p \in Callers : pc[p] # "wait" => joined[p] = Nobody
  BY DEF Downloads, JoinedWaits
<1>4. CASE UNCHANGED <<flight, got, joined, pc, on>>
  BY <1>4 DEF CallersOK, Downloads, FlightOwned, DownloadRegistered, JoinedWaits, WaitsForSomeone
<1>5. CASE Clock \/ Deadline \/ \E s \in Sources : FetchStep(s)
  BY <1>4, <1>5 DEF Clock, Deadline, FetchStep, FetchLooks, FetchStores, FetchEnds
<1>6. ASSUME NEW p \in Callers, GetCached(p) PROVE CallersOK' /\ Downloads'
  <2>1. CASE LookAgain(p)
    BY <1>2, <2>1, MoveKeeps DEF LookAgain, Goto
  <2> QED BY <1>6, <2>1, LookKeeps, DownloadKeeps, CloseKeeps DEF GetCached
<1>7. CASE TickStart \/ Prefetch
  BY <1>1, <1>2, <1>3, <1>7, MoveKeeps DEF TickStart, Prefetch, Goto
<1>8. CASE \E c \in Sources : PrefetchClip(c) \/ Resolve(c)
  BY <1>1, <1>3, <1>8, MoveKeeps DEF PrefetchClip, Resolve, Goto
<1>9. CASE LookupAhead \/ Prepare
  BY <1>1, <1>2, <1>3, <1>9, MoveKeeps DEF LookupAhead, Prepare, Goto
<1>10. CASE \E ok \in BOOLEAN : LookupGets(ok) \/ PlaylistGets(ok)
  BY <1>1, <1>2, <1>3, <1>10, MoveKeeps DEF LookupGets, PlaylistGets, Goto
<1>11. CASE NothingDue \/ Made \/ Drop \/ SlateInstead
  BY <1>1, <1>3, <1>11, MoveKeeps DEF NothingDue, Made, Drop, SlateInstead, TickOver, Return, Goto
<1>12. CASE PrefetchBlob
  <2>1. CASE Goto(Tick, "plan") /\ UNCHANGED on
    BY <1>1, <1>2, <1>3, <1>12, <2>1, MoveKeeps DEF PrefetchBlob, Goto
  <2>2. CASE \E w \in Workers :
               /\ pc[w] = "idle"
               /\ pc' = [pc EXCEPT ![w] = "look", ![Tick] = "plan"]
               /\ on' = [on EXCEPT ![w] = on[Tick]]
    <3>1. PICK w \in Workers :
            /\ pc[w] = "idle" /\ pc[Tick] = "blob"
            /\ pc' = [pc EXCEPT ![w] = "look", ![Tick] = "plan"]
            /\ on' = [on EXCEPT ![w] = on[Tick]]
            /\ UNCHANGED <<flight, got, joined>>
      BY <1>12, <2>2 DEF PrefetchBlob
    <3>2. CallersOK'
      BY <1>1, <3>1 DEF CallersOK
    <3>3. FlightOwned' /\ DownloadRegistered'
      BY <1>1, <3>1 DEF CallersOK, Downloads, FlightOwned, DownloadRegistered
    <3>4. JoinedWaits' /\ WaitsForSomeone'
      BY <1>1, <3>1 DEF CallersOK, Downloads, JoinedWaits, WaitsForSomeone
    <3> QED BY <3>2, <3>3, <3>4 DEF Downloads
  <2> QED BY <1>12, <2>1, <2>2 DEF PrefetchBlob
<1>13. CASE GivesUpWaiting
  <2>1. /\ pc[Tick] = "wait" /\ pc' = [pc EXCEPT ![Tick] = "failed"]
        /\ joined' = [joined EXCEPT ![Tick] = Nobody] /\ UNCHANGED <<flight, got, on>>
    BY <1>13 DEF GivesUpWaiting, Goto
  <2>2. CallersOK'
    BY <1>1, <2>1 DEF CallersOK
  <2>3. FlightOwned' /\ DownloadRegistered'
    BY <1>1, <2>1 DEF CallersOK, Downloads, FlightOwned, DownloadRegistered
  <2>4. JoinedWaits' /\ WaitsForSomeone'
    BY <1>1, <2>1 DEF CallersOK, Downloads, JoinedWaits, WaitsForSomeone
  <2> QED BY <2>2, <2>3, <2>4 DEF Downloads
<1> QED BY <1>1, <1>5, <1>6, <1>7, <1>8, <1>9, <1>10, <1>11, <1>12, <1>13 DEF Next, TickStep

-----------------------------------------------------------------------------
(* The invariant holds, and what follows from it *)

\* The resolver starts with empty caches, or with the slate in them.
LEMMA InitInv == Init => IndInv
<1> SUFFICES ASSUME Init PROVE IndInv
  OBVIOUS
<1>1. PICK there \in SUBSET {Slate} :
        /\ cache = [s \in there |-> [ok |-> TRUE, at |-> 1]]
        /\ segs = [s \in there |-> 1] /\ segBytes = Bytes(there)
  BY DEF Init
<1>2. /\ Slate \in Sources /\ Tick \in Callers /\ MaxTime \in Nat \ {0}
      /\ MaxCached \in Nat \ {0} /\ MaxSegCache \in Nat \ {0}
  BY ResolverAssumption DEF Callers
<1>3. TickOK /\ CallersOK /\ Downloads
  <2>1. TickOK
    <3>1. now = 1 /\ slot = 0 /\ now \in 1..MaxTime /\ slot \in 0..now
      BY <1>2 DEF Init
    <3>2. late \in BOOLEAN /\ seen \subseteq Sources /\ inflight \subseteq Sources
      BY DEF Init
    <3>3. fetching \in [Sources -> {"idle", "look", "get", "done"}]
      BY DEF Init
    <3> QED BY <1>2, <3>1, <3>2, <3>3 DEF Init, TickOK
  <2>2. CallersOK
    BY <1>2 DEF Init, CallersOK
  <2>3. Downloads
    BY DEF Init, Downloads, FlightOwned, DownloadRegistered, JoinedWaits, WaitsForSomeone
  <2> QED BY <2>1, <2>2, <2>3
<1>4. IsFiniteSet(there) /\ Cardinality(there) <= MaxCached
  BY <1>2, FS_EmptySet, FS_Singleton
<1>5. Bytes(there) <= MaxSegCache
  <2>1. CASE there = {}
    BY <1>2, <2>1, SumEmpty DEF Bytes
  <2>2. CASE there = {} \cup {Slate}
    <3>1. SumOver(Size, {} \cup {Slate}) = Size[Slate] + SumOver(Size, {})
      BY <1>2, FS_EmptySet, SumAdd, SizesAreNumbers
    <3>2. Bytes(there) = Size[Slate] + 0
      BY <2>2, <3>1, SumEmpty DEF Bytes
    <3> QED BY <1>2, <3>2, SizesAreNumbers
  <2> QED BY <2>1, <2>2
<1>6. CacheOK
  BY <1>1, <1>2, <1>4 DEF Init, CacheOK
<1>7. SegsOK
  BY <1>1, <1>2, <1>4, <1>5 DEF Init, SegsOK, BytesCounted
<1> QED BY <1>3, <1>6, <1>7 DEF IndInv

\* Every step keeps the invariant.
LEMMA NextInv == IndInv /\ [Next]_vars => IndInv'
<1> SUFFICES ASSUME IndInv, [Next]_vars PROVE IndInv'
  OBVIOUS
<1>1. CASE Next
  BY <1>1, TickKept, CachesKept, DownloadsKept DEF IndInv
<1>2. CASE UNCHANGED vars
  BY <1>2 DEF IndInv, TickOK, CacheOK, SegsOK, BytesCounted, CallersOK, Downloads, FlightOwned, DownloadRegistered,
              JoinedWaits, WaitsForSomeone, vars, tickVars, listVars, blobVars
<1> QED BY <1>1, <1>2

\* The invariant says what the properties say.
LEMMA InvImplies == IndInv => TypeOK /\ BytesCounted /\ OneDownload /\ WaitsForSomeone
<1> SUFFICES ASSUME IndInv PROVE TypeOK /\ BytesCounted /\ OneDownload /\ WaitsForSomeone
  OBVIOUS
<1>1. BytesCounted /\ WaitsForSomeone
  BY DEF IndInv, SegsOK, Downloads
<1>2. segBytes \in Nat
  BY SizesAreNumbers DEF IndInv, SegsOK, BytesCounted
<1>3. TypeOK
  BY <1>2 DEF IndInv, TypeOK, TickOK, CacheOK, SegsOK, CallersOK
<1>4. OneDownload
  BY DEF IndInv, OneDownload, Downloads, DownloadRegistered
<1> QED BY <1>1, <1>3, <1>4

\* With any number of sources and goroutines, neither cache of the resolver grows over its limit.
THEOREM CachesLimited == Spec => []TypeOK
<1>1. IndInv => TypeOK
  BY InvImplies
<1> QED BY <1>1, InitInv, NextInv, PTL DEF Spec

\* storeBlob counts right: segBytes is always the sum of the sizes of what is cached.
THEOREM CountIsRight == Spec => []BytesCounted
<1>1. IndInv => BytesCounted
  BY InvImplies
<1> QED BY <1>1, InitInv, NextInv, PTL DEF Spec

\* However many callers want one segment, one of them downloads it and closes the channel it made.
THEOREM DownloadedOnce == Spec => []OneDownload
<1>1. IndInv => OneDownload
  BY InvImplies
<1> QED BY <1>1, InitInv, NextInv, PTL DEF Spec

\* A caller of getCached never waits for a channel that nobody will close.
THEOREM NobodyWaitsInVain == Spec => []WaitsForSomeone
<1>1. IndInv => WaitsForSomeone
  BY InvImplies
<1> QED BY <1>1, InitInv, NextInv, PTL DEF Spec

-----------------------------------------------------------------------------
(* Retime *)

\* what Retime is asked to do is within the numbers it computes with: a second more or less than where a segment
\* stands in its file and in the stream, in the ticks of every track, is a signed number
TimesFit ==
    \A s \in Segments, t \in Anchors \cup Nominals : \A i \in DOMAIN s.moov.traks :
        LET scale == s.moov.traks[i].timescale IN 2 * (t + 1) * scale <= Span /\ -Span <= 2 * (t - 1) * scale

LEMMA SignedFacts ==
    ASSUME NEW span \in Nat \ {0}, NEW n \in Int
    PROVE  /\ Signed(n, span) \in Int /\ -span <= 2 * Signed(n, span) /\ 2 * Signed(n, span) < span
           /\ -span <= 2 * n /\ 2 * n < span => Signed(n, span) = n
           /\ span <= 2 * n /\ 2 * n < 3 * span => Signed(n, span) = n - span
           /\ -3 * span <= 2 * n /\ 2 * n < -span => Signed(n, span) = n + span
<1> DEFINE m == n % span
<1>1. m \in 0 .. span - 1
  OBVIOUS
<1>2. Signed(n, span) = IF 2 * m >= span THEN m - span ELSE m
  BY DEF Signed
<1>3. PICK q \in Int : n = q * span + m
  <2>1. n = (n \div span) * span + m /\ n \div span \in Int
    OBVIOUS
  <2> QED BY <2>1
<1>4. \/ q * span <= -3 * span
      \/ q = -2 /\ q * span = -2 * span
      \/ q = -1 /\ q * span = -span
      \/ q = 0 /\ q * span = 0
      \/ q = 1 /\ q * span = span
      \/ q * span >= 2 * span
  <2>1. CASE q <= -3
    BY <2>1
  <2>2. CASE q >= 2
    BY <2>2
  <2> QED BY <2>1, <2>2
<1> HIDE DEF m
<1> DEFINE k == q * span
<1>5. k \in Int
  OBVIOUS
<1>6. n = k + m /\ (k <= -3 * span \/ k = -2 * span \/ k = -span \/ k = 0 \/ k = span \/ k >= 2 * span)
  BY <1>3, <1>4
<1> HIDE DEF k
<1> QED BY <1>1, <1>2, <1>5, <1>6

\* the time is moved by whole seconds exactly when it is close to where it should be and does not become negative
RightlyRetimed(time, scale, anchor, nominal, span) ==
    LET off == Signed(time, span) - nominal * scale
        v   == RetimedTfdt(time, scale, anchor, nominal, span)
    IN  /\ v # Failed <=> 4 * off \in -scale .. scale /\ anchor * scale + off >= 0
        /\ v # Failed => v = anchor * scale + off

LEMMA RetimedFacts ==
    ASSUME NEW span \in Nat \ {0}, NEW time \in 0 .. span - 1, NEW scale \in Nat \ {0},
           NEW anchor \in Int, NEW nominal \in Int,
           \A t \in {anchor, nominal} : 2 * (t + 1) * scale <= span /\ -span <= 2 * (t - 1) * scale
    PROVE  RightlyRetimed(time, scale, anchor, nominal, span)
<1> DEFINE x   == Signed(time, span)
           A   == anchor * scale
           N   == nominal * scale
           off == x - N
           diff == Signed(off, span)
           v   == Signed(A + diff, span)
<1>1. x \in Int /\ -span <= 2 * x /\ 2 * x < span
  BY SignedFacts
<1>2. A \in Int /\ N \in Int
  OBVIOUS
<1>3. 2 * (anchor + 1) * scale = 2 * A + 2 * scale /\ 2 * (anchor - 1) * scale = 2 * A - 2 * scale
  OBVIOUS
<1>4. 2 * (nominal + 1) * scale = 2 * N + 2 * scale /\ 2 * (nominal - 1) * scale = 2 * N - 2 * scale
  OBVIOUS
<1>5. /\ 2 * A + 2 * scale <= span /\ -span <= 2 * A - 2 * scale
      /\ 2 * N + 2 * scale <= span /\ -span <= 2 * N - 2 * scale
  BY <1>3, <1>4
<1>6. RetimedTfdt(time, scale, anchor, nominal, span)
        = IF 4 * Distance(diff) > scale \/ v < 0 THEN Failed ELSE Unsigned(v, span)
  BY DEF RetimedTfdt
<1> HIDE DEF x, A, N
<1>7. off \in Int
  BY <1>1, <1>2
<1>8. diff \in Int /\ (\/ -span <= 2 * off /\ 2 * off < span /\ diff = off
                       \/ span <= 2 * off /\ diff = off - span
                       \/ 2 * off < -span /\ diff = off + span)
  BY <1>1, <1>2, <1>5, <1>7, SignedFacts
<1> HIDE DEF diff
<1>9. 4 * Distance(diff) > scale <=> ~(4 * off \in -scale .. scale)
  BY <1>1, <1>2, <1>5, <1>7, <1>8 DEF Distance
<1>10. ASSUME 4 * off \in -scale .. scale
       PROVE  diff = off /\ v = A + off /\ (v >= 0 => Unsigned(v, span) = v)
  <2>1. diff = off
    BY <1>1, <1>2, <1>5, <1>7, <1>8, <1>10
  <2>2. A + off \in Int /\ -span <= 2 * (A + off) /\ 2 * (A + off) < span
    BY <1>2, <1>5, <1>7, <1>10
  <2>3. v = A + off
    BY <2>1, <2>2, SignedFacts
  <2>4. ASSUME v >= 0
        PROVE  Unsigned(v, span) = v
    <3>1. v \in 0 .. span - 1
      BY <2>2, <2>3, <2>4
    <3> HIDE DEF v
    <3> QED BY <3>1 DEF Unsigned
  <2> QED BY <2>1, <2>3, <2>4
<1>11. ASSUME 4 * off \in -scale .. scale
       PROVE  v \in Int
  BY <1>2, <1>7, <1>10, <1>11
<1> HIDE DEF v, off
<1>12. off = x - N /\ A + off \in Int
  BY <1>1, <1>2 DEF off
<1> SUFFICES LET r == RetimedTfdt(time, scale, anchor, nominal, span)
             IN  /\ r # Failed <=> 4 * off \in -scale .. scale /\ A + off >= 0
                 /\ r # Failed => r = A + off
  BY <1>12 DEF x, A, N, RightlyRetimed
<1>13. CASE 4 * off \in -scale .. scale
  BY <1>6, <1>9, <1>10, <1>11, <1>12, <1>13 DEF Failed
<1>14. CASE ~(4 * off \in -scale .. scale)
  BY <1>6, <1>9, <1>14
<1> QED BY <1>13, <1>14

\* the timescale of a track is that of a trak of the init section
LEMMA TracksFacts ==
    ASSUME NEW s \in Segments, InitOK(s.moov), NEW id \in DOMAIN Tracks(s.moov)
    PROVE  \E i \in DOMAIN s.moov.traks : /\ Tracks(s.moov)[id].timescale = s.moov.traks[i].timescale
                                         /\ s.moov.traks[i].timescale \in Nat \ {0}
<1> DEFINE traks == s.moov.traks
           n     == Len(traks)
           Is(k) == traks[k].id = id /\ \A l \in DOMAIN traks : traks[l].id = id => l <= k
           final  == CHOOSE k \in DOMAIN traks : Is(k)
           them  == {i \in 1 .. n : traks[i].id = id}
<1>1. traks \in Seq([id : Nat, timescale : Nat, tkhd : BOOLEAN, mdhd : BOOLEAN])
  BY MediaAssumption
<1>2. n \in Nat /\ DOMAIN traks = 1 .. n
  BY <1>1
<1>3. them # {}
  BY <1>2 DEF Tracks
<1>4. PICK k \in them : \A l \in them : l <= k
  <2>1. them \subseteq 1 .. n /\ them \in SUBSET Nat
    BY <1>2
  <2> HIDE DEF them, n
  <2>2. IsFiniteSet(1 .. n)
    <3>1. n \in Int
      BY <1>2
    <3> QED BY <3>1, FS_Interval
  <2>3. IsFiniteSet(them)
    BY <2>1, <2>2, FS_Subset
  <2> QED BY <1>3, <2>1, <2>3, Largest
<1>5. k \in DOMAIN traks /\ Is(k)
  BY <1>2, <1>4
<1>6. final \in DOMAIN traks
  BY <1>5
<1>7. Tracks(s.moov)[id].timescale = traks[final].timescale
  BY DEF Tracks
<1>8. ASSUME NEW i \in DOMAIN traks
      PROVE  traks[i].timescale \in Nat \ {0}
  <2>1. traks[i] \in [id : Nat, timescale : Nat, tkhd : BOOLEAN, mdhd : BOOLEAN]
    <3> DEFINE Traks == [id : Nat, timescale : Nat, tkhd : BOOLEAN, mdhd : BOOLEAN]
    <3>1. traks \in Seq(Traks)
      BY <1>1
    <3> HIDE DEF traks, Traks
    <3>2. traks[i] \in Traks
      BY <3>1
    <3> QED BY <3>2 DEF Traks
  <2>2. TrakOK(traks[i])
    BY DEF InitOK
  <2>3. traks[i].timescale # 0
    BY <2>2 DEF TrakOK
  <2> QED BY <2>1, <2>3
<1> HIDE DEF final
<1> QED BY <1>6, <1>7, <1>8

\* Retime moves every decode time of a segment by a whole number of seconds and by nothing else, or refuses the segment,
\* and does not refuse one that it could move; no difference and no sum in it wraps around unnoticed.  It needs that
\* the seconds it is given fit into its numbers: in the code timescales have 32 bits, decode times 64.
THEOREM RetimeMovesWholeSeconds == ASSUME TimesFit PROVE CodecsSpec => []RetimeIsExact
<1>1. CodecsInit => RetimeIsExact
  <2>1. CodecsInit => call.op # "retime"
    BY DEF CodecsInit, Idle
  <2> QED BY <2>1 DEF RetimeIsExact
<1>2. RetimeIsExact /\ [CodecsNext]_call => RetimeIsExact'
  <2> SUFFICES ASSUME RetimeIsExact, [CodecsNext]_call, call'.op = "retime"
               PROVE  RetimeIsExact'
    BY DEF RetimeIsExact
  <2>1. CASE UNCHANGED call
    BY <2>1 DEF RetimeIsExact
  <2>2. CASE CallRetime
    <3>1. PICK s \in Segments, anchor \in Anchors, nominal \in Nominals :
             call' = [op |-> "retime", ask |-> [s |-> s, anchor |-> anchor, nominal |-> nominal],
                      answer |-> IF InitOK(s.moov) THEN Retime(s.moofs, Tracks(s.moov), anchor, nominal, Span)
                                 ELSE [ok |-> FALSE, times |-> <<>>]]
      BY <2>2 DEF CallRetime
    <3> DEFINE trafs == Trafs(s.moofs)
               tracks == Tracks(s.moov)
               Scale(i) == tracks[trafs[i].track].timescale
               Off(i) == Signed(trafs[i].time, Span) - nominal * Scale(i)
               Movable(i) == /\ trafs[i].version = 1
                             /\ 4 * Off(i) \in -Scale(i) .. Scale(i)
                             /\ anchor * Scale(i) + Off(i) >= 0
               answer == Retime(s.moofs, tracks, anchor, nominal, Span)
               Moved(i) == IF trafs[i].version # 1 THEN Failed
                           ELSE RetimedTfdt(trafs[i].time, Scale(i), anchor, nominal, Span)
    <3>2. ASSUME InitOK(s.moov), WalkOK(s.moofs, tracks), NEW i \in DOMAIN trafs
          PROVE  (Moved(i) # Failed <=> Movable(i)) /\ (Moved(i) # Failed => Moved(i) = anchor * Scale(i) + Off(i))
      <4>1. trafs[i].track \in DOMAIN tracks
        BY <3>2 DEF WalkOK, TrafOK
      <4>2. PICK k \in DOMAIN s.moov.traks : Scale(i) = s.moov.traks[k].timescale /\ Scale(i) \in Nat \ {0}
        BY <3>2, <4>1, TracksFacts
      <4>3. \A t \in {anchor, nominal} : 2 * (t + 1) * Scale(i) <= Span /\ -Span <= 2 * (t - 1) * Scale(i)
        BY <4>2 DEF TimesFit
      <4>4. anchor \in Int /\ nominal \in Int /\ trafs[i].time \in 0 .. Span - 1 /\ Span \in Nat \ {0}
        BY MediaAssumption, CodecsAssumption
      <4> HIDE DEF Scale, trafs
      <4> DEFINE scale == Scale(i)
                 time  == trafs[i].time
      <4>6. scale \in Nat \ {0} /\ time \in 0 .. Span - 1
        BY <4>2, <4>4
      <4>7. \A t \in {anchor, nominal} : 2 * (t + 1) * scale <= Span /\ -Span <= 2 * (t - 1) * scale
        BY <4>3
      <4> HIDE DEF scale, time
      <4>8. RightlyRetimed(time, scale, anchor, nominal, Span)
        <5> HIDE DEF tracks, Off, Movable, answer, Moved
        <5> QED BY <4>4, <4>6, <4>7, RetimedFacts, Zenon
      <4>5. LET v == RetimedTfdt(trafs[i].time, Scale(i), anchor, nominal, Span)
            IN  /\ v # Failed <=> 4 * Off(i) \in -Scale(i) .. Scale(i) /\ anchor * Scale(i) + Off(i) >= 0
                /\ v # Failed => v = anchor * Scale(i) + Off(i)
        BY <4>8 DEF scale, time, RightlyRetimed
      <4> QED BY <4>5
    <3>3. CASE ~InitOK(s.moov)
      BY <3>1, <3>3 DEF RetimeIsExact
    <3>4. CASE InitOK(s.moov) /\ ~WalkOK(s.moofs, tracks)
      <4>1. Failed \in Range(<<Failed>>)
        BY DEF Range
      <4>2. ~answer.ok
        BY <3>4, <4>1 DEF Retime
      <4> QED BY <3>1, <3>4, <4>2 DEF RetimeIsExact
    <3>5. CASE InitOK(s.moov) /\ WalkOK(s.moofs, tracks)
      <4> DEFINE times == [i \in DOMAIN trafs |-> Moved(i)]
      <4>1. answer = IF Failed \in Range(times) THEN [ok |-> FALSE, times |-> <<>>] ELSE [ok |-> TRUE, times |-> times]
        BY <3>5 DEF Retime
      <4>2. Failed \in Range(times) <=> \E i \in DOMAIN trafs : Moved(i) = Failed
        BY DEF Range
      <4> HIDE DEF Moved, Movable, Off, Scale
      <4>3. answer.ok <=> \A i \in DOMAIN trafs : Movable(i)
        BY <3>2, <3>5, <4>1, <4>2
      <4>4. answer.ok => answer.times = [i \in DOMAIN trafs |-> anchor * Scale(i) + Off(i)]
        BY <3>2, <3>5, <4>1, <4>2
      <4>5. call'.ask = [s |-> s, anchor |-> anchor, nominal |-> nominal] /\ call'.answer = answer
        BY <3>1, <3>5
      <4>6. /\ call'.answer.ok <=> InitOK(s.moov) /\ WalkOK(s.moofs, tracks) /\ \A i \in DOMAIN trafs : Movable(i)
            /\ call'.answer.ok => call'.answer.times = [i \in DOMAIN trafs |-> anchor * Scale(i) + Off(i)]
        BY <3>5, <4>3, <4>4, <4>5
      <4>7. call'.ask.s = s /\ call'.ask.anchor = anchor /\ call'.ask.nominal = nominal
        BY <4>5
      <4> HIDE DEF answer
      <4> QED BY <4>6, <4>7, Zenon DEF RetimeIsExact, Movable, Off, Scale
    <3> QED BY <3>3, <3>4, <3>5
  <2> QED BY <2>1, <2>2 DEF CodecsNext, Call, Idle, CallChildren, CallDecode, CallEncode, CallMarkers, CallParse, CallFill
<1> QED BY <1>1, <1>2, PTL DEF CodecsSpec

-----------------------------------------------------------------------------
(* Messages *)

LEMMA DivTwice ==
    ASSUME NEW n \in Nat, NEW x \in Nat \ {0}, NEW y \in Nat \ {0}
    PROVE  n \div (x * y) = (n \div x) \div y
<1> DEFINE m == n \div x
           a == n % x
           q == m \div y
           b == m % y
<1>1. m \in Nat /\ a \in 0 .. x - 1 /\ n = m * x + a
  OBVIOUS
<1> HIDE DEF m, a
<1>2. q \in Nat /\ b \in 0 .. y - 1 /\ m = q * y + b
  BY <1>1
<1> HIDE DEF q, b
<1>3. n = q * (x * y) + (b * x + a)
  <2>1. m * x = (q * y) * x + b * x
    BY <1>1, <1>2
  <2>2. (q * y) * x = q * (x * y)
    BY <1>1, <1>2
  <2> QED BY <1>1, <1>2, <2>1, <2>2
<1>4. b * x + a \in 0 .. x * y - 1
  <2>1. b * x + a >= 0
    BY <1>1, <1>2
  <2>2. b * x + x = (b + 1) * x
    BY <1>1, <1>2
  <2>3. (b + 1) * x <= y * x
    BY <1>1, <1>2
  <2> QED BY <1>1, <1>2, <2>1, <2>2, <2>3
<1>5. x * y \in Nat \ {0}
  OBVIOUS
<1> DEFINE w == x * y
           r == b * x + a
<1>6. w \in Nat \ {0} /\ r \in 0 .. w - 1 /\ n = q * w + r
  BY <1>3, <1>4, <1>5
<1> HIDE DEF w, r
<1>7. n \div w = q
  BY <1>1, <1>2, <1>6
<1> QED BY <1>7 DEF w, q, m

\* the four bytes of a number, and what of it they do not hold
LEMMA FourBytesFacts ==
    ASSUME NEW n \in Nat
    PROVE  \E a, b, c, d \in 0 .. Base - 1 :
              /\ FourBytes(n) = <<a, b, c, d>>
              /\ n = (n \div Limit32) * Limit32 + (((a * Base + b) * Base + c) * Base + d)
              /\ n \div Limit32 \in Nat
<1> DEFINE n1 == n \div Base
           n2 == n1 \div Base
           n3 == n2 \div Base
           n4 == n3 \div Base
           a == n3 % Base
           b == n2 % Base
           c == n1 % Base
           d == n % Base
<1>1. Base \in Nat \ {0}
  BY Scte35Assumption
<1>2. n1 \in Nat /\ d \in 0 .. Base - 1 /\ n = n1 * Base + d
  BY <1>1
<1>3. n \div Square = n2
  BY <1>1, DivTwice DEF Square
<1>4. Square \in Nat \ {0} /\ Square * Base \in Nat \ {0}
  BY <1>1 DEF Square
<1>5. n \div (Square * Base) = n3
  <2>1. n \div (Square * Base) = (n \div Square) \div Base
    BY <1>1, <1>4, DivTwice
  <2> QED BY <1>3, <2>1
<1>6. n \div Limit32 = n4
  <2>1. Limit32 = (Square * Base) * Base
    BY <1>1 DEF Limit32, Square
  <2>2. n \div ((Square * Base) * Base) = (n \div (Square * Base)) \div Base
    BY <1>1, <1>4, DivTwice
  <2> QED BY <1>5, <2>1, <2>2
<1>7. FourBytes(n) = <<a, b, c, d>>
  BY <1>3, <1>5 DEF FourBytes
<1> HIDE DEF d, n1
<1>8. n2 \in Nat /\ c \in 0 .. Base - 1 /\ n1 = n2 * Base + c
  BY <1>1, <1>2
<1> HIDE DEF c, n2
<1>9. n3 \in Nat /\ b \in 0 .. Base - 1 /\ n2 = n3 * Base + b
  BY <1>1, <1>8
<1> HIDE DEF b, n3
<1>10. n4 \in Nat /\ a \in 0 .. Base - 1 /\ n3 = n4 * Base + a
  BY <1>1, <1>9
<1> HIDE DEF a, n4
<1>11. n = n4 * Limit32 + (((a * Base + b) * Base + c) * Base + d)
  BY <1>1, <1>2, <1>8, <1>9, <1>10 DEF Limit32, Square
<1> QED BY <1>6, <1>7, <1>2, <1>8, <1>9, <1>10, <1>11

\* the bytes of a message, some of which are the flags in them
Octets == Int \cup [cancel : BOOLEAN] \cup [flag : BOOLEAN, high : Int]
              \cup [out : BOOLEAN, program : BOOLEAN, duration : BOOLEAN, immediate : BOOLEAN]

LEMMA NumberFacts ==
    ASSUME NEW n \in 0 .. Limit32 - 1
    PROVE  /\ FourBytes(n) \in Seq(Octets) /\ Len(FourBytes(n)) = 4
           /\ \A c : \A p \in Int : (\A i \in 1 .. 4 : c[p + i - 1] = FourBytes(n)[i]) => Number(c, p) = n
<1>1. Base \in Nat \ {0} /\ Limit32 \in Nat \ {0}
  BY Scte35Assumption DEF Limit32, Square
<1>2. PICK a, b, c, d \in 0 .. Base - 1 :
         /\ FourBytes(n) = <<a, b, c, d>>
         /\ n = (n \div Limit32) * Limit32 + (((a * Base + b) * Base + c) * Base + d)
         /\ n \div Limit32 \in Nat
  <2>1. n \in Nat
    BY <1>1
  <2> QED BY <2>1, FourBytesFacts
<1>3. n \div Limit32 = 0
  BY <1>1
<1>4. n = ((a * Base + b) * Base + c) * Base + d
  BY <1>1, <1>2, <1>3
<1>5. FourBytes(n) \in Seq(Octets) /\ Len(FourBytes(n)) = 4
  BY <1>1, <1>2 DEF Octets
<1>6. ASSUME NEW e, NEW p \in Int, \A i \in 1 .. 4 : e[p + i - 1] = FourBytes(n)[i]
      PROVE  Number(e, p) = n
  <2>1. e[p] = a /\ e[p + 1] = b /\ e[p + 2] = c /\ e[p + 3] = d
    BY <1>2, <1>6
  <2> QED BY <1>4, <2>1 DEF Number
<1> QED BY <1>5, <1>6

LEMMA FieldFacts ==
    ASSUME NEW n \in 0 .. Limit33 - 1, NEW flag \in BOOLEAN
    PROVE  /\ Field(flag, n) \in Seq(Octets) /\ Len(Field(flag, n)) = 5
           /\ Field(flag, n)[1].flag = flag
           /\ \A c : \A p \in Int : (\A i \in 1 .. 5 : c[p + i - 1] = Field(flag, n)[i]) => Number33(c, p) = n
<1> DEFINE h    == n \div Limit32
           head == <<[flag |-> flag, high |-> h % 2]>>
<1>1. Base \in Nat \ {0} /\ Limit32 \in Nat \ {0}
  BY Scte35Assumption DEF Limit32, Square
<1>2. n \in Nat /\ n < 2 * Limit32
  BY <1>1 DEF Limit33
<1>3. PICK a, b, c, d \in 0 .. Base - 1 :
         /\ FourBytes(n) = <<a, b, c, d>>
         /\ n = h * Limit32 + (((a * Base + b) * Base + c) * Base + d)
         /\ h \in Nat
  BY <1>2, FourBytesFacts
<1>4. h \in {0, 1} /\ h % 2 = h
  BY <1>1, <1>2
<1> HIDE DEF h
<1>5. head \in Seq(Octets) /\ FourBytes(n) \in Seq(Octets) /\ Len(head) = 1 /\ Len(FourBytes(n)) = 4
  BY <1>1, <1>3, <1>4 DEF Octets
<1>6. Field(flag, n) = head \o FourBytes(n)
  BY DEF Field, h
<1>7. head[1] = [flag |-> flag, high |-> h]
  BY <1>4
<1> HIDE DEF head
<1>8. /\ Field(flag, n) \in Seq(Octets) /\ Len(Field(flag, n)) = 5
      /\ Field(flag, n)[1] = [flag |-> flag, high |-> h]
      /\ \A i \in 1 .. 4 : Field(flag, n)[1 + i] = FourBytes(n)[i]
  <2> DEFINE g == FourBytes(n)
             f == head \o g
  <2>3. head \in Seq(Octets) /\ g \in Seq(Octets)
    BY <1>5
  <2> HIDE DEF g
  <2>1. /\ f \in Seq(Octets) /\ Len(f) = Len(head) + Len(g)
        /\ \A i \in 1 .. Len(head) : f[i] = head[i]
        /\ \A i \in 1 .. Len(g) : f[Len(head) + i] = g[i]
    BY <2>3
  <2> HIDE DEF f
  <2>2. Field(flag, n) = f
    BY <1>6 DEF f, g
  <2> QED BY <1>5, <1>7, <2>1, <2>2 DEF g
<1>9. ASSUME NEW e, NEW p \in Int, \A i \in 1 .. 5 : e[p + i - 1] = Field(flag, n)[i]
      PROVE  Number33(e, p) = n
  <2>1. e[p].high = h
    BY <1>8, <1>9
  <2>2. e[p + 1] = a /\ e[p + 2] = b /\ e[p + 3] = c /\ e[p + 4] = d
    <3>1. e[p + 1] = Field(flag, n)[2] /\ e[p + 2] = Field(flag, n)[3]
          /\ e[p + 3] = Field(flag, n)[4] /\ e[p + 4] = Field(flag, n)[5]
      BY <1>9
    <3> QED BY <1>3, <1>8, <3>1
  <2> QED BY <1>3, <2>1, <2>2 DEF Number33, Number
<1>10. Field(flag, n)[1].flag = flag
  BY <1>8
<1> QED BY <1>8, <1>9, <1>10, Zenon

\* all has the bytes of h, of t, of d and of e, in this order
Joined(all, h, t, d, e) ==
    /\ all \in Seq(Octets) /\ Len(all) = Len(h) + Len(t) + Len(d) + Len(e)
    /\ \A i \in 1 .. Len(h) : all[i] = h[i]
    /\ \A i \in 1 .. Len(t) : all[Len(h) + i] = t[i]
    /\ \A i \in 1 .. Len(d) : all[Len(h) + Len(t) + i] = d[i]
    /\ \A i \in 1 .. Len(e) : all[Len(h) + Len(t) + Len(d) + i] = e[i]

LEMMA FourParts ==
    ASSUME NEW h \in Seq(Octets), NEW t \in Seq(Octets), NEW d \in Seq(Octets), NEW e \in Seq(Octets)
    PROVE  Joined(h \o t \o d \o e, h, t, d, e)
<1> DEFINE x == h \o t
           y == x \o d
           c == y \o e
<1>1. /\ x \in Seq(Octets) /\ Len(x) = Len(h) + Len(t)
      /\ \A i \in 1 .. Len(h) : x[i] = h[i]
      /\ \A i \in 1 .. Len(t) : x[Len(h) + i] = t[i]
  OBVIOUS
<1> HIDE DEF x
<1>2. /\ y \in Seq(Octets) /\ Len(y) = Len(x) + Len(d)
      /\ \A i \in 1 .. Len(x) : y[i] = x[i]
      /\ \A i \in 1 .. Len(d) : y[Len(x) + i] = d[i]
  <2>1. x \in Seq(Octets)
    BY <1>1
  <2> QED BY <2>1
<1> HIDE DEF y
<1>3. /\ c \in Seq(Octets) /\ Len(c) = Len(y) + Len(e)
      /\ \A i \in 1 .. Len(y) : c[i] = y[i]
      /\ \A i \in 1 .. Len(e) : c[Len(y) + i] = e[i]
  <2>1. y \in Seq(Octets)
    BY <1>2
  <2> QED BY <2>1
<1> HIDE DEF c
<1>4. Len(h) \in Nat /\ Len(t) \in Nat /\ Len(d) \in Nat /\ Len(e) \in Nat
  OBVIOUS
<1>5. \A i \in 1 .. Len(x) : c[i] = x[i]
  BY <1>1, <1>2, <1>3, <1>4
<1>6. \A i \in 1 .. Len(h) : c[i] = h[i]
  BY <1>1, <1>4, <1>5
<1>7. \A i \in 1 .. Len(t) : c[Len(h) + i] = t[i]
  BY <1>1, <1>4, <1>5
<1>8. \A i \in 1 .. Len(d) : c[Len(h) + Len(t) + i] = d[i]
  BY <1>1, <1>2, <1>3, <1>4
<1>9. \A i \in 1 .. Len(e) : c[Len(h) + Len(t) + Len(d) + i] = e[i]
  BY <1>1, <1>2, <1>3, <1>4
<1>10. c = h \o t \o d \o e
  BY DEF c, y, x
<1>11. Joined(c, h, t, d, e)
  BY <1>1, <1>2, <1>3, <1>6, <1>7, <1>8, <1>9 DEF Joined
<1> QED BY <1>10, <1>11

\* where everything in a command is
LEMMA CommandFacts ==
    ASSUME NEW s \in Inserts, s.duration < Limit33, ~s.cancel, NEW t \in Seq(Octets)
    PROVE  LET c == CommandWith(s, t)
               p == 7 + Len(t)
               q == p + (IF s.duration > 0 THEN 5 ELSE 0)
           IN  /\ c \in Seq(Octets) /\ Len(c) = q + 3
               /\ Number(c, 1) = s.event
               /\ c[5] = [cancel |-> FALSE]
               /\ c[6] = [out |-> s.out, program |-> TRUE, duration |-> s.duration > 0, immediate |-> s.immediate]
               /\ \A i \in 1 .. Len(t) : c[6 + i] = t[i]
               /\ s.duration > 0 => c[p].flag = s.autoReturn /\ Number33(c, p) = s.duration
               /\ c[q] * Base + c[q + 1] = s.program /\ c[q + 2] = s.avail /\ c[q + 3] = s.expected
<1> DEFINE n     == FourBytes(s.event)
           flags == [out |-> s.out, program |-> TRUE, duration |-> s.duration > 0, immediate |-> s.immediate]
           f     == <<[cancel |-> FALSE], flags>>
           h     == n \o f
           d     == IF s.duration > 0 THEN Field(s.autoReturn, s.duration) ELSE <<>>
           e     == <<s.program \div Base, s.program % Base, s.avail, s.expected>>
           c     == h \o t \o d \o e
           p     == 7 + Len(t)
           q     == p + (IF s.duration > 0 THEN 5 ELSE 0)
<1>1. Base \in Nat \ {0} /\ Limit32 \in Nat /\ Limit33 \in Nat
  BY Scte35Assumption DEF Limit32, Limit33, Square
<1>2. /\ s.event \in 0 .. Limit32 - 1 /\ s.out \in BOOLEAN /\ s.immediate \in BOOLEAN
      /\ s.autoReturn \in BOOLEAN /\ s.duration \in Nat
      /\ s.program \in Nat /\ s.avail \in Nat /\ s.expected \in Nat
  BY <1>1, Scte35Assumption DEF Inserts, Square
<1>3. n \in Seq(Octets) /\ Len(n) = 4
      /\ \A g : \A j \in Int : (\A i \in 1 .. 4 : g[j + i - 1] = n[i]) => Number(g, j) = s.event
  BY <1>2, NumberFacts, Zenon
<1>4. f \in Seq(Octets) /\ Len(f) = 2 /\ f[1] = [cancel |-> FALSE] /\ f[2] = flags
  <2>1. [cancel |-> FALSE] \in Octets
    BY DEF Octets
  <2>2. flags \in Octets
    BY <1>2 DEF Octets
  <2> HIDE DEF flags
  <2> QED BY <2>1, <2>2
<1>5. e \in Seq(Octets) /\ Len(e) = 4 /\ e[1] * Base + e[2] = s.program /\ e[3] = s.avail /\ e[4] = s.expected
  <2> DEFINE v == s.program
             a == v \div Base
             b == v % Base
  <2>1. v \in Nat
    BY <1>2
  <2> HIDE DEF v
  <2>2. a \in Int /\ b \in Int /\ a * Base + b = v
    BY <1>1, <2>1
  <2> HIDE DEF a, b
  <2>3. a \in Octets /\ b \in Octets /\ s.avail \in Octets /\ s.expected \in Octets
    BY <1>2, <2>2 DEF Octets
  <2>4. e = <<a, b, s.avail, s.expected>>
    BY DEF a, b, v
  <2> HIDE DEF e
  <2>5. e \in Seq(Octets) /\ Len(e) = 4 /\ e[1] = a /\ e[2] = b /\ e[3] = s.avail /\ e[4] = s.expected
    BY <2>3, <2>4
  <2> QED BY <2>2, <2>5 DEF v
<1>6. CommandWith(s, t) = c
  BY DEF CommandWith
<1> HIDE DEF n, f, e
<1>7. h \in Seq(Octets) /\ Len(h) = 6 /\ (\A i \in 1 .. 4 : h[i] = n[i]) /\ h[5] = f[1] /\ h[6] = f[2]
  <2>1. n \in Seq(Octets) /\ f \in Seq(Octets)
    BY <1>3, <1>4
  <2>2. /\ h \in Seq(Octets) /\ Len(h) = Len(n) + Len(f)
        /\ \A i \in 1 .. Len(n) : h[i] = n[i]
        /\ \A i \in 1 .. Len(f) : h[Len(n) + i] = f[i]
    BY <2>1
  <2> HIDE DEF h
  <2>3. Len(n) = 4 /\ Len(f) = 2
    BY <1>3, <1>4
  <2> QED BY <2>2, <2>3
<1> HIDE DEF h
<1>8. /\ d \in Seq(Octets) /\ Len(d) = (IF s.duration > 0 THEN 5 ELSE 0)
      /\ s.duration > 0 => d[1].flag = s.autoReturn
      /\ s.duration > 0 => \A g : \A j \in Int : (\A i \in 1 .. 5 : g[j + i - 1] = d[i]) => Number33(g, j) = s.duration
  <2>1. CASE s.duration > 0
    <3>1. s.duration \in 0 .. Limit33 - 1
      BY <1>1, <1>2
    <3>2. d = Field(s.autoReturn, s.duration)
      BY <2>1
    <3>3. /\ d \in Seq(Octets) /\ Len(d) = 5 /\ d[1].flag = s.autoReturn
          /\ \A g : \A j \in Int : (\A i \in 1 .. 5 : g[j + i - 1] = d[i]) => Number33(g, j) = s.duration
      <4> DEFINE fld == Field(s.autoReturn, s.duration)
      <4>1. /\ fld \in Seq(Octets) /\ Len(fld) = 5 /\ fld[1].flag = s.autoReturn
            /\ \A g : \A j \in Int : (\A i \in 1 .. 5 : g[j + i - 1] = fld[i]) => Number33(g, j) = s.duration
        BY <1>2, <3>1, FieldFacts, Zenon
      <4> HIDE DEF d
      <4> QED BY <3>2, <4>1, Zenon
    <3> HIDE DEF d
    <3> QED BY <2>1, <3>3
  <2>2. CASE ~(s.duration > 0)
    BY <2>2
  <2> QED BY <2>1, <2>2
<1> HIDE DEF d
<1>9. /\ c \in Seq(Octets) /\ Len(c) = Len(h) + Len(t) + Len(d) + Len(e)
      /\ \A i \in 1 .. Len(h) : c[i] = h[i]
      /\ \A i \in 1 .. Len(t) : c[Len(h) + i] = t[i]
      /\ \A i \in 1 .. Len(d) : c[Len(h) + Len(t) + i] = d[i]
      /\ \A i \in 1 .. Len(e) : c[Len(h) + Len(t) + Len(d) + i] = e[i]
  <2>1. h \in Seq(Octets) /\ d \in Seq(Octets) /\ e \in Seq(Octets)
    BY <1>5, <1>7, <1>8
  <2>2. Joined(c, h, t, d, e)
    BY <2>1, FourParts, Zenon
  <2> HIDE DEF c
  <2> QED BY <2>2 DEF Joined
<1> HIDE DEF c
<1>10. Len(t) \in Nat /\ p \in Int /\ q \in Int /\ Len(c) = q + 3
  BY <1>5, <1>7, <1>8, <1>9
<1>11. Number(c, 1) = s.event
  <2>1. \A i \in 1 .. 4 : c[1 + i - 1] = n[i]
    BY <1>7, <1>9
  <2> QED BY <1>3, <2>1
<1>12. c[5] = [cancel |-> FALSE] /\ c[6] = flags
  <2>1. c[5] = h[5] /\ c[6] = h[6]
    BY <1>7, <1>9
  <2> QED BY <1>4, <1>7, <2>1
<1>13. \A i \in 1 .. Len(t) : c[6 + i] = t[i]
  BY <1>7, <1>9
<1>14. ASSUME s.duration > 0
       PROVE  c[p].flag = s.autoReturn /\ Number33(c, p) = s.duration
  <2>1. \A i \in 1 .. 5 : c[p + i - 1] = d[i]
    <3>1. Len(d) = 5 /\ Len(h) = 6
      BY <1>7, <1>8, <1>14
    <3>2. \A i \in 1 .. 5 : c[6 + Len(t) + i] = d[i]
      BY <1>9, <3>1, Zenon
    <3>3. ASSUME NEW i \in 1 .. 5
          PROVE  c[p + i - 1] = d[i]
      <4>1. p + i - 1 = 6 + Len(t) + i
        BY <1>10
      <4> QED BY <3>2, <4>1, Zenon
    <3> QED BY <3>3, Zenon
  <2>2. c[p] = d[1]
    BY <1>10, <2>1
  <2> HIDE DEF p
  <2> QED BY <1>8, <1>10, <1>14, <2>1, <2>2
<1>15. c[q] = e[1] /\ c[q + 1] = e[2] /\ c[q + 2] = e[3] /\ c[q + 3] = e[4]
  <2>1. \A i \in 1 .. 4 : c[6 + Len(t) + Len(d) + i] = e[i]
    BY <1>5, <1>7, <1>9
  <2> QED BY <1>8, <1>10, <2>1
<1> HIDE DEF p, q
<1>16. /\ c \in Seq(Octets) /\ Len(c) = q + 3
       /\ Number(c, 1) = s.event
       /\ c[5] = [cancel |-> FALSE] /\ c[6] = flags
       /\ \A i \in 1 .. Len(t) : c[6 + i] = t[i]
       /\ s.duration > 0 => c[p].flag = s.autoReturn /\ Number33(c, p) = s.duration
       /\ c[q] * Base + c[q + 1] = s.program /\ c[q + 2] = s.avail /\ c[q + 3] = s.expected
  BY <1>5, <1>9, <1>10, <1>11, <1>12, <1>13, <1>14, <1>15
<1> QED BY <1>6, <1>16, Zenon DEF p, q

\* the bytes of the splice time of a message, which may be left open
TimeOf(s) ==
    IF s.immediate THEN <<>> ELSE IF s.pts = NoTime THEN <<[flag |-> FALSE, high |-> 0]>> ELSE Field(TRUE, s.pts)

LEMMA TimeFacts ==
    ASSUME NEW s \in Inserts, s.pts < Limit33
    PROVE  LET t == TimeOf(s)
           IN  /\ t \in Seq(Octets)
               /\ Len(t) = IF s.immediate THEN 0 ELSE IF s.pts = NoTime THEN 1 ELSE 5
               /\ ~s.immediate => t[1].flag = (s.pts # NoTime)
               /\ ~s.immediate /\ s.pts # NoTime
                     => \A c : \A p \in Int : (\A i \in 1 .. 5 : c[p + i - 1] = t[i]) => Number33(c, p) = s.pts
<1> DEFINE t == TimeOf(s)
           open == [flag |-> FALSE, high |-> 0]
<1>1. Limit33 \in Nat /\ s.pts \in Nat \cup {NoTime} /\ s.immediate \in BOOLEAN
  BY Scte35Assumption DEF Limit33, Limit32, Square, Inserts
<1>2. CASE s.immediate
  BY <1>1, <1>2 DEF TimeOf
<1>3. CASE ~s.immediate /\ s.pts = NoTime
  <2>1. t = <<open>> /\ open \in Octets /\ open.flag = FALSE
    <3>1. t = <<open>>
      BY <1>3 DEF TimeOf
    <3>2. open \in [flag : BOOLEAN, high : Int] /\ open.flag = FALSE
      OBVIOUS
    <3> HIDE DEF open
    <3> QED BY <3>1, <3>2 DEF Octets
  <2> HIDE DEF t, open
  <2>2. t \in Seq(Octets) /\ Len(t) = 1 /\ t[1] = open
    BY <2>1
  <2>3. t[1].flag = (s.pts # NoTime)
    BY <1>3, <2>1, <2>2
  <2> QED BY <1>3, <2>2, <2>3 DEF t
<1>4. CASE ~s.immediate /\ s.pts # NoTime
  <2> DEFINE f == Field(TRUE, s.pts)
  <2>1. s.pts \in 0 .. Limit33 - 1
    BY <1>1, <1>4
  <2>2. /\ f \in Seq(Octets) /\ Len(f) = 5 /\ f[1].flag = TRUE
        /\ \A c : \A p \in Int : (\A i \in 1 .. 5 : c[p + i - 1] = f[i]) => Number33(c, p) = s.pts
    BY <2>1, FieldFacts, Zenon
  <2>3. t = f
    BY <1>4 DEF TimeOf
  <2> HIDE DEF f, t
  <2>4. t[1].flag = (s.pts # NoTime)
    BY <1>4, <2>2, <2>3
  <2> QED BY <1>4, <2>2, <2>3, <2>4 DEF t
<1> QED BY <1>2, <1>3, <1>4

LEMMA MeaningFields ==
    ASSUME NEW s \in Inserts, ~s.cancel
    PROVE  Meaning(s) = [event |-> s.event, cancel |-> FALSE, out |-> s.out, immediate |-> s.immediate,
                         pts |-> IF s.immediate THEN NoTime ELSE s.pts, duration |-> s.duration,
                         autoReturn |-> s.autoReturn /\ s.duration > 0,
                         program |-> s.program, avail |-> s.avail, expected |-> s.expected]
<1>1. Meaning(s) = [s EXCEPT !.pts = IF s.immediate THEN NoTime ELSE @, !.autoReturn = @ /\ s.duration > 0]
  BY Zenon DEF Meaning
<1> QED BY <1>1 DEF Inserts

\* what is read from a command that is whole
LEMMA RestIsRight ==
    ASSUME NEW s \in Inserts, s.duration < Limit33, s.pts < Limit33, ~s.cancel
    PROVE  LET c == CommandWith(s, TimeOf(s))
           IN  /\ DecodeRest(c) = [ok |-> TRUE, type |-> "splice_insert", insert |-> Meaning(s)]
               /\ c \in Seq(Octets) /\ Len(c) \in 10 .. 20 /\ c[5].cancel = FALSE
<1> DEFINE t == TimeOf(s)
           c == CommandWith(s, t)
           dl == IF s.duration > 0 THEN 5 ELSE 0
           p == 7 + Len(t)
           q == p + dl
<1>1. /\ s.cancel = FALSE /\ s.out \in BOOLEAN /\ s.immediate \in BOOLEAN /\ s.autoReturn \in BOOLEAN
      /\ s.duration \in Nat
  BY DEF Inserts
<1>2. /\ t \in Seq(Octets)
      /\ Len(t) = IF s.immediate THEN 0 ELSE IF s.pts = NoTime THEN 1 ELSE 5
      /\ ~s.immediate => t[1].flag = (s.pts # NoTime)
      /\ ~s.immediate /\ s.pts # NoTime
            => \A g : \A j \in Int : (\A i \in 1 .. 5 : g[j + i - 1] = t[i]) => Number33(g, j) = s.pts
  BY TimeFacts
<1> HIDE DEF t
<1>3. /\ c \in Seq(Octets) /\ Len(c) = q + 3
      /\ Number(c, 1) = s.event
      /\ c[5] = [cancel |-> FALSE]
      /\ c[6] = [out |-> s.out, program |-> TRUE, duration |-> s.duration > 0, immediate |-> s.immediate]
      /\ \A i \in 1 .. Len(t) : c[6 + i] = t[i]
      /\ s.duration > 0 => c[p].flag = s.autoReturn /\ Number33(c, p) = s.duration
      /\ c[q] * Base + c[q + 1] = s.program /\ c[q + 2] = s.avail /\ c[q + 3] = s.expected
  BY <1>2, CommandFacts, Zenon
<1> HIDE DEF c
<1>4. Len(t) \in 0 .. 5 /\ p \in Nat /\ q \in Nat /\ Len(c) \in 10 .. 20
  BY <1>2, <1>3
<1>5. /\ c[6].out = s.out /\ c[6].program = TRUE /\ c[6].duration = (s.duration > 0)
      /\ c[6].immediate = s.immediate /\ c[5].cancel = FALSE
  BY <1>3
<1>6. TimeSize(c) = Len(t)
  <2>1. CASE s.immediate
    BY <1>2, <1>5, <2>1 DEF TimeSize
  <2>2. CASE ~s.immediate
    <3>1. c[7] = t[1]
      BY <1>2, <1>3, <2>2
    <3> QED BY <1>2, <1>5, <2>2, <3>1 DEF TimeSize
  <2> QED BY <1>1, <2>1, <2>2
<1>7. (IF TimeSize(c) = 5 THEN Number33(c, 7) ELSE NoTime) = IF s.immediate THEN NoTime ELSE s.pts
  <2>1. CASE ~s.immediate /\ s.pts # NoTime
    <3>1. Len(t) = 5
      BY <1>2, <2>1
    <3>2. \A i \in 1 .. 5 : c[7 + i - 1] = t[i]
      BY <1>3, <3>1
    <3>3. Number33(c, 7) = s.pts
      BY <1>2, <2>1, <3>2
    <3> QED BY <1>6, <2>1, <3>1, <3>3
  <2>2. CASE s.immediate \/ s.pts = NoTime
    BY <1>2, <1>6, <2>2
  <2> QED BY <2>1, <2>2
<1>8. (IF c[6].duration THEN Number33(c, p) ELSE 0) = s.duration
  <2>1. CASE s.duration > 0
    <3>1. c[6].duration = TRUE /\ Number33(c, p) = s.duration
      BY <1>3, <1>5, <2>1
    <3> QED BY <3>1, Zenon
  <2>2. CASE ~(s.duration > 0)
    <3>1. s.duration = 0
      BY <1>1, <2>2
    <3>2. ~c[6].duration
      BY <1>5, <2>2, Zenon
    <3> QED BY <3>1, <3>2, Zenon
  <2> QED BY <2>1, <2>2
<1>9. (c[6].duration /\ c[p].flag) = (s.autoReturn /\ s.duration > 0)
  <2>1. CASE s.duration > 0
    BY <1>1, <1>3, <1>5, <2>1
  <2>2. CASE ~(s.duration > 0)
    BY <1>1, <1>5, <2>2
  <2> QED BY <2>1, <2>2
<1> DEFINE read == [event |-> Number(c, 1), cancel |-> FALSE, out |-> c[6].out, immediate |-> c[6].immediate,
                    pts |-> IF TimeSize(c) = 5 THEN Number33(c, 7) ELSE NoTime,
                    duration |-> IF c[6].duration THEN Number33(c, p) ELSE 0,
                    autoReturn |-> c[6].duration /\ c[p].flag,
                    program |-> c[q] * Base + c[q + 1], avail |-> c[q + 2], expected |-> c[q + 3]]
<1>10. q = p + (IF c[6].duration THEN 5 ELSE 0) /\ p = 7 + TimeSize(c)
  BY <1>5, <1>6
<1>11. ~(~c[6].immediate /\ Len(c) < 7) /\ ~(Len(c) < q + 3)
  BY <1>3, <1>4
<1>12. DecodeRest(c) = [ok |-> TRUE, type |-> "splice_insert", insert |-> read]
  <2> HIDE DEF p, q
  <2> QED BY <1>5, <1>10, <1>11 DEF DecodeRest
<1>13. read = Meaning(s)
  <2> DEFINE meant == [event |-> s.event, cancel |-> FALSE, out |-> s.out, immediate |-> s.immediate,
                       pts |-> IF s.immediate THEN NoTime ELSE s.pts, duration |-> s.duration,
                       autoReturn |-> s.autoReturn /\ s.duration > 0,
                       program |-> s.program, avail |-> s.avail, expected |-> s.expected]
  <2>1. Meaning(s) = meant
    BY MeaningFields
  <2>3. read = meant
    BY <1>3, <1>5, <1>7, <1>8, <1>9, Zenon
  <2> HIDE DEF read, meant
  <2> QED BY <2>1, <2>3, Zenon
<1> QED BY <1>3, <1>4, <1>5, <1>12, <1>13 DEF c, t

\* a command that is cut short behind its flags is refused
LEMMA CutIsRefused ==
    ASSUME NEW s \in Inserts, s.duration < Limit33, s.pts < Limit33, ~s.cancel,
           NEW n \in 6 .. Len(CommandWith(s, TimeOf(s))) - 1
    PROVE  DecodeRest(SubSeq(CommandWith(s, TimeOf(s)), 1, n)) = Refused
<1> DEFINE t == TimeOf(s)
           c == CommandWith(s, t)
           k == SubSeq(c, 1, n)
           dl == IF s.duration > 0 THEN 5 ELSE 0
<1>1. s.immediate \in BOOLEAN /\ s.duration \in Nat
  BY DEF Inserts
<1>2. /\ t \in Seq(Octets)
      /\ Len(t) = IF s.immediate THEN 0 ELSE IF s.pts = NoTime THEN 1 ELSE 5
      /\ ~s.immediate => t[1].flag = (s.pts # NoTime)
  BY TimeFacts
<1>3. n \in 6 .. Len(c) - 1
  OBVIOUS
<1> HIDE DEF t
<1>4. /\ c \in Seq(Octets) /\ Len(c) = 7 + Len(t) + dl + 3
      /\ c[6] = [out |-> s.out, program |-> TRUE, duration |-> s.duration > 0, immediate |-> s.immediate]
      /\ \A i \in 1 .. Len(t) : c[6 + i] = t[i]
  BY <1>2, CommandFacts, Zenon
<1> HIDE DEF c
<1>5. Len(c) \in 10 .. 20 /\ Len(t) \in 0 .. 5
  BY <1>2, <1>4
<1>6. Len(k) = n /\ \A i \in 1 .. n : k[i] = c[i]
  BY <1>3, <1>4, <1>5
<1> HIDE DEF k
<1>7. k[6] = c[6]
  BY <1>3, <1>5, <1>6
<1>8. k[6].duration = (s.duration > 0) /\ k[6].immediate = s.immediate
  BY <1>4, <1>7
<1>9. ASSUME s.immediate \/ n >= 7
      PROVE  TimeSize(k) = Len(t)
  <2>1. CASE s.immediate
    BY <1>2, <1>8, <2>1 DEF TimeSize
  <2>2. CASE ~s.immediate
    <3>1. c[7] = t[1]
      BY <1>2, <1>4, <2>2
    <3>2. k[7] = c[7]
      BY <1>3, <1>5, <1>6, <1>9, <2>2
    <3> QED BY <1>2, <1>8, <2>2, <3>1, <3>2 DEF TimeSize
  <2> QED BY <1>1, <2>1, <2>2
<1>10. ASSUME s.immediate \/ n >= 7
       PROVE  DecodeRest(k) = Refused
  <2>1. n < 7 + Len(t) + dl + 3
    BY <1>3, <1>4, <1>5
  <2>2. Len(k) < 7 + TimeSize(k) + (IF k[6].duration THEN 5 ELSE 0) + 3
    BY <1>6, <1>8, <1>9, <1>10, <2>1
  <2> QED BY <2>2 DEF DecodeRest
<1>11. ASSUME ~s.immediate, n = 6
       PROVE  DecodeRest(k) = Refused
  BY <1>6, <1>8, <1>11 DEF DecodeRest
<1>12. DecodeRest(k) = Refused
  BY <1>3, <1>5, <1>10, <1>11
<1> QED BY <1>12 DEF k, c, t

LEMMA CancelFacts ==
    ASSUME NEW s \in Inserts, s.cancel, NEW t
    PROVE  LET c == CommandWith(s, t)
           IN  c \in Seq(Octets) /\ Len(c) = 5 /\ c[5].cancel = TRUE /\ Number(c, 1) = s.event
<1> DEFINE b == FourBytes(s.event)
           f == [cancel |-> TRUE]
           g == <<f>>
           c == b \o g
<1>1. s.event \in 0 .. Limit32 - 1
  BY DEF Inserts
<1>2. b \in Seq(Octets) /\ Len(b) = 4
      /\ \A e : \A j \in Int : (\A i \in 1 .. 4 : e[j + i - 1] = b[i]) => Number(e, j) = s.event
  BY <1>1, NumberFacts, Zenon
<1>3. CommandWith(s, t) = c
  BY DEF CommandWith
<1>4. f \in Octets /\ f.cancel = TRUE
  BY DEF Octets
<1> HIDE DEF b, f
<1>5. g \in Seq(Octets) /\ Len(g) = 1 /\ g[1] = f
  BY <1>4
<1> HIDE DEF g
<1>6. /\ c \in Seq(Octets) /\ Len(c) = Len(b) + Len(g)
      /\ (\A i \in 1 .. Len(b) : c[i] = b[i]) /\ (\A i \in 1 .. Len(g) : c[Len(b) + i] = g[i])
  <2>1. b \in Seq(Octets) /\ g \in Seq(Octets)
    BY <1>2, <1>5
  <2> QED BY <2>1
<1> HIDE DEF c
<1>7. Len(c) = 5 /\ c[5] = f /\ \A i \in 1 .. 4 : c[1 + i - 1] = b[i]
  BY <1>2, <1>5, <1>6
<1>8. Number(c, 1) = s.event
  BY <1>2, <1>7
<1> QED BY <1>3, <1>4, <1>6, <1>7, <1>8

LEMMA WrittenFacts ==
    ASSUME NEW s \in Inserts, s.duration < Limit33, s.pts < Limit33
    PROVE  /\ Written(s) = CommandWith(s, TimeOf(s))
           /\ Written(s) \in Seq(Octets) /\ Len(Written(s)) \in 5 .. 20
<1>1. s.cancel \in BOOLEAN
  BY DEF Inserts
<1>2. Written(s) = CommandWith(s, TimeOf(s))
  BY DEF Written, CommandOf, CommandWith, TimeOf
<1>3. CASE s.cancel
  <2>1. CommandWith(s, TimeOf(s)) \in Seq(Octets) /\ Len(CommandWith(s, TimeOf(s))) = 5
    BY <1>3, CancelFacts, Zenon
  <2> QED BY <1>2, <2>1
<1>4. CASE ~s.cancel
  <2>1. Written(s) \in Seq(Octets) /\ Len(Written(s)) \in 10 .. 20
    BY <1>2, <1>4, RestIsRight
  <2> QED BY <1>2, <2>1
<1> QED BY <1>1, <1>3, <1>4

\* every command of any encoder, whole or cut
LEMMA InsertIsRight ==
    ASSUME NEW s \in Inserts, s.duration < Limit33, s.pts < Limit33, NEW n \in Nat, n <= Len(Written(s))
    PROVE  /\ n = Len(Written(s)) => DecodeInsert(SubSeq(Written(s), 1, n))
                                        = [ok |-> TRUE, type |-> "splice_insert", insert |-> Meaning(s)]
           /\ n # Len(Written(s)) => DecodeInsert(SubSeq(Written(s), 1, n)) = Refused
<1> DEFINE c == Written(s)
           k == SubSeq(c, 1, n)
<1>1. s.cancel \in BOOLEAN
  BY DEF Inserts
<1>2. c = CommandWith(s, TimeOf(s)) /\ c \in Seq(Octets) /\ Len(c) \in 5 .. 20
  BY WrittenFacts
<1>3. Len(k) = n /\ (\A i \in 1 .. n : k[i] = c[i]) /\ (n = Len(c) => k = c)
  <2>1. n \in 0 .. Len(c)
    BY <1>2
  <2> HIDE DEF c
  <2>2. k \in Seq(Octets) /\ Len(k) = n /\ (\A i \in 1 .. n : k[i] = c[i])
    BY <1>2, <2>1
  <2> HIDE DEF k
  <2> QED BY <1>2, <2>2
<1>4. CASE s.cancel
  <2>4. Len(c) = 5 /\ c[5].cancel = TRUE /\ Number(c, 1) = s.event
    <3> DEFINE g == CommandWith(s, TimeOf(s))
    <3>1. Len(g) = 5 /\ g[5].cancel = TRUE /\ Number(g, 1) = s.event
      BY <1>4, CancelFacts, Zenon
    <3> QED BY <1>2, <3>1, Zenon
  <2> HIDE DEF c
  <2>6. DecodeInsert(c) = [ok |-> TRUE, type |-> "splice_insert", insert |-> Meaning(s)]
    <3>2. DecodeInsert(c) = [ok |-> TRUE, type |-> "splice_insert",
                             insert |-> [Nothing EXCEPT !.event = Number(c, 1), !.cancel = TRUE]]
      BY <2>4 DEF DecodeInsert
    <3> QED BY <1>4, <2>4, <3>2 DEF Meaning
  <2>7. Len(k) = n /\ (n = Len(c) => k = c)
    BY <1>3
  <2>8. n < 5 => DecodeInsert(k) = Refused
    <3> HIDE DEF k
    <3> QED BY <2>7 DEF DecodeInsert
  <2>9. n \in 0 .. Len(c)
    BY <1>2 DEF c
  <2> HIDE DEF k
  <2>10. /\ n = Len(c) => DecodeInsert(k) = [ok |-> TRUE, type |-> "splice_insert", insert |-> Meaning(s)]
         /\ n # Len(c) => DecodeInsert(k) = Refused
    BY <2>4, <2>6, <2>7, <2>8, <2>9
  <2> QED BY <2>10 DEF k, c
<1>5. CASE ~s.cancel
  <2>1. /\ DecodeRest(c) = [ok |-> TRUE, type |-> "splice_insert", insert |-> Meaning(s)]
        /\ c \in Seq(Octets) /\ Len(c) \in 10 .. 20 /\ c[5].cancel = FALSE
    BY <1>2, <1>5, RestIsRight
  <2>2. n \in 6 .. Len(c) - 1 => DecodeRest(k) = Refused
    BY <1>2, <1>5, CutIsRefused
  <2>3. n \in 0 .. Len(c)
    BY <1>2
  <2>4. Len(k) = n /\ (\A i \in 1 .. n : k[i] = c[i]) /\ (n = Len(c) => k = c)
    BY <1>3
  <2> HIDE DEF c, k
  <2>5. n >= 5 => k[5].cancel = FALSE
    BY <2>1, <2>3, <2>4
  <2>6. n < 6 => DecodeInsert(k) = Refused
    BY <2>3, <2>4, <2>5 DEF DecodeInsert
  <2>7. n >= 6 => DecodeInsert(k) = DecodeRest(k)
    BY <2>3, <2>4, <2>5 DEF DecodeInsert
  <2>8. /\ n = Len(c) => DecodeInsert(k) = [ok |-> TRUE, type |-> "splice_insert", insert |-> Meaning(s)]
        /\ n # Len(c) => DecodeInsert(k) = Refused
    <3>1. CASE n = Len(c)
      <4>1. k = c /\ n >= 6 /\ Len(c) \in 5 .. 20
        <5>1. k = c
          BY <2>4, <3>1, Zenon
        <5>2. Len(c) \in 10 .. 20
          BY <2>1
        <5>3. n \in 10 .. 20
          BY <3>1, <5>2, Zenon
        <5>4. n >= 6
          BY <5>3
        <5>5. Len(c) \in 5 .. 20
          BY <5>2
        <5> QED BY <5>1, <5>4, <5>5, Zenon
      <4>2. DecodeInsert(k) = [ok |-> TRUE, type |-> "splice_insert", insert |-> Meaning(s)]
        BY <2>1, <2>7, <4>1, Zenon
      <4> QED BY <2>1, <3>1, <4>1, <4>2, Zenon
    <3>2. CASE n # Len(c)
      <4>1. n < 6 \/ n \in 6 .. Len(c) - 1
        BY <2>1, <2>3, <3>2
      <4> QED BY <2>1, <2>2, <2>6, <2>7, <3>2, <4>1
    <3> QED BY <3>1, <3>2
  <2> QED BY <2>8 DEF k, c
<1> QED BY <1>1, <1>4, <1>5

LEMMA SealFacts ==
    ASSUME NEW w \in [table : Int, length : Int, version : Int, encrypted : BOOLEAN, cmdLen : Int,
                      type : {"splice_insert", "splice_null"}, rest : Seq(Octets), crc : {<<>>}]
    PROVE  LET b == Sealed(w)
           IN  /\ b.table = w.table /\ b.length = w.length /\ b.version = w.version /\ b.encrypted = w.encrypted
               /\ b.cmdLen = w.cmdLen /\ b.type = w.type /\ b.rest = w.rest
               /\ b.crc = Crc(b)
  BY DEF Sealed, Crc

LEMMA SectionFacts ==
    ASSUME NEW cmd \in Seq(Octets), Len(cmd) <= 20
    PROVE  Decode(Section("splice_insert", cmd)) = DecodeInsert(cmd)
<1> DEFINE two  == <<0, 0>>
           rest == cmd \o two
           n    == Len(cmd)
           raw  == [table |-> 252, length |-> 11 + n + 2 + 4, version |-> 0, encrypted |-> FALSE,
                    cmdLen |-> n, type |-> "splice_insert", rest |-> rest, crc |-> <<>>]
           b    == Section("splice_insert", cmd)
<1>1. two \in Seq(Octets) /\ Len(two) = 2
  BY DEF Octets
<1>2. b = Sealed(raw)
  BY DEF Section
<1> HIDE DEF two
<1>3. /\ rest \in Seq(Octets) /\ Len(rest) = n + Len(two) /\ (\A i \in 1 .. n : rest[i] = cmd[i])
      /\ n \in Nat /\ n <= 20
  <2>1. two \in Seq(Octets)
    BY <1>1
  <2> QED BY <2>1
<1> HIDE DEF rest
<1>4. SubSeq(rest, 1, n) = cmd
  <2> DEFINE k == SubSeq(rest, 1, n)
  <2>1. k \in Seq(Octets) /\ Len(k) = n /\ (\A i \in 1 .. n : k[i] = rest[i])
    BY <1>3
  <2> HIDE DEF k
  <2>2. k = cmd
    BY <1>3, <2>1
  <2> QED BY <2>2 DEF k
<1> HIDE DEF b, n
<1>5. raw \in [table : Int, length : Int, version : Int, encrypted : BOOLEAN, cmdLen : Int,
               type : {"splice_insert", "splice_null"}, rest : Seq(Octets), crc : {<<>>}]
  <2> DEFINE len == 11 + n + 2 + 4
  <2>1. len \in Int /\ n \in Int /\ rest \in Seq(Octets)
    BY <1>3
  <2> HIDE DEF len
  <2>2. raw = [table |-> 252, length |-> len, version |-> 0, encrypted |-> FALSE,
               cmdLen |-> n, type |-> "splice_insert", rest |-> rest, crc |-> <<>>]
    BY DEF len
  <2> HIDE DEF raw
  <2> QED BY <2>1, <2>2
<1>6. /\ raw.table = 252 /\ raw.length = 11 + n + 2 + 4 /\ raw.version = 0 /\ raw.encrypted = FALSE
      /\ raw.cmdLen = n /\ raw.type = "splice_insert" /\ raw.rest = rest
  OBVIOUS
<1> HIDE DEF raw
<1>7. /\ b.table = 252 /\ b.length = 11 + n + 2 + 4 /\ b.version = 0 /\ b.encrypted = FALSE
      /\ b.cmdLen = n /\ b.type = "splice_insert" /\ b.rest = rest
      /\ b.crc = Crc(b)
  BY <1>2, <1>5, <1>6, SealFacts
<1>8. SizeOf(b) = 14 + (n + 2) + 4
  BY <1>1, <1>3, <1>7 DEF SizeOf
<1>9. Decode(b) = DecodeInsert(SubSeq(b.rest, 1, b.cmdLen))
  <2>1. ~(SizeOf(b) < 18) /\ b.length + 3 = SizeOf(b) /\ b.cmdLen # 4095 /\ ~(b.cmdLen > Len(b.rest) - 2)
    BY <1>1, <1>3, <1>7, <1>8
  <2>2. b.table = 252 /\ b.crc = Crc(b) /\ b.version = 0 /\ ~b.encrypted /\ b.type = "splice_insert"
    BY <1>7
  <2> QED BY <2>1, <2>2 DEF Decode
<1>10. Decode(b) = DecodeInsert(cmd)
  BY <1>4, <1>7, <1>9
<1> QED BY <1>10 DEF b

\* what Decode makes of the section of a message, whole or cut, and of what Encode has made
LEMMA SectionIsRight ==
    ASSUME NEW s \in Inserts, s.duration < Limit33, s.pts < Limit33, NEW n \in Nat, n <= Len(Written(s))
    PROVE  Decode(WrittenSection(s, n)) = IF n = Len(Written(s))
                                          THEN [ok |-> TRUE, type |-> "splice_insert", insert |-> Meaning(s)]
                                          ELSE Refused
<1> DEFINE c == Written(s)
           k == SubSeq(c, 1, n)
<1>1. /\ n = Len(Written(s)) => DecodeInsert(k) = [ok |-> TRUE, type |-> "splice_insert", insert |-> Meaning(s)]
      /\ n # Len(Written(s)) => DecodeInsert(k) = Refused
  BY InsertIsRight
<1>2. k \in Seq(Octets) /\ Len(k) <= 20
  <2>1. c \in Seq(Octets) /\ Len(c) \in 5 .. 20 /\ n \in 0 .. Len(c)
    BY WrittenFacts
  <2> HIDE DEF c
  <2>2. k \in Seq(Octets) /\ Len(k) = n
    BY <2>1
  <2>3. n <= 20
    <3> DEFINE l == Len(c)
    <3>1. l \in 5 .. 20 /\ n <= l
      BY <2>1
    <3> HIDE DEF l
    <3> QED BY <3>1
  <2> QED BY <2>2, <2>3, Zenon
<1>3. Decode(WrittenSection(s, n)) = DecodeInsert(k)
  <2> HIDE DEF k
  <2>1. Decode(Section("splice_insert", k)) = DecodeInsert(k)
    BY <1>2, SectionFacts
  <2> QED BY <2>1 DEF WrittenSection, k
<1> HIDE DEF k
<1> QED BY <1>1, <1>3

LEMMA EncodeIsRight ==
    ASSUME NEW s \in Inserts, Encodable(s)
    PROVE  Decode(Encode(s)) = [ok |-> TRUE, type |-> "splice_insert", insert |-> Meaning(s)]
<1> DEFINE c == Written(s)
<1>1. s.duration < Limit33 /\ s.pts < Limit33
  BY DEF Encodable
<1>2. CommandOf(s) = c
  BY DEF Encodable, Written, CommandOf, CommandWith
<1>3. c \in Seq(Octets) /\ Len(c) \in 5 .. 20
  BY <1>1, WrittenFacts
<1>4. WrittenSection(s, Len(c)) = Encode(s)
  <2>1. SubSeq(c, 1, Len(c)) = c
    <3> HIDE DEF c
    <3> QED BY <1>3
  <2> QED BY <1>2, <2>1 DEF WrittenSection, Encode
<1>5. Len(c) \in 0 .. Len(c)
  BY <1>3
<1> QED BY <1>1, <1>4, <1>5, SectionIsRight

\* Decode gives back everything that was written into a message, for bytes of any size: also when the message leaves
\* its splice time open, so that all behind it stands four bytes earlier; it refuses every message that is cut; and
\* what Encode accepts survives the way there and back.
THEOREM MessagesSurvive == CodecsSpec => []DecodeInverts
<1>1. CodecsInit => DecodeInverts
  BY DEF CodecsInit, Idle, DecodeInverts
<1>2. DecodeInverts /\ [CodecsNext]_call => DecodeInverts'
  <2> SUFFICES ASSUME DecodeInverts, [CodecsNext]_call, call'.op \in {"decode", "encode"}
               PROVE  DecodeInverts'
    BY DEF DecodeInverts
  <2>1. CASE UNCHANGED call
    BY <2>1 DEF DecodeInverts
  <2>2. CASE CallDecode
    <3>1. PICK s \in Messages : \E n \in 0 .. Len(Written(s)) :
             /\ Fits33(s)
             /\ call' = [op |-> "decode", ask |-> [s |-> s, n |-> n], answer |-> Decode(WrittenSection(s, n))]
      BY <2>2 DEF CallDecode
    <3>2. PICK n \in 0 .. Len(Written(s)) :
             /\ Fits33(s)
             /\ call' = [op |-> "decode", ask |-> [s |-> s, n |-> n], answer |-> Decode(WrittenSection(s, n))]
      BY <3>1
    <3>3. s \in Inserts /\ s.duration < Limit33 /\ s.pts < Limit33
      BY <3>2, MessagesAssumption DEF Fits33
    <3>4. Len(Written(s)) \in 5 .. 20
      BY <3>3, WrittenFacts
    <3>5. n \in Nat /\ n <= Len(Written(s))
      BY <3>4
    <3> DEFINE answer == Decode(WrittenSection(s, n))
    <3>6. answer = IF n = Len(Written(s)) THEN [ok |-> TRUE, type |-> "splice_insert", insert |-> Meaning(s)] ELSE Refused
      BY <3>3, <3>5, SectionIsRight, Zenon
    <3>7. IF n = Len(Written(s)) THEN answer.ok /\ answer.insert = Meaning(s) ELSE ~answer.ok
      BY <3>6 DEF Refused
    <3> HIDE DEF answer
    <3>8. call'.op = "decode" /\ call'.ask.s = s /\ call'.ask.n = n /\ call'.answer = answer
      BY <3>2 DEF answer
    <3> QED BY <3>7, <3>8 DEF DecodeInverts
  <2>3. CASE CallEncode
    <3>1. PICK s \in Messages :
             call' = [op |-> "encode", ask |-> s, answer |-> IF Encodable(s) THEN Decode(Encode(s)) ELSE Refused]
      BY <2>3 DEF CallEncode
    <3>2. s \in Inserts
      BY MessagesAssumption
    <3> DEFINE answer == IF Encodable(s) THEN Decode(Encode(s)) ELSE Refused
    <3>3. IF Encodable(s) THEN answer.ok /\ answer.insert = Meaning(s) ELSE ~answer.ok
      <4>1. CASE Encodable(s)
        BY <3>2, <4>1, EncodeIsRight
      <4>2. CASE ~Encodable(s)
        BY <4>2 DEF Refused
      <4> QED BY <4>1, <4>2
    <3> HIDE DEF answer
    <3>4. call'.op = "encode" /\ call'.ask = s /\ call'.answer = answer
      BY <3>1 DEF answer
    <3> QED BY <3>3, <3>4 DEF DecodeInverts, Encodable, Fits33
  <2> QED BY <2>1, <2>2, <2>3 DEF CodecsNext, Call, Idle, CallChildren, CallRetime, CallMarkers, CallParse, CallFill
<1> QED BY <1>1, <1>2, PTL DEF CodecsSpec

\* the length of a break covers the duration of its message, by less than a second
LEMMA BreakSecondsFacts ==
    ASSUME NEW d \in Nat
    PROVE  LET n == BreakSeconds(d) IN n \in Nat /\ d \in (n - 1) * TickRate + 1 .. n * TickRate
<1> DEFINE x == d + TickRate - 1
           n == x \div TickRate
           r == x % TickRate
<1>1. TickRate \in Nat \ {0}
  BY Scte35Assumption
<1>2. x \in Nat
  BY <1>1
<1> HIDE DEF x
<1>3. n \in Nat /\ r \in 0 .. TickRate - 1 /\ x = n * TickRate + r
  BY <1>1, <1>2
<1>4. BreakSeconds(d) = n
  BY DEF BreakSeconds, x
<1> HIDE DEF n, r
<1>5. (n - 1) * TickRate = n * TickRate - TickRate
  BY <1>1, <1>3
<1>6. d \in (n - 1) * TickRate + 1 .. n * TickRate
  BY <1>1, <1>3, <1>5 DEF x
<1> QED BY <1>3, <1>4, <1>6

LEMMA EmptyIsRefused == Decode(Empty) = Refused
<1>1. Empty.table = 0
  BY DEF Empty, Null, Section, Sealed
<1> QED BY <1>1 DEF Decode

\* the two messages the engine makes
LEMMA OutAndIn ==
    ASSUME NEW event \in 0 .. Limit32 - 1, NEW seconds \in Nat
    PROVE  /\ Out(event, seconds) \in Inserts /\ In(event) \in Inserts
           /\ Encodable(In(event)) /\ (Encodable(Out(event, seconds)) <=> seconds * TickRate < Limit33)
           /\ Meaning(Out(event, seconds)).event = event /\ Meaning(Out(event, seconds)).out = TRUE
           /\ Meaning(Out(event, seconds)).duration = seconds * TickRate
           /\ Meaning(In(event)).event = event /\ Meaning(In(event)).out = FALSE
<1>1. /\ 0 \in 0 .. Square - 1 /\ 0 \in 0 .. Base - 1 /\ 1 \in 0 .. Base - 1
      /\ seconds * TickRate \in Nat /\ Limit33 \in Nat \ {0}
  BY Scte35Assumption DEF Square, Limit33, Limit32
<1>2. Out(event, seconds) \in Inserts /\ In(event) \in Inserts
  BY <1>1 DEF Out, In, Inserts
<1>3. Encodable(In(event)) /\ (Encodable(Out(event, seconds)) <=> seconds * TickRate < Limit33)
  BY <1>1 DEF Encodable, Out, In, NoTime
<1>4. /\ Meaning(Out(event, seconds)).event = event /\ Meaning(Out(event, seconds)).out = TRUE
      /\ Meaning(Out(event, seconds)).duration = seconds * TickRate
      /\ Meaning(In(event)).event = event /\ Meaning(In(event)).out = FALSE
  BY DEF Meaning, Out, In
<1> QED BY <1>2, <1>3, <1>4

LEMMA NullIsNothing == Decode(Null) = [ok |-> TRUE, type |-> "splice_null", insert |-> Nothing]
<1> DEFINE two  == <<0, 0>>
           none == << >>
           rest == none \o two
           raw  == [table |-> 252, length |-> 11 + Len(none) + 2 + 4, version |-> 0, encrypted |-> FALSE,
                    cmdLen |-> Len(none), type |-> "splice_null", rest |-> rest, crc |-> <<>>]
<1>1. Null = Sealed(raw)
  BY DEF Null, Section
<1>2. two \in Seq(Octets) /\ Len(two) = 2
  BY DEF Octets
<1>3. none \in Seq(Octets) /\ Len(none) = 0
  OBVIOUS
<1> HIDE DEF two, none
<1>4. rest \in Seq(Octets) /\ Len(rest) = 2
  BY <1>2, <1>3
<1> HIDE DEF rest
<1> DEFINE n   == Len(none)
           len == 11 + n + 2 + 4
<1>5. n = 0 /\ len = 17
  BY <1>3
<1>6. raw = [table |-> 252, length |-> len, version |-> 0, encrypted |-> FALSE,
             cmdLen |-> n, type |-> "splice_null", rest |-> rest, crc |-> <<>>]
  OBVIOUS
<1> HIDE DEF n, len, raw
<1>7. /\ raw \in [table : Int, length : Int, version : Int, encrypted : BOOLEAN, cmdLen : Int,
                  type : {"splice_insert", "splice_null"}, rest : Seq(Octets), crc : {<<>>}]
      /\ raw.table = 252 /\ raw.length = 17 /\ raw.version = 0 /\ raw.encrypted = FALSE
      /\ raw.cmdLen = 0 /\ raw.type = "splice_null" /\ raw.rest = rest
  BY <1>4, <1>5, <1>6
<1>8. /\ Null.table = 252 /\ Null.length = 17 /\ Null.version = 0 /\ Null.encrypted = FALSE
      /\ Null.cmdLen = 0 /\ Null.type = "splice_null" /\ Null.rest = rest
      /\ Null.crc = Crc(Null)
  BY <1>1, <1>7, SealFacts
<1> DEFINE b == Null
<1> HIDE DEF b
<1>9. /\ b.table = 252 /\ b.length = 17 /\ b.version = 0 /\ b.encrypted = FALSE
      /\ b.cmdLen = 0 /\ b.type = "splice_null" /\ b.rest = rest
      /\ b.crc = Crc(b)
  BY <1>8 DEF b
<1>10. Len(b.rest) = 2
  BY <1>4, <1>9, Zenon
<1> DEFINE r == Len(b.rest)
           z == 14 + r + 4
<1>11. SizeOf(b) = z
  BY DEF SizeOf
<1> HIDE DEF r
<1>12. z = 20 /\ ~(b.cmdLen > r - 2)
  BY <1>9, <1>10 DEF r
<1> HIDE DEF z
<1>13. ~(SizeOf(b) < 18) /\ b.length + 3 = SizeOf(b) /\ b.cmdLen # 4095 /\ ~(b.cmdLen > Len(b.rest) - 2)
  BY <1>9, <1>11, <1>12 DEF r
<1>14. Decode(b) = [ok |-> TRUE, type |-> b.type, insert |-> Nothing]
  BY <1>9, <1>13 DEF Decode
<1> QED BY <1>9, <1>14 DEF b

\* what the engine finds when it looks into the message of a break
LEMMA CarriedFacts ==
    ASSUME NEW c \in Carried
    PROVE  \/ c.own = {} /\ Decode(c.given) = Refused
           \/ \E s : /\ c.own = {s} /\ s \in Inserts
                     /\ Decode(c.given).ok /\ Decode(c.given).insert = Meaning(s)
<1>1. CASE c = [own |-> {}, given |-> Empty]
  BY <1>1, EmptyIsRefused
<1>2. CASE c = [own |-> {Nothing}, given |-> Null]
  <2>1. Nothing \in Inserts
    BY Scte35Assumption DEF Nothing, Inserts, Limit32, Square
  <2>2. Meaning(Nothing) = Nothing
    BY DEF Meaning, Nothing
  <2>3. Decode(Null).ok /\ Decode(Null).insert = Meaning(Nothing)
    BY <2>2, NullIsNothing
  <2> QED BY <1>2, <2>1, <2>3
<1>3. ASSUME NEW s \in Messages, Fits33(s)
      PROVE  /\ s \in Inserts
             /\ Decode(WrittenSection(s, Len(Written(s)))) = [ok |-> TRUE, type |-> "splice_insert", insert |-> Meaning(s)]
             /\ Decode(WrittenSection(s, Len(Written(s)) - 1)) = Refused
  <2> DEFINE n == Len(Written(s))
  <2>1. s \in Inserts /\ s.duration < Limit33 /\ s.pts < Limit33
    BY <1>3, MessagesAssumption DEF Fits33
  <2>2. n \in 5 .. 20
    BY <2>1, WrittenFacts
  <2>3. n \in Nat /\ n <= n /\ n - 1 \in Nat /\ n - 1 <= n /\ n - 1 # n
    <3> HIDE DEF n
    <3> QED BY <2>2
  <2>4. Decode(WrittenSection(s, n)) = IF n = Len(Written(s))
                                       THEN [ok |-> TRUE, type |-> "splice_insert", insert |-> Meaning(s)]
                                       ELSE Refused
    BY <2>1, <2>3, SectionIsRight, Zenon
  <2> DEFINE m == n - 1
  <2>5. m \in Nat /\ m <= Len(Written(s)) /\ m # Len(Written(s))
    BY <2>3, Zenon
  <2> HIDE DEF m
  <2>6. Decode(WrittenSection(s, m)) = IF m = Len(Written(s))
                                       THEN [ok |-> TRUE, type |-> "splice_insert", insert |-> Meaning(s)]
                                       ELSE Refused
    BY <2>1, <2>5, SectionIsRight, Zenon
  <2>7. Decode(WrittenSection(s, m)) = Refused
    BY <2>5, <2>6, Zenon
  <2> QED BY <2>1, <2>4, <2>7, Zenon DEF m
<1>4. ASSUME NEW s \in Messages, Fits33(s), c = [own |-> {s}, given |-> WrittenSection(s, Len(Written(s)))]
      PROVE  c.own = {s} /\ s \in Inserts /\ Decode(c.given).ok /\ Decode(c.given).insert = Meaning(s)
  <2> DEFINE g == WrittenSection(s, Len(Written(s)))
  <2>1. Decode(g) = [ok |-> TRUE, type |-> "splice_insert", insert |-> Meaning(s)] /\ s \in Inserts
    BY <1>3, <1>4, Zenon
  <2> HIDE DEF g
  <2>2. c.own = {s} /\ c.given = g
    BY <1>4 DEF g
  <2> QED BY <2>1, <2>2
<1>5. ASSUME NEW s \in Messages, Fits33(s), c = [own |-> {}, given |-> WrittenSection(s, Len(Written(s)) - 1)]
      PROVE  c.own = {} /\ Decode(c.given) = Refused
  <2> DEFINE g == WrittenSection(s, Len(Written(s)) - 1)
  <2>1. Decode(g) = Refused
    BY <1>3, <1>5, Zenon
  <2> HIDE DEF g
  <2>2. c.own = {} /\ c.given = g
    BY <1>5 DEF g
  <2> QED BY <2>1, <2>2
<1>6. \/ c = [own |-> {}, given |-> Empty] \/ c = [own |-> {Nothing}, given |-> Null]
      \/ \E s \in {t \in Messages : Fits33(t)} : c = [own |-> {s}, given |-> WrittenSection(s, Len(Written(s)))]
      \/ \E s \in {t \in Messages : Fits33(t)} : c = [own |-> {}, given |-> WrittenSection(s, Len(Written(s)) - 1)]
  BY Zenon DEF Carried
<1> QED BY <1>1, <1>2, <1>4, <1>5, <1>6, Zenon

\* The marker at the start of a break without a message of its own, or with one that cannot be read, is an out of exactly
\* its length; it is missing only if no message can say that length.  A message of its own is passed on with what it
\* says.  One that came through POST /scte35 is an out that is not shorter than the break, however it has been cut,
\* and not a second longer when it has not.  The marker at the end is always an in.
THEOREM MarkersCarryTheBreak == CodecsSpec => []MarkersTellTheBreak
<1>1. CodecsInit => MarkersTellTheBreak
  BY DEF CodecsInit, Idle, MarkersTellTheBreak
<1>2. MarkersTellTheBreak /\ [CodecsNext]_call => MarkersTellTheBreak'
  <2> SUFFICES ASSUME MarkersTellTheBreak, [CodecsNext]_call, call'.op = "markers"
               PROVE  MarkersTellTheBreak'
    BY DEF MarkersTellTheBreak
  <2>1. CASE UNCHANGED call
    BY <2>1 DEF MarkersTellTheBreak
  <2>2. CASE CallMarkers
    <3>1. PICK c \in Carried, event \in {t.event : t \in Messages} :
             \E asked \in Asked(c) : \E seconds \in Left(asked) :
                   call' = [op |-> "markers", ask |-> [own |-> c.own, asked |-> asked, seconds |-> seconds, event |-> event],
                            answer |-> [start |-> Decode(StartPayload(c.given, event, seconds)),
                                        end |-> Decode(EndPayload(event))]]
      BY <2>2, Zenon DEF CallMarkers
    <3>2. PICK asked \in Asked(c) : \E seconds \in Left(asked) :
                call' = [op |-> "markers", ask |-> [own |-> c.own, asked |-> asked, seconds |-> seconds, event |-> event],
                         answer |-> [start |-> Decode(StartPayload(c.given, event, seconds)),
                                     end |-> Decode(EndPayload(event))]]
      BY <3>1, Zenon
    <3>3. PICK seconds \in Left(asked) :
             call' = [op |-> "markers", ask |-> [own |-> c.own, asked |-> asked, seconds |-> seconds, event |-> event],
                      answer |-> [start |-> Decode(StartPayload(c.given, event, seconds)),
                                  end |-> Decode(EndPayload(event))]]
      BY <3>2, Zenon
    <3> DEFINE start == Decode(StartPayload(c.given, event, seconds))
               end   == Decode(EndPayload(event))
               ticks == seconds * TickRate
    <3>4. /\ call'.ask.own = c.own /\ call'.ask.asked = asked /\ call'.ask.seconds = seconds /\ call'.ask.event = event
          /\ call'.answer.start = start /\ call'.answer.end = end
      <4> HIDE DEF start, end
      <4>1. call' = [op |-> "markers", ask |-> [own |-> c.own, asked |-> asked, seconds |-> seconds, event |-> event],
                     answer |-> [start |-> start, end |-> end]]
        BY <3>3 DEF start, end
      <4> QED BY <4>1
    <3>5. event \in 0 .. Limit32 - 1 /\ TickRate \in Nat \ {0}
      BY MessagesAssumption, Scte35Assumption DEF Inserts
    <3>6. /\ asked = 0 \/ \E s \in c.own : StartsBreak(c.given) /\ asked = BreakSeconds(s.duration)
          /\ seconds \in IF asked = 0 THEN BreakLengths ELSE 1 .. asked
      BY <3>2, <3>3, Zenon DEF Asked, Left
    <3>7. asked \in Nat /\ seconds \in Nat
      <4>1. CASE asked = 0
        BY <3>6, <4>1, MessagesAssumption
      <4>2. CASE asked # 0
        <5>1. PICK s \in c.own : StartsBreak(c.given) /\ asked = BreakSeconds(s.duration)
          BY <3>6, <4>2
        <5>2. s \in Inserts
          BY <5>1, CarriedFacts, Zenon
        <5>3. s.duration \in Nat
          BY <5>2 DEF Inserts
        <5>4. asked \in Nat
          BY <5>1, <5>3, BreakSecondsFacts
        <5>5. seconds \in 1 .. asked
          BY <3>6, <4>2
        <5> QED BY <5>4, <5>5
      <4> QED BY <4>1, <4>2
    <3>8. end.ok /\ ~end.insert.out /\ end.insert.event = event
      <4>1. /\ Encodable(In(event)) /\ In(event) \in Inserts
            /\ Meaning(In(event)).event = event /\ Meaning(In(event)).out = FALSE
        BY <3>5, <3>7, OutAndIn, Zenon
      <4>2. end = [ok |-> TRUE, type |-> "splice_insert", insert |-> Meaning(In(event))]
        BY <4>1, EncodeIsRight DEF EndPayload
      <4> HIDE DEF end
      <4> QED BY <4>1, <4>2
    <3> HIDE DEF end
    <3>9. CASE c.own = {} /\ Decode(c.given) = Refused
      <4>1. /\ Out(event, seconds) \in Inserts /\ (Encodable(Out(event, seconds)) <=> ticks < Limit33)
            /\ Meaning(Out(event, seconds)).event = event /\ Meaning(Out(event, seconds)).out = TRUE
            /\ Meaning(Out(event, seconds)).duration = ticks
        BY <3>5, <3>7, OutAndIn, Zenon
      <4>2. start = IF Encodable(Out(event, seconds)) THEN Decode(Encode(Out(event, seconds))) ELSE Refused
        <5>1. ~Decode(c.given).ok
          BY <3>9 DEF Refused
        <5>2. StartPayload(c.given, event, seconds)
                = IF Encodable(Out(event, seconds)) THEN Encode(Out(event, seconds)) ELSE Empty
          BY <5>1 DEF StartPayload
        <5> QED BY <5>2, EmptyIsRefused, Zenon
      <4> HIDE DEF start, ticks
      <4>3. start.ok <=> ticks < Limit33
        BY <4>1, <4>2, EncodeIsRight DEF Refused
      <4>4. ASSUME start.ok
            PROVE  start.insert.out /\ start.insert.event = event /\ start.insert.duration = ticks
        BY <4>1, <4>2, <4>3, <4>4, EncodeIsRight
      <4>5. asked = 0
        BY <3>6, <3>9
      <4> QED BY <3>4, <3>8, <3>9, <4>3, <4>4, <4>5 DEF MarkersTellTheBreak, ticks
    <3>10. ASSUME NEW s, c.own = {s}, s \in Inserts, Decode(c.given).ok, Decode(c.given).insert = Meaning(s)
           PROVE  MarkersTellTheBreak'
      <4>1. start.ok /\ start.insert = Meaning(s)
        BY <3>10 DEF StartPayload
      <4>2. ASSUME asked > 0
            PROVE  start.insert.out /\ start.insert.duration > ticks - TickRate
                   /\ (asked = seconds => start.insert.duration <= ticks)
        <5>1. StartsBreak(c.given) /\ asked = BreakSeconds(s.duration) /\ seconds \in 1 .. asked
          BY <3>6, <3>10, <4>2
        <5>2. s.cancel \in BOOLEAN /\ s.duration \in Nat
          BY <3>10 DEF Inserts
        <5>3. ~Meaning(s).cancel /\ Meaning(s).out
          BY <3>10, <5>1 DEF StartsBreak
        <5>4. ~s.cancel
          BY <5>2, <5>3 DEF Meaning
        <5>5. Meaning(s).duration = s.duration
          BY <3>10, <5>4 DEF Meaning, Inserts
        <5>6. s.duration \in (asked - 1) * TickRate + 1 .. asked * TickRate
          BY <5>1, <5>2, BreakSecondsFacts
        <5>7. (asked - 1) * TickRate >= (seconds - 1) * TickRate /\ (seconds - 1) * TickRate = ticks - TickRate
              /\ ticks \in Nat /\ asked * TickRate \in Nat
          <6>1. asked - 1 \in Nat /\ seconds - 1 \in Nat /\ asked - seconds \in Nat
            BY <3>7, <5>1
          <6>2. (asked - seconds) * TickRate >= 0
            BY <3>5, <6>1
          <6> QED BY <3>5, <3>7, <6>1, <6>2
        <5> HIDE DEF start, ticks
        <5>8. s.duration > ticks - TickRate
          <6> DEFINE low  == (asked - 1) * TickRate
                     high == asked * TickRate
                     part == (seconds - 1) * TickRate
          <6>1. low >= part /\ part = ticks - TickRate /\ s.duration \in low + 1 .. high /\ high \in Nat
            BY <5>6, <5>7
          <6>2. part \in Int /\ low \in Int
            BY <3>5, <3>7
          <6> HIDE DEF low, high, part
          <6> QED BY <5>2, <6>1, <6>2
        <5>9. asked = seconds => s.duration <= ticks
          BY <5>2, <5>6 DEF ticks
        <5> QED BY <4>1, <5>3, <5>5, <5>8, <5>9
      <4> HIDE DEF start, ticks
      <4> QED BY <3>4, <3>7, <3>8, <3>10, <4>1, <4>2 DEF MarkersTellTheBreak, ticks
    <3> QED BY <3>9, <3>10, CarriedFacts, Zenon
  <2> QED BY <2>1, <2>2 DEF CodecsNext, Call, Idle, CallChildren, CallRetime, CallDecode, CallEncode, CallParse, CallFill
<1> QED BY <1>1, <1>2, PTL DEF CodecsSpec

-----------------------------------------------------------------------------
(* Parse *)

Line == [tag : Tags, value : Int]

\* the loop of Parse: what it keeps after every line, each time from what it kept before
LEMMA ParsedLoop ==
    ASSUME NEW lines, Len(lines) \in Nat
    PROVE  \E after : /\ after[0] = Begin
                      /\ \A i \in 1 .. Len(lines) : after[i] = ParseLine(after[i - 1], lines[i])
                      /\ Parsed(lines) = after[Len(lines)]
<1> DEFINE n == Len(lines)
           Step(g, i) == IF i = 0 THEN Begin ELSE ParseLine(g[i - 1], lines[i])
           Is(g, k) == g = [i \in 0 .. k |-> Step(g, i)]
           X == {k \in Nat : \E g : Is(g, k)}
<1>1. Parsed(lines) = (CHOOSE g : Is(g, n))[n]
  BY DEF Parsed
<1>2. 0 \in X
  <2> DEFINE g == [i \in 0 .. 0 |-> Begin]
  <2>1. \A i \in 0 .. 0 : g[i] = Step(g, i)
    OBVIOUS
  <2>2. Is(g, 0)
    <3> HIDE DEF Step
    <3> QED BY <2>1
  <2> QED BY <2>2
<1>3. ASSUME NEW k \in Nat, k \in X PROVE k + 1 \in X
  <2>1. PICK g : Is(g, k)
    BY <1>3
  <2> DEFINE h == [i \in 0 .. k + 1 |-> IF i = k + 1 THEN Step(g, k + 1) ELSE g[i]]
  <2>2. \A i \in 0 .. k : g[i] = Step(g, i)
    <3> HIDE DEF Step
    <3> QED BY <2>1
  <2>3. \A i \in 0 .. k + 1 : h[i] = Step(h, i)
    BY <2>2
  <2>4. Is(h, k + 1)
    <3> HIDE DEF Step
    <3> QED BY <2>3
  <2> HIDE DEF Is
  <2> QED BY <2>4
<1>4. \A k \in Nat : k \in X
  <2> HIDE DEF X
  <2> QED BY <1>2, <1>3, NumberInduction
<1> DEFINE after == CHOOSE g : Is(g, n)
<1>5. Is(after, n)
  <2>1. \E g : Is(g, n)
    BY <1>4
  <2> HIDE DEF Is
  <2> QED BY <2>1
<1>6. \A i \in 0 .. n : after[i] = Step(after, i)
  <2> HIDE DEF Step, after
  <2> QED BY <1>5
<1> HIDE DEF after
<1>7. after[0] = Begin /\ \A i \in 1 .. n : after[i] = ParseLine(after[i - 1], lines[i])
  BY <1>6
<1>8. Parsed(lines) = after[n]
  BY <1>1 DEF after
<1> QED BY <1>7, <1>8

\* the lines with a tag, one line further
LEMMA AboveStep ==
    ASSUME NEW lines \in Seq(Line), NEW i \in 0 .. Len(lines) - 1, NEW tag
    PROVE  Above(lines, i + 1, tag) =
             IF lines[i + 1].tag = tag THEN Above(lines, i, tag) \cup {i + 1} ELSE Above(lines, i, tag)
<1>1. DOMAIN lines = 1 .. Len(lines) /\ Len(lines) \in Nat
  OBVIOUS
<1>2. \A j \in DOMAIN lines : j <= i + 1 <=> j <= i \/ j = i + 1
  BY <1>1
<1>3. i + 1 \in DOMAIN lines /\ ~(i + 1 <= i)
  BY <1>1
<1> QED BY <1>2, <1>3, Zenon DEF Above

\* those that wait for a segment, one line further
LEMMA PendingStep ==
    ASSUME NEW lines \in Seq(Line), NEW i \in 0 .. Len(lines) - 1, NEW tag, tag # "uri"
    PROVE  Pending(lines, i + 1, tag) =
             IF lines[i + 1].tag = "uri" THEN {}
             ELSE IF lines[i + 1].tag = tag THEN Pending(lines, i, tag) \cup {i + 1} ELSE Pending(lines, i, tag)
<1> DEFINE A == Above(lines, i, tag)
           U == Above(lines, i, "uri")
<1>1. \A j \in A \cup U : j \in Int /\ j <= i
  BY DEF Above
<1>2. Above(lines, i + 1, tag) = (IF lines[i + 1].tag = tag THEN A \cup {i + 1} ELSE A)
  BY AboveStep, Zenon
<1>3. Above(lines, i + 1, "uri") = (IF lines[i + 1].tag = "uri" THEN U \cup {i + 1} ELSE U)
  BY AboveStep, Zenon
<1>4. Pending(lines, i, tag) = {j \in A : \A k \in U : k < j}
  BY Zenon DEF Pending
<1>5. Pending(lines, i + 1, tag) = {j \in Above(lines, i + 1, tag) : \A k \in Above(lines, i + 1, "uri") : k < j}
  BY Zenon DEF Pending
<1> HIDE DEF A, U
<1>6. (\A j \in A : ~(i + 1 < j)) /\ (\A k \in U : k < i + 1)
  BY <1>1
<1>7. CASE lines[i + 1].tag = "uri"
  <2>1. Above(lines, i + 1, tag) = A /\ i + 1 \in Above(lines, i + 1, "uri")
    BY <1>2, <1>3, <1>7, Zenon
  <2> QED BY <1>5, <1>6, <1>7, <2>1, Zenon
<1>8. CASE lines[i + 1].tag # "uri" /\ lines[i + 1].tag = tag
  <2>1. Above(lines, i + 1, tag) = A \cup {i + 1} /\ Above(lines, i + 1, "uri") = U
    BY <1>2, <1>3, <1>8, Zenon
  <2>2. Pending(lines, i + 1, tag) = {j \in A \cup {i + 1} : \A k \in U : k < j}
    BY <1>5, <2>1, Zenon
  <2>3. Pending(lines, i + 1, tag) = Pending(lines, i, tag) \cup {i + 1}
    BY <1>4, <1>6, <2>2, Zenon
  <2> QED BY <1>8, <2>3, Zenon
<1>9. CASE lines[i + 1].tag # "uri" /\ lines[i + 1].tag # tag
  <2>1. Above(lines, i + 1, tag) = A /\ Above(lines, i + 1, "uri") = U
    BY <1>2, <1>3, <1>9, Zenon
  <2> QED BY <1>4, <1>5, <1>9, <2>1, Zenon
<1> QED BY <1>7, <1>8, <1>9, Zenon

\* the last line is the one that counts
LEMMA SaidLast ==
    ASSUME NEW lines, NEW i \in Nat, NEW set, \A j \in set : j \in Int /\ j <= i, NEW otherwise
    PROVE  Said(lines, set \cup {i + 1}, otherwise) = lines[i + 1].value
<1> DEFINE S == set \cup {i + 1}
<1>1. i + 1 \in S /\ \A y \in S : y \in Int /\ i + 1 >= y
  OBVIOUS
<1>2. \A x \in S : (\A y \in S : x >= y) => x = i + 1
  <2> TAKE x \in S
  <2> HAVE \A y \in S : x >= y
  <2>1. x >= i + 1 /\ x \in Int /\ i + 1 >= x
    BY <1>1
  <2> QED BY <2>1
<1> HIDE DEF S
<1>3. Max(S) = i + 1
  BY <1>1, <1>2 DEF Max
<1> QED BY <1>1, <1>3 DEF Said, S

\* what was read up to line i is as it should be
Fine(lines, i) ==
    i > 0 => /\ lines[1].tag = "head" /\ Above(lines, i, "bad") = {}
             /\ \A u \in Above(lines, i, "uri") : Expected(lines, u).duration >= 0

\* what the loop of Parse keeps when it has read the lines up to i
ReadUpto(lines, i, st) ==
    /\ st \in [ok : BOOLEAN, first : BOOLEAN, dur : Int, disc : BOOLEAN, pdt : BOOLEAN, map : Int,
               segments : Seq([uri : Int, duration : Int, disc : BOOLEAN, pdt : BOOLEAN, map : Int]), ended : BOOLEAN]
    /\ st.ok <=> Fine(lines, i)
    /\ st.ok => /\ st.first <=> i = 0
                /\ st.dur = Said(lines, Pending(lines, i, "inf"), NoDuration)
                /\ st.disc <=> Pending(lines, i, "disc") # {}
                /\ st.pdt <=> Pending(lines, i, "pdt") # {}
                /\ st.map = Said(lines, Above(lines, i, "map"), NoMap)
                /\ Len(st.segments) = Cardinality(Above(lines, i, "uri"))
                /\ \A u \in Above(lines, i, "uri") :
                      st.segments[Cardinality(Above(lines, u, "uri"))] = Expected(lines, u)

LEMMA AboveFinite ==
    ASSUME NEW lines \in Seq(Line), NEW i \in Int, NEW tag
    PROVE  /\ IsFiniteSet(Above(lines, i, tag)) /\ Cardinality(Above(lines, i, tag)) \in Nat
           /\ \A j \in Above(lines, i, tag) : j \in 1 .. Len(lines) /\ j <= i
<1>1. DOMAIN lines = 1 .. Len(lines) /\ Len(lines) \in Nat
  OBVIOUS
<1>2. IsFiniteSet(1 .. Len(lines))
  BY <1>1, FS_Interval
<1>3. Above(lines, i, tag) \subseteq 1 .. Len(lines) /\ \A j \in Above(lines, i, tag) : j <= i
  BY <1>1, Zenon DEF Above
<1> QED BY <1>2, <1>3, FS_Subset, FS_CardinalityType

\* the place of a segment among the segments
LEMMA PlaceOf ==
    ASSUME NEW lines \in Seq(Line), NEW i \in 0 .. Len(lines) - 1
    PROVE  /\ \A u \in Above(lines, i, "uri") : Cardinality(Above(lines, u, "uri")) \in 1 .. Cardinality(Above(lines, i, "uri"))
           /\ lines[i + 1].tag = "uri" => Cardinality(Above(lines, i + 1, "uri")) = Cardinality(Above(lines, i, "uri")) + 1
<1>1. i \in Int
  OBVIOUS
<1>2. ASSUME NEW u \in Above(lines, i, "uri")
      PROVE  Cardinality(Above(lines, u, "uri")) \in 1 .. Cardinality(Above(lines, i, "uri"))
  <2>1. u \in Int /\ u <= i
    BY <1>1, AboveFinite
  <2>2. Above(lines, u, "uri") \subseteq Above(lines, i, "uri")
    <3>1. \A j \in DOMAIN lines : j <= u => j <= i
      BY <1>1, <2>1
    <3> QED BY <3>1, Zenon DEF Above
  <2>3. u \in Above(lines, u, "uri")
    BY <2>1 DEF Above
  <2>4. Cardinality(Above(lines, u, "uri")) # 0
    BY <2>1, <2>3, AboveFinite, FS_EmptySet
  <2>5. Cardinality(Above(lines, u, "uri")) <= Cardinality(Above(lines, i, "uri"))
    BY <1>1, <2>2, AboveFinite, FS_Subset
  <2> QED BY <1>1, <2>1, <2>4, <2>5, AboveFinite
<1>3. ASSUME lines[i + 1].tag = "uri"
      PROVE  Cardinality(Above(lines, i + 1, "uri")) = Cardinality(Above(lines, i, "uri")) + 1
  <2>1. Above(lines, i + 1, "uri") = Above(lines, i, "uri") \cup {i + 1}
    BY <1>3, AboveStep
  <2>2. i + 1 \notin Above(lines, i, "uri")
    BY <1>1, AboveFinite
  <2> QED BY <1>1, <2>1, <2>2, AboveFinite, FS_AddElement
<1> QED BY <1>2, <1>3

\* one line more
LEMMA FineStep ==
    ASSUME NEW lines \in Seq(Line), NEW i \in 0 .. Len(lines) - 1
    PROVE  Fine(lines, i + 1) <=>
              IF i = 0 THEN lines[1].tag = "head"
              ELSE /\ Fine(lines, i) /\ lines[i + 1].tag # "bad"
                   /\ lines[i + 1].tag = "uri" => Expected(lines, i + 1).duration >= 0
<1> DEFINE l == lines[i + 1]
           B == Above(lines, i, "bad")
           U == Above(lines, i, "uri")
<1>1. Above(lines, i + 1, "bad") = (IF l.tag = "bad" THEN B \cup {i + 1} ELSE B)
  BY AboveStep, Zenon
<1>2. Above(lines, i + 1, "uri") = (IF l.tag = "uri" THEN U \cup {i + 1} ELSE U)
  BY AboveStep, Zenon
<1>3. Fine(lines, i + 1) <=> /\ lines[1].tag = "head" /\ Above(lines, i + 1, "bad") = {}
                             /\ \A u \in Above(lines, i + 1, "uri") : Expected(lines, u).duration >= 0
  BY DEF Fine
<1>4. CASE i = 0
  <2>1. B = {} /\ U = {}
    BY <1>4, AboveFinite
  <2>2. l = lines[1]
    BY <1>4
  <2> HIDE DEF l, B, U
  <2>3. lines[1].tag = "head" => Above(lines, i + 1, "bad") = {} /\ Above(lines, i + 1, "uri") = {}
    BY <1>1, <1>2, <2>1, <2>2
  <2> QED BY <1>3, <1>4, <2>3, Zenon
<1>5. CASE i # 0
  <2>1. Fine(lines, i) <=> /\ lines[1].tag = "head" /\ B = {}
                           /\ \A u \in U : Expected(lines, u).duration >= 0
    BY <1>5 DEF Fine
  <2>2. Above(lines, i + 1, "bad") = {} <=> B = {} /\ l.tag # "bad"
    BY <1>1, Zenon
  <2>3. (\A u \in Above(lines, i + 1, "uri") : Expected(lines, u).duration >= 0)
          <=> /\ \A u \in U : Expected(lines, u).duration >= 0
              /\ l.tag = "uri" => Expected(lines, i + 1).duration >= 0
    BY <1>2, Zenon
  <2> HIDE DEF B, U
  <2> QED BY <1>3, <1>5, <2>1, <2>2, <2>3, Zenon
<1> QED BY <1>4, <1>5

LEMMA ReadFirst ==
    ASSUME NEW lines \in Seq(Line)
    PROVE  ReadUpto(lines, 0, Begin)
<1>1. \A tag : Above(lines, 0, tag) = {}
  BY AboveFinite
<1>2. \A tag : Pending(lines, 0, tag) = {}
  BY <1>1, Zenon DEF Pending
<1>3. Fine(lines, 0)
  BY DEF Fine
<1>4. Cardinality({}) = 0
  BY FS_EmptySet
<1>5. <<>> \in Seq([uri : Int, duration : Int, disc : BOOLEAN, pdt : BOOLEAN, map : Int]) /\ Len(<<>>) = 0
  OBVIOUS
<1>6. /\ Begin.ok = TRUE /\ Begin.first = TRUE /\ Begin.dur = NoDuration /\ Begin.disc = FALSE /\ Begin.pdt = FALSE
      /\ Begin.map = NoMap /\ Begin.segments = <<>>
  BY DEF Begin
<1>7. Begin \in [ok : BOOLEAN, first : BOOLEAN, dur : Int, disc : BOOLEAN, pdt : BOOLEAN, map : Int,
                 segments : Seq([uri : Int, duration : Int, disc : BOOLEAN, pdt : BOOLEAN, map : Int]), ended : BOOLEAN]
  <2> DEFINE Some == Seq([uri : Int, duration : Int, disc : BOOLEAN, pdt : BOOLEAN, map : Int])
  <2>1. <<>> \in Some
    BY <1>5
  <2> HIDE DEF Some
  <2> QED BY <2>1 DEF Begin, NoDuration, NoMap
<1>8. \A set : set = {} => Said(lines, set, NoDuration) = NoDuration /\ Said(lines, set, NoMap) = NoMap
  BY Zenon DEF Said
<1>9. /\ NoDuration = Said(lines, Pending(lines, 0, "inf"), NoDuration)
      /\ NoMap = Said(lines, Above(lines, 0, "map"), NoMap)
      /\ Len(<<>>) = Cardinality(Above(lines, 0, "uri"))
  BY <1>1, <1>2, <1>4, <1>5, <1>8
<1> QED BY <1>1, <1>2, <1>3, <1>6, <1>7, <1>9, Zenon DEF ReadUpto

LEMMA ReadStep ==
    ASSUME NEW lines \in Seq(Line), NEW i \in 0 .. Len(lines) - 1, NEW st, ReadUpto(lines, i, st)
    PROVE  ReadUpto(lines, i + 1, ParseLine(st, lines[i + 1]))
<1> DEFINE l == lines[i + 1]
           Segment == [uri : Int, duration : Int, disc : BOOLEAN, pdt : BOOLEAN, map : Int]
           Some == Seq(Segment)
           Type == [ok : BOOLEAN, first : BOOLEAN, dur : Int, disc : BOOLEAN, pdt : BOOLEAN, map : Int,
                    segments : Some, ended : BOOLEAN]
           Is(j, s) == /\ s.first <=> j = 0
                       /\ s.dur = Said(lines, Pending(lines, j, "inf"), NoDuration)
                       /\ s.disc <=> Pending(lines, j, "disc") # {}
                       /\ s.pdt <=> Pending(lines, j, "pdt") # {}
                       /\ s.map = Said(lines, Above(lines, j, "map"), NoMap)
           Has(j, s) == /\ Len(s.segments) = Cardinality(Above(lines, j, "uri"))
                        /\ \A u \in Above(lines, j, "uri") :
                              s.segments[Cardinality(Above(lines, u, "uri"))] = Expected(lines, u)
           r == ParseLine(st, l)
<1>1. ASSUME NEW j, NEW s
      PROVE  ReadUpto(lines, j, s) <=> s \in Type /\ (s.ok <=> Fine(lines, j)) /\ (s.ok => Is(j, s) /\ Has(j, s))
  BY Zenon DEF ReadUpto
<1>2. st \in Type /\ (st.ok <=> Fine(lines, i)) /\ (st.ok => Is(i, st) /\ Has(i, st))
  BY <1>1
<1>3. l \in Line /\ i + 1 \in Nat /\ i \in Nat /\ i + 1 # 0 /\ i + 1 - 1 = i
  OBVIOUS
<1>4. l.tag \in Tags /\ l.value \in Int
  BY <1>3 DEF Line
<1>5. Fine(lines, i + 1) <=>
         IF i = 0 THEN lines[1].tag = "head"
         ELSE Fine(lines, i) /\ l.tag # "bad" /\ (l.tag = "uri" => Expected(lines, i + 1).duration >= 0)
  BY FineStep, Zenon
<1>6. \A tag : Above(lines, i + 1, tag) = IF l.tag = tag THEN Above(lines, i, tag) \cup {i + 1} ELSE Above(lines, i, tag)
  BY AboveStep, Zenon
<1>7. \A tag : tag # "uri" => Pending(lines, i + 1, tag) = IF l.tag = "uri" THEN {}
                                ELSE IF l.tag = tag THEN Pending(lines, i, tag) \cup {i + 1} ELSE Pending(lines, i, tag)
  BY PendingStep, Zenon
<1>8. /\ Said(lines, Pending(lines, i, "inf") \cup {i + 1}, NoDuration) = l.value
      /\ Said(lines, Above(lines, i, "map") \cup {i + 1}, NoMap) = l.value
      /\ Said(lines, {}, NoDuration) = NoDuration
  <2>1. \A j \in Pending(lines, i, "inf") \cup Above(lines, i, "map") : j \in Int /\ j <= i
    BY <1>3, AboveFinite DEF Pending
  <2>2. i \in Nat /\ (\A j \in Pending(lines, i, "inf") : j \in Int /\ j <= i)
                  /\ (\A j \in Above(lines, i, "map") : j \in Int /\ j <= i)
    BY <1>3, <2>1, Zenon
  <2>3. Said(lines, Pending(lines, i, "inf") \cup {i + 1}, NoDuration) = l.value
    BY <2>2, SaidLast, Zenon
  <2>4. Said(lines, Above(lines, i, "map") \cup {i + 1}, NoMap) = l.value
    BY <2>2, SaidLast, Zenon
  <2> QED BY <2>3, <2>4 DEF Said
<1>9. i = 0 => l = lines[1]
  OBVIOUS
<1> HIDE DEF l, Type
<1>10. SUFFICES r \in Type /\ (r.ok <=> Fine(lines, i + 1)) /\ (r.ok => Is(i + 1, r) /\ Has(i + 1, r))
  <2> HIDE DEF Is, Has
  <2> QED BY <1>1 DEF l
<1>11. CASE ~st.ok
  <2>1. r = st
    BY <1>11, Zenon DEF ParseLine
  <2>2. i # 0
    BY <1>2, <1>11 DEF Fine
  <2> HIDE DEF r, Is, Has
  <2> QED BY <1>2, <1>5, <1>11, <2>1, <2>2, Zenon
<1>12. CASE st.ok /\ st.first
  <2>1. i = 0
    BY <1>2, <1>12
  <2>2. CASE l.tag # "head"
    <3>1. r = Unreadable(st)
      BY <1>12, <2>2, Zenon DEF ParseLine
    <3>2. r \in Type /\ ~r.ok
      BY <1>2, <3>1 DEF Unreadable, Type
    <3> HIDE DEF r, Is, Has
    <3> QED BY <1>5, <1>9, <2>1, <2>2, <3>2, Zenon
  <2>3. CASE l.tag = "head"
    <3>1. r = [st EXCEPT !.first = FALSE]
      BY <1>12, <2>3, Zenon DEF ParseLine
    <3>2. r \in Type /\ r.ok = st.ok /\ r.first = FALSE /\ r.dur = st.dur /\ r.disc = st.disc /\ r.pdt = st.pdt
          /\ r.map = st.map /\ r.segments = st.segments
      BY <1>2, <3>1 DEF Type
    <3>3. \A tag \in {"uri", "map"} : Above(lines, i + 1, tag) = Above(lines, i, tag)
      BY <1>6, <2>3
    <3>4. \A tag \in {"inf", "disc", "pdt"} : Pending(lines, i + 1, tag) = Pending(lines, i, tag)
      BY <1>7, <2>3
    <3> HIDE DEF r
    <3>5. Has(i + 1, r)
      BY <1>2, <1>12, <3>2, <3>3
    <3>6. Is(i + 1, r)
      BY <1>2, <1>3, <1>12, <3>2, <3>3, <3>4
    <3> HIDE DEF Is, Has
    <3> QED BY <1>5, <1>9, <1>12, <2>1, <2>3, <3>2, <3>5, <3>6, Zenon
  <2> QED BY <2>2, <2>3
<1>13. CASE st.ok /\ ~st.first
  <2>1. i # 0 /\ Is(i, st) /\ Has(i, st) /\ Fine(lines, i)
    BY <1>2, <1>13, Zenon
  <2>2. CASE l.tag = "bad" \/ (l.tag = "uri" /\ st.dur < 0)
    <3>1. r = Unreadable(st)
      BY <1>13, <2>2 DEF ParseLine
    <3>2. r \in Type /\ ~r.ok
      BY <1>2, <3>1 DEF Unreadable, Type
    <3>3. ~Fine(lines, i + 1)
      <4>1. Expected(lines, i + 1).duration = st.dur
        BY <1>3, <2>1 DEF Expected
      <4>2. l.tag = "uri" => ~(Expected(lines, i + 1).duration >= 0)
        <5>1. st.dur \in Int
          BY <1>2 DEF Type
        <5> QED BY <2>2, <4>1, <5>1
      <4> QED BY <1>5, <2>1, <2>2, <4>2, Zenon
    <3> HIDE DEF r, Is, Has
    <3> QED BY <3>2, <3>3, Zenon
  <2>3. CASE l.tag = "uri" /\ ~(st.dur < 0)
    <3> DEFINE seg == SegmentAt(st, l.value)
    <3>1. r = AfterUri([st EXCEPT !.segments = Append(@, seg)])
      BY <1>13, <2>3 DEF ParseLine
    <3>2. seg \in Segment /\ st.segments \in Seq(Segment) /\ st.dur \in Int
      BY <1>2, <1>4 DEF SegmentAt, Type
    <3>3. seg = Expected(lines, i + 1)
      <4>1. st.disc = (Pending(lines, i, "disc") # {}) /\ st.pdt = (Pending(lines, i, "pdt") # {})
        BY <1>2, <2>1 DEF Type
      <4>2. Expected(lines, i + 1)
              = [uri |-> l.value, duration |-> Said(lines, Pending(lines, i, "inf"), NoDuration),
                 disc |-> Pending(lines, i, "disc") # {}, pdt |-> Pending(lines, i, "pdt") # {},
                 map |-> Said(lines, Above(lines, i, "map"), NoMap)]
        <5> HIDE DEF Is, Has, Some, r, seg
        <5> QED BY <1>3 DEF Expected, l
      <4>3. seg = [uri |-> l.value, duration |-> st.dur, disc |-> st.disc, pdt |-> st.pdt, map |-> st.map]
        BY Zenon DEF SegmentAt
      <4> HIDE DEF seg
      <4> QED BY <2>1, <4>1, <4>2, <4>3, Zenon
    <3> HIDE DEF seg
    <3>4. /\ r.ok = st.ok /\ r.first = st.first /\ r.dur = NoDuration /\ r.disc = FALSE /\ r.pdt = FALSE
          /\ r.map = st.map /\ r.segments = Append(st.segments, seg)
      BY <1>2, <3>1 DEF AfterUri, Type
    <3>5. r \in Type
      <4>1. Append(st.segments, seg) \in Some
        BY <3>2
      <4> DEFINE longer == Append(st.segments, seg)
                 st2 == [st EXCEPT !.segments = longer]
      <4>2. r = [st2 EXCEPT !.dur = NoDuration, !.disc = FALSE, !.pdt = FALSE]
        BY <3>1, Zenon DEF AfterUri
      <4> HIDE DEF Some, longer, r, Is, Has
      <4>3. st2 \in Type
        BY <1>2, <4>1 DEF Type, longer
      <4>4. NoDuration \in Int
        BY DEF NoDuration
      <4> HIDE DEF st2
      <4> QED BY <4>2, <4>3, <4>4 DEF Type
    <3>6. Expected(lines, i + 1).duration >= 0
      <4>1. Expected(lines, i + 1).duration = st.dur
        BY <3>3 DEF seg, SegmentAt
      <4> QED BY <2>3, <3>2, <4>1
    <3> HIDE DEF r
    <3>7. Is(i + 1, r)
      <4>1. \A tag \in {"inf", "disc", "pdt"} : Pending(lines, i + 1, tag) = {}
        BY <1>7, <2>3
      <4>2. Above(lines, i + 1, "map") = Above(lines, i, "map")
        BY <1>6, <2>3
      <4> QED BY <1>3, <1>8, <1>13, <2>1, <3>4, <4>1, <4>2
    <3>8. Has(i + 1, r)
      <4> DEFINE U == Above(lines, i, "uri")
                 Place(u) == Cardinality(Above(lines, u, "uri"))
      <4>1. Above(lines, i + 1, "uri") = U \cup {i + 1} /\ i + 1 \notin U
        <5>1. Above(lines, i + 1, "uri") = U \cup {i + 1}
          BY <1>6, <2>3, Zenon
        <5>2. i + 1 \notin U
          BY <1>3, AboveFinite
        <5> QED BY <5>1, <5>2
      <4>2. Cardinality(U) \in Nat /\ Place(i + 1) = Cardinality(U) + 1 /\ \A u \in U : Place(u) \in 1 .. Cardinality(U)
        BY <1>3, <2>3, PlaceOf, AboveFinite DEF l
      <4>3. Len(st.segments) = Cardinality(U) /\ \A u \in U : st.segments[Place(u)] = Expected(lines, u)
        BY <2>1, Zenon
      <4> HIDE DEF Place, U
      <4>4. Len(r.segments) = Place(i + 1) /\ r.segments[Place(i + 1)] = Expected(lines, i + 1)
        BY <3>2, <3>3, <3>4, <4>2, <4>3
      <4>5. \A u \in U : r.segments[Place(u)] = Expected(lines, u)
        BY <3>2, <3>4, <4>2, <4>3
      <4> QED BY <4>1, <4>4, <4>5, Zenon DEF Place
    <3> HIDE DEF Is, Has
    <3> QED BY <1>5, <1>13, <2>1, <2>3, <3>4, <3>5, <3>6, <3>7, <3>8, Zenon
  <2>4. CASE l.tag \notin {"bad", "uri"}
    <3>1. /\ r \in Type /\ r.ok = st.ok /\ r.first = st.first /\ r.segments = st.segments
          /\ r.dur = (IF l.tag = "inf" THEN l.value ELSE st.dur)
          /\ r.disc = (IF l.tag = "disc" THEN TRUE ELSE st.disc)
          /\ r.pdt = (IF l.tag = "pdt" THEN TRUE ELSE st.pdt)
          /\ r.map = (IF l.tag = "map" THEN l.value ELSE st.map)
      <4> HIDE DEF Some, Is, Has
      <4>1. CASE l.tag = "inf"
        <5>1. r = [st EXCEPT !.dur = l.value]
          BY <1>13, <4>1 DEF ParseLine
        <5> HIDE DEF r
        <5> QED BY <1>2, <1>4, <4>1, <5>1 DEF Type
      <4>2. CASE l.tag = "disc"
        <5>1. r = [st EXCEPT !.disc = TRUE]
          BY <1>13, <4>2 DEF ParseLine
        <5> HIDE DEF r
        <5> QED BY <1>2, <4>2, <5>1 DEF Type
      <4>3. CASE l.tag = "pdt"
        <5>1. r = [st EXCEPT !.pdt = TRUE]
          BY <1>13, <4>3 DEF ParseLine
        <5> HIDE DEF r
        <5> QED BY <1>2, <4>3, <5>1 DEF Type
      <4>4. CASE l.tag = "map"
        <5>1. r = [st EXCEPT !.map = l.value]
          BY <1>13, <4>4 DEF ParseLine
        <5> HIDE DEF r
        <5> QED BY <1>2, <1>4, <4>4, <5>1 DEF Type
      <4>5. CASE l.tag = "end"
        <5>1. r = [st EXCEPT !.ended = TRUE]
          BY <1>13, <4>5 DEF ParseLine
        <5> HIDE DEF r
        <5> QED BY <1>2, <4>5, <5>1 DEF Type
      <4>6. CASE l.tag \in {"head", "other"}
        <5>1. r = st
          BY <1>13, <4>6 DEF ParseLine
        <5> HIDE DEF r
        <5> QED BY <1>2, <4>6, <5>1
      <4> QED BY <1>4, <2>4, <4>1, <4>2, <4>3, <4>4, <4>5, <4>6 DEF Tags
    <3> HIDE DEF r
    <3>2. Is(i + 1, r)
      <4>1. \A tag \in {"inf", "disc", "pdt"} :
               Pending(lines, i + 1, tag) = IF l.tag = tag THEN Pending(lines, i, tag) \cup {i + 1} ELSE Pending(lines, i, tag)
        BY <1>7, <2>4
      <4>2. r.dur = Said(lines, Pending(lines, i + 1, "inf"), NoDuration)
        BY <1>8, <2>1, <3>1, <4>1
      <4>3. (r.disc <=> Pending(lines, i + 1, "disc") # {}) /\ (r.pdt <=> Pending(lines, i + 1, "pdt") # {})
        <5>1. Pending(lines, i + 1, "disc") # {} <=> l.tag = "disc" \/ Pending(lines, i, "disc") # {}
          BY <4>1
        <5>2. Pending(lines, i + 1, "pdt") # {} <=> l.tag = "pdt" \/ Pending(lines, i, "pdt") # {}
          BY <4>1
        <5> QED BY <2>1, <3>1, <5>1, <5>2
      <4>4. r.map = Said(lines, Above(lines, i + 1, "map"), NoMap)
        <5>1. Above(lines, i + 1, "map") = IF l.tag = "map" THEN Above(lines, i, "map") \cup {i + 1} ELSE Above(lines, i, "map")
          BY <1>6
        <5> QED BY <1>8, <2>1, <3>1, <5>1
      <4> QED BY <1>3, <1>13, <3>1, <4>2, <4>3, <4>4
    <3>3. Has(i + 1, r)
      <4>1. Above(lines, i + 1, "uri") = Above(lines, i, "uri")
        BY <1>6, <2>4
      <4> QED BY <2>1, <3>1, <4>1
    <3> HIDE DEF Is, Has
    <3>4. l.tag # "bad" /\ l.tag # "uri"
      BY <2>4
    <3>5. Fine(lines, i + 1)
      BY <1>5, <2>1, <3>4, Zenon
    <3>6. r.ok
      BY <1>13, <3>1, Zenon
    <3>7. r \in Type
      BY <3>1
    <3> QED BY <3>2, <3>3, <3>5, <3>6, <3>7, Zenon
  <2> HIDE DEF r, Is, Has
  <2>5. l.tag = "bad" \/ l.tag = "uri" \/ l.tag \notin {"bad", "uri"}
    OBVIOUS
  <2> QED BY <2>2, <2>3, <2>4, <2>5, Zenon
<1> HIDE DEF r, Is, Has
<1> QED BY <1>11, <1>12, <1>13, Zenon

\* Parse gives every segment of a playlist the duration and the marks that stand between it and the segment before it,
\* and the init section that is the last one above it; it refuses a playlist if and only if a line is bad, a segment
\* has no duration of its own, or there is no segment.
THEOREM PlaylistsAreRead == CodecsSpec => []ParseIsRight
<1>1. CodecsInit => ParseIsRight
  <2>1. CodecsInit => call.op # "parse"
    BY DEF CodecsInit, Idle
  <2> QED BY <2>1 DEF ParseIsRight
<1>2. ParseIsRight /\ [CodecsNext]_call => ParseIsRight'
  <2> SUFFICES ASSUME ParseIsRight, [CodecsNext]_call, call'.op = "parse"
               PROVE  ParseIsRight'
    BY DEF ParseIsRight
  <2>1. CASE UNCHANGED call
    BY <2>1 DEF ParseIsRight
  <2>2. CASE CallParse
    <3>1. PICK lines \in Playlists : call' = [op |-> "parse", ask |-> lines, answer |-> Parse(lines)]
      BY <2>2 DEF CallParse
    <3> DEFINE n == Len(lines)
               st == Parsed(lines)
               Right == /\ lines # <<>> /\ lines[1].tag = "head" /\ Above(lines, n, "bad") = {}
                        /\ Above(lines, n, "uri") # {}
                        /\ \A i \in Above(lines, n, "uri") : Expected(lines, i).duration >= 0
    <3>2. lines \in Seq(Line) /\ n \in Nat
      <4>1. lines \in Seq(Line)
        BY PlaylistsAssumption, Zenon DEF Line
      <4> QED BY <4>1
    <3>3. ReadUpto(lines, n, st)
      <4>1. PICK after : /\ after[0] = Begin
                         /\ \A i \in 1 .. n : after[i] = ParseLine(after[i - 1], lines[i])
                         /\ st = after[n]
        BY <3>2, ParsedLoop
      <4> HIDE DEF st
      <4> DEFINE X == {i \in Nat : i <= n => ReadUpto(lines, i, after[i])}
      <4>2. 0 \in X
        BY <3>2, <4>1, ReadFirst
      <4>3. ASSUME NEW i \in Nat, i \in X
            PROVE  i + 1 \in X
        <5>1. CASE i + 1 <= n
          <6>1. i \in 0 .. n - 1 /\ i + 1 \in 1 .. n /\ (i + 1) - 1 = i /\ i <= n
            BY <3>2, <5>1
          <6>2. after[i + 1] = ParseLine(after[i], lines[i + 1])
            BY <4>1, <6>1
          <6>3. ReadUpto(lines, i, after[i])
            BY <4>3, <6>1
          <6> QED BY <3>2, <6>1, <6>2, <6>3, ReadStep
        <5>2. CASE ~(i + 1 <= n)
          BY <5>2
        <5> QED BY <5>1, <5>2
      <4>4. \A i \in Nat : i \in X
        <5> HIDE DEF X
        <5> QED BY <4>2, <4>3, NumberInduction
      <4> QED BY <3>2, <4>1, <4>4
    <3> HIDE DEF st
    <3>4. Parse(lines) = [ok |-> st.ok /\ ~st.first /\ st.segments # <<>>, map |-> st.map, segments |-> st.segments,
                          ended |-> st.ended]
      BY Zenon DEF Parse, st
    <3>5. /\ call'.ask = lines /\ call'.answer.segments = st.segments
          /\ call'.answer.ok <=> st.ok /\ ~st.first /\ st.segments # <<>>
      <4>1. call'.ask = lines /\ call'.answer = Parse(lines)
        BY <3>1
      <4>2. Parse(lines).segments = st.segments /\ (Parse(lines).ok <=> st.ok /\ ~st.first /\ st.segments # <<>>)
        <5> DEFINE good == st.ok /\ ~st.first /\ st.segments # <<>>
        <5>1. Parse(lines) = [ok |-> good, map |-> st.map, segments |-> st.segments, ended |-> st.ended]
          BY <3>4
        <5> HIDE DEF good
        <5>2. Parse(lines).segments = st.segments /\ Parse(lines).ok = good
          BY <5>1
        <5> QED BY <5>2, Zenon DEF good
      <4> QED BY <4>1, <4>2, Zenon
    <3>6. st.ok => /\ st.first <=> n = 0
                   /\ Len(st.segments) = Cardinality(Above(lines, n, "uri"))
                   /\ \A u \in Above(lines, n, "uri") :
                         st.segments[Cardinality(Above(lines, u, "uri"))] = Expected(lines, u)
      BY <3>3, Zenon DEF ReadUpto
    <3>7. st.ok => (st.segments # <<>> <=> Above(lines, n, "uri") # {})
      <4>1. st.segments \in Seq([uri : Int, duration : Int, disc : BOOLEAN, pdt : BOOLEAN, map : Int])
        BY <3>3 DEF ReadUpto
      <4>2. st.segments # <<>> <=> Len(st.segments) # 0
        BY <4>1
      <4>3. Above(lines, n, "uri") # {} <=> Cardinality(Above(lines, n, "uri")) # 0
        BY <3>2, AboveFinite, FS_EmptySet
      <4> QED BY <3>6, <4>2, <4>3
    <3>8. n = 0 <=> lines = <<>>
      BY <3>2
    <3>9. st.ok /\ n # 0 <=> /\ lines # <<>> /\ lines[1].tag = "head" /\ Above(lines, n, "bad") = {}
                             /\ \A i \in Above(lines, n, "uri") : Expected(lines, i).duration >= 0
      <4>1. n > 0 <=> n # 0
        BY <3>2
      <4> QED BY <3>3, <3>8, <4>1, Zenon DEF ReadUpto, Fine
    <3>10. Right <=> st.ok /\ ~st.first /\ st.segments # <<>>
      BY <3>6, <3>7, <3>9, Zenon
    <3> HIDE DEF n
    <3> QED BY <3>5, <3>6, <3>10, Zenon DEF ParseIsRight, n
  <2> QED BY <2>1, <2>2 DEF CodecsNext, Call, Idle, CallChildren, CallRetime, CallDecode, CallEncode, CallMarkers, CallFill
<1> QED BY <1>1, <1>2, PTL DEF CodecsSpec

-----------------------------------------------------------------------------
(* children *)

\* what a header takes up, and that its size is a number
LEMMA HeaderFacts ==
    ASSUME NEW b \in Seq(Nat), NEW end \in 1 .. Len(b) + 1, NEW p \in 1 .. end - 2
    PROVE  LET h == HeaderOf(b, p, end) IN h.hdr \in {2, 3} /\ h.size \in Nat
<1>1. Len(b) \in Nat /\ p \in 1 .. Len(b) /\ b[p] \in Nat
  OBVIOUS
<1>2. end - p >= 3 => p + 2 \in 1 .. Len(b) /\ b[p + 2] \in Nat
  BY <1>1
<1>3. CASE b[p] = 1
  <2>1. HeaderOf(b, p, end) = [hdr |-> 3, size |-> IF end - p < 3 THEN 0 ELSE b[p + 2]]
    BY <1>3, Zenon DEF HeaderOf
  <2>2. (IF end - p < 3 THEN 0 ELSE b[p + 2]) \in Nat
    BY <1>1, <1>2
  <2> QED BY <2>1, <2>2
<1>4. CASE b[p] # 1
  <2>1. HeaderOf(b, p, end) = [hdr |-> 2, size |-> IF b[p] = 0 THEN end - p ELSE b[p]]
    BY <1>4, Zenon DEF HeaderOf
  <2>2. (IF b[p] = 0 THEN end - p ELSE b[p]) \in Nat
    BY <1>1
  <2> QED BY <2>1, <2>2
<1> QED BY <1>3, <1>4

\* what children finds from p on, given what it finds further on
Found(b, p, end, from) ==
    IF p >= end THEN [ok |-> TRUE, boxes |-> <<>>]
    ELSE IF end - p < 2 \/ ~Fits(HeaderOf(b, p, end), p, end) THEN [ok |-> FALSE, boxes |-> <<>>]
    ELSE LET h == HeaderOf(b, p, end)
             rest == from[p + h.size]
         IN  [ok |-> rest.ok, boxes |-> <<[start |-> p, hdr |-> h.hdr, size |-> h.size]>> \o rest.boxes]

\* the loop of children, from its end
LEMMA ChildrenLoop ==
    ASSUME NEW b \in Seq(Nat), NEW end \in 1 .. Len(b) + 1
    PROVE  \E from : /\ \A p \in 1 .. end : from[p] = Found(b, p, end, from)
                     /\ Children(b, 1, end) = from[1]
<1> DEFINE Is(g, k) == g = [p \in k .. end |-> Found(b, p, end, g)]
           X == {n \in Nat : n < end => \E g : Is(g, end - n)}
<1>1. Children(b, 1, end) = (CHOOSE g : Is(g, 1))[1]
  BY Zenon DEF Children, Found
<1>2. end \in Nat \ {0}
  OBVIOUS
<1>3. 0 \in X
  <2> DEFINE g == [p \in end .. end |-> [ok |-> TRUE, boxes |-> <<>>]]
  <2>1. \A p \in end .. end : Found(b, p, end, g) = [ok |-> TRUE, boxes |-> <<>>]
    BY <1>2 DEF Found
  <2>2. Is(g, end)
    BY <2>1, Zenon
  <2>3. end - 0 = end
    BY <1>2
  <2> HIDE DEF Is
  <2> QED BY <2>2, <2>3
<1>4. ASSUME NEW n \in Nat, n \in X PROVE n + 1 \in X
  <2> SUFFICES ASSUME n + 1 < end
               PROVE  \E g : Is(g, end - (n + 1))
    BY DEF X
  <2> DEFINE k == end - (n + 1)
  <2>1. k \in 1 .. end - 1 /\ k + 1 = end - n
    BY <1>2
  <2>2. PICK g : Is(g, k + 1)
    BY <1>2, <1>4, <2>1
  <2> DEFINE h == [p \in k .. end |-> IF p = k THEN Found(b, k, end, g) ELSE g[p]]
  <2> HIDE DEF k
  <2>3. \A p \in k + 1 .. end : h[p] = g[p] /\ p \in k .. end /\ p # k
    BY <1>2, <2>1
  <2>4. ASSUME NEW p \in k .. end
        PROVE  Found(b, p, end, h) = Found(b, p, end, g)
    <3>1. p \in 1 .. end
      BY <1>2, <2>1
    <3>2. CASE p >= end \/ end - p < 2 \/ ~Fits(HeaderOf(b, p, end), p, end)
      BY <3>2, Zenon DEF Found
    <3>3. CASE ~(p >= end \/ end - p < 2 \/ ~Fits(HeaderOf(b, p, end), p, end))
      <4> DEFINE q == p + HeaderOf(b, p, end).size
      <4>1. p \in 1 .. end - 2
        BY <1>2, <3>1, <3>3
      <4>2. HeaderOf(b, p, end).hdr \in {2, 3} /\ HeaderOf(b, p, end).size \in Nat
        BY <4>1, HeaderFacts
      <4>3. HeaderOf(b, p, end).size >= HeaderOf(b, p, end).hdr /\ q <= end
        BY <3>3, Zenon DEF Fits
      <4>4. q \in k + 1 .. end
        <5> DEFINE size == HeaderOf(b, p, end).size
        <5>1. size \in Nat /\ size >= 2
          BY <4>2, <4>3
        <5> HIDE DEF size
        <5> QED BY <1>2, <2>1, <3>1, <4>3, <5>1 DEF size
      <4>5. h[q] = g[q]
        BY <2>3, <4>4
      <4> QED BY <4>5, Zenon DEF Found
    <3> QED BY <3>2, <3>3, Zenon
  <2>5. \A p \in k + 1 .. end : g[p] = Found(b, p, end, g)
    <3> HIDE DEF h
    <3> QED BY <2>2
  <2>6. \A p \in k .. end : h[p] = Found(b, p, end, h)
    <3>1. \A p \in k .. end : p = k \/ p \in k + 1 .. end
      BY <1>2, <2>1
    <3>2. k \in k .. end
      BY <1>2, <2>1
    <3>3. h[k] = Found(b, k, end, g)
      BY <3>2
    <3> HIDE DEF h
    <3> QED BY <2>3, <2>4, <2>5, <3>1, <3>2, <3>3, Zenon
  <2>7. h = [p \in k .. end |-> h[p]]
    OBVIOUS
  <2> HIDE DEF h
  <2>8. Is(h, k)
    BY <2>6, <2>7, Zenon
  <2> HIDE DEF Is
  <2> QED BY <2>8 DEF k
<1>5. \A n \in Nat : n \in X
  <2> HIDE DEF X
  <2> QED BY <1>3, <1>4, NumberInduction
<1> DEFINE from == CHOOSE g : Is(g, 1)
<1>6. Is(from, 1)
  <2>1. end - 1 \in Nat /\ end - 1 < end /\ end - (end - 1) = 1
    BY <1>2
  <2> HIDE DEF Is
  <2>2. \E g : Is(g, 1)
    BY <1>5, <2>1
  <2> QED BY <2>2
<1>7. \A p \in 1 .. end : from[p] = Found(b, p, end, from)
  <2> HIDE DEF from
  <2> QED BY <1>6
<1>8. Children(b, 1, end) = from[1]
  BY <1>1 DEF from
<1> HIDE DEF from
<1> QED BY <1>7, <1>8

\* there is a least one, if there are finitely many
LEMMA LeastOf ==
    ASSUME NEW end \in Nat, NEW S \in SUBSET (1 .. end), end \in S
    PROVE  \E m \in S : \A x \in S : m <= x
<1> DEFINE T == {end - x : x \in S}
<1>1. T \subseteq 0 .. end - 1 /\ T \in SUBSET Nat /\ end - end \in T
  OBVIOUS
<1>2. IsFiniteSet(T)
  <2>1. IsFiniteSet(0 .. end - 1)
    BY FS_Interval
  <2> HIDE DEF T
  <2> QED BY <1>1, <2>1, FS_Subset
<1>3. PICK m \in T : \A x \in T : x <= m
  BY <1>1, <1>2, Largest
<1>4. PICK k \in S : m = end - k
  BY <1>3
<1>5. \A x \in S : k <= x
  <2> TAKE x \in S
  <2>1. end - x \in T
    OBVIOUS
  <2>2. end - x <= end - k
    BY <1>3, <1>4, <2>1
  <2> QED BY <2>2
<1> QED BY <1>5

\* the least of a set of numbers
LEMMA LeastIs ==
    ASSUME NEW S, NEW m \in S, \A x \in S : x \in Int /\ m <= x
    PROVE  Min(S) = m
<1>1. \A x \in S : (\A y \in S : x =< y) => x = m
  <2> TAKE x \in S
  <2> HAVE \A y \in S : x =< y
  <2>1. x =< m /\ m <= x /\ x \in Int /\ m \in Int
    OBVIOUS
  <2> QED BY <2>1
<1> QED BY <1>1, Zenon DEF Min

\* a box in front of boxes
LEMMA TilesMore ==
    ASSUME NEW b \in Seq(Nat), NEW end \in 1 .. Len(b) + 1, NEW p \in 1 .. end - 2,
           Fits(HeaderOf(b, p, end), p, end), NEW q, q = p + HeaderOf(b, p, end).size,
           NEW cuts \in SUBSET (q .. end), Tiles(b, q, end, cuts)
    PROVE  Tiles(b, p, end, {p} \cup cuts)
<1> DEFINE more == {p} \cup cuts
           Right(c, S) == /\ end - c >= 2
                          /\ LET h == HeaderOf(b, c, end) IN h.size >= h.hdr /\ c + h.size = Min({x \in S : x > c})
<1>1. HeaderOf(b, p, end).hdr \in {2, 3} /\ HeaderOf(b, p, end).size \in Nat
  BY HeaderFacts
<1>2. HeaderOf(b, p, end).size >= HeaderOf(b, p, end).hdr /\ q <= end
  BY Zenon DEF Fits
<1>3. end \in Nat /\ p \in Nat /\ q \in Nat /\ p < q /\ p < end
  <2>1. end \in Nat /\ p \in Nat /\ p < end
    OBVIOUS
  <2> DEFINE size == HeaderOf(b, p, end).size
  <2>2. size \in Nat /\ size >= 2
    BY <1>1, <1>2
  <2>3. q = p + size
    OBVIOUS
  <2> HIDE DEF size
  <2> QED BY <2>1, <2>2, <2>3
<1>4. {q, end} \subseteq cuts /\ \A c \in cuts \ {end} : Right(c, cuts)
  BY Zenon DEF Tiles
<1>5. \A c \in cuts : c \in Int /\ q <= c /\ c <= end
  BY <1>3
<1>6. Right(p, more)
  <2>1. {x \in more : x > p} = cuts
    <3>1. ~(p > p) /\ \A c \in cuts : c > p
      BY <1>3, <1>5
    <3> QED BY <3>1, Zenon
  <2>2. Min(cuts) = q
    BY <1>4, <1>5, LeastIs
  <2>3. end - p >= 2
    BY <1>3
  <2> QED BY <1>2, <2>1, <2>2, <2>3, Zenon
<1>7. ASSUME NEW c \in cuts \ {end}
      PROVE  Right(c, more)
  <2>1. {x \in more : x > c} = {x \in cuts : x > c}
    BY <1>3, <1>5
  <2> QED BY <1>4, <2>1, Zenon
<1> HIDE DEF Right
<1>8. \A c \in more \ {end} : Right(c, more)
  BY <1>6, <1>7, Zenon
<1>9. {p, end} \subseteq more
  BY <1>4
<1> QED BY <1>8, <1>9, Zenon DEF Tiles, Right

\* without the first box
LEMMA TilesLess ==
    ASSUME NEW b \in Seq(Nat), NEW end \in 1 .. Len(b) + 1, NEW p \in 1 .. end, p # end,
           NEW cuts \in SUBSET (p .. end), Tiles(b, p, end, cuts)
    PROVE  /\ p \in 1 .. end - 2 /\ Fits(HeaderOf(b, p, end), p, end)
           /\ LET q == p + HeaderOf(b, p, end).size
              IN  cuts \ {p} \in SUBSET (q .. end) /\ Tiles(b, q, end, cuts \ {p})
<1> DEFINE q == p + HeaderOf(b, p, end).size
           after == {x \in cuts : x > p}
           less == cuts \ {p}
           Right(c, S) == /\ end - c >= 2
                          /\ LET h == HeaderOf(b, c, end) IN h.size >= h.hdr /\ c + h.size = Min({x \in S : x > c})
<1>1. end \in Nat /\ p \in Nat /\ p < end
  OBVIOUS
<1>2. {p, end} \subseteq cuts /\ \A c \in cuts \ {end} : Right(c, cuts)
  BY Zenon DEF Tiles
<1>3. Right(p, cuts)
  BY <1>1, <1>2
<1>4. p \in 1 .. end - 2
  BY <1>1, <1>3
<1>5. HeaderOf(b, p, end).hdr \in {2, 3} /\ HeaderOf(b, p, end).size \in Nat
  BY <1>4, HeaderFacts
<1>6. HeaderOf(b, p, end).size >= HeaderOf(b, p, end).hdr /\ q = Min(after)
  BY <1>3, Zenon
<1>7. \A c \in cuts : c \in Int /\ p <= c /\ c <= end
  BY <1>1
<1>8. after = less
  <2>1. \A c \in cuts : c > p <=> c # p
    BY <1>1, <1>7
  <2> QED BY <2>1, Zenon
<1>9. q \in less /\ \A c \in less : q <= c
  <2> DEFINE key == [x \in after |-> x]
  <2>1. end \in after /\ after \subseteq 1 .. end
    <3>1. end \in cuts /\ end > p
      BY <1>1, <1>2
    <3>2. \A c \in cuts : c \in 1 .. end
      BY <1>1, <1>7
    <3> QED BY <3>1, <3>2, Zenon
  <2>2. \E m \in after : \A x \in after : m <= x
    BY <1>1, <2>1, LeastOf
  <2>3. Min(after) \in after /\ \A x \in after : Min(after) <= x
    <3> HIDE DEF after
    <3> QED BY <2>2, Zenon DEF Min
  <2> QED BY <1>6, <1>8, <2>3
<1> HIDE DEF Right, q, after
<1>10. q \in Int /\ q <= end /\ less \in SUBSET (q .. end)
  BY <1>1, <1>7, <1>9
<1>11. Fits(HeaderOf(b, p, end), p, end)
  BY <1>6, <1>10, Zenon DEF Fits, q
<1>12. Tiles(b, q, end, less)
  <2>1. \A c \in less \ {end} : Right(c, less)
    <3> TAKE c \in less \ {end}
    <3>1. Right(c, cuts)
      BY <1>2
    <3>2. {x \in cuts : x > c} = {x \in less : x > c}
      BY <1>7
    <3> QED BY <3>1, <3>2, Zenon DEF Right
  <2>2. {q, end} \subseteq less
    BY <1>1, <1>2, <1>9
  <2> HIDE DEF less
  <2> QED BY <2>1, <2>2, Zenon DEF Tiles, Right
<1> QED BY <1>4, <1>10, <1>11, <1>12 DEF q

Box == [start : Nat, hdr : Nat, size : Nat]

\* what was found from p on is as it should be
Tiled(b, p, end, found) ==
    LET starts == {box.start : box \in Range(found.boxes)} \cup {end} IN
    /\ found.boxes \in Seq(Box)
    /\ found.ok \in BOOLEAN
    /\ found.ok <=> \E cuts \in SUBSET (p .. end) : Tiles(b, p, end, cuts)
    /\ found.ok => starts \in SUBSET (p .. end) /\ Tiles(b, p, end, starts)

\* the elements of a sequence that another one is put in front of
LEMMA RangeFront ==
    ASSUME NEW S, NEW x \in S, NEW s \in Seq(S)
    PROVE  <<x>> \o s \in Seq(S) /\ Range(<<x>> \o s) = {x} \cup Range(s)
<1> DEFINE one == <<x>>
           all == one \o s
<1>1. one \in Seq(S) /\ Len(one) = 1 /\ one[1] = x
  OBVIOUS
<1>2. Len(s) \in Nat /\ DOMAIN s = 1 .. Len(s)
  OBVIOUS
<1> HIDE DEF one
<1>3. /\ all \in Seq(S) /\ Len(all) = Len(one) + Len(s)
      /\ \A i \in 1 .. Len(one) + Len(s) : all[i] = IF i <= Len(one) THEN one[i] ELSE s[i - Len(one)]
  BY <1>1, ConcatProperties
<1> HIDE DEF all
<1>4. all \in Seq(S) /\ Len(all) = 1 + Len(s) /\ DOMAIN all = 1 .. Len(all)
  BY <1>1, <1>3
<1>5. all[1] = x /\ \A i \in 1 .. Len(s) : all[i + 1] = s[i] /\ i + 1 \in 1 .. Len(all)
  BY <1>1, <1>2, <1>3
<1>6. \A i \in 1 .. Len(all) : i = 1 \/ (i - 1 \in 1 .. Len(s) /\ (i - 1) + 1 = i)
  BY <1>2, <1>4
<1> HIDE DEF all
<1>7. Range(all) \subseteq {x} \cup Range(s)
  <2>1. \A i \in 1 .. Len(all) : all[i] \in {x} \cup Range(s)
    <3> TAKE i \in 1 .. Len(all)
    <3>1. CASE i = 1
      BY <1>5, <3>1
    <3>2. CASE i - 1 \in 1 .. Len(s) /\ (i - 1) + 1 = i
      <4>1. all[i] = s[i - 1]
        BY <1>5, <3>2
      <4> QED BY <1>2, <3>2, <4>1, Zenon DEF Range
    <3> QED BY <1>6, <3>1, <3>2
  <2> QED BY <1>4, <2>1, Zenon DEF Range
<1>8. 1 \in 1 .. Len(all)
  BY <1>2, <1>4
<1>9. {x} \cup Range(s) \subseteq Range(all)
  BY <1>2, <1>4, <1>5, <1>8, Zenon DEF Range
<1> QED BY <1>4, <1>7, <1>9, Zenon DEF all, one

\* a box more
LEMMA FoundStep ==
    ASSUME NEW b \in Seq(Nat), NEW end \in 1 .. Len(b) + 1, NEW p \in 1 .. end, NEW from,
           \A q \in p + 1 .. end : Tiled(b, q, end, from[q])
    PROVE  Tiled(b, p, end, Found(b, p, end, from))
<1> DEFINE h == HeaderOf(b, p, end)
           found == Found(b, p, end, from)
<1> SUFFICES Tiled(b, p, end, found)
  OBVIOUS
<1>1. end \in Nat /\ p \in Nat /\ p <= end
  OBVIOUS
<1>2. <<>> \in Seq(Box) /\ Range(<<>>) = {}
  BY DEF Range
<1>3. CASE p = end
  <2>1. found = [ok |-> TRUE, boxes |-> <<>>]
    BY <1>1, <1>3 DEF Found
  <2>2. Tiles(b, p, end, {end})
    BY <1>3 DEF Tiles
  <2>3. {end} \in SUBSET (p .. end)
    BY <1>1, <1>3
  <2>4. {box.start : box \in Range(found.boxes)} \cup {end} = {end}
    BY <1>2, <2>1
  <2>5. found.ok = TRUE /\ found.boxes = <<>>
    BY <2>1
  <2> HIDE DEF found
  <2> QED BY <1>2, <2>2, <2>3, <2>4, <2>5, Zenon DEF Tiled
<1>4. CASE p # end /\ (end - p < 2 \/ ~Fits(h, p, end))
  <2>1. found = [ok |-> FALSE, boxes |-> <<>>]
    BY <1>1, <1>4 DEF Found
  <2>2. ~\E cuts \in SUBSET (p .. end) : Tiles(b, p, end, cuts)
    <3> SUFFICES ASSUME NEW cuts \in SUBSET (p .. end), Tiles(b, p, end, cuts)
                 PROVE  FALSE
      OBVIOUS
    <3>1. p \in 1 .. end - 2 /\ Fits(h, p, end)
      BY <1>4, TilesLess
    <3>2. ~(end - p < 2)
      BY <1>1, <3>1
    <3> QED BY <1>4, <3>1, <3>2, Zenon
  <2>3. found.ok = FALSE /\ found.boxes = <<>>
    BY <2>1
  <2> HIDE DEF found
  <2> QED BY <1>2, <2>2, <2>3, Zenon DEF Tiled
<1>5. CASE p # end /\ ~(end - p < 2) /\ Fits(h, p, end)
  <2> DEFINE q == p + h.size
             rest == from[q]
             box1 == [start |-> p, hdr |-> h.hdr, size |-> h.size]
             later == {box.start : box \in Range(rest.boxes)} \cup {end}
  <2>1. p \in 1 .. end - 2
    BY <1>1, <1>5
  <2>2. h.hdr \in {2, 3} /\ h.size \in Nat
    BY <2>1, HeaderFacts
  <2>3. h.size >= h.hdr /\ q <= end
    BY <1>5, Zenon DEF Fits
  <2>4. q \in p + 1 .. end
    BY <1>1, <2>2, <2>3
  <2>5. Tiled(b, q, end, rest)
    BY <2>4
  <2>6. found = [ok |-> rest.ok, boxes |-> <<box1>> \o rest.boxes]
    <3>1. ~(p >= end)
      BY <1>1, <1>5
    <3> QED BY <1>5, <3>1, Zenon DEF Found
  <2>7. box1 \in Box /\ box1.start = p
    BY <1>1, <2>2 DEF Box
  <2> HIDE DEF found, box1, rest
  <2>8. found.ok = rest.ok /\ found.boxes = <<box1>> \o rest.boxes
    BY <2>6
  <2>9. /\ rest.boxes \in Seq(Box) /\ rest.ok \in BOOLEAN
        /\ rest.ok <=> \E cuts \in SUBSET (q .. end) : Tiles(b, q, end, cuts)
        /\ rest.ok => later \in SUBSET (q .. end) /\ Tiles(b, q, end, later)
    BY <2>5, Zenon DEF Tiled
  <2>10. found.boxes \in Seq(Box) /\ Range(found.boxes) = {box1} \cup Range(rest.boxes)
    <3>1. rest.boxes \in Seq(Box) /\ box1 \in Box /\ found.boxes = <<box1>> \o rest.boxes
      BY <2>7, <2>8, <2>9, Zenon
    <3> QED BY <3>1, RangeFront
  <2>11. {box.start : box \in Range(found.boxes)} \cup {end} = {p} \cup later
    BY <2>7, <2>10, Zenon
  <2> DEFINE starts == {box.start : box \in Range(found.boxes)} \cup {end}
  <2> HIDE DEF later, q, h
  <2>12. ASSUME rest.ok
         PROVE  starts \in SUBSET (p .. end) /\ Tiles(b, p, end, starts)
    <3>1. later \in SUBSET (q .. end) /\ Tiles(b, q, end, later)
      BY <2>9, <2>12
    <3>2. Tiles(b, p, end, {p} \cup later)
      BY <1>5, <2>1, <3>1, TilesMore DEF q, h
    <3>3. {p} \cup later \in SUBSET (p .. end)
      BY <1>1, <2>4, <3>1
    <3> QED BY <2>11, <3>2, <3>3, Zenon
  <2>13. ASSUME NEW cuts \in SUBSET (p .. end), Tiles(b, p, end, cuts)
         PROVE  rest.ok
    <3>1. cuts \ {p} \in SUBSET (q .. end) /\ Tiles(b, q, end, cuts \ {p})
      BY <1>5, <2>13, TilesLess DEF q, h
    <3> QED BY <2>9, <3>1, Zenon
  <2> QED BY <2>8, <2>9, <2>10, <2>12, <2>13, Zenon DEF Tiled
<1> HIDE DEF found
<1> QED BY <1>3, <1>4, <1>5, Zenon

\* The boxes that children finds in a box lie one after the other, each as long as its header says, from the first cell
\* to the end of the box, and it finds them if and only if there are such boxes: nothing is read outside of the box.
THEOREM BoxesTile == CodecsSpec => []ChildrenTile
<1>1. CodecsInit => ChildrenTile
  <2>1. CodecsInit => call.op # "children"
    BY DEF CodecsInit, Idle
  <2> QED BY <2>1 DEF ChildrenTile
<1>2. ChildrenTile /\ [CodecsNext]_call => ChildrenTile'
  <2> SUFFICES ASSUME ChildrenTile, [CodecsNext]_call, call'.op = "children"
               PROVE  ChildrenTile'
    BY DEF ChildrenTile
  <2>1. CASE UNCHANGED call
    BY <2>1 DEF ChildrenTile
  <2>2. CASE CallChildren
    <3>1. PICK b \in Cells : \E end \in 1 .. Len(b) + 1 :
             call' = [op |-> "children", ask |-> [b |-> b, end |-> end], answer |-> Children(b, 1, end)]
      BY <2>2 DEF CallChildren
    <3>2. PICK end \in 1 .. Len(b) + 1 :
             call' = [op |-> "children", ask |-> [b |-> b, end |-> end], answer |-> Children(b, 1, end)]
      BY <3>1
    <3>3. b \in Seq(Nat) /\ end \in Nat \ {0} /\ end \in 1 .. Len(b) + 1
      <4>1. b \in Seq(Nat)
        BY MediaAssumption
      <4> QED BY <4>1
    <3>4. PICK from : /\ \A p \in 1 .. end : from[p] = Found(b, p, end, from)
                      /\ Children(b, 1, end) = from[1]
      BY <3>3, ChildrenLoop
    <3> DEFINE Right(p) == Tiled(b, p, end, from[p])
               X == {n \in Nat : n < end => \A p \in end - n .. end : Right(p)}
    <3>5. ASSUME NEW p \in 1 .. end, \A q \in p + 1 .. end : Right(q)
          PROVE  Right(p)
      BY <3>3, <3>4, <3>5, FoundStep
    <3> HIDE DEF Right
    <3>6. 0 \in X
      <4>1. Right(end)
        BY <3>3, <3>5
      <4>2. \A p \in end - 0 .. end : p = end
        BY <3>3
      <4> QED BY <4>1, <4>2
    <3>7. ASSUME NEW n \in Nat, n \in X PROVE n + 1 \in X
      <4> SUFFICES ASSUME n + 1 < end
                   PROVE  \A p \in end - (n + 1) .. end : Right(p)
        BY DEF X
      <4>1. \A p \in end - n .. end : Right(p)
        BY <3>3, <3>7
      <4> DEFINE k == end - (n + 1)
      <4>2. k \in 1 .. end /\ k + 1 = end - n
        BY <3>3
      <4>3. Right(k)
        BY <3>5, <4>1, <4>2
      <4>4. \A p \in k .. end : p = k \/ p \in end - n .. end
        BY <3>3, <4>2
      <4> HIDE DEF k
      <4>5. \A p \in k .. end : Right(p)
        BY <4>1, <4>3, <4>4, Zenon
      <4> QED BY <4>5 DEF k
    <3>8. \A n \in Nat : n \in X
      <4> HIDE DEF X
      <4> QED BY <3>6, <3>7, NumberInduction
    <3>9. Tiled(b, 1, end, Children(b, 1, end))
      <4>1. end - 1 \in Nat /\ end - 1 < end /\ 1 \in end - (end - 1) .. end
        BY <3>3
      <4>2. Right(1)
        BY <3>8, <4>1
      <4> QED BY <3>4, <4>2, Zenon DEF Right
    <3>10. call'.ask.b = b /\ call'.ask.end = end /\ call'.answer = Children(b, 1, end)
      BY <3>2
    <3> QED BY <3>9, <3>10, Zenon DEF ChildrenTile, Tiled
  <2> QED BY <2>1, <2>2 DEF CodecsNext, Call, Idle, CallRetime, CallDecode, CallEncode, CallMarkers, CallParse, CallFill
<1> QED BY <1>1, <1>2, PTL DEF CodecsSpec
=============================================================================
