# A formal model of FTVX, the playout core

FTVX plays a television channel: a control API keeps a schedule in PostgreSQL, an engine turns it, second by
second, into a live HLS playlist and one-second fMP4 segments on disk, and tells the world what is on the air.
This directory holds TLA+ modules that model the parts of it that are hard to test, TLC configurations that check
them on small instances, and TLAPS proofs of what matters most, for all sizes. Paths such as
`services/engine/stitch.go` are those of the repository.

Run anything from this directory: `tlc -workers 2 -config EngineFiles.cfg MCEngine`, `tlapm EngineProofs.tla`.
`PROJECT.json` lists components, runs, hazards, findings and theorems, and maps every definition to its lines.

## 1. The system

| part | state | operations | talks to |
|---|---|---|---|
| engine loop (`engine.go`) | last schedule read, `lastTried` | `prepare`, `run`, `tick`, `writePlaylist`, `atomicWrite` | store, planner, stitcher, resolver, hub |
| planner (`plan.go`) | none | `buildPlan`, `buildAdBreakQuanta`, `callAds` | ad broker or filler |
| stitcher (`stitch.go`) | window, `nextSeq`, `discSeq`, `prev*`, retired files, files on disk | `add`, `append`, `cleanup`, `removeOrphans`, `breakTags`, `restoreWindow` | resolver, disk |
| resolver (`stitch.go`) | playlist cache, init cache, segment cache, downloads under way | `playlist`, `prefetch`, `prefetchClip`, `getCached`, `prefetchBlob`, `initSection`, `prepare` | HTTP and file sources |
| ad broker (`ads.go`) | pods by break | `pod`, `fetch`, `giveUp`, `evict` | ads service |
| registry filler (`filler.go`) | registry and its time, pods, the last creative | `pod`, `reload`, `fillBreak`, `bestSubset`, `evict` | a file the operator edits |
| events of the engine (`events.go`) | `announcedTo`, `onAir` | `announce`, `transition`, `sourceFailed` | hub |
| hub and SSE (`pkg/events/events.go`) | ring, next id, subscriptions | `Publish`, `Subscribe`, `Close`, `ServeSSE` | browsers, webhook sender |
| webhook sender (`pkg/events/webhook.go`) | a queue per receiver, counters | `Run` (the pump), `worker`, `deliver` | receivers |
| schedule rules (`pkg/schedule`) | none | `Validate`, `CheckEntries`, `InsertShift`, `Skip` | |
| control API (`services/control-api`) | none | schedule, commands, SCTE-35, channels, assets, lists | storage |
| storage (`pkg/storage`) | tables `channel`, `timeline_entry`, `asset`, `idempotency`, `schema_migrations` | `EditSchedule`, `replaceInTx`, `queryRange`, `DeleteChannel`, `DeleteAsset`, lists, `migrate` | PostgreSQL |
| codecs (`pkg/scte35`, `pkg/fmp4`, `pkg/hls`) | none | `Encode`, `Decode`; `ParseInit`, `Retime`; `Parse` | stitcher, control API |
| auth (`pkg/auth`) | keys | `Allows`, `Require` | every route |
| config, logging, metrics, HTTP helpers | none | | |

What makes it hard:

* **Failure.** The engine may be killed between any two writes; the next process knows only the disk. Playlist writes
  fail, sources and the ads service are slow or gone, the clock stalls or is set back.
* **Concurrency.** The tick races its background downloads and ad requests; publishers race slow subscribers;
  the pump races its workers on full queues; API clients race each other, their own repeats, and the engine that has
  already released what they edit; statements of different requests alternate on the same rows; services migrate one
  database at once.
* **Order.** Discontinuity numbers, break markers and started/ended events depend on what came before, including
  before a restart.
* **Limits.** Windows, rings, queues, caches and time-to-live values decide what is still there when it is needed.
* **Numbers and layouts.** Decode times of 64 bits moved by signed differences, box sizes of 0 and 1, optional fields of
  splice messages, sums of creatives that must fill a break.

What makes each part correct: the playlist on disk is always servable and slides over one stream (engine, stitcher);
a subscriber that knows only the events knows what is on the air (events); nobody misses or repeats an event that is
still remembered (hub); every event is delivered, failed, dropped or on its way, and one bad receiver does not hurt
the others (sender); every second of a film airs once whatever commands do (schedule, control API, engine together);
a key changes the schedule once and a conditional change lands only on what its client read (storage); references hold,
a request is carried out entirely, once, or not at all, one that is refused changes nothing, one that is acknowledged
stays, every request is answered (control API, storage);
migrations are applied once each; a break is of one piece, no due second waits for its pod, and a creative does not end
one break and play in the next (broker, filler, planner); a file is downloaded by one caller at a time and nobody waits
for a download that is over (resolver); the pure algorithms compute what their definition says (codecs, filler).

## 2. The modules

| module | models | extends / composes |
|---|---|---|
| `Engine` | the tick in its steps, the stitcher, the files, the playlist, crashes | |
| `LiveStream` | abstract: a window that slides over one stream | implemented by `Engine` |
| `EngineEvents` | `announce` on top of every engine step, and a subscriber | `Engine` |
| `Player` | the engine and a player that downloads what an older playlist lists | `Engine` |
| `Hub` | ring, subscriptions, cut-off | |
| `SseClients` | `ServeSSE` and clients that reconnect | `Hub` |
| `WebhookSender` | the pump, its queues, the workers, retries and stop | `Hub` |
| `Schedule` | the edit rules as operators on sequences of entries | |
| `ScheduleEdits` | API clients, `EditSchedule`, and the engine that reads and releases | `Schedule` |
| `AdBroker` | the planner and the requests for pods in flight | |
| `FillBreak` | `fillBreak`, `bestSubset`, `buildAdBreakQuanta` as operators on sets and sequences, their loops as recursive functions | |
| `PodSources` | the planner with the broker, the registry file or no ads, and the operator who edits the file | `AdBroker`, `FillBreak` |
| `Migrations` | services that connect to and migrate one database | |
| `Catalog` | channels, assets and schedules, statement by statement, with locks and authorization | `Migrations` |
| `Fmp4` | boxes, init sections, `Retime` as operators | |
| `Scte35` | messages as sequences of bytes, the markers of a break | |
| `Hls` | the parser of source playlists as a fold over lines | |
| `Codecs` | one call of these at a time, and what the right answer is | `Fmp4`, `Scte35`, `Hls`, `FillBreak` |
| `Resolver` | the tick and background downloads on the two caches | |
| `Iteration` | loops over sets and sequences as recursive functions, for the models that are proved about | |
| `IterationProofs` | lemmas about those: induction over numbers and finite sets, sums, filters, runs of numbers | `Iteration` |
| `EngineProofs` | theorems on the engine, its refinement, its events and its players | `Engine`, `EngineEvents`, `Player` |
| `SseProofs`, `SenderProofs` | theorems on the hub, its clients and the webhook sender | `SseClients`, `WebhookSender` |
| `ScheduleProofs`, `CatalogProofs` | theorems on edits of the schedule, and on migrations, resources and lists | `ScheduleEdits`, `Catalog` |
| `PodProofs` | theorems on the planner, its sources of pods and the choice of creatives | `PodSources`, `Codecs` |
| `MediaProofs` | theorems on the resolver, boxes, Retime, messages and playlists | `Resolver`, `Codecs` |
| `MC*` | small instances of these for TLC | |

How state and actions correspond:

* **Engine.** `win`, `discSeq`, `nextSeq`, `lastStart`, `prev`, `retired` are the fields of `stitcher` and `Window`;
  `segFile`, `initFile`, `playlist` are the disk; `pc` says where the tick is, because a crash falls between two
  steps. `Prepare` is `engine.prepare` with `restoreWindow` and `removeOrphans`; `TickStart` is the beginning of
  `tick`; `Add`, `Lost` and `Duplicate` are the outcomes of `stitcher.add` with everything it calls (`writeFiles`,
  `append`, `cleanup`, `deleteRetired`); then `EndRelease`, `WritePlaylist` or `WriteFails`, `Announce`. `CrashInAdd`
  dies inside `writeFiles`. What a second airs is any programme of the constant `Programmes` that covers it, or a gap:
  the schedule is read anew and may change between ticks. An init section is identified by its source. `unwritten` and
  `overdue` are history: how long the window has been ahead of the playlist on disk.
* **EngineEvents.** The same steps; `Announce` walks over the window and applies `transition` to `onAir`, and `heard` is
  what a subscriber pieces together. `CrashInAdd` and `LosePlaylist` are left out here: for events they differ from
  other crashes and starts only in what is on the disk.
* **Hub, SseClients, WebhookSender.** What is done under `Hub.mu` is one step. A handler takes one event per step, and
  the pump one attempt on one queue per step, so that a worker can empty a queue between two of them. Event payloads are
  their numbers. A receiver in `Alive` answers; the others may hang forever.
* **Schedule, ScheduleEdits.** `EditSchedule` holds the lock of the channel row from its first read to its commit and is
  one step (`Replayed`, `Refused`, `Apply` or `Fails`). What comes before is not under the lock: the moment of a command
  is computed in `Arrives`. `getSchedule` is two steps, as it is two queries. The engine's copy of the schedule is at
  most `MaxAge` old, which in `schedule` is the second between two reads and an outage of one more, and the engine keeps
  up with the clock. `aired` records what was released; `MovieIsWhole` compares
  it, with what is still to come, with the film.
* **AdBroker, PodSources.** `source` says what `newPods` has chosen; the planner is the same for all three. A tick
  plans one second per step; a request answers, with a pod, nothing or an error, at any time. The identity of a
  `podEntry` is kept, so that an answer for an evicted entry is not taken for a newer one. The
  filler looks at its file (`os.Stat`, `Look`) and reads it (`os.ReadFile`, in `FillPod`) in two steps; in between the
  operator may replace, break or move it. `made` is history.
* **Resolver.** `segs`, `segBytes`, `flight`, `cache`, `inflight` are the fields of `resolver`. A channel of a download
  is identified by the caller that made it. Downloads end well or badly at any time; `late` says that `fetchBudget` is
  used up, after which the tick's downloads fail.

* **Migrations, Catalog.** A step is one SQL statement, or the beginning of one that has to wait for rows (`SelectEntries`,
  `LockChannel`: a `DELETE` takes its snapshot first and deletes what is left of it when the rows are free). The tables
  are as committed; `tx` is what a transaction has locked, deleted and added. A lock is not a variable: `WaitsFor` says
  whom a statement waits for. PostgreSQL is external and modelled as far as the code relies on it: READ COMMITTED,
  row locks to the end of a transaction, foreign keys checked by the statement, one victim of a deadlock. A context may
  end, or a connection be lost, at any moment, also while a statement or a `COMMIT` is under way (`Cancel`): the client
  is answered an error, or is gone, and the database, which keeps the locks, then carries out what commits or rolls back
  (`RollBack`). The code answers 500 for this as for other errors; the model says `Unheard` (499), to tell who knows that
  nothing was done from who does not know. `ScheduleEdits` has no such step: to the schedule it is the same as an edit
  that is carried out, or fails, and whose answer its client does not see (`Repeat`). Requests are sent when the services are
  connected. `changed` and `walk.stayed` are history.
* **FillBreak.** A registry is a sequence of creatives. `fillBreakExcluding` sorts what can be played, which is here a set
  put in order (`InOrder`); `Reach` and `Back` are the passes of `bestSubset` over its table and its way back. The
  sums of all lists are there at once, as functions of the number of passes.
* **Fmp4, Scte35, Hls.** Data is as small as the algorithms tell it apart. A cell stands for four bytes of a box header,
  and a size counts cells; decode times are numbers below `Span`, 2^64 in the code, with the wrap-around of Go's
  `uint64` and `int64`. A byte of a message is a digit of base `Base`, so that the 33 bits of a time end at `2 * Base^4`; the CRC of a section
  is the section it was computed from. A line of a playlist is a tag and a value.
* **The markers of a break** (`CallMarkers` in `Codecs`). What an entry has for a message (`Carried`) is anything, because
  commands and replacements do not look at it; or it came through `POST /scte35`, was checked there and has given the
  break its length (`Asked`), of which later commands may leave any part (`Left`), with the message. The engine makes the
  markers of what the entry says when the break starts.

Operators commented as *mutant* are a definition with a plausible mistake in it. No action uses them; each is put in
the place of its original to see that a property notices.

## 3. The runs

All bounds are constants named `Max...`; time is counted in segments of one second.

| run | what it checks | bounds, and why they are enough |
|---|---|---|
| `engine_files` | `TypeOK`, `PlaylistServable`, `OverdueNeedsFailures`, `SeqBehindClock`, refinement of `LiveStream` | a window of 2 or 3 with lead 1 and retention 2 slides fully in 5 seconds; one crash at any step, one failed write, a lost playlist, stalls of 2 s, a clock 1 s back |
| `engine_events` | `SubscriberAgrees`, `NoneLeavesUnannounced`, `DiscontinuityMarked`, `EndMarkerNotLost` | a film, a jump in it, an ad, its padding and a second break right behind; schedule changes between ticks; a crash, a failed write, stalls of 2 s; the window is as long as the lead and the longest stall |
| `player` | `PlayerCanDownload` | 6 seconds are twice the retention; no crash (see 6) |
| `sse` | `NothingMissedOrRepeated`, `EveryoneCatchesUp` | two clients, ring 2, buffer 1, four events: cut-off, lost connection and falling behind the ring all happen |
| `sender` | `Accounted`, `NewestIsKept`, `InOrder`, `OthersAreServed` | two receivers of which one may hang, queues of 2, buffer 1, ring 2, four events, one retry, a stop at any moment |
| `schedule` | `MovieIsWhole`, `KeyChangesOnce`, `NoOverlap`, `ChangesWhatItRead` | two clients with either every kind of command on two schedules, or conditional, unconditional and invalid replacements and commands with shared keys, each sent up to twice; the cue lead 5 exceeds lead 1 + wait for the row 1 + age of the copy 2 |
| `commands_lead` | `MovieIsWhole` is **violated** | cue lead 1 below live lead 2, the relation of the defaults 3 and 6 |
| `pods` | `BreakOfOnePiece`, `NothingHeldBack`, `NotTwiceInARow`, `FileCounts` | three breaks in a row, one of a category most registries have nothing for; every source of pods; answers late, failed, retried, missing; eviction while breaks are known; ten registries at the start, two more written, broken and moved in between |
| `resolver` | `TypeOK` (the limits of the caches included), `BytesCounted`, `OneDownload`, `WaitsForSomeone` | a film and the slate whose segments do not fit together, two background downloads besides the tick, every copy expires once |
| `resolver_slate` | `SlateAtHand` is **violated** | the slate was downloaded at the start, and one time-to-live later the network is down |
| `catalog` | `TypeOK` (references and the uniqueness of slots included), `AppliedOnce`, `AllOrNothing`, `AcknowledgedStays`, `WalkIsComplete`, `EveryRequestIsAnswered` | two services with two migrations; three requests at a time, which is what a check, an edit that slips in between and a deletion need; any of them may be abandoned at any statement; three channels, two assets, one entry |
| `codecs` | `ChildrenTile`, `RetimeIsExact`, `DecodeInverts`, `MarkersTellTheBreak`, `ParseIsRight`, `FillIsBest` | boxes of up to 5 cells; decode times of 6 bits on both sides of 0 and 2^5; every field of a message on and off, numbers on both sides of their limit, every cut; every such message, also cut, of another command or missing, in a break of any length; up to 9 lines; up to 5 creatives |

Runs with a bounded clock or a bounded number of requests end where these do, so deadlock is not checked in them
(`CHECK_DEADLOCK FALSE`); the engine runs, `player` and `codecs` check it. In `schedule` the two clients are
interchangeable (`ClientSymmetry`): each may send every request of the workload, no definition names one of them, and
the run checks no liveness. No other run uses symmetry.

What the two violations show:

* `commands_lead`: a command is placed `CUE_LEAD_S` ahead although the engine has released `LIVE_LEAD_S` already; with
  the defaults the beginning of what was inserted never airs and seconds of the film air twice. The passing run gives
  the rule: the cue lead must exceed the lead by the wait for the row and the age of the engine's copy.
* `resolver_slate`: the slate is kept in memory for two minutes, not permanently; when the network fails later there is
  nothing to stand in for the sources.

**Fairness.** `sse`: weak fairness on connecting (a browser reconnects by itself) and on the handler (the Go scheduler
runs a handler that can write). `sender`: weak fairness on the pump and on the workers of receivers that answer; a
receiver outside `Alive` gets none, because nothing makes it answer. `catalog`: weak fairness on the statements of all
handlers together: while some statement can run, one does, because PostgreSQL and the Go scheduler do not stand still
and PostgreSQL aborts a transaction of those that wait for each other; the end of an abandoned one is among them, because
pgx closes the connection of a query whose context has ended, and PostgreSQL ends what was open on it; none on a
particular handler, on new requests or on cancellations. The other runs check safety only.

## 4. What is proved

38 theorems, for every value of the constants that meets the assumptions: any number of sources, callers, clients,
endpoints, events, requests, creatives, bytes and services, and no bound on time, crashes or failures except where the
bound is itself a constant. Each states a property some run checks (`AlwaysServable` combines two), so a small instance
shows it first. All safety properties are proved. The invariants of the engine were also
checked by TLC, on the instance of `engine_files`, before they were proved.

Where a theorem has a hypothesis, the code does not ensure it and the property may fail without it:

| theorem | hypothesis | what it says of the code |
|---|---|---|
| `FilesOutliveThePlaylist` | `MaxBack = 0`, no crash and no failed write so far | the clock is not set back; a restart deletes retired files at once (see 6) |
| `NothingSkipped` | `LiveLead + MaxStall <= n` for every window size `n` | a window as long as the lead and the longest stall; nothing compares them |
| `BreaksAreOfOnePiece` | no break longer than `Keep` | the hour after which `evict` forgets a pod |
| `NothingDueIsHeldBack` | `LiveLead < PublishAhead` | 6 and 30 seconds by default, not compared when they are configured |
| `ScheduleStaysAirable` | `ReplacementsFit` | the window of a `schedule:replace` cuts no entry; `replaceInTx` looks at starts only. Commands need no such thing |
| `FilmsStayWhole` | `LeadIsEnough`: `LiveLead + MaxAge + MaxWait < CueLead` | nothing compares them, and the defaults, a live lead of 6 and a cue lead of 3 seconds, do not meet it: `commands_lead` |
| | `InsertsNoFilm`; `MovieIsWhole` at first | no command inserts another showing of a film, and the first schedule has each of its seconds once: otherwise seconds are shown twice because a client asked for it |
| `RetimeMovesWholeSeconds` | `TimesFit` | the seconds, in ticks, fit into signed decode times; timescales have 32 bits, decode times 64 |
| `BreaksAreFilledBest`, `NoCreativeTwiceInARow` | `FewPartners` | at most sixty creatives of partners: `bestSubset` looks at the first sixty (`filler.go:151`) |

### The engine (`EngineProofs`)

* `TypeCorrect`: `Spec => []TypeOK`.
* `ListedFilesStay`: `Spec => []PlaylistServable`. Everything the playlist on disk lists is there, with the media of that
  very second, across crashes at any step, unless playlist writes have failed for `SEGMENT_RETAIN_S`.
* `PromptPlaylist`: `Spec => []OverdueNeedsFailures`. Without a failed write nothing waits that long. `AlwaysServable`
  puts the two together: while no playlist write fails, all that is listed can be downloaded.
* `JumpsAreMarked`: `Spec => []DiscontinuityMarked`.
* `NumbersFollowTheClock`: `Spec => []SeqBehindClock`. `BreaksEnd`: `Spec => []EndMarkerNotLost`.
* `OneStream`: `Spec => LiveStreamSpec`, the refinement of `LiveStream`: whatever is published stays as it was published.

`PlaylistServable` is not inductive: that a listed file is there tomorrow depends on why it is not deleted today.
`IndInv` adds that reason. `ListedIsKept`: every item of the playlist is in the window, or was retired no earlier
than the oldest unwritten change, so it is not expired while the playlist is not overdue. `WindowServed`: the files of
the window exist. `WindowLinked`, `PlaylistLinked`, `PlaylistBehind`: numbers and seconds grow together in the window
and in the playlist, and the window is never behind the playlist, so a new segment never reuses the number of a
listed one. `UnwrittenPast`, `TickSound`, `DownClean`: the bookkeeping between the steps of a tick and of a dead
process. `PromptPlaylist` needs `Prompt`, which bounds by the lead what one tick can add; `JumpsAreMarked` needs
`PrevIsLast`, that `prev` describes the last segment. The numbers need the same of the playlist on disk
(`PlaylistBehindClock`), from which a restart takes them. The ends of breaks need `BreaksKnown`: up to the first
restart `prevAvail` is the break of the last segment.

The refinement needs what relates the window in memory to the playlist on disk, which may be several failed writes
old. `Slides`: with `Gone` segments between the two beginnings, item `i + Gone` of the playlist is segment `i` of the
window, with the same discontinuity number; the rest of the window is later; and if nothing is common any more the
number has counted at least all discontinuities of the playlist. `Marked`: time grows along both, holes and changes of
the init section are marked. `add` moves the beginning of the window and `discSeq` together (`AddSlides`, with the
lemmas `Disc...` on counting discontinuities), a restart and a write set `Gone` to 0 (`PrepareStream`, `WriteStream`).
The effect of `add`, the only large action, is stated once in `AddFacts` and `AddWindow`.

`FilesOutliveThePlaylist` (`PlayerCanDownload`): `PlayerInv` is `ListedIsKept` for the playlist a player holds: each of
its items is still in the window, or was retired no earlier than the player read it, less the lead.
`SubscribersKnow` (`SubscriberAgrees`): `EventsInv` says that `onAir` is what the last announced segment of the window
shows, that what the subscriber heard says the same as `onAir`, and that when a tick is over everything that has started
is announced. The walk of `announce` over the window is followed by an induction (`AnnouncedLoop`, `AnnounceKeeps`).
`NothingSkipped` (the action property `NoneLeavesUnannounced`): `Unannounced` bounds how far the window may run ahead of
what was announced.

Assumptions: `TimingAssumption` (the lead is smaller than the retention and than the window, the slate has a segment),
`BoundsAssumption` (the bounds are numbers), `ProgrammesAssumption` (programmes are well typed, slate programmes show
the slate).

### The resolver (`MediaProofs`)

`CachesLimited` (`TypeOK`, the limits of both caches included), `CountIsRight` (`BytesCounted`), `DownloadedOnce`
(`OneDownload`), `NobodyWaitsInVain` (`WaitsForSomeone`). `IndInv` ties `flight` to the callers in both directions:
a registered download is one its maker is busy with (`FlightOwned`), who downloads is registered (`DownloadRegistered`),
and only who waits has a channel to wait for (`JoinedWaits`). That the count of bytes is right needs that sums over
finite sets change by what is added, replaced or evicted (`IterationProofs`).

### Hub, SSE clients and sender (`SseProofs`, `SenderProofs`)

`NoEventIsMissedOrRepeated` (`NothingMissedOrRepeated`), `EveryEventIsAccountedFor` (`Accounted`), `NewestEventIsKept`
(`NewestIsKept`), `DeliveredInOrder` (the action property `InOrder`). The heart of both is `Ahead`: what is left of the
replay and what is in the buffer are runs of consecutive numbers that join without a seam, and as long as the
subscription is open they reach to the last event; between them and the last event taken lies only what the ring had
forgotten. For the sender, `LineOK` says that the events of an endpoint stand in line (received, in hand, in the queue),
and `Rounds` counts the pushes of the round under way.

### Schedule edits (`ScheduleProofs`)

`OneChangePerKey` (`KeyChangesOnce`): `Stored` says that the table of keys and the changes that were made say the same.
`OnlyWhatWasRead` (the action property `ChangesWhatItRead`): `ReadOK` says that what a client has read is the schedule
as long as its version is the current one, although version and entries are read by two queries; it holds because the
version is read first and every change raises it. Neither of the two depends on what an edit makes of the entries.

`ScheduleStaysAirable` (`NoOverlap`) does: `Timetable` says that the table is in the order of its starts and that each
entry begins when the one before it is over. One lemma for each command shows that what `InsertShift` and `Skip` put
into the window of their edit starts where the rest leaves room, and that entries running into the window are cut or
moved as a whole. Assumption: the first schedule can be aired.

`FilmsStayWhole` (`MovieIsWhole`): a schedule is looked at as what it shows at each second (`Shown`). `InsertMoves` and
`SkipMoves` say that a command leaves what is shown before its moment (`KeepsBefore`) and that every second of a film
shown from there on is still shown, once and no earlier than that moment, or belongs to what a skip drops
(`KeepsAfter`). The invariant `FilmInv` adds the clock: what is released stays behind the moments of all commands under
way (`Clock`), and the engine's copy shows what the table does, up to the first moment a command can still act on
(`Copy`). That is where `LeadIsEnough` is used: the engine only releases seconds at which its copy is right.

### Migrations and resources (`CatalogProofs`)

`SchemaIsWhole` (`AppliedOnce`): who migrates holds the advisory lock and stands at or before the first migration
that is not recorded (`Migrating`). `TablesAreSound` (`TypeOK`: references and unique slots), `RequestsAreAtomic`
(`AllOrNothing`), `EditsStay` (`AcknowledgedStays`): `Fits` says for every statement of every handler what its
transaction has locked, seen and deleted by then, and `RowsApart` that no two hold one row. `WalksAreComplete`
(`WalkIsComplete`): `WalksInv` says that a walk has listed, once and in order, all rows up to its cursor that the key may
see and that have been there since it began. Assumptions (`ListsAssumption`: identifiers are numbers, pages are not
empty): the tables are
sound to begin with, `Steps` is a number.

### Pods and creatives (`PodProofs`)

`BreaksAreOfOnePiece` (`BreakOfOnePiece`): `Decided` says that the pod kept for a break is what the break has shown until
it is over. `NothingDueIsHeldBack` (`NothingHeldBack`). `FileAlwaysCounts` (the action property `FileCounts`): the
modification time stands for the content (`FileInv`). `NoCreativeTwiceInARow` (`NotTwiceInARow`): `LastKept` says that
`last` is the creative at the end of the last pod that is not empty, whatever empty pods came after it.

`BreaksAreFilledBest` (`FillIsBest`) is about the algorithm. `ReachHolds`: after the passes of the first `k` creatives the
table has, for every sum, the fewest of them that make it, or says that none do; it goes through the passes by
induction, and through a pass by asking whether the set that is compared has the creative of the pass in it. `BackHolds`:
the way back from a sum finds as many creatives as the table says, that add up to it. `AdsHold`: the segments of the
first `k` creatives are those creatives, each to its end. That sorting loses nothing is `OrderLists`; what lists and
sets add up to, `ListTotal`, `TotalAppend` and `TogetherFacts`; what `fillBreakExcluding` returns, `ExcludingFacts`;
when it returns nothing, which makes `fillBreak` use the last creative again, `PlaysWhenItCan`.

Assumptions: breaks do not overlap, registries are well formed (`BrokerAssumption`, `FillerAssumption`,
`CodecsAssumption`).

### Boxes, messages and playlists (`MediaProofs`)

One call at a time, for any input of its kind: `BoxesTile` (`ChildrenTile`), by induction from the end of the box back
(`Tiled`); `RetimeMovesWholeSeconds` (`RetimeIsExact`), from the arithmetic of a span (`SignedFacts`): the difference wraps
around only when the segment is refused; `MessagesSurvive` (`DecodeInverts`), from what the digits of a number are
(the numbers of the code's widths come back) and where each field stands, with and without the optional ones;
`MarkersCarryTheBreak` (`MarkersTellTheBreak`), from the same, for every message a break may have; `PlaylistsAreRead` (`ParseIsRight`), by induction over the lines: what the
loop of `Parse` keeps is what `Expected` says of the lines so far. Assumptions: inputs are of their types
(`MediaAssumption`, `MessagesAssumption`, `PlaylistsAssumption`), bytes and ticks have more than one value
(`Scte35Assumption`).

### Only model-checked

* Liveness (`EveryoneCatchesUp`, `OthersAreServed`, `EveryRequestIsAnswered`): fairness is beyond the prover.

Inductions over numbers are over a set: `NumberInduction` in `IterationProofs` shows that a set with 0 and with every
successor has all numbers. Loops of the code are recursive functions, and that such a function has the values its
definition says is part of the proof (`LoopValues` for those that go upwards).

## 5. What is not modelled

* Configuration, logging, metrics, HTTP helpers, data types and the end-to-end tool: glue without an order, or values
  that are the constants of the modules.
* Auth: the parsing of keys, the comparison of secrets in constant time and the answer 401. `Allows` and `Require` are in
  `Catalog`.
* Control API: checks of JSON bodies, dry runs, now-next and the reading of single rows, which change nothing.
* Codecs: hex and base64, the offsets of fields inside a box and the errors of boxes too short for them (`u8`, `u32`),
  `Fragments` and `MediaData` (tests and tools only), tags of playlists the engine does not use. Messages with a splice per
  component are in `Decode`, which refuses them, but not among the inputs: `Encode` does not write them.
* Storage: `ReplaceTimelineRange`, `UpsertTimeline`, `GetAssetByURI`, `ListChannels`, which only tests call.
* In `Engine`: metrics, the status reply, the tick budget beyond its effect (a tick may end its releases at any
  point). Files that `cleanup` deletes one by one are deleted in one step: a crash in between leaves a state between two
  modelled ones, in which only unused files differ.
* In `EngineEvents`: `ads.fallback` and the throttling of `source.error`, which follow no state of the stream.
* In `ScheduleEdits`: the expiry of keys after 24 hours, the limits of twelve hours and 20000 entries, a channel that is
  deleted and created again. In `AdBroker`: the tick budget. In `Catalog`: versions, keys and commands, which are in
  `ScheduleEdits`; an edit writes one entry.
* In `Resolver`: the init cache, `file://` sources (they cannot time out), several clips released by one tick after a
  stall, and which hosts and directories are allowed.

## 6. Seen while modelling

Besides the two violations above, TLC produced counterexamples for these with other constants. They are not kept as runs:

* A restart inside a break loses its end marker: `restoreWindow` (`stitch.go:716`) restores the tags, not `prevAvail`,
  while the note `zettel/scte35-markers-follow-the-schedule.md` says the marker is not lost.
* `removeOrphans` (`stitch.go:588`) deletes at a start files that left the playlist a moment ago, without waiting for
  `SEGMENT_RETAIN_S` (README, `stitch.go:474`).
* `break.ended` (`engine/events.go:58`) is published when the slate that pads the break begins, not when the break is over.
* With `PLAYLIST_WINDOW_MAX=2` and `LIVE_LEAD_S=1`, the tight profile of the README, a tick that is a second late trims
  a segment that was on the air and never announced (`engine/events.go:40`).
* After a restart the hub counts from 1 again (`pkg/events/events.go:36`); a client with a larger `Last-Event-ID` gets none
  of the new events until their numbers pass it.
* `schedule:replace` does not look at an entry that runs into its window (`postgres.go:227`): entries overlap.
* A break longer than an hour is evicted by its start while it is on the air (`ads.go:122`) and gets a second pod.
* A playlist download that fails, also through the deadline of the tick, replaces a good copy for `errTTL` (`stitch.go:172`).
* With more than sixty creatives of partners `bestSubset` looks at the sixty longest only (`filler.go:151`), against the
  comment of `fillBreak`: if these are longer than the break, the break is left to house creatives or the slate although
  a shorter one fits.
* A source playlist expires after ten minutes without having been renewed; the tick then downloads it itself, within its
  budget (`stitch.go:161`, `stitch.go:301`).

And these were met while the rest was translated; the properties state what the code does:

* A break that has a splice message of its own has that message's event id in the marker of its start, and the id
  made of its start in the marker of its end (`stitch.go:634`).
* The message of an `ad_break` command or of an entry of `schedule:replace` is stored as it is, beside a duration of its
  own (`commands.go:134`, `server.go:289`), and whatever of it can be decoded is passed on as `SCTE35-OUT`
  (`stitch.go:618`): it may tell another length, be a return or a cancellation, or no splice at all. A break that came through
  `POST /scte35` and is cut by a command (`schedule.go:102`, `schedule.go:135`) keeps its message, which then tells more
  than the length of the part, and both parts of a break that is cut in two have it. `PLANNED-DURATION` tells the length
  of the entry in all cases. `MarkersTellTheBreak` promises the length only where there is no message.
* An answer 500 does not say that nothing was done: when the context of a request ends, or the connection is lost, while
  `COMMIT` or a single `INSERT` or `DELETE` is under way (`api_store.go:80`, `api_store.go:103`, `api_store.go:184`), the
  database may have carried it out. Deletions and creations have no `Idempotency-Key`; a repeat is answered 404 or 409.
* A channel that is deleted and created again counts versions from 0 (`postgres.go:84`): an `If-Match` kept from the old
  one can match the new one.
* `DeleteAsset` and `DeleteChannel` answer 500, not 409, when an edit has begun to use the row between their two
  statements (`api_store.go:77`, `api_store.go:101`); the tables stay right. The two locks of `DeleteChannel` and
  `EditSchedule` are taken in opposite orders; PostgreSQL aborts one of them, which is answered 500.
* `createChannel` answers 404 for a channel it has created if another client deletes it at once (`server.go:194`).
* The filler remembers the creative that ended the break it *planned* last (`filler.go:77`); a break inserted before one
  that is planned already is not next to it on the air.
* A restart in the middle of a break asks for a new pod: the pods are in memory only (`ads.go`).
* `lookup` gives every segment the last `EXT-X-MAP` of its playlist, not the one above it (`stitch.go:378`), which
  `Parse` keeps for it.
* A `tfdt` box shorter than its version says is compared with the end of the segment only (`fmp4.go:272`). Decode times
  of 2^63 or more count as negative and the segment is refused.

## 7. Plan

Done: all models above, and the proofs of all their safety properties. Left: models of the init cache of
the resolver and of `file://` sources.
