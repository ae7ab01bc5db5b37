------------------------------- MODULE Engine -------------------------------
(***************************************************************************)
(* The engine of one channel: the tick of services/engine/engine.go, the    *)
(* stitcher of services/engine/stitch.go that keeps the live window, the    *)
(* files it leaves in the variant directory and the playlist a player       *)
(* reads.  A tick is several steps, because the process can die between any *)
(* two of them and the disk is what the next process starts from.           *)
(*                                                                          *)
(* Time is counted in segments (SEGMENT_SEC, one second); 0 is Go's zero    *)
(* time.  What a second airs is any programme of Programmes that covers it: *)
(* the schedule is read again on every tick and can change between two.     *)
(*                                                                          *)
(* An operator that is commented as a mutant is the definition below it     *)
(* with a mistake in it.  No action uses it: it stands for a bug that a     *)
(* property has to notice.                                                  *)
(***************************************************************************)
EXTENDS Integers, Sequences, FiniteSets

CONSTANTS
    Programmes,     \* what a schedule can put on the air, see ProgrammeType
    Sources,        \* the media playlists of assets, creatives and the slate
    SlateSrc,       \* the one of the slate
    NoSource,       \* no source is known (Go's empty string)
    SlateLen,       \* segments in the slate, which loops
    LiveLead,       \* LIVE_LEAD_S
    Retain,         \* SEGMENT_RETAIN_S
    WindowSizes,    \* the values of PLAYLIST_WINDOW_MAX a start may find configured
    MaxTime,        \* bound: the last second a tick may happen at
    MaxStall,       \* bound: how far the clock may be ahead of the previous tick
    MaxBack,        \* bound: how far the clock may be behind the previous tick
    MaxCrashes,     \* bound: how often the process dies
    MaxFailures,    \* bound: how often a playlist write fails
    MayLose         \* TRUE: the playlist file can be gone or unreadable at a start

ASSUME TimingAssumption ==
    /\ LiveLead \in Nat
    /\ Retain \in Nat
    /\ LiveLead < Retain
    /\ WindowSizes \subseteq Nat
    /\ \A n \in WindowSizes : LiveLead < n
    /\ SlateLen \in Nat \ {0}

ASSUME BoundsAssumption ==
    /\ {MaxTime, MaxStall, MaxBack, MaxCrashes, MaxFailures} \subseteq Nat
    /\ MayLose \in BOOLEAN

(***************************************************************************)
(* A programme airs src from second start up to end; its first second shows *)
(* segment off of src.  brk is the start of the ad break it lies in, or 0.  *)
(***************************************************************************)
ProgrammeType ==
    [kind : {"content", "ad", "slate"}, src : Sources, start : Nat, end : Nat,
     off : Nat, entry : Nat, brk : Nat]

ASSUME ProgrammesAssumption ==
    /\ Programmes \subseteq ProgrammeType
    /\ SlateSrc \in Sources
    /\ NoSource \notin Sources
    /\ \A p \in Programmes : p.kind = "slate" => p.src = SlateSrc

VARIABLES
    pc,         \* where the tick is; "down" when there is no process
    slot,       \* the second of the current, or of the last, tick
    lastTried,  \* the start of the last clip handed to the stitcher
    appended,   \* the tick has put a segment into the window
    maxSize,    \* Window.MaxSize
    win,        \* Window.Items
    discSeq,    \* Window.DiscSeq
    nextSeq,    \* the media sequence number of the next segment, 0 if none is known
    lastStart,  \* the start of the last segment of the window
    prev,       \* prevSrc, prevIdx and prevAvail
    retired,    \* the files of segments that left the window
    segFile,    \* the segment files: number -> the second whose media it holds
    initFile,   \* the init sections in the variant directory, by source
    playlist,   \* the media playlist on disk
    crashes,    \* how often the process has died
    failures,   \* how often a playlist write has failed
    unwritten,  \* start of the first segment the playlist on disk does not have yet, 0 if none
    overdue     \* segments have once waited Retain or longer for a playlist write

clockVars == <<slot>>
tickVars  == <<lastTried, appended>>
stVars    == <<maxSize, win, discSeq, nextSeq, lastStart, prev, retired>>
diskVars  == <<segFile, initFile, playlist>>
envVars   == <<crashes, failures, unwritten, overdue>>
vars == <<pc, clockVars, tickVars, stVars, diskVars, envVars>>

-----------------------------------------------------------------------------
(* Data *)

\* SegmentMeta.Kind, Title, EntryStart and BreakStart: what announce tells the outside world
Shown(kind, title, entry, brk) == [kind |-> kind, title |-> title, entry |-> entry, brk |-> brk]

\* a segment restored from the playlist: nothing of what it shows is known
NotShown == Shown("none", NoSource, 0, 0)

\* prevSrc, prevIdx and prevAvail of a stitcher that has not added anything yet
NoPrev == [src |-> NoSource, idx |-> 0, avail |-> 0]

NoPlaylist == [first |-> 0, discSeq |-> 0, items |-> <<>>]

-----------------------------------------------------------------------------
(* What a clip of the plan becomes *)

Covers(p, t) == p.start <= t /\ t < p.end

\* nothing scheduled: the slate, outside any break
Gap == [kind |-> "slate", src |-> SlateSrc, start |-> 0, end |-> 0, off |-> 0, entry |-> 0, brk |-> 0]

\* the clips buildPlan can lay out for second t
Clips(t) == {p \in Programmes : Covers(p, t)} \cup {Gap}

\* prevType of buildPlan: the clip that this tick's plan, which begins at the slot, has before second t
PrevTypes(t) == IF t = slot THEN {"none"} ELSE {p.kind : p \in Clips(t - 1)}

\* the marks of buildPlan: the first second of a break, and going into or out of ads
PlannedDisc(p, t, prevType) ==
    \/ p.brk # 0 /\ t = p.brk
    \/ (p.kind = "ad") # (prevType = "ad")

\* mutant of Lookup: the difference is taken the wrong way round
LookupBackwards(p, t) == IF p.kind = "slate" THEN t % SlateLen ELSE p.start - t + p.off

\* lookup: the segment of the source, by index; the slate wraps
Lookup(p, t) == IF p.kind = "slate" THEN t % SlateLen ELSE t - p.start + p.off

Own(p, t) ==
    [src |-> p.src, idx |-> Lookup(p, t),
     shown |-> Shown(p.kind, p.src, p.entry, p.brk)]

\* rt.slate: the slate in place of the clip, aired as slate and not as a part of the break
SlateInstead(t) ==
    [src |-> SlateSrc, idx |-> t % SlateLen, shown |-> Shown("slate", SlateSrc, 0, 0)]

\* the segments resolve can come back with; when it comes back with none the second is lost
Resolve(p, t) ==
    {Own(p, t)} \cup (IF p.kind = "slate" THEN {} ELSE {SlateInstead(t)})

\* mutant of NeedsDisc: a jump inside a source is not noticed
NeedsDiscAtSourceOnly(r, t, planned) ==
    win # <<>> /\ (planned \/ r.src # prev.src \/ t # lastStart + 1)

\* a change of source, a jump inside it, an unknown predecessor or a hole in time
NeedsDisc(r, t, planned) ==
    /\ win # <<>>
    /\ \/ planned
       \/ prev.src = NoSource
       \/ r.src # prev.src \/ r.idx # prev.idx + 1
       \/ t # lastStart + 1

\* mutant of CueIn: only content ends a break
CueInAtContentOnly(p) == IF prev.avail # 0 /\ p.brk = 0 THEN prev.avail ELSE 0

\* breakTags: the break that was on the air is over
CueIn(p) == IF prev.avail # 0 /\ prev.avail # p.brk THEN prev.avail ELSE 0

\* breakTags: a break starts at its first second only
CueOut(p, t) == IF t = p.brk THEN p.brk ELSE 0

\* mutant of Seq0: off by one
Seq0Ahead(t) == IF nextSeq = 0 THEN t + 1 ELSE nextSeq

\* the first segment of a fresh stream is numbered by its second
Seq0(t) == IF nextSeq = 0 THEN t ELSE nextSeq

Segment(p, t, r, prevType) ==
    [seq |-> Seq0(t), file |-> Seq0(t), start |-> t,
     disc |-> NeedsDisc(r, t, PlannedDisc(p, t, prevType)),
     map |-> r.src, src |-> r.src, idx |-> r.idx, avail |-> p.brk, shown |-> r.shown,
     cueIn |-> CueIn(p), cueOut |-> CueOut(p, t)]
-----------------------------------------------------------------------------
(* The window, its files and the playlist *)

Starts(items) == {items[i].start : i \in DOMAIN items}

\* mutant of Overflow: one segment too many leaves
OverflowByOne(items) == IF Len(items) > maxSize THEN Len(items) - maxSize + 1 ELSE 0

\* how many segments leave a window of these items
Overflow(items) == IF Len(items) > maxSize THEN Len(items) - maxSize ELSE 0

\* Window.append: the discontinuities that leave with the first n segments
DiscsAmong(items, n) == Cardinality({i \in 1..n : items[i].disc})

Names(items, n) ==
    [files |-> {items[i].file : i \in 1..n}, maps |-> {items[i].map : i \in 1..n}]

\* cleanup, first half: the files of the segments that left are retired at stream time t
Retire(items, n, t) ==
    IF n = 0 THEN retired
    ELSE Append(retired, [files |-> Names(items, n).files, maps |-> Names(items, n).maps, at |-> t])

\* mutants of Expired: what is retired is deleted at once, or one second early
ExpiredAtOnce(queue, n, t) == n = Len(queue)
ExpiredEarly(queue, n, t) ==
    /\ \A i \in 1..n : t - queue[i].at >= Retain - 1
    /\ n < Len(queue) => t - queue[n + 1].at < Retain - 1

\* cleanup, second half: the first n retirements of the queue are old enough to be deleted, the next one is not
Expired(queue, n, t) ==
    /\ \A i \in 1..n : t - queue[i].at >= Retain
    /\ n < Len(queue) => t - queue[n + 1].at < Retain

\* deleteRetired keeps what the window or a later retirement still refers to
FilesInUse(items, queue) ==
    {items[i].file : i \in DOMAIN items} \cup UNION {queue[i].files : i \in DOMAIN queue}
MapsInUse(items, queue) ==
    {items[i].map : i \in DOMAIN items} \cup UNION {queue[i].maps : i \in DOMAIN queue}

ExpiredFiles(queue, n) == UNION {queue[i].files : i \in 1..n}
ExpiredMaps(queue, n)  == UNION {queue[i].maps : i \in 1..n}

Without(f, S) == [n \in DOMAIN f \ S |-> f[n]]
With(f, n, v) == [k \in DOMAIN f \cup {n} |-> IF k = n THEN v ELSE f[k]]

\* renderMediaPlaylist: only the first number is written, the others follow from the position
RenderMediaPlaylist(items, d) ==
    [first |-> items[1].seq, discSeq |-> d,
     items |-> [i \in DOMAIN items |->
                  [file |-> items[i].file, start |-> items[i].start, disc |-> items[i].disc,
                   map |-> items[i].map, cueIn |-> items[i].cueIn, cueOut |-> items[i].cueOut]]]

\* mutant of RestoreWindow: the discontinuities are not read back
RestoreWindowSmooth(pl) ==
    [i \in DOMAIN pl.items |->
       [seq |-> pl.first + i - 1, file |-> pl.items[i].file, start |-> pl.items[i].start,
        disc |-> FALSE, map |-> pl.items[i].map, src |-> NoSource, idx |-> 0, avail |-> 0,
        shown |-> NotShown, cueIn |-> pl.items[i].cueIn, cueOut |-> pl.items[i].cueOut]]

\* restoreWindow: where a segment came from, what it shows and its break are not in the playlist
RestoreWindow(pl) ==
    [i \in DOMAIN pl.items |->
       [seq |-> pl.first + i - 1, file |-> pl.items[i].file, start |-> pl.items[i].start,
        disc |-> pl.items[i].disc, map |-> pl.items[i].map, src |-> NoSource, idx |-> 0, avail |-> 0,
        shown |-> NotShown, cueIn |-> pl.items[i].cueIn, cueOut |-> pl.items[i].cueOut]]

-----------------------------------------------------------------------------
(* The tick *)

Init ==
    /\ pc = "down" /\ slot = 1
    /\ lastTried = 0 /\ appended = FALSE
    /\ maxSize = 0 /\ win = <<>> /\ discSeq = 0 /\ nextSeq = 0 /\ lastStart = 0
    /\ prev = NoPrev /\ retired = <<>>
    /\ segFile = <<>> /\ initFile = {} /\ playlist = NoPlaylist
    /\ crashes = 0 /\ failures = 0 /\ unwritten = 0 /\ overdue = FALSE

\* prepare: restore the window of an earlier run, remove the files it does not use
Prepare(size) ==
    /\ pc = "down"
    /\ pc' = "idle"
    /\ maxSize' = size
    /\ win' = RestoreWindow(playlist)
    /\ discSeq' = playlist.discSeq
    /\ nextSeq' = playlist.first + Len(playlist.items)
    /\ lastStart' = IF playlist.items = <<>> THEN 0 ELSE playlist.items[Len(playlist.items)].start
    /\ segFile' = Without(segFile, DOMAIN segFile \ FilesInUse(playlist.items, <<>>))
    /\ initFile' = initFile \cap MapsInUse(playlist.items, <<>>)
    /\ UNCHANGED <<clockVars, tickVars, prev, retired, playlist, envVars>>

\* the ticker fires: the clock may have stood still, jumped ahead (a stall, a downtime) or been set back
TickStart(t) ==
    /\ pc = "idle"
    /\ pc' = "release"
    /\ slot' = t
    /\ appended' = FALSE
    /\ UNCHANGED <<lastTried, stVars, diskVars, envVars>>

\* the next clip of the plan that was not tried yet; the plan begins at the slot
NextSecond == IF lastTried < slot THEN slot ELSE lastTried + 1

\* mutant of Due: the plan, not LIVE_LEAD_S, ends what a tick releases
DueWhenPlanned == pc = "release" /\ NextSecond <= slot + Retain

\* the release loop of tick: up to LIVE_LEAD_S ahead
Due == pc = "release" /\ NextSecond <= slot + LiveLead

\* writeFiles, then cleanup: the new segment is written, what left the window is retired, what is old is deleted
WriteAndCleanup(full, out, t) ==
    LET m     == full[Len(full)]
        items == SubSeq(full, out + 1, Len(full))
        queue == Retire(full, out, t)
    IN  \E n \in 0..Len(queue) :
            LET rest == SubSeq(queue, n + 1, Len(queue)) IN
            /\ Expired(queue, n, t)
            /\ retired' = rest
            /\ segFile' = Without(With(segFile, m.file, t), ExpiredFiles(queue, n) \ FilesInUse(items, rest))
            /\ initFile' = (initFile \cup {m.map}) \ (ExpiredMaps(queue, n) \ MapsInUse(items, rest))

\* add, and the segment is in the window
Add(p, r, prevType) ==
    LET t     == NextSecond
        m     == Segment(p, t, r, prevType)
        full  == Append(win, m)
        out   == Overflow(full)
        since == IF unwritten = 0 THEN t ELSE unwritten
    IN  /\ Due
        /\ t > lastStart
        /\ p \in Clips(t)
        /\ r \in Resolve(p, t)
        /\ prevType \in PrevTypes(t)
        /\ lastTried' = t
        /\ appended' = TRUE
        /\ win' = SubSeq(full, out + 1, Len(full))
        /\ discSeq' = discSeq + DiscsAmong(full, out)
        /\ WriteAndCleanup(full, out, t)
        /\ nextSeq' = m.seq + 1
        /\ lastStart' = t
        /\ prev' = [src |-> m.src, idx |-> m.idx, avail |-> m.avail]
        /\ unwritten' = since
        /\ overdue' = (overdue \/ t - since >= Retain)
        /\ UNCHANGED <<pc, clockVars, maxSize, playlist, crashes, failures>>

\* add reports false: the second is already in the restored window
Duplicate ==
    /\ Due
    /\ NextSecond <= lastStart
    /\ lastTried' = NextSecond
    /\ UNCHANGED <<pc, clockVars, appended, stVars, diskVars, envVars>>

\* add reports false: no source and no slate, or a file could not be written (the init section may have been)
Lost(p, r) ==
    /\ Due
    /\ NextSecond > lastStart
    /\ p \in Clips(NextSecond)
    /\ r \in Resolve(p, NextSecond)
    /\ lastTried' = NextSecond
    /\ initFile' \in {initFile, initFile \cup {r.src}}
    /\ UNCHANGED <<pc, clockVars, appended, stVars, segFile, playlist, envVars>>

\* every due clip was tried, or the tick budget is spent; the playlist is written only if something was added
EndRelease ==
    /\ pc = "release"
    /\ pc' = IF appended THEN "write" ELSE "announce"
    /\ UNCHANGED <<clockVars, tickVars, stVars, diskVars, envVars>>

WritePlaylist ==
    /\ pc = "write"
    /\ pc' = "announce"
    /\ playlist' = RenderMediaPlaylist(win, discSeq)
    /\ unwritten' = 0
    /\ UNCHANGED <<clockVars, tickVars, stVars, segFile, initFile, crashes, failures, overdue>>

WriteFails ==
    /\ pc = "write"
    /\ failures < MaxFailures
    /\ pc' = "announce"
    /\ failures' = failures + 1
    /\ UNCHANGED <<clockVars, tickVars, stVars, diskVars, crashes, unwritten, overdue>>

\* announce publishes events and leaves the stream alone
Announce ==
    /\ pc = "announce"
    /\ pc' = "idle"
    /\ UNCHANGED <<clockVars, tickVars, stVars, diskVars, envVars>>

\* the process dies between two steps; only the disk is left
Crash ==
    /\ pc # "down"
    /\ crashes < MaxCrashes
    /\ pc' = "down"
    /\ lastTried' = 0 /\ appended' = FALSE
    /\ maxSize' = 0 /\ win' = <<>> /\ discSeq' = 0 /\ nextSeq' = 0 /\ lastStart' = 0
    /\ prev' = NoPrev /\ retired' = <<>>
    /\ crashes' = crashes + 1
    /\ unwritten' = 0
    /\ UNCHANGED <<clockVars, playlist, failures, overdue>>

\* ... with the files as they are
CrashBetween == Crash /\ UNCHANGED <<segFile, initFile>>

\* ... while add is writing: the init section, and perhaps the segment, are there already
CrashInAdd(p, r) ==
    /\ Due
    /\ NextSecond > lastStart
    /\ p \in Clips(NextSecond)
    /\ r \in Resolve(p, NextSecond)
    /\ Crash
    /\ initFile' = initFile \cup {r.src}
    /\ segFile' \in {segFile, With(segFile, Seq0(NextSecond), NextSecond)}

\* the playlist file is gone, or cannot be read, when the process starts
LosePlaylist ==
    /\ MayLose
    /\ pc = "down"
    /\ playlist' = NoPlaylist
    /\ UNCHANGED <<pc, clockVars, tickVars, stVars, segFile, initFile, envVars>>

Tick ==
    \/ \E t \in (slot - MaxBack)..(slot + MaxStall) : t \in 1..MaxTime /\ TickStart(t)
    \/ \E p \in Clips(NextSecond) : \E r \in Resolve(p, NextSecond) :
          Lost(p, r) \/ \E prevType \in PrevTypes(NextSecond) : Add(p, r, prevType)
    \/ Duplicate
    \/ EndRelease
    \/ WritePlaylist
    \/ WriteFails
    \/ Announce

Next ==
    \/ \E size \in WindowSizes : Prepare(size)
    \/ Tick
    \/ CrashBetween
    \/ \E p \in Clips(NextSecond) : \E r \in Resolve(p, NextSecond) : CrashInAdd(p, r)
    \/ LosePlaylist

Spec == Init /\ [][Next]_vars
-----------------------------------------------------------------------------
(* Properties *)

AnySource == Sources \cup {NoSource}

ShownType ==
    [kind : {"none", "content", "ad", "slate"}, title : AnySource, entry : Nat, brk : Nat]

SegmentType ==
    [seq : Nat, file : Nat, start : Nat, disc : BOOLEAN, map : Sources, src : AnySource, idx : Nat,
     avail : Nat, cueIn : Nat, cueOut : Nat, shown : ShownType]

ItemType ==
    [file : Nat, start : Nat, disc : BOOLEAN, map : Sources, cueIn : Nat, cueOut : Nat]

\* Type invariant: every variable holds a value of the Go field or of the file it stands for.
TypeOK ==
    /\ pc \in {"down", "idle", "release", "write", "announce"}
    /\ slot \in Nat /\ lastTried \in Nat /\ appended \in BOOLEAN
    /\ maxSize \in Nat
    /\ win \in Seq(SegmentType)
    /\ discSeq \in Nat /\ nextSeq \in Nat /\ lastStart \in Nat
    /\ prev \in [src : AnySource, idx : Nat, avail : Nat]
    /\ retired \in Seq([files : SUBSET Nat, maps : SUBSET Sources, at : Nat])
    /\ DOMAIN segFile \subseteq Nat
    /\ initFile \subseteq Sources
    /\ playlist \in [first : Nat, discSeq : Nat, items : Seq(ItemType)]
    /\ crashes \in Nat /\ failures \in Nat
    /\ unwritten \in Nat /\ overdue \in BOOLEAN

\* Everything the playlist on disk lists can be fetched, at every moment and across crashes: the segment file is
\* there and holds the media of that very second, and so is its init section.  The exception is an engine that
\* could not write the playlist for Retain seconds of stream time (cleanup goes on deleting).
PlaylistServable ==
    ~overdue =>
        \A i \in DOMAIN playlist.items :
            LET it == playlist.items[i] IN
            /\ it.file \in DOMAIN segFile
            /\ segFile[it.file] = it.start
            /\ it.map \in initFile

\* Without a failed playlist write no segment waits Retain seconds for one, whatever the clock, the sources and
\* crashes do: one tick releases at most LiveLead + 1 seconds, and SEGMENT_RETAIN_S is longer than that.
OverdueNeedsFailures == overdue => failures > 0

\* Two neighbours in the window that are not separated by a discontinuity are neighbours in the same source and in
\* time (zettel/discontinuity-follows-the-source.md): a decoder may run across them.
DiscontinuityMarked ==
    \A i \in 2..Len(win) :
        (~win[i].disc /\ win[i].src # NoSource) =>
            /\ win[i].src = win[i - 1].src
            /\ win[i].idx = win[i - 1].idx + 1
            /\ win[i].start = win[i - 1].start + 1

\* The number of a segment in the window never runs ahead of its second, over restarts, lost seconds and a clock that is
\* set back, so that a stream that is numbered afresh by the clock goes on above it (engine.go:103, add).
SeqBehindClock ==
    \A i \in DOMAIN win : win[i].seq <= win[i].start

\* A break whose start is in the window is marked as over on the first segment after it, whatever that is: slate,
\* another break, a film that starts late (breakTags; zettel/scte35-markers-follow-the-schedule.md).  It holds up to
\* the first restart: restoreWindow does not bring back prevAvail.
EndMarkerNotLost ==
    \A i, j \in DOMAIN win :
        (crashes = 0 /\ i < j /\ win[i].cueOut # 0 /\ win[j].src # NoSource /\ win[j].avail # win[i].cueOut) =>
            \E k \in (i + 1)..j : win[k].cueIn = win[i].cueOut

\* The playlist on disk is a window sliding over one stream; what was published never changes (see LiveStream).
Live == INSTANCE LiveStream WITH stream <- playlist
LiveStreamSpec == Live!Spec
=============================================================================
