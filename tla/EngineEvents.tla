---------------------------- MODULE EngineEvents ----------------------------
(***************************************************************************)
(* The engine together with the events it publishes about what is on the    *)
(* air (services/engine/events.go).  announce runs at the end of every tick *)
(* and walks over the window; a subscriber only sees the events, so what it *)
(* believes to be on the air is kept here next to what the engine knows.    *)
(***************************************************************************)
EXTENDS Engine

VARIABLES
    announcedTo,    \* the start of the last segment that was announced, or skipped
    onAir,          \* what the last announced segment was
    heard           \* what a subscriber knows from the events, see Heard

eventVars == <<announcedTo, onAir, heard>>
allVars == <<vars, eventVars>>

\* breaks and slate that were started and not ended since engine.started
Heard(breaks, slate) == [breaks |-> breaks, slate |-> slate]
NothingHeard == Heard({}, FALSE)

SameProgram(a, b) == a.kind = b.kind /\ a.title = b.title /\ a.entry = b.entry

\* transition publishes nothing: the same break, or the same program, goes on
GoesOn(was, is) ==
    IF is.kind = "ad" THEN was.kind = "ad" /\ was.brk = is.brk ELSE SameProgram(is, was)

\* break.ended, slate.ended, break.started and slate.started as a subscriber applies them
BreakEnds(was, is) == was.kind = "ad" /\ (is.kind # "ad" \/ was.brk # is.brk)

\* mutant of SlateEnds: a break after the slate does not end it
SlateEndsAtContent(was, is) == was.kind = "slate" /\ is.kind = "content"
SlateEnds(was, is) == was.kind = "slate" /\ is.kind # "slate"
SlateStarts(was, is) == is.kind = "slate" /\ was.kind # "slate"

Apply(h, was, is) ==
    Heard((h.breaks \ (IF BreakEnds(was, is) THEN {was.brk} ELSE {}))
              \cup (IF is.kind = "ad" THEN {is.brk} ELSE {}),
          (h.slate /\ ~SlateEnds(was, is)) \/ SlateStarts(was, is))

AnnounceItem(a, it) ==
    IF it.start <= a.to THEN a
    ELSE IF it.shown.kind = "none" \/ GoesOn(a.air, it.shown)
         THEN [to |-> it.start, air |-> a.air, heard |-> a.heard]
         ELSE [to |-> it.start, air |-> it.shown, heard |-> Apply(a.heard, a.air, it.shown)]

\* the first n items are on the air; announce stops at the next one
OnTheAir(items, n) ==
    /\ \A i \in 1..n : items[i].start <= slot
    /\ n < Len(items) => items[n + 1].start > slot

\* what announce has come to after the first n items
Announced(items, n) ==
    LET after[i \in 0..n] ==
            IF i = 0 THEN [to |-> announcedTo, air |-> onAir, heard |-> heard]
            ELSE AnnounceItem(after[i - 1], items[i])
    IN  after[n]

EventsInit ==
    /\ Init
    /\ announcedTo = 0 /\ onAir = NotShown /\ heard = NothingHeard

AnnounceEvents ==
    /\ Announce
    /\ \E n \in 0..Len(win) :
          LET a == Announced(win, n) IN
          OnTheAir(win, n) /\ announcedTo' = a.to /\ onAir' = a.air /\ heard' = a.heard

\* prepare: the restored segments are not announced again; engine.started tells the subscriber to start over
PrepareEvents(size) ==
    /\ Prepare(size)
    /\ announcedTo' = IF playlist.items = <<>> THEN 0 ELSE playlist.items[Len(playlist.items)].start
    /\ onAir' = NotShown
    /\ heard' = NothingHeard

\* CrashInAdd and LosePlaylist are left out: they differ from a crash between two steps, and from a first start,
\* only in what is on the disk
EventsNext ==
    \/ AnnounceEvents
    \/ \E size \in WindowSizes : PrepareEvents(size)
    \/ /\ \/ \E t \in (slot - MaxBack)..(slot + MaxStall) : t \in 1..MaxTime /\ TickStart(t)
          \/ \E p \in Clips(NextSecond) : \E r \in Resolve(p, NextSecond) :
                Lost(p, r) \/ \E prevType \in PrevTypes(NextSecond) : Add(p, r, prevType)
          \/ Duplicate
          \/ EndRelease
          \/ WritePlaylist
          \/ WriteFails
          \/ CrashBetween
       /\ UNCHANGED eventVars

EventsSpec == EventsInit /\ [][EventsNext]_allVars

-----------------------------------------------------------------------------
(* Properties *)

\* A subscriber that knows only the events knows what is on the air.  What it pieced together from started and ended
\* events is what the engine last announced: at most one break is open, and the slate is open exactly when it is shown.
\* And when a tick is over, what was announced last is what the stream shows at that second: the last segment of the
\* window that has started and was released by this process (as long as the clock is not behind an earlier tick).
SubscriberAgrees ==
    /\ pc # "down" =>
          /\ heard.breaks = (IF onAir.kind = "ad" THEN {onAir.brk} ELSE {})
          /\ heard.slate = (onAir.kind = "slate")
    /\ pc = "idle" /\ announcedTo <= slot =>
          \A i \in DOMAIN win :
              /\ win[i].start <= slot /\ win[i].shown.kind # "none"
              /\ i = Len(win) \/ win[i + 1].start > slot
              => GoesOn(onAir, win[i].shown)

\* A segment does not leave the window before it was announced (events.go:38, "announce publishes what has gone on
\* the air since the last call"): no event is skipped because the window slid past it.
NoneLeavesUnannounced ==
    [][pc' # "down" =>
         \A i \in DOMAIN win :
            (win[i].shown.kind # "none" /\ win[i].start \notin Starts(win')) => win[i].start <= announcedTo]_allVars
=============================================================================
