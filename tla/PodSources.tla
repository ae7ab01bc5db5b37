---------------------------- MODULE PodSources -----------------------------
(***************************************************************************)
(* The three sources of ad pods an engine may be set up with (newPods of    *)
(* services/engine/engine.go), behind the same planner: the broker of       *)
(* AdBroker, the registry file of services/engine/filler.go, or none.       *)
(*                                                                          *)
(* The registry file belongs to the operator, who replaces it, breaks it,   *)
(* moves it away and moves it back while the engine looks at it (os.Stat)   *)
(* and reads it (os.ReadFile), which are two steps.  Segments are one       *)
(* second long.                                                             *)
(***************************************************************************)
EXTENDS AdBroker, FillBreak, SequencesExt

CONSTANTS
    FirstRegistries,    \* what the file may hold when the engine starts
    NewRegistries,      \* what may be written to it later
    MaxWrites           \* bound: how often it is written

ASSUME FillerAssumption ==
    /\ \A r \in FirstRegistries \cup NewRegistries : IsRegistry(r)
    /\ MaxWrites \in Nat

VARIABLES
    source,     \* "broker", "filler" or "none"
    file,       \* the registry file: [state, content, mtime]
    seen,       \* what os.Stat said of it
    reg, mtime, last,   \* staticFiller: the registry, its time (0: none) and the creative that ended the last break
    made        \* every pod the filler has made, in order, with what it was made from

fillerVars == <<file, seen, reg, mtime, last, made>>
allVars == <<vars, source, fillerVars>>

SourcesInit ==
    /\ Init
    /\ source \in {"broker", "filler", "none"}
    /\ file \in [state : {"good"}, content : IF source = "filler" THEN FirstRegistries ELSE {<<>>}, mtime : {1}]
    /\ seen = file /\ reg = <<>> /\ mtime = 0 /\ last = NoCreative /\ made = <<>>

-----------------------------------------------------------------------------

\* staticFiller.pod: the pod is there, or the file is looked at
Look ==
    /\ source = "filler" /\ Planning /\ Covering(ts) # {}
    /\ IF BreakAt(ts).start \in DOMAIN pods THEN pc' = "wait" /\ UNCHANGED seen
       ELSE pc' = "fill" /\ seen' = file
    /\ UNCHANGED <<now, slot, ts, pods, flights, asks, released, shown, source, file, reg, mtime, last, made>>

\* mutant of Reloaded: the time of a file that is gone is remembered
ReloadedKeepsTime ==
    IF seen.state = "gone" THEN [reg |-> <<>>, mtime |-> mtime]
    ELSE IF seen.mtime # mtime /\ file.state = "good" THEN [reg |-> file.content, mtime |-> seen.mtime]
    ELSE [reg |-> reg, mtime |-> mtime]

\* reload: a file that is gone empties the registry, one that did not change or cannot be read leaves it as it is
Reloaded ==
    IF seen.state = "gone" THEN [reg |-> <<>>, mtime |-> 0]
    ELSE IF seen.mtime # mtime /\ file.state = "good" THEN [reg |-> file.content, mtime |-> seen.mtime]
    ELSE [reg |-> reg, mtime |-> mtime]

\* mutant of LastOf: an empty pod makes the filler forget the creative before it
LastOfAny(items) == IF items = <<>> THEN NoCreative ELSE Last(items).id

LastOf(items) == IF items = <<>> THEN last ELSE Last(items).id

\* staticFiller.pod, from the reading of the file on
FillPod ==
    LET b == BreakAt(ts)
        items == Fill(reg', b.dur, b.category, last, 1)
    IN  /\ pc = "fill"
        /\ reg' = Reloaded.reg /\ mtime' = Reloaded.mtime
        /\ last' = LastOf(items)
        /\ pods' = With(pods, b.start, [state |-> "ready", items |-> items, failedAt |-> 0, id |-> 0])
        /\ made' = Append(made, [break |-> b, reg |-> reg', items |-> items])
        /\ pc' = "wait"
        /\ UNCHANGED <<now, slot, ts, flights, asks, released, shown, source, file, seen>>

\* noAds: the pod is empty and nothing is kept
NoAds ==
    /\ source = "none" /\ Planning /\ Covering(ts) # {}
    /\ Released(NoPod)
    /\ UNCHANGED <<now, slot, pods, flights, asks, source, fillerVars>>

\* the operator writes the file (a write that is not complete, or not JSON, makes it broken), ...
WriteFile(state, content) ==
    /\ source = "filler" /\ file.mtime <= MaxWrites
    /\ file' = [state |-> state, content |-> content, mtime |-> file.mtime + 1]
    /\ UNCHANGED <<vars, source, seen, reg, mtime, last, made>>

\* ... or moves it away, or back as it was
MoveFile ==
    /\ source = "filler" /\ file.state # "broken"
    /\ file' = [file EXCEPT !.state = IF @ = "gone" THEN "good" ELSE "gone"]
    /\ UNCHANGED <<vars, source, seen, reg, mtime, last, made>>

FillerNext ==
    \/ Look \/ FillPod \/ MoveFile
    \/ \E r \in NewRegistries : WriteFile("good", r)
    \/ WriteFile("broken", <<>>)

SourcesNext ==
    \/ PlannerNext /\ UNCHANGED <<source, fillerVars>>
    \/ source = "broker" /\ BrokerNext /\ UNCHANGED <<source, fillerVars>>
    \/ FillerNext
    \/ NoAds

SourcesSpec == SourcesInit /\ [][SourcesNext]_allVars

-----------------------------------------------------------------------------
(* Properties *)

\* "The file is read again when it changes" (staticFiller): a pod that is made while nobody touches the file is made
\* from what the file holds, whatever was written, broken, moved away and put back before.
FileCounts == [][FillPod /\ file = seen /\ file.state = "good" => reg' = file.content]_allVars

\* "last is the creative that ended the previous break; it is not used again at once, unless nothing else can be
\* played" (fillBreak): it neither starts nor is part of the next pod of the channel that is not empty if another
\* creative of the registry, of the category of the break, fits into the break or is a house creative.
NotTwiceInARow ==
    \A i, j \in DOMAIN made :
        LET end == Last(made[i].items).id
            Playable(c) == Usable(c, made[j].break.category, end, 1) /\ (c.type = "house" \/ c.duration <= made[j].break.dur)
        IN  /\ i < j /\ made[i].items # <<>> /\ \A k \in i + 1 .. j - 1 : made[k].items = <<>>
            /\ \E c \in Range(made[j].reg) : Playable(c)
            => \A c \in Range(made[j].items) : c.id # end
=============================================================================
