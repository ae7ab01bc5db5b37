------------------------------- MODULE Codecs -------------------------------
(***************************************************************************)
(* The parts of the system that compute an answer and keep nothing: the     *)
(* boxes and decode times of fMP4 (Fmp4), SCTE-35 messages (Scte35), the    *)
(* playlists of sources (Hls) and the choice of creatives (FillBreak).      *)
(*                                                                          *)
(* A call is one state: what it was asked and what it answered.  The        *)
(* properties compare the answer with a definition of the right one that    *)
(* does not follow the steps of the code.                                   *)
(***************************************************************************)
EXTENDS Fmp4, Scte35, Hls, FillBreak

CONSTANTS
    Cells,          \* sequences of cells for children
    Segments,       \* [moov, moofs]: an init section and a segment that goes with it, or not
    Anchors,        \* seconds of the stream
    Nominals,       \* seconds of the file
    Span,           \* how many values a decode time has
    Messages,       \* splice_inserts
    Playlists,      \* sequences of lines
    Registries,     \* sequences of creatives
    BreakLengths,   \* seconds
    SegmentSec      \* SEGMENT_SEC

ASSUME CodecsAssumption ==
    /\ {Span, SegmentSec} \subseteq Nat \ {0}
    /\ \A reg \in Registries : IsRegistry(reg)

\* what is read from a segment and from its init section has the size of its field
ASSUME MediaAssumption ==
    /\ Cells \subseteq Seq(Nat)
    /\ Anchors \cup Nominals \subseteq Int
    /\ \A s \in Segments :
          /\ s.moov.traks \in Seq([id : Nat, timescale : Nat, tkhd : BOOLEAN, mdhd : BOOLEAN])
          /\ \A i \in DOMAIN Trafs(s.moofs) : Trafs(s.moofs)[i].time \in 0 .. Span - 1

\* and so has what is written into a message
ASSUME MessagesAssumption ==
    /\ Messages \subseteq Inserts
    /\ BreakLengths \subseteq Nat

\* a line of a playlist is a tag and a number
ASSUME PlaylistsAssumption == Playlists \subseteq Seq([tag : Tags, value : Int])

VARIABLE call       \* [op, ask, answer]

Idle == [op |-> "none", ask |-> 0, answer |-> 0]

-----------------------------------------------------------------------------

CallChildren ==
    \E b \in Cells : \E end \in 1 .. Len(b) + 1 :
        call' = [op |-> "children", ask |-> [b |-> b, end |-> end], answer |-> Children(b, 1, end)]

\* prepare: the init section is read first, and the segment then put where it belongs
CallRetime ==
    \E s \in Segments, anchor \in Anchors, nominal \in Nominals :
        call' = [op |-> "retime", ask |-> [s |-> s, anchor |-> anchor, nominal |-> nominal],
                 answer |-> IF InitOK(s.moov) THEN Retime(s.moofs, Tracks(s.moov), anchor, nominal, Span)
                            ELSE [ok |-> FALSE, times |-> <<>>]]

\* a message as any encoder may write it: a splice time may be left open, which takes one byte
Written(s) ==
    IF s.immediate \/ s.pts # NoTime THEN CommandOf(s) ELSE CommandWith(s, <<[flag |-> FALSE, high |-> 0]>>)

\* its section, when the command is cut after n bytes
WrittenSection(s, n) == Section("splice_insert", SubSeq(Written(s), 1, n))

Fits33(s) == s.duration < Limit33 /\ s.pts < Limit33

CallDecode ==
    \E s \in Messages : \E n \in 0 .. Len(Written(s)) :
        /\ Fits33(s)
        /\ call' = [op |-> "decode", ask |-> [s |-> s, n |-> n], answer |-> Decode(WrittenSection(s, n))]

CallEncode ==
    \E s \in Messages :
        call' = [op |-> "encode", ask |-> s, answer |-> IF Encodable(s) THEN Decode(Encode(s)) ELSE Refused]

\* The messages an entry of the schedule may have.  A command (commandIn) and a replacement (entryIn) take any text:
\* the message of any encoder, one cut short, that of another command, or none.
Carried ==
    {[own |-> {}, given |-> Empty], [own |-> {Nothing}, given |-> Null]}
    \cup {[own |-> {s}, given |-> WrittenSection(s, Len(Written(s)))] : s \in {t \in Messages : Fits33(t)}}
    \cup {[own |-> {}, given |-> WrittenSection(s, Len(Written(s)) - 1)] : s \in {t \in Messages : Fits33(t)}}

\* the length its message has asked for if it came through POST /scte35; 0 if it did not and the entry says its length
Asked(c) == {0} \cup {BreakSeconds(s.duration) : s \in {t \in c.own : StartsBreak(c.given)}}

\* How long the break is when it airs: until then, InsertShift may have cut it in two and Skip may have made it shorter.
\* The parts keep the message.
Left(asked) == IF asked = 0 THEN BreakLengths ELSE 1 .. asked

\* the markers of a break, whose number is that of its first second (eventID)
CallMarkers ==
    \E c \in Carried, start \in {t.event : t \in Messages} :
        \E asked \in Asked(c) : \E seconds \in Left(asked) :
            call' = [op |-> "markers", ask |-> [own |-> c.own, asked |-> asked, seconds |-> seconds, event |-> start],
                     answer |-> [start |-> Decode(StartPayload(c.given, start, seconds)),
                                 end |-> Decode(EndPayload(start))]]

CallParse ==
    \E lines \in Playlists : call' = [op |-> "parse", ask |-> lines, answer |-> Parse(lines)]

CallFill ==
    \E reg \in Registries, duration \in BreakLengths : \E last \in {NoCreative} \cup {reg[i].id : i \in DOMAIN reg} :
        LET items == Fill(reg, duration, "any", last, SegmentSec)
        IN  call' = [op |-> "fill", ask |-> [reg |-> reg, duration |-> duration, last |-> last],
                     answer |-> [items |-> items, quanta |-> Quanta(duration, items, SegmentSec)]]

Call == \/ CallChildren \/ CallRetime \/ CallDecode \/ CallEncode \/ CallMarkers \/ CallParse \/ CallFill

CodecsInit == call = Idle
CodecsNext == \/ call.op = "none" /\ Call
              \/ call.op # "none" /\ call' = Idle
CodecsSpec == CodecsInit /\ [][CodecsNext]_call

-----------------------------------------------------------------------------
(* Properties *)

\* boxes of b that begin at the cuts but the last, which is the end, lie one after the other from a start on
Tiles(b, start, end, cuts) ==
    /\ {start, end} \subseteq cuts
    /\ \A p \in cuts \ {end} :
          /\ end - p >= 2
          /\ LET h == HeaderOf(b, p, end)
             IN  h.size >= h.hdr /\ p + h.size = Min({q \in cuts : q > p})

\* The boxes children finds lie one after the other, each as long as its header says, from the first cell to the
\* end it was given; it finds them if and only if there are such boxes.  What parseTrak and parseTraf look for in a
\* box is so taken from within it; the fields of a box are read as far as the file goes (u8, u32).
ChildrenTile ==
    call.op = "children" =>
        LET b == call.ask.b
            end == call.ask.end
        IN  /\ call.answer.ok <=> \E cuts \in SUBSET (1 .. end) : Tiles(b, 1, end, cuts)
            /\ call.answer.ok => Tiles(b, 1, end, {box.start : box \in Range(call.answer.boxes)} \cup {end})

\* Retime is exact for numbers below Span: every fragment keeps its distance from the whole second, which is at
\* most a quarter of a second, and its new time is not negative; and a segment is only refused when that cannot be,
\* or when it or its init section is not complete.  (A decode time in the upper half is a negative one.)
RetimeIsExact ==
    call.op = "retime" =>
        LET s == call.ask.s
            trafs == Trafs(s.moofs)
            Scale(i) == Tracks(s.moov)[trafs[i].track].timescale
            Off(i) == Signed(trafs[i].time, Span) - call.ask.nominal * Scale(i)
            Movable(i) == /\ trafs[i].version = 1
                          /\ 4 * Off(i) \in -Scale(i) .. Scale(i)
                          /\ call.ask.anchor * Scale(i) + Off(i) >= 0
        IN  /\ call.answer.ok <=> InitOK(s.moov) /\ WalkOK(s.moofs, Tracks(s.moov)) /\ \A i \in DOMAIN trafs : Movable(i)
            /\ call.answer.ok => call.answer.times = [i \in DOMAIN trafs |-> call.ask.anchor * Scale(i) + Off(i)]

\* what a message says when everything that it does not write is dropped
Meaning(s) ==
    IF s.cancel THEN [Nothing EXCEPT !.event = s.event, !.cancel = TRUE]
    ELSE [s EXCEPT !.pts = IF s.immediate THEN NoTime ELSE @, !.autoReturn = @ /\ s.duration > 0]

\* Decode gives back what was encoded, also by another encoder that leaves the splice time open, and refuses every
\* message whose command is cut short; Encode refuses what does not fit into 33 bits or has no time.
DecodeInverts ==
    /\ call.op = "decode" =>
          LET s == call.ask.s IN
          IF call.ask.n = Len(Written(s)) THEN call.answer.ok /\ call.answer.insert = Meaning(s) ELSE ~call.answer.ok
    /\ call.op = "encode" =>
          LET s == call.ask IN
          IF Fits33(s) /\ (s.cancel \/ s.immediate \/ s.pts # NoTime)
          THEN call.answer.ok /\ call.answer.insert = Meaning(s) ELSE ~call.answer.ok

\* The marker of a start is an out with the length of the break and the number of its end, if the break has no message
\* that can be read; only one of more than 33 bits of ticks has none.  A message of its own is passed on with what it
\* says, whatever that is.  One that came through POST /scte35 is always an out: it covers the break to its last second,
\* and by less than a second more if no command has cut the break.  The marker of an end is an in of the engine's number.
MarkersTellTheBreak ==
    call.op = "markers" =>
        LET start == call.answer.start
            end   == call.answer.end
            asked == call.ask.asked
            ticks == call.ask.seconds * TickRate
        IN  /\ call.ask.own = {} =>
                  /\ start.ok <=> ticks < Limit33
                  /\ start.ok => /\ start.insert.out /\ start.insert.duration = ticks
                                 /\ start.insert.event = end.insert.event
            /\ \A s \in call.ask.own : start.ok /\ start.insert = Meaning(s)
            /\ asked > 0 =>
                  /\ start.ok /\ start.insert.out /\ start.insert.duration > ticks - TickRate
                  /\ asked = call.ask.seconds => start.insert.duration <= ticks
            /\ end.ok /\ ~end.insert.out /\ end.insert.event = call.ask.event

\* the lines with a tag up to line i; those of them that no segment has used up; what the last one of some lines says
Above(lines, i, tag) == {j \in DOMAIN lines : j <= i /\ lines[j].tag = tag}
Pending(lines, i, tag) == {j \in Above(lines, i, tag) : \A k \in Above(lines, i, "uri") : k < j}
Said(lines, set, otherwise) == IF set = {} THEN otherwise ELSE lines[Max(set)].value

\* the segment of line i, which has what stands between it and the one before it
Expected(lines, i) ==
    [uri      |-> lines[i].value,
     duration |-> Said(lines, Pending(lines, i - 1, "inf"), NoDuration),
     disc     |-> Pending(lines, i - 1, "disc") # {},
     pdt      |-> Pending(lines, i - 1, "pdt") # {},
     map      |-> Said(lines, Above(lines, i - 1, "map"), NoMap)]

\* Parse gives every segment the duration and the marks that stand between it and the segment before it, and the
\* last init section above it; it refuses a playlist if and only if some line is bad, a segment has no duration of
\* its own, or there are none.
ParseIsRight ==
    call.op = "parse" =>
        LET lines == call.ask
            segments == call.answer.segments
            With(tag) == Above(lines, Len(lines), tag)
            Right == /\ lines # <<>> /\ lines[1].tag = "head" /\ With("bad") = {} /\ With("uri") # {}
                     /\ \A i \in With("uri") : Expected(lines, i).duration >= 0
        IN  /\ call.answer.ok <=> Right
            /\ Right => /\ Len(segments) = Cardinality(With("uri"))
                        /\ \A i \in With("uri") :
                              segments[Cardinality(Above(lines, i, "uri"))] = Expected(lines, i)

-----------------------------------------------------------------------------

\* the creatives of a registry that can be played when one of them is left out
Playable(reg, type, without) ==
    {c \in Range(reg) : c.type = type /\ c.active /\ c.id # without /\ c.duration > 0 /\ c.duration % SegmentSec = 0}

\* the creative that is left out: the one that ended the break before, unless nothing else can be played
LeftOut(reg, duration, last) ==
    IF Playable(reg, "house", last) # {} \/ \E c \in Playable(reg, "partner", last) : c.duration <= duration
    THEN last ELSE NoCreative

\* how long a set of creatives is
Together(set) == SumOver([c \in set |-> c.duration], set)

\* what FillIsBest says of an answer
WellFilled(reg, duration, last, items, quanta) ==
    LET out == LeftOut(reg, duration, last)
        pool == Playable(reg, "partner", out)
        places == {i \in DOMAIN items : items[i].type = "partner"}
        chosen == {items[i] : i \in places}
        Shown(id) == {i \in DOMAIN quanta : quanta[i].id = id}
    IN  /\ chosen \subseteq pool /\ Together(chosen) <= duration /\ Cardinality(chosen) = Cardinality(places)
        /\ \A set \in SUBSET pool :
              \/ Together(set) > duration \/ Together(set) < Together(chosen)
              \/ Together(set) = Together(chosen) /\ Cardinality(set) >= Cardinality(chosen)
        /\ Len(quanta) = duration \div SegmentSec
        /\ \A c \in chosen : {quanta[i].offset : i \in Shown(c.id)} = {o \in 0 .. c.duration - 1 : o % SegmentSec = 0}
        /\ Shown(NoCreative) # {} => Playable(reg, "house", out) = {}

\* The creatives of partners in a break are each there once; no choice of them fills more of it, and none that
\* fills as much has fewer; bestSubset finds them on its way back through the passes.  On the air the break has its
\* length, every creative of a partner is shown to its end, and there is slate only if no house creative can be played.
FillIsBest ==
    call.op = "fill" =>
        WellFilled(call.ask.reg, call.ask.duration, call.ask.last, call.answer.items, call.answer.quanta)
=============================================================================
