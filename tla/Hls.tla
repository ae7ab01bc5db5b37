-------------------------------- MODULE Hls ---------------------------------
(***************************************************************************)
(* pkg/hls/hls.go: Parse, which reads the media playlist of a source.       *)
(*                                                                          *)
(* A line is a tag and its value: "inf" a duration, "map" an init section,  *)
(* "uri" a segment, "head" the first line of every playlist, "bad" a line   *)
(* the parser gives up on (a number or a date that cannot be read, a master *)
(* playlist, a key, a map without URI), "other" a line it passes over.      *)
(* Empty lines, the resolving of URIs and the tags that only fill a field   *)
(* nothing depends on are left out.                                         *)
(***************************************************************************)
EXTENDS Integers, Sequences

Tags == {"head", "bad", "inf", "disc", "pdt", "map", "end", "uri", "other"}

NoDuration == -1
NoMap      == 0

\* what the loop of Parse keeps from line to line
Begin == [ok |-> TRUE, first |-> TRUE, dur |-> NoDuration, disc |-> FALSE, pdt |-> FALSE, map |-> NoMap,
          segments |-> <<>>, ended |-> FALSE]

Unreadable(st) == [st EXCEPT !.ok = FALSE]

\* mutant of AfterUri: the marks of a segment stay for the next one
AfterUriKeepsMarks(st) == [st EXCEPT !.dur = NoDuration]

\* what is read of a segment counts for that segment alone, but the init section stays
AfterUri(st) == [st EXCEPT !.dur = NoDuration, !.disc = FALSE, !.pdt = FALSE]

SegmentAt(st, uri) == [uri |-> uri, duration |-> st.dur, disc |-> st.disc, pdt |-> st.pdt, map |-> st.map]

\* one line
ParseLine(st, line) ==
    IF ~st.ok THEN st
    ELSE IF st.first THEN IF line.tag = "head" THEN [st EXCEPT !.first = FALSE] ELSE Unreadable(st)
    ELSE CASE line.tag = "bad"  -> Unreadable(st)
           [] line.tag = "inf"  -> [st EXCEPT !.dur = line.value]
           [] line.tag = "disc" -> [st EXCEPT !.disc = TRUE]
           [] line.tag = "pdt"  -> [st EXCEPT !.pdt = TRUE]
           [] line.tag = "map"  -> [st EXCEPT !.map = line.value]
           [] line.tag = "end"  -> [st EXCEPT !.ended = TRUE]
           [] line.tag = "uri"  -> IF st.dur < 0 THEN Unreadable(st)
                                   ELSE AfterUri([st EXCEPT !.segments = Append(@, SegmentAt(st, line.value))])
           [] line.tag \in {"head", "other"} -> st

\* the loop over the lines
Parsed(lines) ==
    LET after[i \in 0 .. Len(lines)] == IF i = 0 THEN Begin ELSE ParseLine(after[i - 1], lines[i])
    IN  after[Len(lines)]

\* the playlist: its segments and its init section, the last one there is
Parse(lines) ==
    LET st == Parsed(lines) IN
    [ok |-> st.ok /\ ~st.first /\ st.segments # <<>>, map |-> st.map, segments |-> st.segments, ended |-> st.ended]
=============================================================================
