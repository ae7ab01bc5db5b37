------------------------------ MODULE MCCodecs ------------------------------
EXTENDS Codecs

MCCells == UNION {[1 .. n -> 0 .. 5] : n \in 3 .. 5}

\* an init section of a film (track 1, 4 ticks a second) and its sound (track 2, 8), and what can be wrong with it
Trak(id, scale) == [id |-> id, timescale |-> scale, tkhd |-> TRUE, mdhd |-> TRUE]
Moov(traks, trexes) == [traks |-> traks, trexes |-> trexes]
Whole == Moov(<<Trak(1, 4), Trak(2, 8)>>, <<[id |-> 2, duration |-> 1]>>)
Moovs == {Whole, Moov(<<>>, <<>>), Moov(<<Trak(1, 4), Trak(2, 0)>>, <<>>), Moov(<<Trak(1, 4), Trak(2, 8)>>, <<>>),
          Moov(<<Trak(1, 4), Trak(1, 8)>>, <<>>), Moov(<<Trak(1, 4), [Trak(2, 8) EXCEPT !.mdhd = FALSE]>>, <<>>),
          Moov(<<Trak(1, 4), Trak(2, 8)>>, <<[id |-> 2, duration |-> 1], [id |-> 2, duration |-> 0]>>)}

\* a fragment: the picture's samples have their durations, those of the sound count by default
Traf(track, time) == [track |-> track, time |-> time, version |-> 1, tfhd |-> TRUE, tfdt |-> TRUE, default |-> Failed,
                      truns |-> <<[durations |-> track = 1, whole |-> TRUE]>>]
Times == (0 .. 12) \cup (29 .. 34) \cup {62, 63}
MCSegments ==
    {[moov |-> Whole, moofs |-> <<<<Traf(1, v), Traf(2, a)>>>>] : v \in Times, a \in Times}
    \cup {[moov |-> moov, moofs |-> moofs] : moov \in Moovs,
          moofs \in {<<>>, <<<<>>>>, <<<<Traf(1, 4)>>, <<Traf(2, 8)>>>>, <<<<Traf(3, 4)>>>>, <<<<Traf(2, 7)>>>>,
                     <<<<[Traf(1, 4) EXCEPT !.truns[1].whole = FALSE]>>>>,
                     <<<<[Traf(2, 7) EXCEPT !.default = 0]>>>>, <<<<[Traf(2, 7) EXCEPT !.default = 1]>>>>,
                     <<<<Traf(1, 4), [Traf(2, 8) EXCEPT !.version = 0]>>>>,
                     <<<<[Traf(1, 4) EXCEPT !.tfdt = FALSE]>>>>}}

\* a clock before 2020 gives a second before the timeline
MCAnchors == -1 .. 2

MCMessages ==
    [event : {0, 9}, cancel : BOOLEAN, out : BOOLEAN, immediate : BOOLEAN, pts : {NoTime, 0, 21, 31, 32},
     duration : {0, 1, 3, 10, 21, 31, 32}, autoReturn : BOOLEAN, program : {2}, avail : {1}, expected : {0}]

Line(tag, value) == [tag |-> tag, value |-> value]
Lines == {Line("inf", 2), Line("inf", -2), Line("disc", 0), Line("pdt", 0), Line("map", 1), Line("map", 2),
          Line("uri", 1), Line("bad", 0), Line("end", 0)}
Film == <<Line("head", 0), Line("map", 1), Line("disc", 0), Line("inf", 2), Line("uri", 1)>>
MCPlaylists ==
    {<<Line("head", 0)>> \o rest : rest \in UNION {[1 .. n -> Lines] : n \in 0 .. 3}}
    \cup {Film \o rest : rest \in [1 .. 4 -> Lines]}
    \cup {<<>>, Tail(Film)}

\* lengths of creatives, and which of them are house creatives
Registry(lengths, house) ==
    [i \in DOMAIN lengths |-> [id |-> i, duration |-> lengths[i], type |-> IF i \in house THEN "house" ELSE "partner",
                               active |-> TRUE, category |-> {"any"}]]
MCRegistries ==
    {Registry(d, h) : d \in UNION {[1 .. n -> {2, 3, 4, 6}] : n \in 1 .. 4}, h \in SUBSET (1 .. 2)}
    \cup {Registry(d, {5}) : d \in [1 .. 5 -> {2, 4, 6, 8}]}
=============================================================================
