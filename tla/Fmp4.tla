-------------------------------- MODULE Fmp4 --------------------------------
(***************************************************************************)
(* pkg/fmp4/fmp4.go: the boxes of fragmented MP4, and Retime, which moves a *)
(* segment of a source to its second of the stream.                         *)
(*                                                                          *)
(* The layout of boxes is modelled in cells: a header is two of them, the   *)
(* size and the type, or three when a size of 1 says that the size comes    *)
(* third.  Above that, a box is a record of what the code reads from it,    *)
(* and of whether the boxes it has to have are there.                       *)
(*                                                                          *)
(* Decode times are numbers below a span, which is 2^64 in the code.        *)
(***************************************************************************)
EXTENDS Integers, Sequences, SequencesExt

Failed == -1        \* in place of a number

-----------------------------------------------------------------------------
(* Boxes *)

HeaderOf(b, p, end) ==
    IF b[p] = 1 THEN [hdr |-> 3, size |-> IF end - p < 3 THEN 0 ELSE b[p + 2]]
    ELSE [hdr |-> 2, size |-> IF b[p] = 0 THEN end - p ELSE b[p]]

\* mutant of Fits: a large box needs no more than the header of a small one
FitsSmall(h, p, end) == h.size >= 2 /\ p + h.size <= end

Fits(h, p, end) == h.size >= h.hdr /\ p + h.size <= end

\* children: the boxes of b from start to before end (start <= end), and whether they fit; the first cell of b has index 1
Children(b, start, end) ==
    LET From[p \in start .. end] ==
            IF p >= end THEN [ok |-> TRUE, boxes |-> <<>>]
            ELSE IF end - p < 2 \/ ~Fits(HeaderOf(b, p, end), p, end) THEN [ok |-> FALSE, boxes |-> <<>>]
            ELSE LET h == HeaderOf(b, p, end)
                     rest == From[p + h.size]
                 IN  [ok |-> rest.ok, boxes |-> <<[start |-> p, hdr |-> h.hdr, size |-> h.size]>> \o rest.boxes]
    IN  From[start]

-----------------------------------------------------------------------------
(* Tracks *)

\* parseTrak
TrakOK(trak) == trak.tkhd /\ trak.mdhd /\ trak.timescale # 0

\* ParseInit: whether an init section can be used, ...
InitOK(moov) == moov.traks # <<>> /\ \A i \in DOMAIN moov.traks : TrakOK(moov.traks[i])

\* ... and its tracks: the last one of an id, with the last default duration there is for it
Tracks(moov) ==
    [id \in {moov.traks[i].id : i \in DOMAIN moov.traks} |->
        LET last == CHOOSE k \in DOMAIN moov.traks :
                        moov.traks[k].id = id /\ \A l \in DOMAIN moov.traks : moov.traks[l].id = id => l <= k
        IN  [timescale |-> moov.traks[last].timescale,
             default |-> FoldLeft(LAMBDA d, trex : IF trex.id = id THEN trex.duration ELSE d, 0, moov.trexes)]]

-----------------------------------------------------------------------------
(* Segments *)

\* trunDuration: the samples carry their durations, and as many as are counted are there, or the default counts for each
TrunOK(trun, default) == IF trun.durations THEN trun.whole ELSE default # 0

\* parseTraf: whether a fragment can be used with these tracks (default: of its tfhd, Failed when it has none)
TrafOK(traf, tracks) ==
    /\ traf.tfhd /\ traf.tfdt
    /\ traf.track \in DOMAIN tracks
    /\ \A i \in DOMAIN traf.truns :
          TrunOK(traf.truns[i], IF traf.default # Failed THEN traf.default ELSE tracks[traf.track].default)

\* walk: the fragments of a segment, which is a sequence of moofs, and whether it can be used
Trafs(moofs) == FlattenSeq(moofs)
WalkOK(moofs, tracks) == Trafs(moofs) # <<>> /\ \A i \in DOMAIN Trafs(moofs) : TrafOK(Trafs(moofs)[i], tracks)

\* a number as one of a signed integer, whose upper half is the negative numbers, and of an unsigned one
Signed(n, span)   == LET m == n % span IN IF 2 * m >= span THEN m - span ELSE m
Unsigned(n, span) == n % span

Distance(n) == IF n < 0 THEN -n ELSE n

\* mutant of RetimedTfdt: the stream position is not looked at
RetimedTfdtAnywhere(tfdt, scale, anchor, nominal, span) ==
    LET diff == Signed(Signed(tfdt, span) - nominal * scale, span)
    IN  IF 4 * Distance(diff) > scale THEN Failed
        ELSE Unsigned(Signed(anchor * scale + diff, span), span)

\* the new decode time of a fragment, or Failed; gridTolerance is a quarter of a second
RetimedTfdt(tfdt, scale, anchor, nominal, span) ==
    LET diff == Signed(Signed(tfdt, span) - nominal * scale, span)
        v    == Signed(anchor * scale + diff, span)
    IN  IF 4 * Distance(diff) > scale \/ v < 0 THEN Failed ELSE Unsigned(v, span)

\* Retime: the decode times of the fragments of the copy, and whether there is one
Retime(moofs, tracks, anchor, nominal, span) ==
    LET Moved(traf) == IF traf.version # 1 THEN Failed
                       ELSE RetimedTfdt(traf.time, tracks[traf.track].timescale, anchor, nominal, span)
        times == IF WalkOK(moofs, tracks) THEN [i \in DOMAIN Trafs(moofs) |-> Moved(Trafs(moofs)[i])] ELSE <<Failed>>
    IN  IF Failed \in Range(times) THEN [ok |-> FALSE, times |-> <<>>] ELSE [ok |-> TRUE, times |-> times]
=============================================================================
