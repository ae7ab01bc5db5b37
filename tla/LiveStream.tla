----------------------------- MODULE LiveStream -----------------------------
(***************************************************************************)
(* What a player of the channel relies on: the media playlist is a window   *)
(* that slides over one stream.  Segments are numbered without holes, the   *)
(* wall clock only moves forward along them, a hole in time is marked, and  *)
(* a segment that has been in the playlist keeps its number, its media, its *)
(* marks and its discontinuity number for as long as it is listed           *)
(* (README.md:188, "what is in the playlist never changes").                *)
(***************************************************************************)
EXTENDS Integers, Sequences, FiniteSets

CONSTANT MayLose    \* TRUE: the playlist can be lost altogether

VARIABLE stream     \* [first, discSeq, items], the playlist

None == [first |-> 0, discSeq |-> 0, items |-> <<>>]

\* EXT-X-DISCONTINUITY-SEQUENCE plus the discontinuities up to item i
DiscNumber(s, i) == s.discSeq + Cardinality({j \in 1..i : s.items[j].disc})

\* the number after the last one in the playlist
End(s) == s.first + Len(s.items)

WellFormed(s) ==
    /\ s.items # <<>>
    /\ \A i \in DOMAIN s.items : s.items[i].file = s.first + i - 1
    /\ \A i \in 2..Len(s.items) :
         /\ s.items[i - 1].start < s.items[i].start
         /\ s.items[i].start # s.items[i - 1].start + 1 => s.items[i].disc
         /\ s.items[i].map # s.items[i - 1].map => s.items[i].disc

\* new continues old: what both list is the same, what is new comes later
Continues(old, new) ==
    LET k == new.first - old.first IN
    /\ k >= 0
    /\ End(new) > End(old)
    /\ \A i \in DOMAIN new.items :
         /\ i + k <= Len(old.items) =>
              /\ new.items[i] = old.items[i + k]
              /\ DiscNumber(new, i) = DiscNumber(old, i + k)
         /\ i + k > Len(old.items) => new.items[i].start > old.items[Len(old.items)].start
    /\ k >= Len(old.items) => new.discSeq >= DiscNumber(old, Len(old.items))

Init == stream = None

Start == stream = None /\ WellFormed(stream')

Publish == stream # None /\ WellFormed(stream') /\ Continues(stream, stream')

Lose == MayLose /\ stream' = None

Next == Start \/ Publish \/ Lose

Spec == Init /\ [][Next]_stream
=============================================================================
