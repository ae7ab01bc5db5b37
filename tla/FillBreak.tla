----------------------------- MODULE FillBreak -----------------------------
(***************************************************************************)
(* The choice of creatives for an ad break from a registry: fillBreak of    *)
(* services/engine/filler.go, and buildAdBreakQuanta of plan.go, which lays *)
(* the chosen ones out in segments.                                         *)
(*                                                                          *)
(* A registry is a sequence of creatives; the creatives have numbers for    *)
(* identifiers, so that they can be ordered.  The playlists of creatives    *)
(* (URI) go with the identifier and are left out.                           *)
(***************************************************************************)
EXTENDS Integers, Sequences, FiniteSets, FiniteSetsExt, Functions, Iteration

NoCreative == 0     \* the empty identifier

Creatives == [id : Nat \ {NoCreative}, duration : Int, type : {"partner", "house"}, active : BOOLEAN,
              category : SUBSET STRING]

\* what fillBreak can work with
IsRegistry(reg) == reg \in Seq(Creatives) /\ \A i, j \in DOMAIN reg : reg[i].id = reg[j].id => i = j

HasCategory(cats, want) == cats \cap {want, "any"} # {}

Usable(c, category, last, seg) ==
    /\ c.active /\ c.duration > 0 /\ c.duration % seg = 0 /\ c.id # last
    /\ category \notin {"", "any"} => HasCategory(c.category, category)

\* the longer one, or of two of a length the first, comes first; or the last of the two
Longer(set) ==
    {p \in set \X set : \/ p[1].duration > p[2].duration
                        \/ p[1].duration = p[2].duration /\ p[1].id < p[2].id}
LongerOrLast(set) ==
    {p \in set \X set : \/ p[1].duration > p[2].duration
                        \/ p[1].duration = p[2].duration /\ p[1].id > p[2].id}

\* a set as a sequence
InOrder(set, before) ==
    [n \in 1 .. Cardinality(set) |-> CHOOSE c \in set : Cardinality({d \in set : <<d, c>> \in before}) = n - 1]

\* how long a list is
TotalOf(list) == SumOver([i \in DOMAIN list |-> list[i].duration], DOMAIN list)

-----------------------------------------------------------------------------

None == -1

\* mutant of Improves: a sum that was there already is made again, with more creatives
ImprovesAgain(row, c, s) == s >= c.duration /\ row[s - c.duration] # None

\* from[i][s]: creative c makes s seconds possible, or with fewer creatives than row, which is reach before its pass
Improves(row, c, s) ==
    /\ s >= c.duration /\ row[s - c.duration] # None
    /\ (row[s] = None \/ row[s - c.duration] + 1 < row[s])

\* the pass of creative c over reach, from the largest sum down
Pass(row, c, limit) == [s \in 0..limit |-> IF Improves(row, c, s) THEN row[s - c.duration] + 1 ELSE row[s]]

\* reach after the pass of each creative of the pool
Reach(pool, limit) ==
    LET row[k \in 0..Len(pool)] ==
            IF k = 0 THEN [s \in 0..limit |-> IF s = 0 THEN 0 ELSE None] ELSE Pass(row[k - 1], pool[k], limit)
    IN  row

\* the walk back: which of the first k creatives give s seconds
Back(pool, limit) ==
    LET chosen[k \in 0..Len(pool)] ==
            [s \in 0..limit |->
                IF k = 0 \/ s = 0 THEN {}
                ELSE IF Improves(Reach(pool, limit)[k - 1], pool[k], s)
                     THEN {pool[k]} \cup chosen[k - 1][s - pool[k].duration]
                ELSE chosen[k - 1][s]]
    IN  chosen

\* bestSubset: the fewest creatives that give the largest sum up to limit.  The walk back leaves the last one of the
\* pool first, which is sorted, and so does the sort by duration that follows where two are equally long.
BestSubset(all, limit) ==
    LET pool == SubSeq(all, 1, IF Len(all) > 60 THEN 60 ELSE Len(all))
        best == Max({s \in 0..limit : Reach(pool, limit)[Len(pool)][s] # None})
        chosen == Back(pool, limit)[Len(pool)][best]
    IN  IF pool = <<>> \/ limit <= 0 THEN <<>> ELSE InOrder(chosen, LongerOrLast(chosen))

\* the house creatives that fit after what there is, each once
AddHouse(items, house, duration) ==
    LET list[k \in 0..Len(house)] ==
            IF k = 0 THEN items
            ELSE IF TotalOf(list[k - 1]) + house[k].duration <= duration THEN Append(list[k - 1], house[k])
            ELSE list[k - 1]
    IN  list[Len(house)]

\* the shortest house creative, until the break is full
AddPad(items, house, duration) ==
    IF house = <<>> \/ TotalOf(items) >= duration THEN items
    ELSE LET pad     == house[Len(house)]
             missing == duration - TotalOf(items)
         IN  items \o [i \in 1 .. (missing + pad.duration - 1) \div pad.duration |-> pad]

FillBreakExcluding(reg, duration, category, last, seg) ==
    LET usable  == {c \in Range(reg) : Usable(c, category, last, seg)}
        Sorted(set) == InOrder(set, Longer(set))
        house   == Sorted({c \in usable : c.type = "house"})
        partner == Sorted({c \in usable : c.type # "house"})
    IN  IF duration <= 0 \/ seg <= 0 THEN <<>>
        ELSE AddPad(AddHouse(BestSubset(partner, duration), house, duration), house, duration)

\* fillBreak: the creative that ended the previous break is left out, unless nothing else can be played
Fill(reg, duration, category, last, seg) ==
    LET items == FillBreakExcluding(reg, duration, category, last, seg) IN
    IF items = <<>> /\ last # NoCreative
    THEN FillBreakExcluding(reg, duration, category, NoCreative, seg) ELSE items

\* buildAdBreakQuanta: the segments of the first k creatives, ...
Ads(items, seg) ==
    LET ads[k \in 0..Len(items)] ==
            IF k = 0 THEN <<>>
            ELSE ads[k - 1] \o [i \in 1 .. items[k].duration \div seg |-> [id |-> items[k].id, offset |-> (i - 1) * seg]]
    IN  ads

\* ... and of a break: slate (NoCreative) where the creatives end, and a cut where the break ends
Quanta(duration, items, seg) ==
    LET total == duration \div seg
        ads   == Ads(items, seg)[Len(items)]
        slate == [i \in 1 .. total - Len(ads) |-> [id |-> NoCreative, offset |-> 0]]
    IN  SubSeq(ads \o slate, 1, total)
=============================================================================
