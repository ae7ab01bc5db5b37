------------------------------ MODULE Schedule ------------------------------
(***************************************************************************)
(* The rules of pkg/schedule/schedule.go as operators on lists of entries:  *)
(* what a request may write, and the two edits a command makes on the air.  *)
(* No state.  Time is counted in whole seconds.                             *)
(*                                                                          *)
(* An operator that is commented as a mutant is the definition below it     *)
(* with a mistake in it.  Nothing uses it: it stands for a bug that a       *)
(* property has to notice.                                                  *)
(***************************************************************************)
EXTENDS Iteration, SequencesExt

CONSTANT NoClip     \* an entry without an asset: an ad break or the slate

EndOf(e) == e.start + e.dur

\* the entry is on the air at second t
OnAir(e, t) == e.start <= t /\ t < EndOf(e)

\* queryRange: the entries of a table that overlap [from, to); a table is kept in the order of its starts
QueryRange(table, from, to) == Filter(table, {e \in ToSet(table) : e.start < to /\ EndOf(e) > from})

\* entries in the order of their starts; no two start at once
ByStart(es) ==
    LET rank(e) == Cardinality({f \in es : f.start <= e.start})
    IN  [n \in 1 .. Cardinality(es) |-> CHOOSE e \in es : rank(e) = n]

\* replaceInTx: the entries that start in the window of an edit go, its own come
Replace(table, ed) ==
    ByStart({e \in ToSet(table) : ~(ed.from <= e.start /\ e.start < ed.to)} \cup ToSet(ed.entries))

\* a table that can be aired: no entry is empty or begins before its clip does, and each begins when the one before it
\* is over
Airable(table) ==
    /\ \A i \in DOMAIN table : table[i].dur > 0 /\ table[i].off >= 0
    /\ \A i, j \in DOMAIN table : i < j => EndOf(table[i]) <= table[j].start

-----------------------------------------------------------------------------
(* Validate and CheckEntries *)

\* mutant of CheckEntries: entries may overlap
CheckEntriesApart(ed) ==
    \A e \in ToSet(ed.entries) :
        /\ (e.type \in {"content", "bumper"}) => e.clip # NoClip
        /\ (e.type = "ad_break") => e.clip = NoClip
        /\ e.dur > 0 /\ e.off >= 0
        /\ ed.from <= e.start /\ e.start < ed.to

\* what an edit may write: each entry well formed and starting in the window, none running into the one after it
CheckEntries(ed) ==
    /\ \A e \in ToSet(ed.entries) :
        /\ (e.type \in {"content", "bumper"}) => e.clip # NoClip
        /\ (e.type = "ad_break") => e.clip = NoClip
        /\ e.dur > 0 /\ e.off >= 0
        /\ ed.from <= e.start /\ e.start < ed.to
    /\ \A i, j \in DOMAIN ed.entries :
        i # j => \/ EndOf(ed.entries[i]) <= ed.entries[j].start
                 \/ EndOf(ed.entries[j]) <= ed.entries[i].start

\* Validate, without the limit of twelve hours
Validate(ed) == ed.from < ed.to /\ CheckEntries(ed)

-----------------------------------------------------------------------------
(* The edits of a command.  existing holds every entry that ends after at, by start *)

\* the part of an entry before second t
HeadOf(e, t) == [e EXCEPT !.dur = t - e.start]

\* mutant of TailOf: the second part begins at its first frame again
TailFromTheTop(e, t, d) == [e EXCEPT !.start = t + d, !.dur = EndOf(e) - t]

\* the part from second t on, put d seconds later: it goes on where the head stopped
TailOf(e, t, d) == [e EXCEPT !.start = t + d, !.dur = EndOf(e) - t, !.off = e.off + (t - e.start)]

\* InsertShift has nothing to do: the break it is asked for is there already
BreakOnAir(existing, at) == \E e \in ToSet(existing) : e.type = "ad_break" /\ OnAir(e, at)

\* ins goes on the air at at, the rest of the entry that is cut and all that follows moves back by its length
InsertShift(existing, at, ins) ==
    LET live    == Filter(existing, {e \in ToSet(existing) : EndOf(e) > at})
        cut     == Filter(live, {e \in ToSet(live) : e.start < at})
        heads   == [i \in DOMAIN cut |-> HeadOf(cut[i], at)]
        after   == [i \in DOMAIN live |->
                      IF live[i].start < at THEN TailOf(live[i], at, ins.dur)
                      ELSE [live[i] EXCEPT !.start = @ + ins.dur]]
        entries == heads \o <<[ins EXCEPT !.start = at]>> \o after
    IN  [from |-> IF cut = <<>> THEN at ELSE Last(cut).start,
         to |-> EndOf(Last(entries)), entries |-> entries]

\* the first entry on the air at at, as findEntry of the engine and Skip look for it; 0 if there is none
FirstOnAir(existing, at) ==
    LET them == {i \in DOMAIN existing : OnAir(existing[i], at)}
    IN  IF them = {} THEN 0 ELSE Min(them)

\* the entries from idx to i follow one another back to back
Chained(existing, idx, i) == \A j \in idx + 1 .. i : existing[j].start = EndOf(existing[j - 1])

\* the window of Skip reaches the old ends, so that nothing stays in a place it moved away from
SkipTo(cur, rest) == Max({EndOf(e) : e \in ToSet(rest) \cup {cur}})

\* the entry on the air ends at at, the ones that follow it back to back are pulled up
Skip(existing, at) ==
    LET idx   == FirstOnAir(existing, at)
        cur   == existing[idx]
        rest  == SubSeq(existing, idx + 1, Len(existing))
        moved == [i \in DOMAIN rest |->
                    IF Chained(existing, idx, idx + i)
                    THEN [rest[i] EXCEPT !.start = @ - (EndOf(cur) - at)]
                    ELSE rest[i]]
    IN  [from |-> cur.start, to |-> SkipTo(cur, rest),
         entries |-> (IF at > cur.start THEN <<HeadOf(cur, at)>> ELSE <<>>) \o moved]
=============================================================================
