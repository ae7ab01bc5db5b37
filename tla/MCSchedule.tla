----------------------------- MODULE MCSchedule -----------------------------
(* Small instances of the schedule and its editors for TLC. *)
EXTENDS ScheduleEdits

CONSTANTS film, promo, next, k1, k2

EntryOf(type, clip, start, dur, off) ==
    [type |-> type, clip |-> clip, start |-> start, dur |-> dur, off |-> off]
Ad(start, dur)    == EntryOf("ad_break", NoClip, start, dur, 0)
Slate(start, dur) == EntryOf("slate", NoClip, start, dur, 0)
Show(clip, start, dur, off) == EntryOf("content", clip, start, dur, off)

Command(type, key, at, ins)  == [type |-> type, key |-> key, at |-> at, ins |-> ins]
ReplaceBy(key, ed, ifMatch)  == [type |-> "replace", key |-> key, ed |-> ed, ifMatch |-> ifMatch]
Window(from, to, list)  == [from |-> from, to |-> to, entries |-> list]

(* A film and the programme behind it: back to back, with a break already in it, with a gap *)
MCTables == {
    <<Show(film, 2, 6, 0), Show(next, 8, 2, 0)>>,
    <<Show(film, 2, 3, 0), Ad(5, 2), Show(film, 7, 3, 3), Show(next, 11, 2, 0)>> }
MCFilmLen == (film :> 6) @@ (next :> 2)

MCCommands == {
    Command("ad_break", k1, 0, Ad(0, 2)),
    Command("insert", NoKey, 0, Show(promo, 0, 1, 0)),
    Command("slate", k2, 8, Slate(0, 1)),
    Command("skip", k2, 0, Slate(0, 0)),
    Command("return", k1, 0, Slate(0, 0)) }

(* Replacements of the whole schedule, two of them with one key and one whose entries overlap; an insert of nothing *)
MCReplacements == {
    ReplaceBy(k1, Window(1, 99, <<Show(film, 3, 6, 0)>>), TRUE),
    ReplaceBy(k1, Window(1, 99, <<Show(next, 3, 2, 0)>>), FALSE),
    ReplaceBy(k2, Window(1, 99, <<Show(film, 3, 6, 0), Show(next, 5, 2, 0)>>), FALSE),
    Command("ad_break", k2, 0, Ad(0, 2)),
    Command("insert", k2, 0, Show(NoClip, 0, 1, 0)),
    Command("skip", NoKey, 0, Slate(0, 0)) }

\* commands only, on the air; and replacements and commands with their repeats, before it is on the air
CommandsOnly    == {[requests |-> MCCommands, attempts |-> 1, until |-> 7]}
CommandsAndEdits == CommandsOnly \cup {[requests |-> MCReplacements, attempts |-> 2, until |-> 1]}

\* the clients do the same
ClientSymmetry == Permutations(Clients)
=============================================================================
