------------------------------ MODULE MCEvents ------------------------------
(* Small instances of the engine with its events for TLC. *)
EXTENDS EngineEvents

Programme(kind, src, from, to, off, brk) ==
    [kind |-> kind, src |-> src, start |-> from, end |-> to, off |-> off,
     entry |-> IF brk = 0 THEN from ELSE brk, brk |-> brk]

\* a film, a jump in it, a break with an ad and slate behind it, and a second break right after it
FilmAndBreaks ==
    { Programme("content", "film", 1, MaxTime + LiveLead + 1, 0, 0),
      Programme("content", "film", 3, 4, 5, 0),
      Programme("ad", "spot", 2, 3, 0, 2),
      Programme("slate", SlateSrc, 3, 4, 0, 2),
      Programme("ad", "spot", 4, 6, 0, 4) }
=============================================================================
