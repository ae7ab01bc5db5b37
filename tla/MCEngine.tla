------------------------------ MODULE MCEngine ------------------------------
(* Small instances of the engine for TLC. *)
EXTENDS Engine

Programme(kind, src, from, to, off, brk) ==
    [kind |-> kind, src |-> src, start |-> from, end |-> to, off |-> off,
     entry |-> IF brk = 0 THEN from ELSE brk, brk |-> brk]

\* one film: the only choices left are the film, the slate and nothing
FilmOnly == {Programme("content", "film", 1, MaxTime + LiveLead + 1, 0, 0)}
=============================================================================
