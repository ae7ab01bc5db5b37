------------------------------ MODULE MCPlayer ------------------------------
(* Small instances of the engine with a player for TLC. *)
EXTENDS Player

FilmOnly ==
    {[kind |-> "content", src |-> "film", start |-> 1, end |-> MaxTime + LiveLead + 1, off |-> 0,
      entry |-> 1, brk |-> 0]}
=============================================================================
