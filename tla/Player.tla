------------------------------- MODULE Player -------------------------------
(***************************************************************************)
(* The engine with a player that reads the media playlist now and then and  *)
(* downloads what it read.  Segment files outlive their stay in the         *)
(* playlist for such a player (retiredFiles, SEGMENT_RETAIN_S).             *)
(***************************************************************************)
EXTENDS Engine

VARIABLE player     \* the playlist the player has, and the second it read it

playerVars == <<vars, player>>

PlayerInit == Init /\ player = [at |-> 0, items |-> <<>>]

PlayerReads ==
    /\ playlist.items # <<>>
    /\ player' = [at |-> slot, items |-> playlist.items]
    /\ UNCHANGED vars

PlayerNext == PlayerReads \/ (Next /\ UNCHANGED player)

PlayerSpec == PlayerInit /\ [][PlayerNext]_playerVars

-----------------------------------------------------------------------------
\* Everything in the player's playlist can be downloaded for Retain - LiveLead seconds after the player read it
\* (stitch.go:474, "They stay for a while: a player that read the playlist a moment ago may still be downloading
\* them"; README.md:159).  LiveLead seconds are lost because retirement is measured in stream time: the segment
\* that pushes a file out may be released when it is due, and the one that deletes it LiveLead seconds early.
PlayerCanDownload ==
    slot - player.at < Retain - LiveLead =>
        \A i \in DOMAIN player.items :
            /\ player.items[i].file \in DOMAIN segFile
            /\ segFile[player.items[i].file] = player.items[i].start
            /\ player.items[i].map \in initFile
=============================================================================
