------------------------------- MODULE Scte35 -------------------------------
(***************************************************************************)
(* pkg/scte35/scte35.go: the encoding of a splice_insert in a               *)
(* splice_info_section and back, and the length of a break that the control *)
(* API takes from it.                                                       *)
(*                                                                          *)
(* A byte is a number below Base (256 in the code), or, where its bits      *)
(* matter one by one, a record of them; a number of 33 bits is a bit and    *)
(* four bytes.  A CRC is modelled by what it was computed from: it differs  *)
(* if anything differs.  What a section holds besides, constants mostly,    *)
(* is left out.                                                             *)
(***************************************************************************)
EXTENDS Integers, Sequences, SequencesExt

CONSTANTS
    Base,           \* how many values a byte has
    TickRate        \* ticks in a second

ASSUME Scte35Assumption == {Base, TickRate} \subseteq Nat \ {0, 1}

NoTime == -1        \* no splice time is given

\* how many numbers have two and four bytes, and how many 33 bits
Square  == Base * Base
Limit32 == Square * Square
Limit33 == 2 * Limit32

\* the four bytes of a number, and the byte before them, which has one bit of it and a flag (33 bits)
FourBytes(n) == <<(n \div (Square * Base)) % Base, (n \div Square) % Base, (n \div Base) % Base, n % Base>>
Field(flag, n) == <<[flag |-> flag, high |-> (n \div Limit32) % 2]>> \o FourBytes(n)

Number(c, p)   == ((c[p] * Base + c[p + 1]) * Base + c[p + 2]) * Base + c[p + 3]
Number33(c, p) == c[p].high * Limit32 + Number(c, p + 1)

\* SpliceInsert
Inserts == [event : 0 .. Limit32 - 1, cancel : BOOLEAN, out : BOOLEAN, immediate : BOOLEAN,
            pts : Nat \cup {NoTime}, duration : Nat, autoReturn : BOOLEAN,
            program : 0 .. Square - 1, avail : 0 .. Base - 1, expected : 0 .. Base - 1]

-----------------------------------------------------------------------------

\* whether Encode has an answer
Encodable(s) ==
    /\ s.duration < Limit33 /\ s.pts < Limit33
    /\ s.cancel \/ s.immediate \/ s.pts # NoTime

\* a command whose splice time is these bytes
CommandWith(s, time) ==
    IF s.cancel THEN FourBytes(s.event) \o <<[cancel |-> TRUE]>>
    ELSE FourBytes(s.event)
         \o <<[cancel |-> FALSE], [out |-> s.out, program |-> TRUE, duration |-> s.duration > 0, immediate |-> s.immediate]>>
         \o time
         \o (IF s.duration > 0 THEN Field(s.autoReturn, s.duration) ELSE <<>>)
         \o <<s.program \div Base, s.program % Base, s.avail, s.expected>>

\* the command in Encode
CommandOf(s) == CommandWith(s, IF s.immediate THEN <<>> ELSE Field(TRUE, s.pts))

\* a section: fourteen bytes, the command, the descriptors (two bytes, of their length) and the CRC (four)
SizeOf(section) == 14 + Len(section.rest) + 4

Crc(section) == [section EXCEPT !.crc = <<>>]
Sealed(section) == [section EXCEPT !.crc = Crc(section)]

Section(type, cmd) ==
    Sealed([table |-> 252, length |-> 11 + Len(cmd) + 2 + 4, version |-> 0, encrypted |-> FALSE,
            cmdLen |-> Len(cmd), type |-> type, rest |-> cmd \o <<0, 0>>, crc |-> <<>>])

Encode(s) == Section("splice_insert", CommandOf(s))
Null      == Section("splice_null", <<>>)

Out(event, seconds) ==
    [event |-> event, cancel |-> FALSE, out |-> TRUE, immediate |-> TRUE, pts |-> NoTime,
     duration |-> seconds * TickRate, autoReturn |-> TRUE, program |-> 0, avail |-> 0, expected |-> 1]

In(event) ==
    [event |-> event, cancel |-> FALSE, out |-> FALSE, immediate |-> TRUE, pts |-> NoTime,
     duration |-> 0, autoReturn |-> FALSE, program |-> 0, avail |-> 0, expected |-> 0]

-----------------------------------------------------------------------------

Nothing == [event |-> 0, cancel |-> FALSE, out |-> FALSE, immediate |-> FALSE, pts |-> NoTime,
            duration |-> 0, autoReturn |-> FALSE, program |-> 0, avail |-> 0, expected |-> 0]
Refused == [ok |-> FALSE, insert |-> Nothing, type |-> "none"]

\* mutant of TimeSize: a splice time that is not specified has five bytes too
TimeSizeOfFive(c) == IF c[6].immediate THEN 0 ELSE 5

\* the bytes of splice_time, of a command that has them
TimeSize(c) == IF c[6].immediate THEN 0 ELSE IF c[7].flag THEN 5 ELSE 1

\* decodeInsert, on commands of at least six bytes; c[p] is its c[p - 1]
DecodeRest(c) ==
    LET p == 7 + TimeSize(c)
        q == p + (IF c[6].duration THEN 5 ELSE 0)
    IN  IF \/ ~c[6].program
           \/ ~c[6].immediate /\ Len(c) < 7
           \/ Len(c) < q + 3
        THEN Refused
        ELSE [ok |-> TRUE, type |-> "splice_insert",
              insert |-> [event |-> Number(c, 1), cancel |-> FALSE, out |-> c[6].out, immediate |-> c[6].immediate,
                          pts |-> IF TimeSize(c) = 5 THEN Number33(c, 7) ELSE NoTime,
                          duration |-> IF c[6].duration THEN Number33(c, p) ELSE 0,
                          autoReturn |-> c[6].duration /\ c[p].flag,
                          program |-> c[q] * Base + c[q + 1], avail |-> c[q + 2], expected |-> c[q + 3]]]

DecodeInsert(c) ==
    CASE Len(c) < 5 -> Refused
      [] Len(c) >= 5 /\ c[5].cancel ->
                [ok |-> TRUE, type |-> "splice_insert",
                 insert |-> [Nothing EXCEPT !.event = Number(c, 1), !.cancel = TRUE]]
      [] Len(c) = 5 /\ ~c[5].cancel -> Refused
      [] OTHER -> DecodeRest(c)

\* Decode: a section with another command than splice_insert has no insert
Decode(b) ==
    IF \/ SizeOf(b) < 18 \/ b.table # 252 \/ b.length + 3 # SizeOf(b)
       \/ b.crc # Crc(b)
       \/ b.version # 0 \/ b.encrypted
       \/ b.cmdLen = 4095 \/ b.cmdLen > Len(b.rest) - 2
    THEN Refused
    ELSE IF b.type # "splice_insert" THEN [ok |-> TRUE, type |-> b.type, insert |-> Nothing]
    ELSE DecodeInsert(SubSeq(b.rest, 1, b.cmdLen))

-----------------------------------------------------------------------------
(* The way of a message through the system *)

\* mutant of BreakSeconds: a part of a second is dropped
BreakSecondsDown(duration) == duration \div TickRate

\* the length of the break that the control API makes of a message (server.scte35) ...
BreakSeconds(duration) == (duration + TickRate - 1) \div TickRate

\* ... which it accepts as the start of one
StartsBreak(b) ==
    LET d == Decode(b) IN
    /\ d.ok /\ d.type = "splice_insert" /\ ~d.insert.cancel
    /\ d.insert.out /\ BreakSeconds(d.insert.duration) >= 1

\* an empty payload: the engine has nothing to put into the playlist
Empty == [Null EXCEPT !.table = 0]

\* the messages the engine marks a break with (startMarkers, endMarkers): one that came with the break is used as it is
StartPayload(given, event, seconds) ==
    IF Decode(given).ok THEN given
    ELSE IF Encodable(Out(event, seconds)) THEN Encode(Out(event, seconds)) ELSE Empty
EndPayload(event) == Encode(In(event))
=============================================================================
