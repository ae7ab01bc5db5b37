-------------------------------- MODULE Hub --------------------------------
(***************************************************************************)
(* The event hub of pkg/events/events.go: it remembers the last events in a *)
(* ring and hands every new one to its subscriptions, each a channel with a *)
(* buffer.  Every operation holds the mutex, so each is one step.  An event *)
(* is its id.                                                               *)
(***************************************************************************)
EXTENDS Integers, Sequences, SequencesExt, Iteration

CONSTANTS
    Subscribers,    \* who may hold a subscription
    RingCap,        \* Hub.cap, 1000 in the engine
    BufferCap,      \* the buffer of Subscription.C, 256
    MaxEvents       \* bound: how many events are published

ASSUME HubAssumption ==
    /\ RingCap \in Nat \ {0}
    /\ BufferCap \in Nat \ {0}
    /\ MaxEvents \in Nat

VARIABLES
    nextID,     \* Hub.nextID
    ring,       \* Hub.ring
    sub         \* the subscription of each subscriber: is it open, and the buffer of its channel

hubVars == <<nextID, ring, sub>>

NoSub == [open |-> FALSE, buf |-> <<>>]

HubInit == nextID = 1 /\ ring = <<>> /\ sub = [s \in Subscribers |-> NoSub]

\* Last
LastID == nextID - 1

\* what the ring keeps of its events
LastN(s, n) == SubSeq(s, IF Len(s) > n THEN Len(s) - n + 1 ELSE 1, Len(s))

\* the select of Publish: a subscriber whose buffer is full is cut off, what is in the buffer can still be read
Offer(x, ev) ==
    IF ~x.open THEN x
    ELSE IF Len(x.buf) < BufferCap THEN [open |-> TRUE, buf |-> Append(x.buf, ev)]
    ELSE [open |-> FALSE, buf |-> x.buf]

Publish ==
    /\ nextID <= MaxEvents
    /\ nextID' = nextID + 1
    /\ ring' = LastN(Append(ring, nextID), RingCap)
    /\ sub' = [s \in Subscribers |-> Offer(sub[s], nextID)]

\* mutant of Replay: off by one
ReplayFrom(after) == Filter(ring, {id \in Nat : id >= after})

\* Subscribe, what it returns first: the events with an id greater than after that are still remembered
Replay(after) == Filter(ring, {id \in Nat : id > after})

\* Subscribe, what it changes
Subscribe(s) == sub' = [sub EXCEPT ![s] = [open |-> TRUE, buf |-> <<>>]] /\ UNCHANGED <<nextID, ring>>

\* receive one event from the channel
Receive(s) ==
    /\ sub[s].buf # <<>>
    /\ sub' = [sub EXCEPT ![s] = [open |-> sub[s].open, buf |-> Tail(sub[s].buf)]]
    /\ UNCHANGED <<nextID, ring>>

\* mutant of CutOff: the receiver does not look whether the channel was closed
CutOffUnnoticed(s) == FALSE

\* the channel is closed and drained
CutOff(s) == ~sub[s].open /\ sub[s].buf = <<>>

\* Close, and nobody reads the channel any more
Close(s) == sub' = [sub EXCEPT ![s] = NoSub] /\ UNCHANGED <<nextID, ring>>
=============================================================================
