----------------------------- MODULE SseClients -----------------------------
(***************************************************************************)
(* ServeSSE of pkg/events/events.go and the clients at its other end.  A    *)
(* client that was disconnected, or cut off because it was too slow, comes  *)
(* back with the id of the last event it received.                          *)
(***************************************************************************)
EXTENDS Hub

CONSTANT MaxLosses      \* bound: how often a connection breaks

ASSUME SseAssumption == MaxLosses \in Nat

VARIABLES
    conn,       \* the request of each client: none, accepted, or subscribed
    after,      \* what ServeSSE passes to Subscribe
    replay,     \* what is left of the replay
    got,        \* the events the client received
    base,       \* the client wants what comes after this one, -1 until it has connected
    forgotten,  \* the events the ring no longer had when the client subscribed
    losses

sseVars == <<conn, after, replay, got, base, forgotten, losses>>
vars == <<hubVars, sseVars>>

\* the id a client sends as Last-Event-ID, -1 when it has not received anything
LastGot(c) == IF got[c] = <<>> THEN -1 ELSE got[c][Len(got[c])]

Init ==
    /\ HubInit
    /\ conn = [c \in Subscribers |-> "none"]
    /\ after = [c \in Subscribers |-> 0]
    /\ replay = [c \in Subscribers |-> <<>>]
    /\ got = [c \in Subscribers |-> <<>>]
    /\ base = [c \in Subscribers |-> -1]
    /\ forgotten = [c \in Subscribers |-> {}]
    /\ losses = 0

PublishEvent == Publish /\ UNCHANGED sseVars

\* the request is read: Last-Event-ID, or from=now (Last takes the mutex on its own), or everything remembered
Connect(c) ==
    /\ conn[c] = "none"
    /\ conn' = [conn EXCEPT ![c] = "accepted"]
    /\ \E a \in IF LastGot(c) # -1 THEN {LastGot(c)} ELSE {0, LastID} :
         /\ after' = [after EXCEPT ![c] = a]
         /\ base' = [base EXCEPT ![c] = IF got[c] = <<>> THEN a ELSE @]
    /\ UNCHANGED <<hubVars, replay, got, forgotten, losses>>

Serve(c) ==
    /\ conn[c] = "accepted"
    /\ conn' = [conn EXCEPT ![c] = "subscribed"]
    /\ Subscribe(c)
    /\ replay' = [replay EXCEPT ![c] = Replay(after[c])]
    /\ forgotten' = [forgotten EXCEPT ![c] = @ \cup {id \in (after[c] + 1)..LastID : ~Contains(ring, id)}]
    /\ UNCHANGED <<after, got, base, losses>>

Gets(c, id) == got' = [got EXCEPT ![c] = Append(@, id)]

WriteReplay(c) ==
    /\ conn[c] = "subscribed" /\ replay[c] # <<>>
    /\ Gets(c, Head(replay[c]))
    /\ replay' = [replay EXCEPT ![c] = Tail(@)]
    /\ UNCHANGED <<hubVars, conn, after, base, forgotten, losses>>

WriteLive(c) ==
    /\ conn[c] = "subscribed" /\ replay[c] = <<>>
    /\ Receive(c)
    /\ Gets(c, Head(sub[c].buf))
    /\ UNCHANGED <<conn, after, replay, base, forgotten, losses>>

Hangup(c) ==
    /\ conn' = [conn EXCEPT ![c] = "none"]
    /\ replay' = [replay EXCEPT ![c] = <<>>]
    /\ Close(c)

\* the subscription was cut off and is drained: the handler returns
EndCutOff(c) ==
    /\ conn[c] = "subscribed" /\ replay[c] = <<>> /\ CutOff(c)
    /\ Hangup(c)
    /\ UNCHANGED <<after, got, base, forgotten, losses>>

\* a write fails or the request is cancelled; the event being written is not received
ConnectionLost(c) ==
    /\ conn[c] # "none"
    /\ losses < MaxLosses
    /\ losses' = losses + 1
    /\ Hangup(c)
    /\ UNCHANGED <<after, got, base, forgotten>>

Handler(c) == Serve(c) \/ WriteReplay(c) \/ WriteLive(c) \/ EndCutOff(c)

Next ==
    \/ PublishEvent
    \/ \E c \in Subscribers : Connect(c) \/ Handler(c) \/ ConnectionLost(c)

\* A browser reconnects by itself, and a handler that has something to write is scheduled.
Fairness == \A c \in Subscribers : WF_vars(Connect(c)) /\ WF_vars(Handler(c))

Spec == Init /\ [][Next]_vars /\ Fairness

-----------------------------------------------------------------------------
(* Properties *)

\* "The replay and the live stream do not miss or repeat an event" (events.go:79), nor do any number of reconnects
\* and cut-offs: a client has received every event after the one it began with up to the last one it has, once and
\* in order, except those the ring had forgotten before it came back.
NothingMissedOrRepeated ==
    \A c \in Subscribers :
        /\ \A i, j \in DOMAIN got[c] : i < j => got[c][i] < got[c][j]
        /\ got[c] # <<>> => (base[c] + 1)..LastGot(c) \ forgotten[c] = Range(got[c]) \ forgotten[c]

\* A client that keeps coming back catches up: once the hub falls silent, every client has the last event, however
\* often it was cut off as too slow ("it can resume from the ring", events.go:57).
EveryoneCatchesUp ==
    <>[](\A c \in Subscribers : base[c] = LastID \/ LastGot(c) = LastID)
=============================================================================
