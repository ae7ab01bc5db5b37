----------------------------- MODULE SseProofs ------------------------------
(***************************************************************************)
(* Proofs about the event hub and its SSE clients (SseClients): for any     *)
(* number of clients, any size of the ring and of the buffers, and any      *)
(* number of events and of lost connections, no client misses or repeats an *)
(* event that the hub still remembered.                                     *)
(***************************************************************************)
EXTENDS SseClients, IterationProofs

-----------------------------------------------------------------------------
(* The invariant *)

\* the ring holds the last events, without a gap
RingOK == nextID \in Nat \ {0} /\ Consecutive(ring, LastID - Len(ring), LastID)

Shapes ==
    /\ sub \in [Subscribers -> [open : BOOLEAN, buf : Seq(Nat)]]
    /\ conn \in [Subscribers -> {"none", "accepted", "subscribed"}]
    /\ after \in [Subscribers -> Nat]
    /\ replay \in [Subscribers -> Seq(Nat)]
    /\ got \in [Subscribers -> Seq(Nat)]
    /\ base \in [Subscribers -> Int]
    /\ forgotten \in [Subscribers -> SUBSET Nat]

\* the client has everything up to here
Position(c) == IF got[c] = <<>> THEN base[c] ELSE got[c][Len(got[c])]

GotOK(c) ==
    /\ \A i \in DOMAIN got[c] : base[c] < got[c][i] /\ got[c][i] >= 1
    /\ \A i, j \in DOMAIN got[c] : i < j => got[c][i] < got[c][j]
    /\ got[c] # <<>> \/ conn[c] # "none" => base[c] \in Nat
    /\ Position(c) <= LastID
    /\ \A id \in Nat : base[c] < id /\ id <= Position(c) /\ id \notin forgotten[c] =>
           \E i \in DOMAIN got[c] : got[c][i] = id

\* between a and b there is nothing the client could still get
Gone(c, a, b) == \A id \in Nat : a < id /\ id <= b => id \in forgotten[c]

\* what is left of the replay ends with event q, and the buffer goes on after it; as long as the subscription is open
\* it has everything
Ahead(c, q) ==
    /\ Consecutive(replay[c], q - Len(replay[c]), q)
    /\ Consecutive(sub[c].buf, q, q + Len(sub[c].buf))
    /\ q + Len(sub[c].buf) <= LastID
    /\ sub[c].open => q + Len(sub[c].buf) = LastID
    /\ Position(c) <= q - Len(replay[c])
    /\ Gone(c, Position(c), q - Len(replay[c]))

ConnOK(c) ==
    /\ conn[c] = "accepted" => after[c] = Position(c)
    /\ conn[c] = "subscribed" => \E q \in Nat : Ahead(c, q)

SseInv == RingOK /\ Shapes /\ \A c \in Subscribers : GotOK(c) /\ ConnOK(c)

-----------------------------------------------------------------------------
(* Lemmas *)

\* a client that a step does not touch
LEMMA Untouched ==
    ASSUME NEW c \in Subscribers, GotOK(c), ConnOK(c), nextID' = nextID, sub'[c] = sub[c], conn'[c] = conn[c],
           after'[c] = after[c], replay'[c] = replay[c], got'[c] = got[c], base'[c] = base[c],
           forgotten'[c] = forgotten[c]
    PROVE  GotOK(c)' /\ ConnOK(c)'
<1>1. Position(c)' = Position(c)
  BY DEF Position
<1>2. GotOK(c)'
  BY <1>1 DEF GotOK, LastID
<1>3. \A q \in Nat : Ahead(c, q) => Ahead(c, q)'
  BY <1>1 DEF Ahead, Gone, LastID
<1>4. ConnOK(c)'
  BY <1>1, <1>3 DEF ConnOK
<1> QED BY <1>2, <1>4

\* the ring after an event
LEMMA RingPublish ==
    ASSUME RingOK, Publish
    PROVE  RingOK'
<1>1. LastID = nextID - 1 /\ LastID' = nextID /\ nextID \in Nat \ {0} /\ RingCap \in Nat \ {0} /\ nextID' = nextID + 1
  BY HubAssumption DEF RingOK, Publish, LastID
<1>2. Consecutive(ring', nextID - Len(ring'), nextID)
  BY <1>1, KeepLast DEF RingOK, Publish, LastN
<1> QED BY <1>1, <1>2 DEF RingOK

\* the next event the client can still get
LEMMA GotNext ==
    ASSUME Shapes, NEW c \in Subscribers, GotOK(c), conn[c] = "subscribed", NEW id \in Nat,
           Position(c) < id, id <= LastID, Gone(c, Position(c), id - 1),
           Gets(c, id), UNCHANGED <<nextID, conn, base, forgotten>>
    PROVE  GotOK(c)' /\ Position(c)' = id /\ got' \in [Subscribers -> Seq(Nat)]
<1> DEFINE g == got[c]
<1>1. g \in Seq(Nat) /\ Len(g) \in Nat /\ DOMAIN got[c] = 1 .. Len(g) /\ base[c] \in Nat
  BY DEF Shapes, GotOK
<1>2. got'[c] = Append(g, id) /\ got' \in [Subscribers -> Seq(Nat)]
  BY DEF Gets, Shapes
<1> HIDE DEF g
<1>3. Len(got'[c]) = Len(g) + 1 /\ DOMAIN got'[c] = 1 .. Len(g) + 1 /\ got'[c][Len(g) + 1] = id
      /\ \A i \in 1 .. Len(g) : got'[c][i] = g[i]
  BY <1>1, <1>2
<1>4. got'[c] # <<>> /\ Position(c)' = id
  BY <1>1, <1>3 DEF Position
<1>5. base[c] <= Position(c) /\ Position(c) \in Nat /\ \A i \in 1 .. Len(g) : g[i] <= Position(c) /\ g[i] \in Nat
  <2>1. CASE g = <<>>
    BY <1>1, <2>1 DEF Position, g
  <2>2. CASE g # <<>>
    <3>1. Len(g) \in 1 .. Len(g) /\ \A i \in 1 .. Len(g) : g[i] \in Nat
      BY <1>1, <2>2
    <3>2. Position(c) = g[Len(g)]
      BY <2>2 DEF Position, g
    <3>3. \A i \in 1 .. Len(g) : base[c] < g[i] /\ (i < Len(g) => g[i] < g[Len(g)])
      BY <1>1, <3>1 DEF GotOK, g
    <3>4. \A i \in 1 .. Len(g) : g[i] <= g[Len(g)]
      <4> TAKE i \in 1 .. Len(g)
      <4>1. i = Len(g) \/ i < Len(g)
        BY <1>1
      <4> QED BY <3>1, <3>3, <4>1
    <3>5. base[c] < g[Len(g)] /\ g[Len(g)] \in Nat
      BY <3>1, <3>3
    <3> QED BY <1>1, <3>1, <3>2, <3>4, <3>5
  <2> QED BY <2>1, <2>2
<1>6. \A i \in DOMAIN got'[c] : base'[c] < got'[c][i] /\ got'[c][i] >= 1
  <2> TAKE i \in DOMAIN got'[c]
  <2>1. CASE i = Len(g) + 1
    BY <1>1, <1>3, <1>5, <2>1
  <2>2. CASE i \in 1 .. Len(g)
    BY <1>1, <1>3, <2>2 DEF GotOK, g
  <2> QED BY <1>1, <1>3, <2>1, <2>2
<1>7. \A i, j \in DOMAIN got'[c] : i < j => got'[c][i] < got'[c][j]
  <2> SUFFICES ASSUME NEW i \in 1 .. Len(g) + 1, NEW j \in 1 .. Len(g) + 1, i < j
               PROVE  got'[c][i] < got'[c][j]
    BY <1>3
  <2>1. i \in 1 .. Len(g)
    BY <1>1
  <2>2. CASE j = Len(g) + 1
    BY <1>1, <1>3, <1>5, <2>1, <2>2, SMTT(60)
  <2>3. CASE j \in 1 .. Len(g)
    <3>1. g[i] < g[j]
      BY <1>1, <2>1, <2>3 DEF GotOK, g
    <3> QED BY <1>3, <2>1, <2>3, <3>1
  <2> QED BY <1>1, <2>2, <2>3
<1>8. ASSUME NEW n \in Nat, base[c] < n, n <= id, n \notin forgotten[c]
      PROVE  \E i \in DOMAIN got'[c] : got'[c][i] = n
  <2>1. CASE n = id
    BY <1>1, <1>3, <2>1
  <2>2. CASE n <= Position(c)
    <3>1. PICK i \in DOMAIN got[c] : got[c][i] = n
      BY <1>8, <2>2 DEF GotOK
    <3> QED BY <1>1, <1>3, <3>1, SMTT(60) DEF g
  <2>3. CASE Position(c) < n /\ n <= id - 1
    BY <1>8, <2>3 DEF Gone
  <2> QED BY <1>5, <1>8, <2>1, <2>2, <2>3
<1>9. GotOK(c)'
  BY <1>1, <1>4, <1>6, <1>7, <1>8 DEF GotOK, LastID
<1> QED BY <1>2, <1>4, <1>9

-----------------------------------------------------------------------------
(* The steps *)

LEMMA SseInit == Init => SseInv
<1> SUFFICES ASSUME Init PROVE SseInv
  OBVIOUS
<1> USE DEF Init, HubInit
<1>1. RingOK
  <2>1. nextID = 1 /\ LastID = 0 /\ Len(ring) = 0 /\ ring = <<>>
    BY DEF LastID
  <2>2. Consecutive(<<>>, 0, 0)
    BY DEF Consecutive
  <2> QED BY <2>1, <2>2 DEF RingOK
<1>2. Shapes
  BY DEF Shapes, NoSub
<1>3. ASSUME NEW c \in Subscribers PROVE GotOK(c) /\ ConnOK(c)
  <2>1. got[c] = <<>> /\ DOMAIN got[c] = {} /\ base[c] = -1 /\ conn[c] = "none" /\ Position(c) = -1 /\ LastID = 0
    BY DEF Position, LastID
  <2> QED BY <2>1 DEF GotOK, ConnOK
<1> QED BY <1>1, <1>2, <1>3 DEF SseInv

LEMMA SsePublish ==
    ASSUME SseInv, PublishEvent
    PROVE  SseInv'
<1>0. UNCHANGED <<conn, after, replay, got, base, forgotten>> /\ Publish
  BY DEF PublishEvent, sseVars
<1>1. nextID \in Nat /\ LastID \in Nat /\ nextID = LastID + 1 /\ LastID' = nextID /\ BufferCap \in Nat
  BY <1>0, HubAssumption DEF SseInv, RingOK, Publish, LastID
<1>2. RingOK'
  BY <1>0, RingPublish DEF SseInv
<1>3. \A c \in Subscribers : sub'[c] = Offer(sub[c], nextID) /\ sub[c] \in [open : BOOLEAN, buf : Seq(Nat)]
  BY <1>0 DEF Publish, SseInv, Shapes
<1>4. \A c \in Subscribers : sub'[c] \in [open : BOOLEAN, buf : Seq(Nat)]
  <2> SUFFICES ASSUME NEW x \in [open : BOOLEAN, buf : Seq(Nat)]
               PROVE  Offer(x, nextID) \in [open : BOOLEAN, buf : Seq(Nat)]
    BY <1>3
  <2>1. Append(x.buf, nextID) \in Seq(Nat) /\ x.buf \in Seq(Nat)
    BY <1>1
  <2>2. \A b \in Seq(Nat) : \A o \in BOOLEAN : [open |-> o, buf |-> b] \in [open : BOOLEAN, buf : Seq(Nat)]
    OBVIOUS
  <2> QED BY <2>1, <2>2 DEF Offer
<1>5. sub' \in [Subscribers -> [open : BOOLEAN, buf : Seq(Nat)]]
  <2>1. sub' = [s \in Subscribers |-> Offer(sub[s], nextID)]
    BY <1>0 DEF Publish
  <2> QED BY <1>4, <2>1
<1>6. Shapes'
  BY <1>0, <1>5 DEF SseInv, Shapes
<1>7. ASSUME NEW c \in Subscribers PROVE GotOK(c)' /\ ConnOK(c)'
  <2>0. GotOK(c) /\ ConnOK(c) /\ Position(c)' = Position(c)
    BY <1>0 DEF SseInv, Position
  <2>1. GotOK(c)'
    <3>1. Position(c) \in Int
      BY DEF SseInv, Shapes, Position
    <3> QED BY <1>0, <1>1, <2>0, <3>1 DEF GotOK
  <2>2. ASSUME NEW q \in Nat, Ahead(c, q) PROVE Ahead(c, q)'
    <3> DEFINE x == sub[c]
               y == sub'[c]
    <3>1. x.buf \in Seq(Nat) /\ Len(x.buf) \in Nat /\ Consecutive(x.buf, q, q + Len(x.buf)) /\ q + Len(x.buf) <= LastID
          /\ x.open \in BOOLEAN
      BY <1>3, <2>2 DEF Ahead
    <3>2. Consecutive(y.buf, q, q + Len(y.buf)) /\ q + Len(y.buf) <= LastID' /\ (y.open => q + Len(y.buf) = LastID')
      <4>1. CASE x.open /\ Len(x.buf) < BufferCap
        <5>1. y = [open |-> TRUE, buf |-> Append(x.buf, nextID)]
          BY <1>3, <4>1 DEF Offer
        <5>2. q + Len(x.buf) = LastID
          BY <2>2, <4>1 DEF Ahead
        <5>3. Consecutive(Append(x.buf, nextID), q, nextID)
          BY <1>1, <3>1, <5>2, ConsecutiveAppend
        <5>4. Len(y.buf) = Len(x.buf) + 1
          BY <1>1, <3>1, <5>1
        <5> QED BY <1>1, <3>1, <5>1, <5>2, <5>3, <5>4, SMTT(60)
      <4>2. CASE x.open /\ ~(Len(x.buf) < BufferCap)
        <5>1. y = [open |-> FALSE, buf |-> x.buf]
          BY <1>3, <4>2 DEF Offer
        <5> QED BY <1>1, <3>1, <5>1
      <4>3. CASE ~x.open
        <5>1. y = x
          BY <1>3, <4>3 DEF Offer
        <5> QED BY <1>1, <3>1, <4>3, <5>1
      <4> QED BY <4>1, <4>2, <4>3
    <3> QED BY <1>0, <2>0, <2>2, <3>2 DEF Ahead, Gone
  <2>3. ConnOK(c)'
    BY <1>0, <2>0, <2>2 DEF ConnOK
  <2> QED BY <2>1, <2>3
<1> QED BY <1>2, <1>6, <1>7 DEF SseInv

LEMMA SseConnect ==
    ASSUME SseInv, NEW c \in Subscribers, Connect(c)
    PROVE  SseInv'
<1>0. UNCHANGED <<nextID, ring, sub, replay, got, forgotten>> /\ conn[c] = "none"
      /\ conn' = [conn EXCEPT ![c] = "accepted"]
  BY DEF Connect, hubVars
<1>1. PICK a \in IF LastGot(c) # -1 THEN {LastGot(c)} ELSE {0, LastID} :
         after' = [after EXCEPT ![c] = a] /\ base' = [base EXCEPT ![c] = IF got[c] = <<>> THEN a ELSE base[c]]
  BY DEF Connect
<1>2. Shapes /\ RingOK /\ GotOK(c) /\ got[c] \in Seq(Nat) /\ LastID \in Nat /\ base[c] \in Int
  BY DEF SseInv, Shapes, RingOK, LastID
<1>3. got[c] # <<>> => Len(got[c]) \in DOMAIN got[c] /\ LastGot(c) = got[c][Len(got[c])] /\ LastGot(c) \in Nat
  BY <1>2 DEF LastGot
<1>4. a \in Nat /\ (got[c] # <<>> => a = Position(c))
  BY <1>1, <1>2, <1>3 DEF LastGot, Position
<1>5. Shapes'
  BY <1>0, <1>1, <1>2, <1>4 DEF Shapes
<1>6. RingOK'
  BY <1>0, <1>2 DEF RingOK, LastID
<1>7. GotOK(c)' /\ ConnOK(c)'
  <2>1. conn'[c] = "accepted" /\ after'[c] = a /\ base'[c] = (IF got[c] = <<>> THEN a ELSE base[c])
    BY <1>0, <1>1, <1>2 DEF Shapes
  <2>2. CASE got[c] = <<>>
    <3>0. a <= LastID
      BY <1>1, <1>2, <2>2 DEF LastGot
    <3>1. DOMAIN got[c] = {} /\ base'[c] = a /\ Position(c)' = a
      BY <1>0, <2>1, <2>2 DEF Position
    <3>2. GotOK(c)'
      BY <1>0, <1>2, <1>4, <2>2, <3>0, <3>1 DEF GotOK, LastID
    <3> QED BY <2>1, <3>1, <3>2 DEF ConnOK
  <2>3. CASE got[c] # <<>>
    <3>1. base'[c] = base[c] /\ Position(c)' = Position(c) /\ a = Position(c)
      BY <1>0, <1>4, <2>1, <2>3 DEF Position
    <3>2. GotOK(c)'
      BY <1>0, <1>2, <2>3, <3>1 DEF GotOK, LastID
    <3> QED BY <2>1, <3>1, <3>2 DEF ConnOK
  <2> QED BY <2>2, <2>3
<1>8. ASSUME NEW d \in Subscribers, d # c PROVE GotOK(d)' /\ ConnOK(d)'
  BY <1>0, <1>1, <1>2, <1>8, Untouched DEF SseInv, Shapes
<1> QED BY <1>5, <1>6, <1>7, <1>8 DEF SseInv

LEMMA SseServe ==
    ASSUME SseInv, NEW c \in Subscribers, Serve(c)
    PROVE  SseInv'
<1> DEFINE lost == {id \in (after[c] + 1) .. LastID : ~Contains(ring, id)}
           a == after[c]
           first == LastID - Len(ring)
<1>0. /\ UNCHANGED <<nextID, ring, after, got, base>> /\ conn[c] = "accepted"
      /\ conn' = [conn EXCEPT ![c] = "subscribed"]
      /\ sub' = [sub EXCEPT ![c] = [open |-> TRUE, buf |-> <<>>]]
      /\ replay' = [replay EXCEPT ![c] = Replay(a)]
      /\ forgotten' = [forgotten EXCEPT ![c] = forgotten[c] \cup lost]
  BY DEF Serve, Subscribe
<1>1. Shapes /\ RingOK /\ GotOK(c) /\ a \in Nat /\ LastID \in Nat /\ a = Position(c) /\ a <= LastID
  BY <1>0 DEF SseInv, Shapes, RingOK, LastID, ConnOK, GotOK
<1>2. Consecutive(ring, first, LastID) /\ first \in Nat
  BY <1>1 DEF RingOK, Consecutive
<1> HIDE DEF first, a
<1> DEFINE p == Larger(a, first)
<1>3. Consecutive(Replay(a), p, LastID)
  <2>1. Larger(a, LastID) = LastID
    BY <1>1 DEF Larger
  <2> QED BY <1>1, <1>2, <2>1, ConsecutiveFilter DEF Replay
<1>4. p \in Nat /\ Replay(a) \in Seq(Nat) /\ p = LastID - Len(Replay(a)) /\ a <= p
  BY <1>1, <1>2, <1>3 DEF Larger, Consecutive
<1>5. \A id \in Nat : a < id /\ id <= p => id \in lost
  <2> SUFFICES ASSUME NEW id \in Nat, a < id, id <= p PROVE id \in lost
    OBVIOUS
  <2>1. id <= first /\ first <= LastID
    BY <1>1, <1>2 DEF Larger, Consecutive
  <2>2. ~Contains(ring, id)
    BY <1>2, <2>1 DEF Contains, Consecutive
  <2> QED BY <1>1, <1>2, <2>1, <2>2 DEF a
<1> HIDE DEF p
<1>6. lost \subseteq Nat
  BY <1>1 DEF a
<1> HIDE DEF lost
<1>7. Shapes'
  <2>1. [open |-> TRUE, buf |-> <<>>] \in [open : BOOLEAN, buf : Seq(Nat)]
    OBVIOUS
  <2> QED BY <1>0, <1>1, <1>4, <1>6, <2>1 DEF Shapes
<1>8. RingOK'
  BY <1>0, <1>1 DEF RingOK, LastID
<1>9. /\ conn'[c] = "subscribed" /\ sub'[c] = [open |-> TRUE, buf |-> <<>>] /\ replay'[c] = Replay(a)
      /\ forgotten'[c] = forgotten[c] \cup lost /\ Position(c)' = Position(c) /\ LastID' = LastID
  BY <1>0, <1>1 DEF Shapes, Position, LastID
<1>10. GotOK(c)'
  BY <1>0, <1>1, <1>9 DEF GotOK
<1>11. Ahead(c, LastID)'
  <2>1. Consecutive(<<>>, LastID, LastID + Len(<<>>)) /\ LastID + Len(<<>>) = LastID
    BY <1>1 DEF Consecutive
  <2>2. \A id \in Nat : Position(c) < id /\ id <= p => id \in forgotten'[c]
    BY <1>1, <1>5, <1>9
  <2>3. LastID - Len(replay'[c]) = p /\ Consecutive(replay'[c], p, LastID) /\ Position(c) <= p
    BY <1>1, <1>3, <1>4, <1>9
  <2>4. sub'[c].buf = <<>>
    BY <1>9
  <2> QED BY <1>1, <1>9, <2>1, <2>2, <2>3, <2>4 DEF Ahead, Gone
<1>12. ConnOK(c)'
  BY <1>1, <1>9, <1>11 DEF ConnOK
<1>13. ASSUME NEW d \in Subscribers, d # c PROVE GotOK(d)' /\ ConnOK(d)'
  BY <1>0, <1>1, <1>13, Untouched DEF SseInv, Shapes
<1> QED BY <1>7, <1>8, <1>10, <1>12, <1>13 DEF SseInv

LEMMA SseWriteReplay ==
    ASSUME SseInv, NEW c \in Subscribers, WriteReplay(c)
    PROVE  SseInv'
<1>0. /\ UNCHANGED <<nextID, ring, sub, conn, after, base, forgotten>> /\ conn[c] = "subscribed" /\ replay[c] # <<>>
      /\ Gets(c, Head(replay[c])) /\ replay' = [replay EXCEPT ![c] = Tail(replay[c])]
  BY DEF WriteReplay, hubVars
<1>1. Shapes /\ RingOK /\ GotOK(c) /\ LastID \in Nat /\ replay[c] \in Seq(Nat)
  BY DEF SseInv, Shapes, RingOK, LastID
<1>2. PICK q \in Nat : Ahead(c, q)
  BY <1>0 DEF SseInv, ConnOK
<1> DEFINE p == q - Len(replay[c])
<1>3. Consecutive(replay[c], p, q) /\ Position(c) <= p /\ Gone(c, Position(c), p) /\ q + Len(sub[c].buf) <= LastID
      /\ Len(sub[c].buf) \in Nat
  BY <1>1, <1>2 DEF Ahead, Shapes
<1>4. Head(replay[c]) = p + 1 /\ Consecutive(Tail(replay[c]), p + 1, q)
  BY <1>0, <1>3, ConsecutiveTail
<1> HIDE DEF p
<1>5. p \in Nat /\ p + 1 <= LastID /\ p + 1 = q - Len(Tail(replay[c])) /\ Tail(replay[c]) \in Seq(Nat)
  <2>1. p \in Nat
    BY <1>3 DEF Consecutive
  <2>2. p + 1 <= q /\ Tail(replay[c]) \in Seq(Nat) /\ Len(Tail(replay[c])) = q - (p + 1)
    BY <1>4 DEF Consecutive
  <2>3. p + 1 <= LastID
    BY <1>1, <1>3, <2>1, <2>2
  <2> DEFINE n == Len(Tail(replay[c]))
  <2>4. n = q - (p + 1)
    BY <2>2
  <2> HIDE DEF n
  <2>5. p + 1 = q - n
    BY <2>1, <2>4
  <2> QED BY <2>1, <2>2, <2>3, <2>5 DEF n
<1>5a. Position(c) \in Int
  BY <1>1 DEF Shapes, Position
<1>6. GotOK(c)' /\ Position(c)' = p + 1 /\ got' \in [Subscribers -> Seq(Nat)]
  <2>1. (p + 1) - 1 = p /\ p + 1 \in Nat /\ Position(c) < p + 1
    BY <1>3, <1>5, <1>5a
  <2> QED BY <1>0, <1>1, <1>3, <1>4, <1>5, <2>1, GotNext
<1>7. Shapes' /\ RingOK'
  BY <1>0, <1>1, <1>5, <1>6 DEF Shapes, RingOK, LastID
<1>8. replay'[c] = Tail(replay[c]) /\ LastID' = LastID
  BY <1>0, <1>1 DEF Shapes, LastID
<1>9. Ahead(c, q)'
  <2>1. \A id \in Nat : p + 1 < id /\ id <= p + 1 => id \in forgotten'[c]
    BY <1>5
  <2>2. Consecutive(replay'[c], q - Len(replay'[c]), q) /\ q - Len(replay'[c]) = p + 1
    BY <1>4, <1>5, <1>8
  <2>3. Position(c)' <= p + 1
    BY <1>5, <1>6
  <2> QED BY <1>0, <1>2, <1>6, <1>8, <2>1, <2>2, <2>3 DEF Ahead, Gone
<1>10. ConnOK(c)'
  BY <1>0, <1>9 DEF ConnOK
<1>11. ASSUME NEW d \in Subscribers, d # c PROVE GotOK(d)' /\ ConnOK(d)'
  <2>1. got'[d] = got[d] /\ replay'[d] = replay[d]
    BY <1>0, <1>1, <1>11 DEF Shapes, Gets
  <2> QED BY <1>0, <2>1, Untouched DEF SseInv
<1> QED BY <1>6, <1>7, <1>10, <1>11 DEF SseInv

LEMMA SseWriteLive ==
    ASSUME SseInv, NEW c \in Subscribers, WriteLive(c)
    PROVE  SseInv'
<1> DEFINE x == sub[c]
<1>0. /\ UNCHANGED <<nextID, ring, replay, conn, after, base, forgotten>> /\ conn[c] = "subscribed" /\ replay[c] = <<>>
      /\ Gets(c, Head(x.buf)) /\ x.buf # <<>> /\ sub' = [sub EXCEPT ![c] = [open |-> x.open, buf |-> Tail(x.buf)]]
  BY DEF WriteLive, Receive
<1>1. Shapes /\ RingOK /\ GotOK(c) /\ LastID \in Nat /\ x.buf \in Seq(Nat) /\ x.open \in BOOLEAN /\ Len(replay[c]) = 0
  BY <1>0 DEF SseInv, Shapes, RingOK, LastID
<1>2. PICK q \in Nat : Ahead(c, q)
  BY <1>0 DEF SseInv, ConnOK
<1>3. Position(c) <= q /\ Gone(c, Position(c), q) /\ Consecutive(x.buf, q, q + Len(x.buf))
  <2>1. q - Len(replay[c]) = q
    BY <1>1
  <2> QED BY <1>2, <2>1 DEF Ahead
<1>4. Head(x.buf) = q + 1 /\ Consecutive(Tail(x.buf), q + 1, q + Len(x.buf))
  BY <1>0, <1>3, ConsecutiveTail
<1>5. q + 1 \in Nat /\ q + 1 <= LastID /\ Len(Tail(x.buf)) = Len(x.buf) - 1 /\ Tail(x.buf) \in Seq(Nat) /\ Len(x.buf) \in Nat
  <2>1. q + Len(x.buf) <= LastID
    BY <1>2 DEF Ahead
  <2>2. Len(x.buf) \in Nat /\ Len(x.buf) # 0
    BY <1>0, <1>1
  <2> QED BY <1>1, <1>4, <2>1, <2>2 DEF Consecutive
<1>5a. Position(c) \in Int
  BY <1>1 DEF Shapes, Position
<1>6. GotOK(c)' /\ Position(c)' = q + 1 /\ got' \in [Subscribers -> Seq(Nat)]
  <2>1. (q + 1) - 1 = q /\ Position(c) < q + 1
    BY <1>3, <1>5a
  <2> QED BY <1>0, <1>1, <1>3, <1>4, <1>5, <2>1, GotNext
<1>7. Shapes' /\ RingOK'
  <2>1. [open |-> x.open, buf |-> Tail(x.buf)] \in [open : BOOLEAN, buf : Seq(Nat)]
    BY <1>1, <1>5
  <2> HIDE DEF x
  <2>2. sub' \in [Subscribers -> [open : BOOLEAN, buf : Seq(Nat)]]
    BY <1>0, <1>1, <2>1 DEF Shapes
  <2> QED BY <1>0, <1>1, <1>6, <2>2 DEF Shapes, RingOK, LastID
<1>8. sub'[c] = [open |-> x.open, buf |-> Tail(x.buf)] /\ LastID' = LastID
  BY <1>0, <1>1 DEF Shapes, LastID
<1>9. Ahead(c, q + 1)'
  <2>1. Gone(c, q + 1, q + 1)' /\ Consecutive(<<>>, q + 1, q + 1)
    BY <1>5 DEF Gone, Consecutive
  <2>2. (q + 1) + Len(Tail(x.buf)) = q + Len(x.buf) /\ (q + 1) - Len(replay[c]) = q + 1
    <3>1. \A n \in Nat : (q + 1) + (n - 1) = q + n /\ (q + 1) - 0 = q + 1
      OBVIOUS
    <3> HIDE DEF x
    <3> QED BY <1>1, <1>5, <3>1
  <2>3. q + Len(x.buf) <= LastID /\ (x.open => q + Len(x.buf) = LastID)
    BY <1>2 DEF Ahead
  <2> QED BY <1>0, <1>4, <1>5, <1>6, <1>8, <2>1, <2>2, <2>3 DEF Ahead, Gone
<1>10. ConnOK(c)'
  BY <1>0, <1>5, <1>9 DEF ConnOK
<1>11. ASSUME NEW d \in Subscribers, d # c PROVE GotOK(d)' /\ ConnOK(d)'
  <2>1. got'[d] = got[d] /\ sub'[d] = sub[d]
    BY <1>0, <1>1, <1>11 DEF Shapes, Gets
  <2> QED BY <1>0, <2>1, Untouched DEF SseInv
<1> QED BY <1>6, <1>7, <1>10, <1>11 DEF SseInv

LEMMA SseHangup ==
    ASSUME SseInv, NEW c \in Subscribers, Hangup(c), UNCHANGED <<after, got, base, forgotten>>
    PROVE  SseInv'
<1>0. /\ UNCHANGED <<nextID, ring>> /\ conn' = [conn EXCEPT ![c] = "none"] /\ sub' = [sub EXCEPT ![c] = NoSub]
      /\ replay' = [replay EXCEPT ![c] = <<>>]
  BY DEF Hangup, Close
<1>1. Shapes /\ RingOK /\ GotOK(c)
  BY DEF SseInv
<1>2. Shapes' /\ RingOK'
  <2>1. NoSub \in [open : BOOLEAN, buf : Seq(Nat)] /\ <<>> \in Seq(Nat)
    BY DEF NoSub
  <2> QED BY <1>0, <1>1, <2>1 DEF Shapes, RingOK, LastID
<1>3. GotOK(c)' /\ ConnOK(c)'
  <2>1. conn'[c] = "none" /\ Position(c)' = Position(c) /\ LastID' = LastID
    BY <1>0, <1>1 DEF Shapes, Position, LastID
  <2> QED BY <1>1, <2>1 DEF GotOK, ConnOK
<1>4. ASSUME NEW d \in Subscribers, d # c PROVE GotOK(d)' /\ ConnOK(d)'
  BY <1>0, <1>1, <1>4, Untouched DEF SseInv, Shapes
<1> QED BY <1>2, <1>3, <1>4 DEF SseInv

LEMMA SseStep == SseInv /\ [Next]_vars => SseInv'
<1> SUFFICES ASSUME SseInv, [Next]_vars PROVE SseInv'
  OBVIOUS
<1>1. CASE PublishEvent
  BY <1>1, SsePublish
<1>2. ASSUME NEW c \in Subscribers, Connect(c) \/ Handler(c) \/ ConnectionLost(c) PROVE SseInv'
  <2>1. CASE EndCutOff(c) \/ ConnectionLost(c)
    BY <2>1, SseHangup DEF EndCutOff, ConnectionLost
  <2> QED BY <1>2, <2>1, SseConnect, SseServe, SseWriteReplay, SseWriteLive DEF Handler
<1>3. CASE UNCHANGED vars
  <2>1. UNCHANGED <<nextID, ring, sub, conn, after, replay, got, base, forgotten>>
    BY <1>3 DEF vars, hubVars, sseVars
  <2> QED BY <2>1, Untouched DEF SseInv, RingOK, Shapes, LastID
<1> QED BY <1>1, <1>2, <1>3 DEF Next

LEMMA SseProperty == SseInv => NothingMissedOrRepeated
<1> SUFFICES ASSUME SseInv, NEW c \in Subscribers, got[c] # <<>>
             PROVE  (base[c] + 1) .. LastGot(c) \ forgotten[c] = Range(got[c]) \ forgotten[c]
  BY DEF SseInv, GotOK, NothingMissedOrRepeated
<1>1. GotOK(c) /\ got[c] \in Seq(Nat) /\ base[c] \in Nat /\ LastGot(c) = Position(c)
  BY DEF SseInv, Shapes, GotOK, LastGot, Position
<1>2. Len(got[c]) \in DOMAIN got[c] /\ DOMAIN got[c] = 1 .. Len(got[c]) /\ Position(c) = got[c][Len(got[c])]
      /\ \A i \in DOMAIN got[c] : got[c][i] \in Nat
  BY <1>1 DEF Position
<1>3. ASSUME NEW i \in DOMAIN got[c] PROVE got[c][i] \in (base[c] + 1) .. LastGot(c)
  <2>1. i = Len(got[c]) \/ i < Len(got[c])
    BY <1>2
  <2>2. got[c][i] <= Position(c)
    BY <1>1, <1>2, <2>1 DEF GotOK
  <2> QED BY <1>1, <1>2, <2>2 DEF GotOK
<1>4. ASSUME NEW id \in (base[c] + 1) .. LastGot(c), id \notin forgotten[c] PROVE id \in Range(got[c])
  <2>1. id \in Nat /\ base[c] < id /\ id <= Position(c)
    BY <1>1, <1>2
  <2> QED BY <1>1, <1>4, <2>1 DEF GotOK, Range
<1> QED BY <1>3, <1>4 DEF Range

\* No client misses or repeats an event, for any ring, any buffer, any number of clients, reconnects and cut-offs: the
\* replay of Subscribe and the live stream join without a seam.
THEOREM NoEventIsMissedOrRepeated == Spec => []NothingMissedOrRepeated
<1> QED BY SseInit, SseStep, SseProperty, PTL DEF Spec
=============================================================================
