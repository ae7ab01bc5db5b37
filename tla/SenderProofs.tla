---------------------------- MODULE SenderProofs ----------------------------
(***************************************************************************)
(* Proofs about the webhook sender (WebhookSender): for any number of       *)
(* endpoints, any capacities, any number of events and retries, every event *)
(* is accounted for, the event that is being pushed finds room, and no      *)
(* receiver gets an older event after a newer one.                          *)
(***************************************************************************)
EXTENDS WebhookSender, IterationProofs

-----------------------------------------------------------------------------
(* The invariant *)

RingOK ==
    nextID \in Nat \ {0} /\ Consecutive(ring, LastID - Len(ring), LastID) /\ (LastID > 0 => Len(ring) > 0)

Shapes ==
    /\ sub \in [Subscribers -> [open : BOOLEAN, buf : Seq(Nat)]]
    /\ last \in Int /\ base \in Nat /\ replay \in Seq(Nat) /\ at \in 0 .. NumEndpoints
    /\ queue \in [Endpoints -> Seq(Nat)] /\ hand \in [Endpoints -> Int] /\ received \in [Endpoints -> Nat]
    /\ {delivered, failed, dropped, pushed} \subseteq Nat
    /\ forgotten \subseteq Nat /\ IsFiniteSet(forgotten)
    /\ at = 0 => stage # "again"

\* what is left of the replay ends with event q, and the buffer goes on after it; what lies between the last event that
\* was handed on and the replay, and nothing later, is forgotten; and a replay never consists of a gap
Ahead(q) ==
    LET first == q - Len(replay)
        buf == sub[Pump].buf
    IN  /\ Consecutive(replay, first, q)
        /\ Consecutive(buf, q, q + Len(buf))
        /\ q + Len(buf) <= LastID
        /\ sub[Pump].open => q + Len(buf) = LastID
        /\ last <= first
        /\ last # first => replay # <<>>
        /\ \A id \in Nat : last < id /\ id <= first => id \in forgotten
        /\ \A id \in forgotten : id <= first

PumpOK ==
    /\ last < 0 => at = 0
    /\ last = -1 => replay = <<>> /\ sub[Pump] = NoSub /\ forgotten = {} /\ pushed = 0
    /\ last >= 0 => \E q \in Nat : Ahead(q)

\* the newest event that endpoint e can have
Newest(e) == IF at # 0 /\ at <= e THEN last - 1 ELSE last

\* the events of endpoint e stand in line: received, in hand, in the queue
LineOK(e) ==
    /\ Len(queue[e]) <= QueueCap
    /\ hand[e] > 0 => received[e] <= hand[e]
    /\ \A i \in DOMAIN queue[e] : queue[e][i] >= 1 /\ queue[e][i] > hand[e] /\ queue[e][i] > received[e]
    /\ \A i, j \in DOMAIN queue[e] : i < j => queue[e][i] < queue[e][j]
    /\ last = -1 => queue[e] = <<>> /\ hand[e] <= 0 /\ received[e] = 0
    /\ last >= 0 => /\ hand[e] <= Newest(e) /\ received[e] <= Newest(e)
                    /\ \A i \in DOMAIN queue[e] : queue[e][i] <= Newest(e)

LinesOK == \A e \in Endpoints : LineOK(e)

\* the two parts of Accounted
Waiting == SumOver([e \in Endpoints |-> OnTheWay(e)], Endpoints)
Counted == pushed = delivered + failed + dropped + Waiting
HandedOn == last - base - Cardinality({id \in forgotten : id <= last})
Rounds ==
    last >= 0 => pushed = NumEndpoints * HandedOn - (IF at = 0 THEN 0 ELSE NumEndpoints - at + 1)

SenderInv == RingOK /\ Shapes /\ PumpOK /\ LinesOK /\ Counted /\ Rounds /\ NewestIsKept

-----------------------------------------------------------------------------
(* Lemmas: what a step leaves alone *)

LEMMA Constants ==
    /\ Pump \in Subscribers /\ IsFiniteSet(Endpoints) /\ NumEndpoints \in Nat \ {0} /\ QueueCap \in Nat \ {0}
    /\ RingCap \in Nat \ {0} /\ BufferCap \in Nat \ {0}
  BY SenderAssumption, HubAssumption, FS_Interval DEF Endpoints

LEMMA PumpSame ==
    ASSUME PumpOK, UNCHANGED <<nextID, sub, last, replay, forgotten>>, last < 0 => at' = at,
           last = -1 => pushed' = pushed
    PROVE  PumpOK'
<1>1. \A q \in Nat : Ahead(q) => Ahead(q)'
  BY DEF Ahead, LastID
<1> QED BY <1>1 DEF PumpOK

LEMMA LinesSame ==
    ASSUME LinesOK, UNCHANGED <<queue, hand, received, last, at>>
    PROVE  LinesOK'
BY DEF LinesOK, LineOK, Newest

\* the line of another endpoint
LEMMA LineSame ==
    ASSUME NEW e \in Endpoints, LineOK(e), queue'[e] = queue[e], hand'[e] = hand[e], received'[e] = received[e],
           last' = last, Newest(e)' = Newest(e)
    PROVE  LineOK(e)'
BY DEF LineOK

LEMMA WaitingSame ==
    ASSUME UNCHANGED <<queue, hand>>
    PROVE  Waiting' = Waiting
BY DEF Waiting, OnTheWay

LEMMA RoundsSame ==
    ASSUME Rounds, UNCHANGED <<last, base, at, forgotten, pushed>>
    PROVE  Rounds'
BY DEF Rounds, HandedOn

LEMMA OnTheWayType ==
    ASSUME Shapes
    PROVE  \A e \in Endpoints : OnTheWay(e) \in Nat
BY DEF Shapes, OnTheWay

\* what is on its way changes with one endpoint
LEMMA WaitingChange ==
    ASSUME Shapes, Shapes', NEW e \in Endpoints,
           \A d \in Endpoints : d # e => queue'[d] = queue[d] /\ hand'[d] = hand[d]
    PROVE  /\ Waiting \in Nat /\ Waiting' \in Nat /\ OnTheWay(e) \in Nat /\ OnTheWay(e)' \in Nat
           /\ Waiting' + OnTheWay(e) = Waiting + OnTheWay(e)'
<1> DEFINE f == [d \in Endpoints |-> OnTheWay(d)]
           g == [d \in Endpoints |-> OnTheWay(d)']
<1>1. \A d \in Endpoints : OnTheWay(d) \in Nat
  BY OnTheWayType
<1>2. \A d \in Endpoints : OnTheWay(d)' \in Nat
  <2> TAKE d \in Endpoints
  <2>1. Len(queue'[d]) \in Nat
    BY DEF Shapes
  <2>2. OnTheWay(d)' = Len(queue'[d]) + 1 \/ OnTheWay(d)' = Len(queue'[d]) + 0
    BY DEF OnTheWay
  <2> QED BY <2>1, <2>2
<1>3. \A d \in Endpoints : d # e => OnTheWay(d)' = OnTheWay(d)
  BY DEF OnTheWay
<1>4. f[e] = OnTheWay(e) /\ g[e] = OnTheWay(e)' /\ \A d \in Endpoints : f[d] = OnTheWay(d) /\ g[d] = OnTheWay(d)'
  OBVIOUS
<1>5. Waiting = SumOver(f, Endpoints) /\ Waiting' = SumOver(g, Endpoints)
  BY DEF Waiting, Endpoints
<1> HIDE DEF f, g
<1>6. \A d \in Endpoints : f[d] \in Nat /\ g[d] \in Nat
  BY <1>1, <1>2, <1>4
<1>7. \A d \in Endpoints : d # e => f[d] = g[d]
  BY <1>3, <1>4
<1>8. IsFiniteSet(Endpoints)
  BY Constants
<1>9. SumOver(f, Endpoints) \in Nat /\ SumOver(g, Endpoints) \in Nat
      /\ SumOver(g, Endpoints) + f[e] = SumOver(f, Endpoints) + g[e]
  BY <1>6, <1>7, <1>8, SumChange
<1> QED BY <1>1, <1>2, <1>4, <1>5, <1>9

-----------------------------------------------------------------------------
(* The hub *)

LEMMA SenderInit == Init => SenderInv
<1> SUFFICES ASSUME Init PROVE SenderInv
  OBVIOUS
<1> USE DEF Init, HubInit
<1>1. RingOK
  <2>1. nextID = 1 /\ LastID = 0 /\ Len(ring) = 0 /\ ring = <<>>
    BY DEF LastID
  <2>2. Consecutive(<<>>, 0, 0)
    BY DEF Consecutive
  <2> QED BY <2>1, <2>2 DEF RingOK
<1>2. Shapes
  BY Constants, FS_EmptySet DEF Shapes, NoSub
<1>3. PumpOK
  BY Constants DEF PumpOK
<1>4. LinesOK
  <2> SUFFICES ASSUME NEW e \in Endpoints PROVE LineOK(e)
    BY DEF LinesOK
  <2>1. queue[e] = <<>> /\ Len(queue[e]) = 0 /\ DOMAIN queue[e] = {} /\ hand[e] = 0 /\ last = -1
    OBVIOUS
  <2> QED BY <2>1, Constants DEF LineOK
<1>5. Counted
  <2> DEFINE f == [e \in Endpoints |-> OnTheWay(e)]
             z == [e \in Endpoints |-> 0]
  <2>1. \A e \in Endpoints : f[e] = 0 /\ z[e] = 0
    BY DEF OnTheWay
  <2> HIDE DEF f
  <2> DEFINE X == {T \in SUBSET Endpoints : SumOver(f, T) = 0}
  <2>2. ASSUME NEW T \in SUBSET Endpoints, \A U \in SUBSET T : U # T => U \in X PROVE T \in X
    <3>1. SumOver(f, T) = IF T = {} THEN 0 ELSE f[Pick(T)] + SumOver(f, T \ {Pick(T)})
      BY Constants, FS_Subset, SumEquation
    <3>2. T # {} => Pick(T) \in T /\ T \ {Pick(T)} \in X
      BY <2>2 DEF Pick
    <3> QED BY <2>1, <3>1, <3>2
  <2>3. \A T \in SUBSET Endpoints : T \in X
    <3> HIDE DEF X
    <3> QED BY <2>2, Constants, SubsetInduction
  <2>4. Waiting = 0
    BY <2>3 DEF Waiting, f
  <2> QED BY <2>4 DEF Counted
<1>6. Rounds /\ NewestIsKept
  BY DEF Rounds, NewestIsKept
<1> QED BY <1>1, <1>2, <1>3, <1>4, <1>5, <1>6 DEF SenderInv

\* what Publish makes of the subscription of the pump
LEMMA Offered ==
    ASSUME NEW x \in [open : BOOLEAN, buf : Seq(Nat)], NEW ev \in Nat
    PROVE  Offer(x, ev) \in [open : BOOLEAN, buf : Seq(Nat)]
<1>1. Append(x.buf, ev) \in Seq(Nat) /\ x.buf \in Seq(Nat)
  OBVIOUS
<1>2. \A b \in Seq(Nat) : \A o \in BOOLEAN : [open |-> o, buf |-> b] \in [open : BOOLEAN, buf : Seq(Nat)]
  OBVIOUS
<1> QED BY <1>1, <1>2 DEF Offer

LEMMA SenderPublish ==
    ASSUME SenderInv, PublishEvent
    PROVE  SenderInv'
<1>0. /\ UNCHANGED <<last, base, replay, at, stage, hand, received, delivered, failed, queue, dropped, pushed, forgotten>>
      /\ Publish
  BY DEF PublishEvent, pumpVars, workerVars
<1>1. nextID \in Nat \ {0} /\ LastID \in Nat /\ LastID = nextID - 1 /\ LastID' = nextID /\ nextID' = nextID + 1
  BY <1>0 DEF SenderInv, RingOK, Publish, LastID
<1>2. RingOK'
  <2>1. Consecutive(ring', nextID - Len(ring'), nextID) /\ Len(ring') > 0
    BY <1>0, <1>1, Constants, KeepLast DEF SenderInv, RingOK, Publish, LastN
  <2> QED BY <1>1, <2>1 DEF RingOK
<1>3. sub' = [s \in Subscribers |-> Offer(sub[s], nextID)] /\ sub \in [Subscribers -> [open : BOOLEAN, buf : Seq(Nat)]]
  BY <1>0 DEF Publish, SenderInv, Shapes
<1>4. \A s \in Subscribers : Offer(sub[s], nextID) \in [open : BOOLEAN, buf : Seq(Nat)]
  BY <1>1, <1>3, Offered
<1>5. Shapes'
  <2>1. sub' \in [Subscribers -> [open : BOOLEAN, buf : Seq(Nat)]]
    BY <1>3, <1>4
  <2> QED BY <1>0, <2>1 DEF SenderInv, Shapes
<1>6. PumpOK'
  <2> DEFINE x == sub[Pump]
             y == sub'[Pump]
  <2>1. y = Offer(x, nextID) /\ x \in [open : BOOLEAN, buf : Seq(Nat)]
    BY <1>3, Constants
  <2>2. x = NoSub => y = NoSub
    BY <2>1 DEF Offer, NoSub
  <2>3. ASSUME NEW q \in Nat, Ahead(q) PROVE Ahead(q)'
    <3>1. x.buf \in Seq(Nat) /\ Len(x.buf) \in Nat /\ Consecutive(x.buf, q, q + Len(x.buf)) /\ q + Len(x.buf) <= LastID
          /\ x.open \in BOOLEAN
      BY <2>1, <2>3 DEF Ahead
    <3>2. Consecutive(y.buf, q, q + Len(y.buf)) /\ q + Len(y.buf) <= LastID' /\ (y.open => q + Len(y.buf) = LastID')
      <4>1. CASE x.open /\ Len(x.buf) < BufferCap
        <5>1. y = [open |-> TRUE, buf |-> Append(x.buf, nextID)]
          BY <2>1, <4>1 DEF Offer
        <5>2. q + Len(x.buf) = LastID /\ LastID + 1 = nextID
          BY <1>1, <2>3, <4>1 DEF Ahead
        <5>3. Consecutive(Append(x.buf, nextID), q, nextID)
          BY <1>1, <3>1, <5>2, ConsecutiveAppend
        <5>4. Len(y.buf) = Len(x.buf) + 1
          BY <1>1, <3>1, <5>1
        <5> QED BY <1>1, <3>1, <5>1, <5>2, <5>3, <5>4
      <4>2. CASE x.open /\ ~(Len(x.buf) < BufferCap)
        <5>1. y = [open |-> FALSE, buf |-> x.buf]
          BY <2>1, <4>2 DEF Offer
        <5> QED BY <1>1, <3>1, <5>1
      <4>3. CASE ~x.open
        <5>1. y = x
          BY <2>1, <4>3 DEF Offer
        <5> QED BY <1>1, <3>1, <4>3, <5>1
      <4> QED BY <4>1, <4>2, <4>3
    <3> QED BY <1>0, <2>3, <3>2 DEF Ahead
  <2> QED BY <1>0, <2>2, <2>3 DEF SenderInv, PumpOK
<1>7. LinesOK' /\ Rounds' /\ NewestIsKept'
  BY <1>0, LinesSame, RoundsSame DEF SenderInv, NewestIsKept, HasRoom
<1>8. Counted'
  BY <1>0, WaitingSame DEF SenderInv, Counted
<1> QED BY <1>2, <1>5, <1>6, <1>7, <1>8 DEF SenderInv

-----------------------------------------------------------------------------
(* The workers *)

\* a step of the worker of e leaves the pump alone and loses no event
LEMMA WorkerFrame ==
    ASSUME SenderInv, UNCHANGED <<nextID, ring, sub, last, base, replay, at, stage, pushed, forgotten>>
    PROVE  RingOK' /\ PumpOK' /\ Rounds'
BY PumpSame, RoundsSame DEF SenderInv, RingOK, LastID

LEMMA SenderTakes ==
    ASSUME SenderInv, NEW e \in Endpoints, WorkerTakes(e)
    PROVE  SenderInv' /\ UNCHANGED received
<1> DEFINE b == queue[e]
<1>0. /\ UNCHANGED <<nextID, ring, sub, last, base, replay, at, stage, pushed, forgotten, received, delivered, failed, dropped>>
      /\ hand[e] = 0 /\ b # <<>> /\ hand' = [hand EXCEPT ![e] = Head(b)] /\ queue' = [queue EXCEPT ![e] = Tail(b)]
  BY DEF WorkerTakes, hubVars, pumpVars
<1>1. RingOK' /\ PumpOK' /\ Rounds'
  BY <1>0, WorkerFrame
<1>2. b \in Seq(Nat) /\ Len(b) \in Nat /\ Len(b) # 0 /\ DOMAIN b = 1 .. Len(b) /\ LineOK(e) /\ Shapes /\ received[e] \in Nat
  BY <1>0 DEF SenderInv, Shapes, LinesOK
<1>3. Head(b) = b[1] /\ b[1] \in Nat /\ b[1] >= 1 /\ Tail(b) \in Seq(Nat) /\ Len(Tail(b)) = Len(b) - 1
      /\ \A i \in 1 .. Len(b) - 1 : Tail(b)[i] = b[i + 1] /\ i + 1 \in DOMAIN b /\ b[1] < b[i + 1]
  BY <1>2, SMTT(60) DEF LineOK
<1>4. queue'[e] = Tail(b) /\ hand'[e] = b[1] /\ \A d \in Endpoints : d # e => queue'[d] = queue[d] /\ hand'[d] = hand[d]
  BY <1>0, <1>2, <1>3 DEF Shapes
<1>5. Shapes'
  BY <1>0, <1>2, <1>3 DEF Shapes
<1>6. LinesOK'
  <2>1. ASSUME NEW d \in Endpoints, d # e PROVE LineOK(d)'
    BY <1>0, <1>4, <2>1, LineSame DEF SenderInv, LinesOK, Newest
  <2>2. LineOK(e)'
    <3>1. Newest(e)' = Newest(e) /\ 1 \in DOMAIN b
      BY <1>0, <1>2 DEF Newest
    <3>2. DOMAIN queue'[e] = 1 .. Len(b) - 1 /\ Len(queue'[e]) <= QueueCap
      BY <1>2, <1>3, <1>4, Constants DEF LineOK
    <3>3. \A i \in 1 .. Len(b) - 1 : queue'[e][i] = b[i + 1] /\ i + 1 \in DOMAIN b /\ b[1] < b[i + 1]
      BY <1>3, <1>4
    <3>4. \A i, j \in 1 .. Len(b) - 1 : i < j => queue'[e][i] < queue'[e][j]
      <4> TAKE i, j \in 1 .. Len(b) - 1
      <4> HAVE i < j
      <4>1. i + 1 < j + 1
        BY <1>2
      <4> QED BY <1>2, <3>3, <4>1 DEF LineOK
    <3>5. received[e] < b[1]
      BY <1>2, <3>1 DEF LineOK
    <3>6. \A i \in 1 .. Len(b) - 1 : queue'[e][i] >= 1 /\ queue'[e][i] > received[e]
      BY <1>2, <3>3 DEF LineOK
    <3>7. last >= 0 => b[1] <= Newest(e) /\ \A i \in 1 .. Len(b) - 1 : queue'[e][i] <= Newest(e)
      BY <1>2, <3>1, <3>3 DEF LineOK
    <3>8. last >= 0 => received[e] <= Newest(e)
      BY <1>2 DEF LineOK
    <3>9. b[1] > received[e] /\ received[e] <= b[1] /\ \A i \in 1 .. Len(b) - 1 : queue'[e][i] > b[1]
      <4>1. \A i \in 1 .. Len(b) - 1 : queue'[e][i] \in Nat
        BY <1>2, <3>3
      <4> QED BY <1>2, <1>3, <3>3, <3>5, <4>1
    <3>10. last # -1
      BY <1>0, <1>2 DEF LineOK
    <3> HIDE DEF b
    <3> QED BY <1>0, <1>4, <3>1, <3>2, <3>4, <3>6, <3>7, <3>8, <3>9, <3>10 DEF LineOK
  <2> QED BY <2>1, <2>2 DEF LinesOK
<1>7. Counted'
  <2>1. OnTheWay(e) = Len(b) /\ OnTheWay(e)' = Len(b)
    <3>1. OnTheWay(e) = Len(b)
      BY <1>0, <1>2 DEF OnTheWay
    <3>2. hand'[e] > 0 /\ Len(queue'[e]) = Len(b) - 1
      BY <1>3, <1>4
    <3>3. OnTheWay(e)' = (Len(b) - 1) + 1
      <4> HIDE DEF b
      <4> QED BY <3>2 DEF OnTheWay
    <3> QED BY <1>2, <3>1, <3>3
  <2>2. Waiting \in Nat /\ Waiting' \in Nat /\ Waiting' + OnTheWay(e) = Waiting + OnTheWay(e)'
    BY <1>2, <1>4, <1>5, WaitingChange
  <2>3. Waiting' = Waiting
    BY <1>2, <2>1, <2>2
  <2> QED BY <1>0, <2>3 DEF SenderInv, Counted
<1>8. NewestIsKept'
  <2>1. ASSUME at # 0, stage = "again" PROVE Len(queue'[at]) < QueueCap
    <3>1. at \in Endpoints /\ Len(queue[at]) < QueueCap
      BY <1>2, <2>1 DEF SenderInv, Shapes, NewestIsKept, HasRoom, Endpoints
    <3>2. CASE at = e
      <4>1. Len(queue'[e]) = Len(b) - 1 /\ Len(b) < QueueCap
        BY <1>3, <1>4, <3>1, <3>2
      <4> DEFINE n == Len(b)
      <4>2. n \in Nat /\ QueueCap \in Nat /\ Len(queue'[at]) = n - 1 /\ n < QueueCap
        BY <1>2, <3>2, <4>1, Constants
      <4> HIDE DEF n
      <4> QED BY <4>2
    <3>3. CASE at # e
      BY <1>4, <3>1, <3>3
    <3> QED BY <3>2, <3>3
  <2> QED BY <1>0, <2>1 DEF NewestIsKept, HasRoom
<1> QED BY <1>0, <1>1, <1>5, <1>6, <1>7, <1>8 DEF SenderInv

\* the end of a delivery: one more is delivered or has failed, and the worker is idle
LEMMA SenderEnds ==
    ASSUME SenderInv, NEW e \in Endpoints, hand[e] > 0, hand' = [hand EXCEPT ![e] = 0],
           received' = received \/ received' = [received EXCEPT ![e] = hand[e]],
           \/ delivered' = delivered + 1 /\ failed' = failed
           \/ delivered' = delivered /\ failed' = failed + 1,
           UNCHANGED <<nextID, ring, sub, last, base, replay, at, stage, queue, dropped, pushed, forgotten>>
    PROVE  SenderInv' /\ \A d \in Endpoints : received[d] <= received'[d]
<1>1. RingOK' /\ PumpOK' /\ Rounds'
  BY WorkerFrame
<1>2. Shapes /\ LineOK(e) /\ hand[e] \in Nat /\ queue[e] \in Seq(Nat) /\ DOMAIN queue[e] = 1 .. Len(queue[e])
  BY DEF SenderInv, Shapes, LinesOK
<1>3. Shapes'
  <2>1. received' \in [Endpoints -> Nat] /\ hand' \in [Endpoints -> Int]
    BY <1>2 DEF Shapes
  <2>2. delivered' \in Nat /\ failed' \in Nat
    BY <1>2 DEF Shapes
  <2> QED BY <1>2, <2>1, <2>2 DEF Shapes
<1>4. hand'[e] = 0 /\ received'[e] \in {received[e], hand[e]} /\ received[e] <= hand[e] /\ received[e] \in Nat
      /\ \A d \in Endpoints : d # e => queue'[d] = queue[d] /\ hand'[d] = hand[d] /\ received'[d] = received[d]
  BY <1>2 DEF Shapes, LineOK
<1>5. LinesOK'
  <2>1. ASSUME NEW d \in Endpoints, d # e PROVE LineOK(d)'
    BY <1>4, <2>1, LineSame DEF SenderInv, LinesOK, Newest
  <2>2. LineOK(e)'
    <3>1. Newest(e)' = Newest(e)
      BY DEF Newest
    <3>2. last >= 0 => 0 <= Newest(e) /\ received'[e] <= Newest(e)
      <4>1. Newest(e) \in Int
        BY <1>2 DEF Newest, Shapes
      <4> QED BY <1>2, <1>4, <4>1 DEF LineOK
    <3>3. \A i \in DOMAIN queue[e] : queue[e][i] > 0 /\ queue[e][i] > received'[e]
      <4>1. \A i \in DOMAIN queue[e] : queue[e][i] \in Nat
        BY <1>2
      <4> QED BY <1>2, <1>4, <4>1 DEF LineOK
    <3> QED BY <1>2, <1>4, <3>1, <3>2, <3>3 DEF LineOK
  <2> QED BY <2>1, <2>2 DEF LinesOK
<1>6. Counted'
  <2>0. Len(queue[e]) \in Nat /\ ~(hand'[e] > 0) /\ queue'[e] = queue[e]
    BY <1>2, <1>4
  <2>1. OnTheWay(e) = Len(queue[e]) + 1 /\ OnTheWay(e)' = Len(queue[e])
    <3>1. OnTheWay(e) = Len(queue[e]) + 1
      BY DEF OnTheWay
    <3>2. OnTheWay(e)' = Len(queue[e]) + 0
      BY <2>0 DEF OnTheWay
    <3> QED BY <2>0, <3>1, <3>2
  <2>2. Waiting \in Nat /\ Waiting' \in Nat /\ Waiting' + OnTheWay(e) = Waiting + OnTheWay(e)'
    BY <1>2, <1>3, <1>4, WaitingChange
  <2>3. Waiting = Waiting' + 1
    BY <2>0, <2>1, <2>2
  <2>4. delivered' + failed' = delivered + failed + 1 /\ {delivered, failed, dropped, pushed, delivered', failed'} \subseteq Nat
    <3>1. delivered \in Nat /\ failed \in Nat /\ dropped \in Nat /\ pushed \in Nat
      BY <1>2 DEF Shapes
    <3> QED BY <3>1
  <2> QED BY <2>2, <2>3, <2>4 DEF SenderInv, Counted
<1>7. NewestIsKept'
  BY DEF SenderInv, NewestIsKept, HasRoom
<1>8. \A d \in Endpoints : received[d] <= received'[d]
  BY <1>2, <1>4 DEF Shapes
<1> QED BY <1>1, <1>3, <1>5, <1>6, <1>7, <1>8 DEF SenderInv

\* Workers: an event that was reached or refused never is older than one before it
LEMMA SenderWorker ==
    ASSUME SenderInv, NEW e \in Endpoints, WorkerStep(e) \/ PauseStopped(e) \/ WorkerStops(e)
    PROVE  SenderInv' /\ \A d \in Endpoints : received[d] <= received'[d]
<1>0. Shapes /\ \A d \in Endpoints : received[d] \in Nat
  BY DEF SenderInv, Shapes
<1>1. CASE WorkerTakes(e)
  BY <1>0, <1>1, SenderTakes
<1>2. CASE Accepted(e)
  BY <1>2, SenderEnds DEF Accepted, Reaches, Finished, hubVars, pumpVars
<1>3. CASE Refused(e)
  BY <1>3, SenderEnds DEF Refused, Reaches, Finished, hubVars, pumpVars
<1>4. ASSUME NEW reached \in BOOLEAN, Retried(e, reached)
      PROVE  SenderInv' /\ \A d \in Endpoints : received[d] <= received'[d]
  <2>0. /\ UNCHANGED <<nextID, ring, sub, last, base, replay, at, stage, queue, delivered, dropped, pushed, forgotten>>
        /\ hand[e] > 0 /\ (received' = received \/ received' = [received EXCEPT ![e] = hand[e]])
    BY <1>4 DEF Retried, Reaches, hubVars, pumpVars
  <2>1. CASE ~MayRetry(e) /\ failed' = failed + 1 /\ Finished(e)
    BY <2>0, <2>1, SenderEnds DEF Finished
  <2>2. CASE UNCHANGED <<hand, failed>>
    <3>1. RingOK' /\ PumpOK' /\ Rounds'
      BY <2>0, WorkerFrame
    <3>2. LineOK(e) /\ hand[e] \in Nat /\ queue[e] \in Seq(Nat)
      BY <2>0 DEF SenderInv, Shapes, LinesOK
    <3>3. received'[e] \in {received[e], hand[e]} /\ received[e] <= hand[e] /\ received[e] \in Nat
          /\ \A d \in Endpoints : d # e => received'[d] = received[d]
      BY <1>0, <2>0, <3>2 DEF Shapes, LineOK
    <3>4. Shapes'
      BY <1>0, <2>0, <2>2, <3>2 DEF Shapes
    <3>5. LineOK(e)'
      <4>1. Newest(e)' = Newest(e)
        BY <2>0 DEF Newest
      <4> QED BY <2>0, <2>2, <3>2, <3>3, <4>1 DEF LineOK
    <3>6. ASSUME NEW d \in Endpoints, d # e PROVE LineOK(d)'
      BY <2>0, <2>2, <3>3, <3>6, LineSame DEF SenderInv, LinesOK, Newest
    <3>7. Counted' /\ NewestIsKept'
      BY <2>0, <2>2, WaitingSame DEF SenderInv, Counted, NewestIsKept, HasRoom
    <3>8. \A d \in Endpoints : received[d] <= received'[d]
      BY <1>0, <3>2, <3>3
    <3> QED BY <3>1, <3>4, <3>5, <3>6, <3>7, <3>8 DEF SenderInv, LinesOK
  <2> QED BY <1>4, <2>1, <2>2 DEF Retried
<1>5. CASE PauseStopped(e)
  BY <1>5, SenderEnds DEF PauseStopped, Finished, hubVars, pumpVars
<1>6. CASE WorkerStops(e)
  <2>0. /\ UNCHANGED <<nextID, ring, sub, last, base, replay, at, stage, queue, received, delivered, failed, dropped, pushed, forgotten>>
        /\ hand[e] = 0 /\ hand' = [hand EXCEPT ![e] = -1]
    BY <1>6 DEF WorkerStops, hubVars, pumpVars
  <2>1. RingOK' /\ PumpOK' /\ Rounds'
    BY <2>0, WorkerFrame
  <2>2. Shapes'
    BY <1>0, <2>0 DEF Shapes
  <2>3. hand'[e] = -1 /\ \A d \in Endpoints : d # e => hand'[d] = hand[d]
    BY <1>0, <2>0 DEF Shapes
  <2>4. LineOK(e)'
    <3>1. Newest(e)' = Newest(e) /\ LineOK(e) /\ queue[e] \in Seq(Nat) /\ Newest(e) \in Int
      BY <1>0, <2>0 DEF SenderInv, LinesOK, Newest, Shapes
    <3>2. \A i \in DOMAIN queue[e] : queue[e][i] \in Nat /\ queue[e][i] > -1
      BY <3>1
    <3>3. last >= 0 => -1 <= Newest(e)
      BY <1>0, <3>1 DEF LineOK
    <3> QED BY <2>0, <2>3, <3>1, <3>2, <3>3 DEF LineOK
  <2>5. ASSUME NEW d \in Endpoints, d # e PROVE LineOK(d)'
    BY <2>0, <2>3, <2>5, LineSame DEF SenderInv, LinesOK, Newest
  <2>6. Counted'
    <3>1. \A d \in Endpoints : hand'[d] > 0 <=> hand[d] > 0
      BY <2>0, <2>3
    <3>2. \A d \in Endpoints : OnTheWay(d)' = OnTheWay(d)
      BY <2>0, <3>1 DEF OnTheWay
    <3>3. Waiting' = Waiting
      BY <3>2 DEF Waiting, Endpoints
    <3> QED BY <2>0, <3>3 DEF SenderInv, Counted
  <2>7. NewestIsKept'
    BY <2>0 DEF SenderInv, NewestIsKept, HasRoom
  <2>8. \A d \in Endpoints : received[d] <= received'[d]
    BY <1>0, <2>0
  <2> QED BY <2>1, <2>2, <2>4, <2>5, <2>6, <2>7, <2>8 DEF SenderInv, LinesOK
<1> QED BY <1>1, <1>2, <1>3, <1>4, <1>5, <1>6 DEF WorkerStep

-----------------------------------------------------------------------------
(* The pump *)

LEMMA SenderReadLast ==
    ASSUME SenderInv, ReadLast
    PROVE  SenderInv'
<1>0. /\ UNCHANGED <<nextID, ring, sub, replay, at, stage, hand, received, delivered, failed, queue, dropped, pushed, forgotten>>
      /\ last = -1 /\ last' = LastID /\ base' = LastID
  BY DEF ReadLast, hubVars, workerVars
<1>1. LastID \in Nat /\ LastID' = LastID
  BY <1>0 DEF SenderInv, RingOK, LastID
<1>2. replay = <<>> /\ sub[Pump] = [open |-> FALSE, buf |-> <<>>] /\ forgotten = {} /\ pushed = 0 /\ at = 0
  BY <1>0 DEF SenderInv, PumpOK, NoSub
<1>3. RingOK' /\ Shapes'
  BY <1>0, <1>1 DEF SenderInv, RingOK, Shapes, LastID
<1>4. PumpOK'
  <2>1. Len(<<>>) = 0 /\ LastID - Len(<<>>) = LastID /\ LastID + Len(<<>>) = LastID /\ Consecutive(<<>>, LastID, LastID)
    BY <1>1 DEF Consecutive
  <2>2. replay' = <<>> /\ sub'[Pump].buf = <<>> /\ ~sub'[Pump].open
    BY <1>0, <1>2
  <2>3. Ahead(LastID)'
    BY <1>0, <1>1, <1>2, <2>1, <2>2 DEF Ahead
  <2> QED BY <1>0, <1>1, <1>2, <2>3 DEF PumpOK
<1>5. LinesOK'
  <2> SUFFICES ASSUME NEW e \in Endpoints PROVE LineOK(e)'
    BY DEF LinesOK
  <2>1. LineOK(e) /\ queue[e] = <<>> /\ DOMAIN queue[e] = {} /\ hand[e] <= 0 /\ received[e] = 0 /\ hand[e] \in Int
    BY <1>0 DEF SenderInv, LinesOK, LineOK, Shapes
  <2>2. Newest(e)' = LastID
    BY <1>0, <1>2 DEF Newest
  <2> QED BY <1>0, <1>1, <2>1, <2>2 DEF LineOK
<1>6. Rounds'
  <2>1. {id \in forgotten' : id <= last'} = {}
    BY <1>0, <1>2
  <2>2. Cardinality({id \in forgotten' : id <= last'}) = 0
    BY <2>1, FS_EmptySet
  <2>3. HandedOn' = 0
    BY <1>0, <1>1, <2>2 DEF HandedOn
  <2> QED BY <1>0, <1>2, <2>3, Constants DEF Rounds
<1>7. Counted' /\ NewestIsKept'
  BY <1>0, WaitingSame DEF SenderInv, Counted, NewestIsKept, HasRoom
<1> QED BY <1>3, <1>4, <1>5, <1>6, <1>7 DEF SenderInv

LEMMA SenderResubscribe ==
    ASSUME SenderInv, Resubscribe
    PROVE  SenderInv'
<1> DEFINE lost == {id \in (last + 1) .. LastID : ~Contains(ring, id)}
           buf == sub[Pump].buf
<1>0. /\ UNCHANGED <<nextID, ring, last, base, at, hand, received, delivered, failed, queue, dropped, pushed>>
      /\ last >= 0 /\ at = 0 /\ replay = <<>> /\ buf = <<>>
      /\ sub' = [sub EXCEPT ![Pump] = [open |-> TRUE, buf |-> <<>>]]
      /\ replay' = Replay(last) /\ stage' = "try" /\ forgotten' = forgotten \cup lost
  BY DEF Resubscribe, Idle, CutOff, Subscribe, workerVars
<1>1. Shapes /\ RingOK /\ LastID \in Nat /\ last \in Nat /\ LastID' = LastID
  BY <1>0 DEF SenderInv, RingOK, LastID, Shapes
<1>2. last <= LastID /\ \A id \in forgotten : id <= last
  <2>1. PICK q \in Nat : Ahead(q)
    BY <1>0 DEF SenderInv, PumpOK
  <2>2. q - Len(replay) = q /\ q + Len(buf) = q
    BY <1>0
  <2> QED BY <1>0, <2>1, <2>2 DEF Ahead
<1> DEFINE first == LastID - Len(ring)
           p == Larger(last, first)
<1>3. Consecutive(ring, first, LastID) /\ first \in Nat /\ first <= LastID /\ (LastID > 0 => first < LastID)
  BY <1>1 DEF RingOK, Consecutive
<1> HIDE DEF first
<1>4. Consecutive(replay', p, LastID)
  <2>1. Larger(last, LastID) = LastID
    BY <1>1, <1>2 DEF Larger
  <2> QED BY <1>0, <1>1, <1>3, <2>1, ConsecutiveFilter DEF Replay
<1>5. p \in Nat /\ replay' \in Seq(Nat) /\ Len(replay') = LastID - p /\ last <= p
  BY <1>1, <1>3, <1>4 DEF Larger, Consecutive
<1>6. \A id \in Nat : id \in lost <=> last < id /\ id <= p
  <2> TAKE id \in Nat
  <2>1. Contains(ring, id) <=> first < id /\ id <= LastID
    <3>1. Contains(ring, id) => first < id /\ id <= LastID
      BY <1>1, <1>3 DEF Contains, Consecutive
    <3>2. ASSUME first < id, id <= LastID PROVE Contains(ring, id)
      <4>1. id - first \in 1 .. Len(ring) /\ ring[id - first] = id
        BY <1>1, <1>3, <3>2 DEF Consecutive
      <4> QED BY <4>1 DEF Contains
    <3> QED BY <3>1, <3>2
  <2> QED BY <1>1, <1>2, <1>3, <2>1 DEF Larger
<1>7. lost \subseteq Nat /\ IsFiniteSet(lost)
  <2>1. lost \subseteq (last + 1) .. LastID /\ (last + 1) .. LastID \subseteq Nat
    BY <1>1
  <2>2. IsFiniteSet((last + 1) .. LastID)
    BY <1>1, FS_Interval
  <2> QED BY <2>1, <2>2, FS_Subset
<1>8. p # last => replay' # <<>>
  <2> SUFFICES ASSUME p # last PROVE Len(replay') # 0
    BY <1>5
  <2> QED BY <1>1, <1>2, <1>3, <1>5 DEF Larger
<1> HIDE DEF p, lost
<1>9. Shapes'
  <2>1. [open |-> TRUE, buf |-> <<>>] \in [open : BOOLEAN, buf : Seq(Nat)]
    OBVIOUS
  <2>2. IsFiniteSet(forgotten \cup lost) /\ forgotten \cup lost \subseteq Nat
    BY <1>1, <1>7, FS_Union DEF Shapes
  <2> QED BY <1>0, <1>1, <1>5, <2>1, <2>2 DEF Shapes
<1>10. PumpOK'
  <2>1. sub'[Pump] = [open |-> TRUE, buf |-> <<>>]
    BY <1>0, <1>1, Constants DEF Shapes
  <2>2. LastID + Len(<<>>) = LastID /\ Consecutive(<<>>, LastID, LastID)
    BY <1>1 DEF Consecutive
  <2>3. LastID - Len(replay') = p
    BY <1>1, <1>5
  <2>4. \A id \in Nat : last < id /\ id <= p => id \in forgotten'
    BY <1>0, <1>6
  <2>5. \A id \in forgotten' : id <= p
    BY <1>0, <1>1, <1>2, <1>5, <1>6, <1>7 DEF Shapes
  <2>6. sub'[Pump].buf = <<>>
    BY <2>1
  <2>7. Ahead(LastID)'
    BY <1>0, <1>1, <1>4, <1>5, <1>8, <2>2, <2>3, <2>4, <2>5, <2>6 DEF Ahead
  <2> QED BY <1>0, <1>1, <2>7 DEF PumpOK
<1>11. RingOK' /\ LinesOK'
  BY <1>0, LinesSame DEF SenderInv, RingOK, LastID
<1>12. Rounds'
  <2>1. {id \in forgotten' : id <= last} = {id \in forgotten : id <= last}
    <3>1. \A id \in lost : ~(id <= last)
      BY <1>1, <1>6, <1>7
    <3> QED BY <1>0, <3>1
  <2> QED BY <1>0, <2>1 DEF SenderInv, Rounds, HandedOn
<1>13. Counted' /\ NewestIsKept'
  BY <1>0, WaitingSame DEF SenderInv, Counted, NewestIsKept
<1> QED BY <1>9, <1>10, <1>11, <1>12, <1>13 DEF SenderInv

\* an event is taken: it is the next one that is not forgotten
LEMMA Taken ==
    ASSUME SenderInv, Idle, NEW p \in Nat, last <= p, last' = p + 1, at' = 1,
           \A id \in Nat : last < id /\ id <= p => id \in forgotten, \A id \in forgotten : id <= p,
           UNCHANGED <<base, stage, hand, received, delivered, failed, queue, dropped, pushed, forgotten>>
    PROVE  LinesOK' /\ Rounds' /\ Counted' /\ NewestIsKept'
<1>0. Shapes /\ last \in Nat /\ at = 0 /\ base \in Nat /\ pushed \in Nat
  BY DEF SenderInv, Shapes, Idle
<1>1. LinesOK'
  <2> SUFFICES ASSUME NEW e \in Endpoints PROVE LineOK(e)'
    BY DEF LinesOK
  <2>1. Newest(e) = last /\ Newest(e)' = p /\ LineOK(e)
    BY <1>0 DEF Newest, SenderInv, LinesOK, Endpoints
  <2>2. queue[e] \in Seq(Nat) /\ hand[e] \in Int /\ received[e] \in Nat /\ \A i \in DOMAIN queue[e] : queue[e][i] \in Nat
    BY <1>0, SMTT(60) DEF Shapes
  <2> QED BY <1>0, <2>1, <2>2 DEF LineOK
<1>2. Rounds'
  <2> DEFINE old == {id \in forgotten : id <= last}
             new == {id \in forgotten : id <= p + 1}
             gap == (last + 1) .. p
  <2>1. new = old \cup gap /\ old \cap gap = {}
    <3>1. \A id \in Nat : id \in gap <=> last < id /\ id <= p
      BY <1>0
    <3>2. new \subseteq Nat /\ old \subseteq Nat /\ gap \subseteq Nat
      <4>1. gap \subseteq Nat
        BY <1>0
      <4>2. forgotten \subseteq Nat
        BY <1>0 DEF Shapes
      <4> HIDE DEF gap
      <4> QED BY <4>1, <4>2
    <3>3. \A id \in Nat : id \in new <=> id \in old \/ id \in gap
      <4> TAKE id \in Nat
      <4>1. id \in new <=> id \in forgotten
        BY <1>0
      <4>2. id <= last \/ last < id
        BY <1>0
      <4> QED BY <1>0, <3>1, <4>1, <4>2
    <3>4. \A id \in Nat : ~(id \in old /\ id \in gap)
      BY <1>0, <3>1
    <3> HIDE DEF old, new, gap
    <3> QED BY <3>2, <3>3, <3>4
  <2>2. IsFiniteSet(old) /\ IsFiniteSet(gap) /\ Cardinality(gap) = p - last
    <3>1. IsFiniteSet(old)
      BY <1>0, FS_Subset DEF Shapes
    <3>2. IsFiniteSet(gap) /\ Cardinality(gap) = IF last + 1 > p THEN 0 ELSE p - (last + 1) + 1
      BY <1>0, FS_Interval
    <3> QED BY <1>0, <3>1, <3>2
  <2>3. Cardinality(old) \in Nat /\ Cardinality(old \cap gap) = 0
    BY <2>1, <2>2, FS_CardinalityType, FS_EmptySet
  <2>4. Cardinality(new) = Cardinality(old) + Cardinality(gap) - Cardinality(old \cap gap)
    <3> HIDE DEF old, gap, new
    <3> QED BY <2>1, <2>2, FS_Union
  <2>5. HandedOn' = HandedOn + 1 /\ HandedOn \in Int
    <3>1. HandedOn = last - base - Cardinality(old) /\ HandedOn' = (p + 1) - base - Cardinality(new)
      BY DEF HandedOn
    <3> HIDE DEF old, gap, new
    <3> QED BY <1>0, <2>2, <2>3, <2>4, <3>1
  <2>6. NumEndpoints * (HandedOn + 1) = NumEndpoints * HandedOn + NumEndpoints
    <3>1. \A n, h \in Int : n * (h + 1) = n * h + n
      OBVIOUS
    <3> QED BY <2>5, <3>1, Constants
  <2>7. pushed = NumEndpoints * HandedOn
    BY <1>0, <2>5, Constants DEF SenderInv, Rounds
  <2>8. pushed = NumEndpoints * HandedOn' - (NumEndpoints - 1 + 1)
    BY <1>0, <2>5, <2>6, <2>7, Constants
  <2> QED BY <2>8 DEF Rounds
<1>3. Counted'
  BY WaitingSame DEF SenderInv, Counted
<1>4. NewestIsKept'
  BY <1>0 DEF Shapes, NewestIsKept
<1> QED BY <1>1, <1>2, <1>3, <1>4

LEMMA SenderTakeReplayed ==
    ASSUME SenderInv, TakeReplayed
    PROVE  SenderInv'
<1>0. /\ UNCHANGED <<nextID, ring, sub, base, stage, hand, received, delivered, failed, queue, dropped, pushed, forgotten>>
      /\ Idle /\ last >= 0 /\ replay # <<>> /\ last' = Head(replay) /\ replay' = Tail(replay) /\ at' = 1
  BY DEF TakeReplayed, Idle, hubVars, workerVars
<1>1. Shapes /\ RingOK /\ last \in Nat /\ LastID \in Nat
  BY <1>0 DEF SenderInv, Shapes, RingOK, LastID
<1>2. PICK q \in Nat : Ahead(q)
  BY <1>0 DEF SenderInv, PumpOK
<1> DEFINE p == q - Len(replay)
<1>3. Consecutive(replay, p, q) /\ last <= p /\ (\A id \in Nat : last < id /\ id <= p => id \in forgotten)
      /\ \A id \in forgotten : id <= p
  BY <1>2 DEF Ahead
<1> HIDE DEF p
<1>4. p \in Nat /\ last' = p + 1 /\ Consecutive(replay', p + 1, q)
  <2>1. p \in Nat
    BY <1>3 DEF Consecutive
  <2> QED BY <1>0, <1>3, <2>1, ConsecutiveTail
<1>5. LinesOK' /\ Rounds' /\ Counted' /\ NewestIsKept'
  BY <1>0, <1>3, <1>4, Taken
<1>6. RingOK' /\ Shapes'
  <2>1. replay' \in Seq(Nat) /\ last' \in Int /\ at' \in 0 .. NumEndpoints
    BY <1>0, <1>4, Constants DEF Consecutive
  <2> QED BY <1>0, <1>1, <2>1, SMTT(60) DEF RingOK, Shapes, LastID
<1>7. PumpOK'
  <2> DEFINE n == Len(replay')
  <2>1. n = q - (p + 1)
    BY <1>4 DEF Consecutive
  <2> HIDE DEF n
  <2>2. q - n = p + 1
    BY <1>4, <2>1
  <2>3. q - Len(replay') = p + 1
    BY <2>2 DEF n
  <2>4. \A id \in Nat : p + 1 < id /\ id <= p + 1 => id \in forgotten
    BY <1>4
  <2>5. \A id \in forgotten : id <= p + 1
    <3>1. forgotten \subseteq Nat
      BY <1>1 DEF Shapes
    <3> QED BY <1>3, <1>4, <3>1
  <2>6. last' <= p + 1 /\ p + 1 <= p + 1
    BY <1>4
  <2>7. Consecutive(sub[Pump].buf, q, q + Len(sub[Pump].buf)) /\ q + Len(sub[Pump].buf) <= LastID
        /\ (sub[Pump].open => q + Len(sub[Pump].buf) = LastID) /\ LastID' = LastID
    BY <1>0, <1>2 DEF Ahead, LastID
  <2>8. Ahead(q)'
    BY <1>0, <1>4, <2>3, <2>4, <2>5, <2>6, <2>7 DEF Ahead
  <2> QED BY <1>4, <2>8 DEF PumpOK
<1> QED BY <1>5, <1>6, <1>7 DEF SenderInv

LEMMA SenderTakeLive ==
    ASSUME SenderInv, TakeLive
    PROVE  SenderInv'
<1> DEFINE x == sub[Pump]
<1>0. /\ UNCHANGED <<nextID, ring, base, replay, stage, hand, received, delivered, failed, queue, dropped, pushed, forgotten>>
      /\ Idle /\ last >= 0 /\ replay = <<>> /\ x.buf # <<>> /\ last' = Head(x.buf) /\ at' = 1
      /\ sub' = [sub EXCEPT ![Pump] = [open |-> x.open, buf |-> Tail(x.buf)]]
  BY DEF TakeLive, Receive, Idle, workerVars
<1>1. Shapes /\ RingOK /\ last \in Nat /\ LastID \in Nat /\ x.buf \in Seq(Nat) /\ x.open \in BOOLEAN
  BY <1>0, Constants DEF SenderInv, Shapes, RingOK, LastID
<1>2. PICK q \in Nat : Ahead(q)
  BY <1>0 DEF SenderInv, PumpOK
<1>3. Consecutive(x.buf, q, q + Len(x.buf)) /\ last = q /\ (\A id \in forgotten : id <= q)
  <2>1. q - Len(replay) = q
    BY <1>0
  <2> QED BY <1>0, <1>2, <2>1 DEF Ahead
<1>4. last' = q + 1 /\ Consecutive(Tail(x.buf), q + 1, q + Len(x.buf))
  BY <1>0, <1>3, ConsecutiveTail
<1>5. LinesOK' /\ Rounds' /\ Counted' /\ NewestIsKept'
  <2>1. last <= q /\ \A id \in Nat : last < id /\ id <= q => id \in forgotten
    BY <1>3
  <2> QED BY <1>0, <1>3, <1>4, <2>1, Taken
<1>5a. Tail(x.buf) \in Seq(Nat) /\ [open |-> x.open, buf |-> Tail(x.buf)] \in [open : BOOLEAN, buf : Seq(Nat)]
  BY <1>0, <1>1
<1>6. RingOK' /\ Shapes'
  <2> HIDE DEF x
  <2>1. sub' \in [Subscribers -> [open : BOOLEAN, buf : Seq(Nat)]]
    BY <1>0, <1>1, <1>5a DEF Shapes
  <2>2. last' \in Int /\ at' \in 0 .. NumEndpoints
    BY <1>0, <1>4, Constants
  <2>3. RingOK'
    BY <1>0, <1>1 DEF RingOK, LastID
  <2>4. Shapes'
    BY <1>0, <1>1, <2>1, <2>2, SMTT(60) DEF Shapes
  <2> QED BY <2>3, <2>4
<1>7. PumpOK'
  <2>1. sub'[Pump] = [open |-> x.open, buf |-> Tail(x.buf)] /\ LastID' = LastID
    BY <1>0, <1>1, Constants DEF Shapes, LastID
  <2>2. (q + 1) + Len(Tail(x.buf)) = q + Len(x.buf)
    <3> DEFINE n == Len(x.buf)
               m == Len(Tail(x.buf))
    <3>1. m = (q + n) - (q + 1) /\ n \in Nat
      BY <1>1, <1>4 DEF Consecutive
    <3> HIDE DEF n, m
    <3>2. (q + 1) + m = q + n
      BY <3>1
    <3> QED BY <3>2 DEF n, m
  <2>3. q + Len(x.buf) <= LastID /\ (x.open => q + Len(x.buf) = LastID)
    BY <1>2 DEF Ahead
  <2>4. replay' = <<>> /\ (q + 1) - Len(<<>>) = q + 1 /\ Consecutive(<<>>, q + 1, q + 1)
    BY <1>0 DEF Consecutive
  <2>5. \A id \in forgotten : id <= q + 1
    <3>1. forgotten \subseteq Nat
      BY <1>1 DEF Shapes
    <3> QED BY <1>3, <3>1
  <2>6. \A id \in Nat : q + 1 < id /\ id <= q + 1 => id \in forgotten
    OBVIOUS
  <2>7. Ahead(q + 1)'
    BY <1>0, <1>4, <2>1, <2>2, <2>3, <2>4, <2>5, <2>6 DEF Ahead
  <2> QED BY <1>4, <2>7 DEF PumpOK
<1> QED BY <1>5, <1>6, <1>7 DEF SenderInv

\* an event goes into the queue of the endpoint the push is at
LEMMA SenderPuts ==
    ASSUME SenderInv, at # 0, HasRoom(at), Put(at), NextEndpoint,
           UNCHANGED <<nextID, ring, sub, last, base, replay, hand, received, delivered, failed, dropped, forgotten>>
    PROVE  SenderInv'
<1> DEFINE b == queue[at]
<1>0. Shapes /\ at \in Endpoints /\ LineOK(at) /\ last >= 0 /\ last \in Nat /\ at \in Nat /\ NumEndpoints \in Nat /\ at <= NumEndpoints
  <2>1. Shapes /\ at \in Nat /\ at <= NumEndpoints /\ NumEndpoints \in Nat /\ last \in Int /\ last >= 0
    BY Constants DEF SenderInv, Shapes, PumpOK
  <2>2. at \in Endpoints
    BY <2>1 DEF Endpoints
  <2> QED BY <2>1, <2>2 DEF SenderInv, LinesOK
<1>1. queue' = [queue EXCEPT ![at] = Append(b, last)] /\ pushed' = pushed + 1 /\ Len(b) < QueueCap
      /\ at' = (IF at = NumEndpoints THEN 0 ELSE at + 1) /\ stage' = "try"
  BY DEF Put, NextEndpoint, HasRoom
<1>2. b \in Seq(Nat) /\ Len(b) \in Nat /\ DOMAIN b = 1 .. Len(b) /\ \A i \in 1 .. Len(b) : b[i] \in Nat
  BY <1>0, SMTT(60) DEF Shapes
<1>3. Append(b, last) \in Seq(Nat) /\ Len(Append(b, last)) = Len(b) + 1 /\ Append(b, last)[Len(b) + 1] = last
      /\ \A i \in 1 .. Len(b) : Append(b, last)[i] = b[i]
  BY <1>0, <1>2
<1>4. queue'[at] = Append(b, last) /\ \A d \in Endpoints : d # at => queue'[d] = queue[d]
  BY <1>0, <1>1 DEF Shapes
<1>5. Shapes'
  <2>1. queue' \in [Endpoints -> Seq(Nat)]
    BY <1>0, <1>1, <1>3 DEF Shapes
  <2>2. at' \in 0 .. NumEndpoints /\ stage' # "again" /\ pushed' \in Nat
    BY <1>0, <1>1 DEF Shapes
  <2> QED BY <1>0, <2>1, <2>2 DEF Shapes
<1>6. RingOK' /\ PumpOK'
  BY <1>0, PumpSame DEF SenderInv, RingOK, LastID
<1>7. ASSUME NEW d \in Endpoints, d # at PROVE LineOK(d)'
  <2>1. Newest(d)' = Newest(d)
    BY <1>0, <1>1, <1>7 DEF Newest, Endpoints
  <2> QED BY <1>4, <1>7, <2>1, LineSame DEF SenderInv, LinesOK
<1>8. ASSUME NEW d \in Endpoints, d = at PROVE LineOK(d)'
  <2>1. Newest(d) = last - 1 /\ Newest(d)' = last
    BY <1>0, <1>1, <1>8 DEF Newest
  <2>2. hand[d] <= last - 1 /\ received[d] <= last - 1 /\ hand[d] \in Int /\ received[d] \in Nat /\ QueueCap \in Nat
        /\ (\A i \in 1 .. Len(b) : b[i] <= last - 1) /\ queue'[d] = Append(b, last)
    BY <1>0, <1>2, <1>4, <1>8, <2>1, Constants DEF LineOK, Shapes
  <2> DEFINE t == queue'[d]
  <2>3. Len(t) = Len(b) + 1 /\ DOMAIN t = 1 .. Len(b) + 1 /\ t[Len(b) + 1] = last /\ \A i \in 1 .. Len(b) : t[i] = b[i]
    BY <1>2, <1>3, <2>2
  <2> HIDE DEF t
  <2>4. Len(t) <= QueueCap
    BY <1>1, <1>2, <2>2, <2>3
  <2>5. \A i \in DOMAIN t : t[i] >= 1 /\ t[i] > hand[d] /\ t[i] > received[d] /\ t[i] <= last
    <3> TAKE i \in DOMAIN t
    <3>1. CASE i = Len(b) + 1
      BY <1>0, <2>2, <2>3, <3>1
    <3>2. CASE i \in 1 .. Len(b)
      <4>1. b[i] >= 1 /\ b[i] > hand[d] /\ b[i] > received[d] /\ b[i] \in Nat
        BY <1>0, <1>2, <1>8, <3>2 DEF LineOK
      <4> QED BY <1>0, <2>2, <2>3, <3>2, <4>1
    <3> QED BY <1>2, <2>3, <3>1, <3>2
  <2>6. \A i, j \in DOMAIN t : i < j => t[i] < t[j]
    <3> SUFFICES ASSUME NEW i \in 1 .. Len(b) + 1, NEW j \in 1 .. Len(b) + 1, i < j PROVE t[i] < t[j]
      BY <2>3
    <3>1. i \in 1 .. Len(b)
      BY <1>2
    <3>2. CASE j = Len(b) + 1
      <4>1. t[j] = last /\ t[i] = b[i] /\ b[i] <= last - 1 /\ b[i] \in Nat
        BY <1>2, <2>2, <2>3, <3>1, <3>2
      <4> QED BY <1>0, <4>1
    <3>3. CASE j \in 1 .. Len(b)
      <4>1. b[i] < b[j]
        BY <1>0, <1>2, <3>1, <3>3 DEF LineOK
      <4> QED BY <2>3, <3>1, <3>3, <4>1
    <3> QED BY <1>2, <3>2, <3>3
  <2>7. hand[d] > 0 => received[d] <= hand[d]
    BY <1>0, <1>8 DEF LineOK
  <2>8. hand[d] <= last /\ received[d] <= last /\ last # -1
    BY <1>0, <2>2
  <2> QED BY <2>1, <2>4, <2>5, <2>6, <2>7, <2>8 DEF LineOK, t
<1>9. Counted'
  <2>1. Waiting' = Waiting + 1 /\ Waiting \in Nat
    <3>1. \A d \in Endpoints : d = at =>
             Waiting \in Nat /\ Waiting' \in Nat /\ OnTheWay(d) \in Nat /\ OnTheWay(d)' \in Nat
             /\ Waiting' + OnTheWay(d) = Waiting + OnTheWay(d)'
      BY <1>0, <1>4, <1>5, WaitingChange
    <3>2. \A d \in Endpoints : d = at => OnTheWay(d)' = OnTheWay(d) + 1
      <4> SUFFICES ASSUME NEW d \in Endpoints, d = at PROVE OnTheWay(d)' = OnTheWay(d) + 1
        OBVIOUS
      <4>1. Len(queue'[d]) = Len(b) + 1 /\ hand'[d] = hand[d] /\ b = queue[d]
        BY <1>3, <1>4
      <4>2. CASE hand[d] > 0
        <5>1. OnTheWay(d) = Len(queue[d]) + 1 /\ OnTheWay(d)' = Len(queue'[d]) + 1
          BY <4>1, <4>2 DEF OnTheWay
        <5> QED BY <1>2, <4>1, <5>1
      <4>3. CASE ~(hand[d] > 0)
        <5>1. OnTheWay(d) = Len(queue[d]) + 0 /\ OnTheWay(d)' = Len(queue'[d]) + 0
          BY <4>1, <4>3 DEF OnTheWay
        <5> QED BY <1>2, <4>1, <5>1
      <4> QED BY <4>2, <4>3
    <3> QED BY <1>0, <3>1, <3>2
  <2>2. {delivered, failed, dropped, pushed} \subseteq Nat
    BY <1>0 DEF Shapes
  <2> QED BY <1>1, <2>1, <2>2 DEF SenderInv, Counted
<1>10. Rounds'
  <2> DEFINE r == NumEndpoints * HandedOn
  <2>1. r \in Int /\ pushed \in Int
    <3>1. HandedOn \in Int
      <4>1. IsFiniteSet({id \in forgotten : id <= last})
        BY <1>0, FS_Subset DEF Shapes
      <4>2. Cardinality({id \in forgotten : id <= last}) \in Nat
        BY <4>1, FS_CardinalityType
      <4> QED BY <1>0, <4>2 DEF HandedOn, Shapes
    <3> QED BY <1>0, <3>1 DEF Shapes
  <2>2. pushed = r - (NumEndpoints - at + 1)
    BY <1>0 DEF SenderInv, Rounds
  <2>3. HandedOn' = HandedOn
    BY DEF HandedOn
  <2> HIDE DEF r
  <2>4. pushed' = r - (IF at' = 0 THEN 0 ELSE NumEndpoints - at' + 1)
    BY <1>0, <1>1, <2>1, <2>2
  <2> QED BY <2>3, <2>4 DEF Rounds, r
<1>11. NewestIsKept'
  BY <1>1 DEF NewestIsKept
<1> QED BY <1>5, <1>6, <1>7, <1>8, <1>9, <1>10, <1>11 DEF SenderInv, LinesOK

LEMMA SenderPush ==
    ASSUME SenderInv, PushTry \/ PushDrop \/ PushAgain
    PROVE  SenderInv'
<1>1. CASE PushTry
  <2>0. UNCHANGED <<nextID, ring, sub, last, base, replay, hand, received, delivered, failed, dropped, forgotten>> /\ at # 0
    BY <1>1 DEF PushTry, hubVars, workerVars
  <2>1. CASE HasRoom(at) /\ Put(at) /\ NextEndpoint
    BY <2>0, <2>1, SenderPuts
  <2>2. CASE stage' = "drop" /\ UNCHANGED <<at, queue, pushed>>
    <3>1. RingOK' /\ PumpOK' /\ LinesOK' /\ Rounds'
      BY <2>0, <2>2, PumpSame, LinesSame, RoundsSame DEF SenderInv, RingOK, LastID
    <3>2. Shapes'
      BY <2>0, <2>2 DEF SenderInv, Shapes
    <3>3. Counted' /\ NewestIsKept'
      BY <2>0, <2>2, WaitingSame DEF SenderInv, Counted, NewestIsKept
    <3> QED BY <3>1, <3>2, <3>3 DEF SenderInv
  <2> QED BY <1>1, <2>1, <2>2 DEF PushTry
<1>2. CASE PushAgain
  BY <1>2, SenderPuts DEF PushAgain, hubVars, workerVars
<1>3. CASE PushDrop
  <2>0. /\ UNCHANGED <<nextID, ring, sub, last, base, replay, at, hand, received, delivered, failed, pushed, forgotten>>
        /\ at # 0 /\ stage' = "again"
    BY <1>3 DEF PushDrop, hubVars, workerVars
  <2>1. RingOK' /\ PumpOK' /\ Rounds' /\ Shapes /\ at \in Endpoints
    <3>1. RingOK' /\ PumpOK' /\ Rounds'
      BY <2>0, PumpSame, RoundsSame DEF SenderInv, RingOK, LastID
    <3>2. at \in Endpoints
      BY <2>0, Constants DEF SenderInv, Shapes, Endpoints
    <3> QED BY <3>1, <3>2 DEF SenderInv
  <2>2. CASE queue[at] = <<>> /\ UNCHANGED <<queue, dropped>>
    <3>1. Shapes' /\ LinesOK'
      BY <2>0, <2>1, <2>2, LinesSame DEF SenderInv, Shapes
    <3>2. Counted'
      BY <2>0, <2>2, WaitingSame DEF SenderInv, Counted
    <3>3. NewestIsKept'
      <4>1. Len(queue[at]) = 0
        BY <2>2
      <4> QED BY <2>0, <2>2, <4>1, Constants DEF NewestIsKept, HasRoom
    <3> QED BY <2>1, <3>1, <3>2, <3>3 DEF SenderInv
  <2>3. CASE queue[at] # <<>> /\ DropOldest
    <3> DEFINE b == queue[at]
    <3>1. queue' = [queue EXCEPT ![at] = Tail(b)] /\ dropped' = dropped + 1 /\ LineOK(at) /\ b # <<>>
      BY <2>1, <2>3 DEF DropOldest, SenderInv, LinesOK
    <3>2. b \in Seq(Nat) /\ Len(b) \in Nat /\ Len(b) # 0 /\ DOMAIN b = 1 .. Len(b) /\ Len(b) <= QueueCap
      BY <2>1, <3>1 DEF Shapes, LineOK
    <3>3. Tail(b) \in Seq(Nat) /\ Len(Tail(b)) = Len(b) - 1 /\ DOMAIN Tail(b) = 1 .. Len(b) - 1
          /\ \A i \in 1 .. Len(b) - 1 : Tail(b)[i] = b[i + 1] /\ i + 1 \in DOMAIN b
      BY <3>2
    <3>4. queue'[at] = Tail(b) /\ \A d \in Endpoints : d # at => queue'[d] = queue[d]
      BY <2>1, <3>1 DEF Shapes
    <3>5. Shapes'
      <4>1. queue' \in [Endpoints -> Seq(Nat)] /\ dropped' \in Nat
        BY <2>1, <3>1, <3>3 DEF Shapes
      <4> QED BY <2>0, <2>1, <4>1 DEF Shapes
    <3>6. ASSUME NEW d \in Endpoints, d # at PROVE LineOK(d)'
      <4>1. Newest(d)' = Newest(d)
        BY <2>0 DEF Newest
      <4> QED BY <2>0, <3>4, <3>6, <4>1, LineSame DEF SenderInv, LinesOK
    <3>7. ASSUME NEW d \in Endpoints, d = at PROVE LineOK(d)'
      <4> DEFINE t == queue'[d]
      <4>1. Newest(d)' = Newest(d) /\ LineOK(d) /\ b = queue[d] /\ t = Tail(b) /\ last # -1
        BY <2>0, <3>1, <3>4, <3>7 DEF Newest, LineOK
      <4>2. Len(t) <= QueueCap /\ DOMAIN t = 1 .. Len(b) - 1 /\ \A i \in 1 .. Len(b) - 1 : t[i] = b[i + 1] /\ i + 1 \in DOMAIN b
        <5>1. Len(t) = Len(b) - 1 /\ QueueCap \in Nat
          BY <3>3, <4>1, Constants
        <5> DEFINE n == Len(b)
        <5>2. n \in Nat /\ n <= QueueCap /\ Len(t) = n - 1
          BY <3>2, <5>1
        <5> HIDE DEF n
        <5>3. Len(t) <= QueueCap
          BY <5>1, <5>2
        <5> QED BY <3>3, <4>1, <5>3
      <4> HIDE DEF t
      <4>3. \A i \in DOMAIN t : t[i] >= 1 /\ t[i] > hand[d] /\ t[i] > received[d] /\ (last >= 0 => t[i] <= Newest(d))
        BY <4>1, <4>2 DEF LineOK
      <4>4. \A i, j \in DOMAIN t : i < j => t[i] < t[j]
        <5> TAKE i, j \in DOMAIN t
        <5> HAVE i < j
        <5>1. i \in 1 .. Len(b) - 1 /\ j \in 1 .. Len(b) - 1
          BY <4>2
        <5>2. i + 1 < j + 1
          BY <5>1
        <5>3. i + 1 \in DOMAIN b /\ j + 1 \in DOMAIN b /\ t[i] = b[i + 1] /\ t[j] = b[j + 1]
          BY <4>2, <5>1
        <5> QED BY <4>1, <5>2, <5>3 DEF LineOK
      <4>5. hand'[d] = hand[d] /\ received'[d] = received[d] /\ last' = last
        BY <2>0
      <4> HIDE DEF b
      <4> QED BY <4>1, <4>2, <4>3, <4>4, <4>5 DEF LineOK, t
    <3>8. Counted'
      <4>1. Waiting = Waiting' + 1 /\ Waiting' \in Nat
        <5>1. \A d \in Endpoints : d = at =>
                 Waiting \in Nat /\ Waiting' \in Nat /\ OnTheWay(d) \in Nat /\ OnTheWay(d)' \in Nat
                 /\ Waiting' + OnTheWay(d) = Waiting + OnTheWay(d)'
          BY <2>0, <2>1, <3>4, <3>5, WaitingChange
        <5>2. \A d \in Endpoints : d = at => OnTheWay(d) = OnTheWay(d)' + 1
          <6> SUFFICES ASSUME NEW d \in Endpoints, d = at PROVE OnTheWay(d) = OnTheWay(d)' + 1
            OBVIOUS
          <6> DEFINE n == Len(queue[d])
                     m == Len(queue'[d])
          <6>1. m = n - 1 /\ hand'[d] = hand[d] /\ n \in Nat
            BY <2>0, <3>2, <3>3, <3>4
          <6>2. CASE hand[d] > 0
            <7>1. OnTheWay(d) = n + 1 /\ OnTheWay(d)' = m + 1
              BY <6>1, <6>2 DEF OnTheWay
            <7> HIDE DEF n, m
            <7> QED BY <6>1, <7>1
          <6>3. CASE ~(hand[d] > 0)
            <7>1. OnTheWay(d) = n + 0 /\ OnTheWay(d)' = m + 0
              BY <6>1, <6>3 DEF OnTheWay
            <7> HIDE DEF n, m
            <7> QED BY <6>1, <7>1
          <6> QED BY <6>2, <6>3
        <5> QED BY <2>1, <5>1, <5>2
      <4>2. {delivered, failed, dropped, pushed} \subseteq Nat
        BY <2>1 DEF Shapes
      <4>3. \A a, c, d, w \in Nat : a + c + d + (w + 1) = a + c + (d + 1) + w
        OBVIOUS
      <4>4. pushed = delivered + failed + dropped + (Waiting' + 1)
        BY <4>1 DEF SenderInv, Counted
      <4>5. pushed = delivered + failed + (dropped + 1) + Waiting'
        BY <4>1, <4>2, <4>3, <4>4
      <4> QED BY <2>0, <3>1, <4>5 DEF Counted
    <3>9. NewestIsKept'
      <4> DEFINE n == Len(b)
      <4>1. Len(queue'[at]) = n - 1 /\ n \in Nat /\ n <= QueueCap /\ QueueCap \in Nat
        BY <3>2, <3>3, <3>4, Constants
      <4> HIDE DEF n
      <4>2. Len(queue'[at]) < QueueCap
        BY <4>1
      <4> QED BY <2>0, <4>2 DEF NewestIsKept, HasRoom
    <3> QED BY <2>1, <3>5, <3>6, <3>7, <3>8, <3>9 DEF SenderInv, LinesOK
  <2> QED BY <1>3, <2>2, <2>3 DEF PushDrop
<1> QED BY <1>1, <1>2, <1>3

LEMMA SenderStops ==
    ASSUME SenderInv, PumpStops
    PROVE  SenderInv'
<1>0. /\ UNCHANGED <<nextID, ring, base, replay, at, stage, hand, received, delivered, failed, queue, dropped, pushed, forgotten>>
      /\ last' = -2 /\ at = 0 /\ sub' = [sub EXCEPT ![Pump] = NoSub]
  BY DEF PumpStops, Idle, Close, workerVars
<1>1. RingOK' /\ PumpOK' /\ Rounds' /\ NewestIsKept'
  BY <1>0 DEF SenderInv, RingOK, LastID, PumpOK, Rounds, NewestIsKept
<1>2. Shapes'
  <2>1. NoSub \in [open : BOOLEAN, buf : Seq(Nat)]
    BY DEF NoSub
  <2>2. sub' \in [Subscribers -> [open : BOOLEAN, buf : Seq(Nat)]]
    BY <1>0, <2>1 DEF SenderInv, Shapes
  <2> QED BY <1>0, <2>2 DEF SenderInv, Shapes
<1>3. LinesOK'
  BY <1>0 DEF SenderInv, LinesOK, LineOK
<1>4. Counted'
  BY <1>0, WaitingSame DEF SenderInv, Counted
<1> QED BY <1>1, <1>2, <1>3, <1>4 DEF SenderInv

LEMMA SenderSame ==
    ASSUME SenderInv, Stop \/ UNCHANGED vars
    PROVE  SenderInv' /\ received' = received
<1>0. UNCHANGED <<nextID, ring, sub, last, base, replay, at, stage, hand, received, delivered, failed, queue, dropped, pushed, forgotten>>
  BY DEF Stop, vars, hubVars, pumpVars, workerVars
<1>1. RingOK' /\ PumpOK' /\ LinesOK' /\ Rounds'
  BY <1>0, PumpSame, LinesSame, RoundsSame DEF SenderInv, RingOK, LastID
<1>2. Shapes'
  BY <1>0 DEF SenderInv, Shapes
<1>3. Counted' /\ NewestIsKept'
  BY <1>0, WaitingSame DEF SenderInv, Counted, NewestIsKept, HasRoom
<1> QED BY <1>0, <1>1, <1>2, <1>3 DEF SenderInv

-----------------------------------------------------------------------------
(* Theorems *)

LEMMA SenderStep ==
    SenderInv /\ [Next]_vars => SenderInv' /\ \A e \in Endpoints : received[e] <= received'[e]
<1> SUFFICES ASSUME SenderInv, [Next]_vars PROVE SenderInv' /\ \A e \in Endpoints : received[e] <= received'[e]
  OBVIOUS
<1>0. \A e \in Endpoints : received[e] \in Nat
  BY DEF SenderInv, Shapes
<1>1. CASE PublishEvent
  BY <1>0, <1>1, SenderPublish DEF PublishEvent, workerVars
<1>2. CASE ReadLast
  BY <1>0, <1>2, SenderReadLast DEF ReadLast, workerVars
<1>3. CASE Resubscribe
  BY <1>0, <1>3, SenderResubscribe DEF Resubscribe, workerVars
<1>4. CASE TakeReplayed
  BY <1>0, <1>4, SenderTakeReplayed DEF TakeReplayed, workerVars
<1>5. CASE TakeLive
  BY <1>0, <1>5, SenderTakeLive DEF TakeLive, workerVars
<1>6. CASE PushTry \/ PushDrop \/ PushAgain
  BY <1>0, <1>6, SenderPush DEF PushTry, PushDrop, PushAgain, workerVars
<1>7. CASE PumpStops
  BY <1>0, <1>7, SenderStops DEF PumpStops, workerVars
<1>8. ASSUME NEW e \in Endpoints, WorkerStep(e) \/ PauseStopped(e) \/ WorkerStops(e)
      PROVE  SenderInv' /\ \A d \in Endpoints : received[d] <= received'[d]
  BY <1>8, SenderWorker
<1>9. CASE Stop \/ UNCHANGED vars
  BY <1>0, <1>9, SenderSame
<1> QED BY <1>1, <1>2, <1>3, <1>4, <1>5, <1>6, <1>7, <1>8, <1>9 DEF Next, PumpStep

\* No event is lost silently: the counters add up with what is in the queues and in hand, and every event since Run
\* has gone to every queue but those the ring forgot, for any number of endpoints, events, cut-offs and retries.
THEOREM EveryEventIsAccountedFor == Spec => []Accounted
<1>1. SenderInv => Accounted
  BY DEF SenderInv, Accounted, Counted, Rounds, Waiting, HandedOn
<1>2. SenderInv /\ [Next]_vars => SenderInv'
  BY SenderStep
<1> QED BY <1>1, <1>2, SenderInit, PTL DEF Spec

\* The push finds room after it has dropped the oldest event, whatever the worker does in between: the default branch of
\* the third select of push is never taken.
THEOREM NewestEventIsKept == Spec => []NewestIsKept
<1>1. SenderInv => NewestIsKept
  BY DEF SenderInv
<1>2. SenderInv /\ [Next]_vars => SenderInv'
  BY SenderStep
<1> QED BY <1>1, <1>2, SenderInit, PTL DEF Spec

\* No receiver gets an older event after a newer one, with any number of retries and however push and worker interleave.
THEOREM DeliveredInOrder == Spec => InOrder
<1>1. SenderInv /\ [Next]_vars => [\A e \in Endpoints : received[e] <= received'[e]]_vars
  BY SenderStep
<1>2. SenderInv /\ [Next]_vars => SenderInv'
  BY SenderStep
<1> QED BY <1>1, <1>2, SenderInit, PTL DEF Spec, InOrder
=============================================================================
