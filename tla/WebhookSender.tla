--------------------------- MODULE WebhookSender ---------------------------
(***************************************************************************)
(* The Sender of pkg/events/webhook.go: one goroutine, the pump, takes the  *)
(* events of its subscription and puts each into the queue of every         *)
(* endpoint; a worker per endpoint posts what is in its queue and retries.  *)
(* The pump never waits: a full queue loses its oldest event.               *)
(***************************************************************************)
EXTENDS Hub

CONSTANTS
    Pump,           \* the subscriber that is the sender
    NumEndpoints,   \* how many webhook receivers there are
    QueueCap,       \* the capacity of a queue, 512
    Retries,        \* Sender.Retries, attempts after the first
    Alive           \* the endpoints that answer, or time out, sooner or later; the others may hang

ASSUME SenderAssumption ==
    /\ Subscribers = {Pump}
    /\ NumEndpoints \in Nat \ {0}
    /\ QueueCap \in Nat \ {0}
    /\ Retries \in Nat
    /\ Alive \subseteq 1..NumEndpoints

Endpoints == 1..NumEndpoints

VARIABLES
    last,       \* the last event that was handed on, -1 before Run, -2 when the pump has stopped
    base,       \* the newest event when Run was called: only later ones are sent
    replay,     \* what is left of a replay
    at,         \* push: the endpoint it is at, 0 when there is nothing to push
    stage,      \* push: which of its three selects comes next
    queue,      \* the queue of each endpoint
    hand,       \* the event the worker of each endpoint is delivering, 0 if none
    attempt,    \* deliver: the number of the attempt
    received,   \* the last event each receiver got, 0 if none
    delivered, failed, dropped,     \* the counters
    pushed,     \* how many events were put into queues
    forgotten,  \* the events the ring no longer had when the pump subscribed again
    stopped     \* stop is closed

pumpVars   == <<last, base, replay, at, stage>>
workerVars == <<hand, attempt, received, delivered, failed>>
vars == <<hubVars, pumpVars, workerVars, queue, dropped, pushed, forgotten, stopped>>

Init ==
    /\ HubInit
    /\ last = -1 /\ base = 0 /\ replay = <<>> /\ at = 0 /\ stage = "run"
    /\ queue = [e \in Endpoints |-> <<>>]
    /\ hand = [e \in Endpoints |-> 0] /\ attempt = [e \in Endpoints |-> 0]
    /\ received = [e \in Endpoints |-> 0]
    /\ delivered = 0 /\ failed = 0 /\ dropped = 0 /\ pushed = 0 /\ forgotten = {}
    /\ stopped = FALSE

PublishEvent ==
    /\ Publish
    /\ UNCHANGED <<pumpVars, workerVars, queue, dropped, pushed, forgotten, stopped>>

-----------------------------------------------------------------------------
(* The pump *)

\* Run: last := h.Last()
ReadLast ==
    /\ last = -1
    /\ last' = LastID /\ base' = LastID
    /\ UNCHANGED <<hubVars, replay, at, stage, workerVars, queue, dropped, pushed, forgotten, stopped>>

Idle == last >= 0 /\ at = 0

\* Run subscribes, and the pump does it again when the hub has cut it off
Resubscribe ==
    /\ Idle /\ replay = <<>> /\ CutOff(Pump)
    /\ Subscribe(Pump)
    /\ replay' = Replay(last)
    /\ stage' = "try"
    /\ forgotten' = forgotten \cup {id \in (last + 1)..LastID : ~Contains(ring, id)}
    /\ UNCHANGED <<last, base, at, workerVars, queue, dropped, pushed, stopped>>

\* push(ev), for an event of the replay or of the channel
TakeReplayed ==
    /\ Idle /\ replay # <<>>
    /\ last' = Head(replay) /\ replay' = Tail(replay) /\ at' = 1
    /\ UNCHANGED <<hubVars, base, stage, workerVars, queue, dropped, pushed, forgotten, stopped>>

TakeLive ==
    /\ Idle /\ replay = <<>>
    /\ Receive(Pump)
    /\ last' = Head(sub[Pump].buf) /\ at' = 1
    /\ UNCHANGED <<base, replay, stage, workerVars, queue, dropped, pushed, forgotten, stopped>>

HasRoom(e) == Len(queue[e]) < QueueCap

\* mutant of Put: the newest event comes first
PutInFront(e) == queue' = [queue EXCEPT ![e] = <<last>> \o @] /\ pushed' = pushed + 1

Put(e) == queue' = [queue EXCEPT ![e] = Append(@, last)] /\ pushed' = pushed + 1

NextEndpoint == at' = (IF at = NumEndpoints THEN 0 ELSE at + 1) /\ stage' = "try"

\* mutant of PushTry: it waits for room
PushWaits ==
    /\ at # 0 /\ stage = "try"
    /\ HasRoom(at) /\ Put(at) /\ NextEndpoint
    /\ UNCHANGED <<hubVars, last, base, replay, workerVars, dropped, forgotten, stopped>>

\* the first select: into the queue, or it is full
PushTry ==
    /\ at # 0 /\ stage = "try"
    /\ \/ HasRoom(at) /\ Put(at) /\ NextEndpoint
       \/ ~HasRoom(at) /\ stage' = "drop" /\ UNCHANGED <<at, queue, pushed>>
    /\ UNCHANGED <<hubVars, last, base, replay, workerVars, dropped, forgotten, stopped>>

\* mutant of DropOldest: the event is dropped and not counted
DropUncounted == queue' = [queue EXCEPT ![at] = Tail(@)] /\ UNCHANGED dropped

\* mutant of DropOldest: nothing is dropped
DropNothing == UNCHANGED <<queue, dropped>>

DropOldest == queue' = [queue EXCEPT ![at] = Tail(@)] /\ dropped' = dropped + 1

\* the second select: the oldest event goes, unless the worker has emptied the queue in the meantime
PushDrop ==
    /\ at # 0 /\ stage = "drop"
    /\ stage' = "again"
    /\ \/ queue[at] # <<>> /\ DropOldest
       \/ queue[at] = <<>> /\ UNCHANGED <<queue, dropped>>
    /\ UNCHANGED <<hubVars, last, base, replay, at, workerVars, pushed, forgotten, stopped>>

\* the third select: into the queue; there is always room, see NewestIsKept, so its default branch is not taken
PushAgain ==
    /\ at # 0 /\ stage = "again"
    /\ HasRoom(at)
    /\ Put(at)
    /\ NextEndpoint
    /\ UNCHANGED <<hubVars, last, base, replay, workerVars, dropped, forgotten, stopped>>

\* the pump sees stop, which it looks at between two events of the channel
PumpStops ==
    /\ stopped /\ Idle /\ replay = <<>> /\ stage = "try"
    /\ last' = -2
    /\ Close(Pump)
    /\ UNCHANGED <<base, replay, at, stage, workerVars, queue, dropped, pushed, forgotten, stopped>>

PumpStep ==
    ReadLast \/ Resubscribe \/ TakeReplayed \/ TakeLive \/ PushTry \/ PushDrop \/ PushAgain

-----------------------------------------------------------------------------
(* The workers *)

WorkerTakes(e) ==
    /\ hand[e] = 0 /\ queue[e] # <<>>
    /\ hand' = [hand EXCEPT ![e] = Head(queue[e])]
    /\ queue' = [queue EXCEPT ![e] = Tail(@)]
    /\ attempt' = [attempt EXCEPT ![e] = 0]
    /\ UNCHANGED <<hubVars, pumpVars, received, delivered, failed, dropped, pushed, forgotten, stopped>>

Finished(e) == hand' = [hand EXCEPT ![e] = 0] /\ UNCHANGED attempt

\* one request: the receiver may have got the event even if no answer comes back
Reaches(e, reached) == received' = IF reached THEN [received EXCEPT ![e] = hand[e]] ELSE received

\* 2xx
Accepted(e) ==
    /\ hand[e] > 0
    /\ Reaches(e, TRUE)
    /\ delivered' = delivered + 1
    /\ Finished(e)
    /\ UNCHANGED <<hubVars, pumpVars, queue, failed, dropped, pushed, forgotten, stopped>>

MayRetry(e) == attempt[e] < Retries

\* no answer, 408, 429 or 5xx: again after a pause, up to Retries times
Retried(e, reached) ==
    /\ hand[e] > 0
    /\ Reaches(e, reached)
    /\ \/ MayRetry(e) /\ attempt' = [attempt EXCEPT ![e] = @ + 1] /\ UNCHANGED <<hand, failed>>
       \/ ~MayRetry(e) /\ failed' = failed + 1 /\ Finished(e)
    /\ UNCHANGED <<hubVars, pumpVars, queue, delivered, dropped, pushed, forgotten, stopped>>

\* another 4xx is final; so is stop during the pause before a retry
Refused(e) ==
    /\ hand[e] > 0
    /\ Reaches(e, TRUE)
    /\ failed' = failed + 1
    /\ Finished(e)
    /\ UNCHANGED <<hubVars, pumpVars, queue, delivered, dropped, pushed, forgotten, stopped>>

PauseStopped(e) ==
    /\ stopped /\ hand[e] > 0 /\ attempt[e] > 0
    /\ failed' = failed + 1
    /\ Finished(e)
    /\ UNCHANGED <<hubVars, pumpVars, received, queue, delivered, dropped, pushed, forgotten, stopped>>

\* an idle worker sees stop and never takes another event
WorkerStops(e) ==
    /\ stopped /\ hand[e] = 0
    /\ hand' = [hand EXCEPT ![e] = -1]
    /\ UNCHANGED <<hubVars, pumpVars, attempt, received, delivered, failed, queue, dropped, pushed, forgotten, stopped>>

WorkerStep(e) ==
    WorkerTakes(e) \/ Accepted(e) \/ Refused(e) \/ \E reached \in BOOLEAN : Retried(e, reached)

Stop ==
    /\ ~stopped /\ stopped' = TRUE
    /\ UNCHANGED <<hubVars, pumpVars, workerVars, queue, dropped, pushed, forgotten>>

Next ==
    \/ PublishEvent
    \/ PumpStep
    \/ PumpStops
    \/ \E e \in Endpoints : WorkerStep(e) \/ PauseStopped(e) \/ WorkerStops(e)
    \/ Stop

\* The pump is a goroutine that is always runnable while there is something to do; a worker is one whose requests
\* end, be it by Sender.Timeout.
Fairness == WF_vars(PumpStep) /\ \A e \in Alive : WF_vars(WorkerStep(e))

Spec == Init /\ [][Next]_vars /\ Fairness

-----------------------------------------------------------------------------
(* Properties *)

\* what is on its way to endpoint e
OnTheWay(e) == Len(queue[e]) + (IF hand[e] > 0 THEN 1 ELSE 0)

\* No event is lost silently, although pump and workers take from the same queues between the selects and the pump is
\* cut off and comes back: every event that went into a queue is delivered, failed, dropped or on its way, and counted
\* once ("the oldest event is dropped and counted", webhook.go:49); and the queues have got every event since Run, except
\* those the ring forgot meanwhile ("take up again after the last event that was handed on", webhook.go:110).
Accounted ==
    /\ pushed = delivered + failed + dropped + SumOver([e \in Endpoints |-> OnTheWay(e)], Endpoints)
    /\ last >= 0 =>
          pushed = NumEndpoints * (last - base - Cardinality({id \in forgotten : id <= last}))
                     - (IF at = 0 THEN 0 ELSE NumEndpoints - at + 1)

\* Making room works: the event that is being pushed is never the one that is lost, although the worker competes for
\* the queue (webhook.go:95-98).
NewestIsKept == (at # 0 /\ stage = "again") => HasRoom(at)

\* Deliveries are "in order, per endpoint" (webhook.go:47): a receiver may see an event twice, after a retry, and
\* never an older one after a newer one.
InOrder == [][\A e \in Endpoints : received[e] <= received'[e]]_vars

\* "An endpoint that stays down does not hold the others" (webhook.go:48): an endpoint that answers is served to the
\* last event even if another one hangs for ever, unless the engine is stopped.
OthersAreServed ==
    <>[](stopped \/ (last = LastID /\ at = 0 /\ \A e \in Alive : queue[e] = <<>> /\ hand[e] = 0))
=============================================================================
