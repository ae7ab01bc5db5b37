------------------------------ MODULE AdBroker ------------------------------
(***************************************************************************)
(* Ad pods: the adBroker of services/engine/ads.go, which asks the ads      *)
(* service in the background, and buildPlan of services/engine/plan.go,     *)
(* which lays out breaks with the pods it has and must not wait for the     *)
(* others.  The planner, the requests in flight and the clock interleave.   *)
(*                                                                          *)
(* A pod is what the ads service answers for a break; the empty one, NoPod, *)
(* is slate.  Seconds outside breaks need nothing from the broker.          *)
(*                                                                          *)
(* An operator that is commented as a mutant is the definition below it     *)
(* with a mistake in it.  Nothing uses it: it stands for a bug that a       *)
(* property has to notice.                                                  *)
(***************************************************************************)
EXTENDS Integers, Sequences, FiniteSets

CONSTANTS
    Breaks,         \* the ad breaks of the schedule, [start, dur, category]
    Pods,           \* the pods the ads service may answer with
    NoPod,          \* an empty answer
    Error,          \* no answer: refused, broken or timed out
    LiveLead,       \* LIVE_LEAD_S
    PublishAhead,   \* PUBLISH_AHEAD_S, the length of the plan
    RetryEvery,     \* adRetryEvery
    Keep,           \* how long evict leaves a pod, one hour
    MaxStall,       \* bound: how many seconds may pass between two ticks
    MaxTime,        \* bound: the last second a tick may begin at
    MaxAsks         \* bound: how many requests are sent

ASSUME BrokerAssumption ==
    /\ \A b \in Breaks : {b.start, b.dur} \subseteq Nat
    /\ \A a, b \in Breaks : a.start <= b.start => a = b \/ a.start + a.dur <= b.start
    /\ NoPod \notin Pods /\ Error \notin Pods \cup {NoPod}
    /\ {LiveLead, PublishAhead, RetryEvery, Keep, MaxStall, MaxTime, MaxAsks} \subseteq Nat

VARIABLES
    now,        \* the clock
    pc,         \* where the tick is ("fill" with a registry file only)
    slot,       \* the second it plans from
    ts,         \* the second it is planning
    pods,       \* adBroker.pods: start of a break -> podEntry
    flights,    \* the requests that are not over, each for an entry of pods by its id
    asks,       \* how many requests were sent
    released,   \* the last second that was released
    shown       \* what the seconds of breaks that were released show

vars == <<now, pc, slot, ts, pods, flights, asks, released, shown>>

-----------------------------------------------------------------------------

With(f, k, v) == [x \in DOMAIN f \cup {k} |-> IF x = k THEN v ELSE f[x]]

Covering(t) == {b \in Breaks : b.start <= t /\ t < b.start + b.dur}
BreakAt(t)  == CHOOSE b \in Covering(t) : TRUE

\* mutant of IsDue: the second at the end of the lead is left out
IsDueShort(t) == t < slot + LiveLead

\* this clip is released now
IsDue(t) == t <= slot + LiveLead

Init ==
    /\ now = 1 /\ pc = "idle" /\ slot = 0 /\ ts = 0
    /\ pods = <<>> /\ flights = {} /\ asks = 0
    /\ released = 0 /\ shown = <<>>

\* what becomes of second ts once it is planned: if it is due, and new, it is released
Released(what) ==
    /\ ts' = ts + 1
    /\ pc' = "plan"
    /\ IF ts <= slot + LiveLead /\ ts > released
       THEN /\ released' = ts
            /\ shown' = IF Covering(ts) = {} THEN shown ELSE With(shown, ts, what)
       ELSE UNCHANGED <<released, shown>>

Planning == pc = "plan" /\ ts < slot + PublishAhead

TickStart ==
    /\ pc = "idle" /\ slot < now
    /\ pc' = "plan" /\ slot' = now /\ ts' = now
    /\ UNCHANGED <<now, pods, flights, asks, released, shown>>

\* a second without a break
PlanOther ==
    /\ Planning
    /\ Covering(ts) = {}
    /\ Released(NoPod)
    /\ UNCHANGED <<now, slot, pods, flights, asks>>

\* an answer is needed: none was asked for yet, or the last request failed and it is time for another
MustAsk(start) ==
    \/ start \notin DOMAIN pods
    \/ pods[start].state = "failed" /\ now - pods[start].failedAt >= RetryEvery

\* pod, up to the wait: the request of fetch starts in the background
Ask ==
    /\ Planning
    /\ Covering(ts) # {}
    /\ LET start == BreakAt(ts).start IN
       IF MustAsk(start)
       THEN /\ asks < MaxAsks
            /\ asks' = asks + 1
            /\ pods' = With(pods, start, [state |-> "pending", items |-> NoPod, failedAt |-> 0, id |-> asks'])
            /\ flights' = flights \cup {[start |-> start, id |-> asks']}
       ELSE UNCHANGED <<pods, flights, asks>>
    /\ pc' = "wait"
    /\ UNCHANGED <<now, slot, ts, released, shown>>

\* the wait of dueWait is over, or there was none: the pod is known
UsePod ==
    /\ pc = "wait"
    /\ pods[BreakAt(ts).start].state = "ready"
    /\ Released(pods[BreakAt(ts).start].items)
    /\ UNCHANGED <<now, slot, pods, flights, asks>>

\* giveUp: the break is slate, and no answer changes that
GivenUp(start) ==
    [pods EXCEPT ![start] = [state |-> "ready", items |-> NoPod, failedAt |-> pods[start].failedAt, id |-> pods[start].id]]

\* there is no pod and the second is due
GiveUp ==
    /\ pc = "wait"
    /\ pods[BreakAt(ts).start].state # "ready"
    /\ IsDue(ts)
    /\ pods' = GivenUp(BreakAt(ts).start)
    /\ Released(NoPod)
    /\ UNCHANGED <<now, slot, flights, asks>>

\* there is no pod and there is time: the plan ends before the break
HoldBack ==
    /\ pc = "wait"
    /\ pods[BreakAt(ts).start].state # "ready"
    /\ ~IsDue(ts)
    /\ pc' = "evict"
    /\ UNCHANGED <<now, slot, ts, pods, flights, asks, released, shown>>

PlanDone ==
    /\ pc = "plan" /\ ~Planning
    /\ pc' = "evict"
    /\ UNCHANGED <<now, slot, ts, pods, flights, asks, released, shown>>

\* evict: pods of breaks that began before the cutoff are forgotten
Evict ==
    /\ pc = "evict"
    /\ pods' = [s \in {s \in DOMAIN pods : s >= slot - Keep} |-> pods[s]]
    /\ pc' = "idle"
    /\ UNCHANGED <<now, slot, ts, flights, asks, released, shown>>

\* mutant of Awaited: an answer is taken whatever has happened since the request
AwaitedAlways(f) == f.start \in DOMAIN pods

\* the entry the request was made for is still there and still waits
Awaited(f) == f.start \in DOMAIN pods /\ pods[f.start].id = f.id /\ pods[f.start].state = "pending"

\* what the answer makes of the entry
Settled(entry, answer) ==
    IF answer = Error THEN [state |-> "failed", items |-> entry.items, failedAt |-> now, id |-> entry.id]
    ELSE [state |-> "ready", items |-> answer, failedAt |-> entry.failedAt, id |-> entry.id]

\* the goroutine of fetch ends
AnswerArrives(f, answer) ==
    /\ f \in flights
    /\ flights' = flights \ {f}
    /\ pods' = IF Awaited(f) THEN [pods EXCEPT ![f.start] = Settled(pods[f.start], answer)] ELSE pods
    /\ UNCHANGED <<now, pc, slot, ts, asks, released, shown>>

\* the clock; ticks come late, never while there is one
Clock(t) ==
    /\ pc = "idle" /\ slot = now
    /\ now < t /\ t <= MaxTime /\ t <= now + 1 + MaxStall
    /\ now' = t
    /\ UNCHANGED <<pc, slot, ts, pods, flights, asks, released, shown>>

\* the planner, whatever its pods come from
PlannerNext ==
    \/ TickStart \/ PlanOther \/ UsePod \/ PlanDone \/ Evict
    \/ \E t \in 1..MaxTime : Clock(t)

BrokerNext ==
    \/ Ask \/ GiveUp \/ HoldBack
    \/ \E f \in flights, a \in Pods \cup {NoPod, Error} : AnswerArrives(f, a)

Next == PlannerNext \/ BrokerNext

Spec == Init /\ [][Next]_vars

-----------------------------------------------------------------------------
(* Properties *)

\* "giveUp decides, once, that the break is filled with slate: a pod that arrives later is not used in the middle of
\* it" (podSource): whatever answers arrive, late, twice or never, and however requests are repeated, all seconds of a
\* break that were released show the same pod, or all show slate.
BreakOfOnePiece ==
    \A b \in Breaks : \A s, t \in DOMAIN shown :
        b \in Covering(s) \cap Covering(t) => shown[s] = shown[t]

\* "a slow or dead ads service never stops the stream" (adBroker): with any number of requests unanswered a tick
\* releases everything up to LIVE_LEAD_S ahead; a plan that ends before a break never ends before a second that is due.
NothingHeldBack == pc = "idle" /\ slot > 0 => released >= slot + LiveLead
=============================================================================
