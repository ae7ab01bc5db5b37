----------------------------- MODULE PodProofs ------------------------------
(***************************************************************************)
(* Proofs about ad breaks: what a channel shows in them, whatever the       *)
(* source of the pods, and the choice of creatives from a registry, for any *)
(* registry and any break.                                                  *)
(***************************************************************************)
EXTENDS PodSources, Codecs, IterationProofs, SequenceTheorems

-----------------------------------------------------------------------------
(* The invariant *)

\* the tick is working on a second
Working == pc \in {"plan", "wait", "fill"}

Numbers == /\ {now, slot, ts, released} \subseteq Nat
           /\ slot <= now
           /\ Working => slot <= ts /\ slot >= 1
           /\ pc \in {"idle", "plan", "wait", "fill", "evict"}

\* the planner waits for a pod that somebody is to make, and only a filler makes one itself
Waiting ==
    /\ pc \in {"wait", "fill"} => Covering(ts) # {}
    /\ pc = "wait" => BreakAt(ts).start \in DOMAIN pods
    /\ pc = "fill" => BreakAt(ts).start \notin DOMAIN pods

\* what a break has shown is the pod that is kept for it, until the break is over
Decided ==
    \A s \in DOMAIN shown : \A b \in Covering(s) :
        \/ source = "none" /\ shown[s] = NoPod
        \/ source # "none" /\ b.start \in DOMAIN pods /\ pods[b.start].state = "ready" /\ pods[b.start].items = shown[s]
        \/ b.start + b.dur <= slot

Sources == /\ source \in {"broker", "filler", "none"}
           /\ pc \in {"wait", "fill"} => source # "none"
           /\ pc = "fill" => source = "filler"

PieceInv == Numbers /\ Sources /\ Waiting /\ Decided /\ BreakOfOnePiece

\* everything before ts that is due has been released
Progress ==
    /\ Working /\ slot < ts => released >= ts - 1 \/ released >= slot + LiveLead
    /\ pc = "evict" => released >= slot + LiveLead
    /\ NothingHeldBack

\* the registry is that of the file if its time is
FileInv ==
    /\ {file.mtime, seen.mtime, mtime} \subseteq Nat
    /\ file.mtime >= 1 /\ seen.mtime <= file.mtime /\ mtime <= file.mtime
    /\ mtime = file.mtime /\ file.state # "broken" => reg = file.content

-----------------------------------------------------------------------------
(* Lemmas *)

\* breaks do not overlap: BreakAt is the one break of a second
LEMMA OneBreak ==
    ASSUME NEW t \in Int, NEW b \in Covering(t)
    PROVE  b = BreakAt(t) /\ b \in Breaks /\ b.start <= t /\ t < b.start + b.dur
           /\ b.start \in Nat /\ b.dur \in Nat
<1>1. \A x \in Covering(t) : x \in Breaks /\ x.start <= t /\ t < x.start + x.dur /\ x.start \in Nat /\ x.dur \in Nat
  BY BrokerAssumption DEF Covering
<1>2. BreakAt(t) \in Covering(t)
  BY DEF BreakAt
<1>3. b = BreakAt(t)
  BY <1>1, <1>2, BrokerAssumption
<1> QED BY <1>1, <1>3

\* a step that releases nothing and keeps the pods that are ready changes nothing about what breaks have shown
LEMMA NothingShown ==
    ASSUME PieceInv, UNCHANGED <<shown, source>>, slot' \in Nat, slot <= slot',
           \A k \in DOMAIN pods : pods[k].state = "ready" => k \in DOMAIN pods' /\ pods'[k] = pods[k]
    PROVE  Decided' /\ BreakOfOnePiece'
<1>1. BreakOfOnePiece'
  BY DEF PieceInv, BreakOfOnePiece, Covering
<1>2. ASSUME NEW s \in DOMAIN shown, NEW b \in Covering(s)
      PROVE  \/ source' = "none" /\ shown'[s] = NoPod
             \/ source' # "none" /\ b.start \in DOMAIN pods' /\ pods'[b.start].state = "ready" /\ pods'[b.start].items = shown'[s]
             \/ b.start + b.dur <= slot'
  <2>1. b.start \in Nat /\ b.dur \in Nat
    BY BrokerAssumption DEF Covering
  <2> QED BY <2>1 DEF PieceInv, Decided, Numbers
<1> QED BY <1>1, <1>2 DEF Decided, Covering

\* a second that is released shows the pod that is kept for its break, as the seconds before it did
LEMMA OnePieceReleased ==
    ASSUME PieceInv, NEW what, Released(what), UNCHANGED <<slot, source>>, slot <= ts,
           \A k \in DOMAIN pods : pods[k].state = "ready" => k \in DOMAIN pods' /\ pods'[k] = pods[k],
           \A b \in Covering(ts) :
               \/ source = "none" /\ what = NoPod
               \/ source # "none" /\ b.start \in DOMAIN pods' /\ pods'[b.start].state = "ready" /\ pods'[b.start].items = what
    PROVE  Decided' /\ BreakOfOnePiece'
<1>0. slot \in Nat /\ ts \in Nat
  BY DEF PieceInv, Numbers
<1>1. CASE shown' = shown
  BY <1>1, <1>0, NothingShown
<1>2. CASE shown' = With(shown, ts, what)
  <2>1. DOMAIN shown' = DOMAIN shown \cup {ts} /\ shown'[ts] = what
        /\ \A s \in DOMAIN shown : s # ts => shown'[s] = shown[s]
    BY <1>2 DEF With
  <2>2. ASSUME NEW s \in DOMAIN shown', NEW b \in Covering(s)
        PROVE  \/ source' = "none" /\ shown'[s] = NoPod
               \/ source' # "none" /\ b.start \in DOMAIN pods' /\ pods'[b.start].state = "ready" /\ pods'[b.start].items = shown'[s]
               \/ b.start + b.dur <= slot'
    <3>1. CASE s = ts
      BY <3>1, <2>1
    <3>2. CASE s # ts
      BY <3>2, <2>1 DEF PieceInv, Decided
    <3> QED BY <3>1, <3>2
  <2>3. Decided'
    BY <2>2 DEF Decided, Covering
  <2>4. ASSUME NEW b \in Breaks, NEW s \in DOMAIN shown', b \in Covering(s), b \in Covering(ts)
        PROVE  shown'[s] = what
    <3>1. ~(b.start + b.dur <= slot)
      BY <1>0, <2>4, OneBreak
    <3> QED BY <2>1, <2>2, <2>4, <3>1
  <2>5. BreakOfOnePiece'
    <3> SUFFICES ASSUME NEW b \in Breaks, NEW s \in DOMAIN shown', NEW t \in DOMAIN shown',
                        b \in Covering(s), b \in Covering(t)
                 PROVE  shown'[s] = shown'[t]
      BY DEF BreakOfOnePiece, Covering
    <3>1. CASE s = ts \/ t = ts
      BY <3>1, <2>1, <2>4
    <3>2. CASE s # ts /\ t # ts
      BY <3>2, <2>1 DEF PieceInv, BreakOfOnePiece
    <3> QED BY <3>1, <3>2
  <2> QED BY <2>3, <2>5
<1> QED BY <1>1, <1>2 DEF Released

\* a release moves on to the next second
LEMMA ReleaseMovesOn ==
    ASSUME Numbers, NEW what, Released(what), UNCHANGED <<now, slot>>, Working
    PROVE  Numbers' /\ pc' = "plan"
<1>1. ts' = ts + 1 /\ pc' = "plan" /\ released' \in {ts, released}
  BY DEF Released
<1> QED BY <1>1 DEF Numbers, Working

\* and leaves nothing behind that is due
LEMMA ReleaseProgress ==
    ASSUME Numbers, Progress, NEW what, Released(what), UNCHANGED <<now, slot>>, Working
    PROVE  Progress'
<1>0. {slot, ts, released, LiveLead} \subseteq Nat /\ slot <= ts
  BY BrokerAssumption DEF Numbers, Working
<1>1. ts' = ts + 1 /\ pc' = "plan"
  BY DEF Released
<1>2. released' >= ts \/ released' >= slot + LiveLead
  <2>1. CASE ts <= slot + LiveLead /\ ts > released
    BY <2>1, <1>0 DEF Released
  <2>2. CASE ~(ts <= slot + LiveLead /\ ts > released)
    <3>1. released' = released
      BY <2>2 DEF Released
    <3>2. CASE ts <= slot + LiveLead
      BY <3>1, <3>2, <2>2, <1>0
    <3>3. CASE ~(ts <= slot + LiveLead)
      <4>1. slot < ts
        BY <3>3, <1>0
      <4> QED BY <3>1, <3>3, <4>1, <1>0 DEF Progress
    <3> QED BY <3>2, <3>3
  <2> QED BY <2>1, <2>2
<1> QED BY <1>0, <1>1, <1>2 DEF Progress, NothingHeldBack, Working

-----------------------------------------------------------------------------
(* What a break shows *)

LEMMA PieceInit == SourcesInit => PieceInv
<1> SUFFICES ASSUME SourcesInit PROVE PieceInv
  OBVIOUS
<1>1. DOMAIN shown = {}
  BY DEF SourcesInit, Init
<1>2. Numbers /\ Sources /\ Waiting
  BY DEF SourcesInit, Init, Numbers, Sources, Waiting, Working
<1> QED BY <1>1, <1>2 DEF PieceInv, Decided, BreakOfOnePiece

LEMMA PiecePlanner ==
    ASSUME PieceInv, PlannerNext, UNCHANGED <<source, fillerVars>>, \A b \in Breaks : b.dur <= Keep
    PROVE  PieceInv'
<1> USE DEF PieceInv
<1>1. CASE TickStart
  <2>1. Numbers' /\ Sources' /\ Waiting'
    BY <1>1 DEF TickStart, Numbers, Sources, Waiting, Working
  <2>2. slot' \in Nat /\ slot <= slot'
    BY <1>1 DEF TickStart, Numbers
  <2> QED BY <1>1, <2>1, <2>2, NothingShown DEF TickStart
<1>2. CASE PlanOther
  <2>1. Working /\ slot <= ts
    BY <1>2 DEF PlanOther, Planning, Working, Numbers
  <2>2. Numbers' /\ pc' = "plan"
    BY <1>2, <2>1, ReleaseMovesOn DEF PlanOther
  <2>3. Decided' /\ BreakOfOnePiece'
    BY <1>2, <2>1, OnePieceReleased DEF PlanOther
  <2> QED BY <2>2, <2>3 DEF Sources, Waiting
<1>3. CASE UsePod
  <2>1. Working /\ slot <= ts /\ ts \in Nat
    BY <1>3 DEF UsePod, Working, Numbers
  <2>2. Numbers' /\ pc' = "plan"
    BY <1>3, <2>1, ReleaseMovesOn DEF UsePod
  <2>3. \A b \in Covering(ts) : b = BreakAt(ts)
    BY <2>1, OneBreak
  <2>4. Decided' /\ BreakOfOnePiece'
    BY <1>3, <2>1, <2>3, OnePieceReleased DEF UsePod, Waiting, Sources
  <2> QED BY <2>2, <2>4 DEF Sources, Waiting
<1>4. CASE PlanDone
  <2>1. Numbers' /\ Sources' /\ Waiting'
    BY <1>4 DEF PlanDone, Numbers, Sources, Waiting, Working
  <2> QED BY <1>4, <2>1, NothingShown DEF PlanDone, Numbers
<1>5. CASE Evict
  <2>1. Numbers' /\ Sources' /\ Waiting'
    BY <1>5 DEF Evict, Numbers, Sources, Waiting, Working
  <2>2. BreakOfOnePiece'
    BY <1>5 DEF Evict, BreakOfOnePiece, Covering
  <2>3. ASSUME NEW s \in DOMAIN shown, NEW b \in Covering(s)
        PROVE  \/ source' = "none" /\ shown'[s] = NoPod
               \/ source' # "none" /\ b.start \in DOMAIN pods' /\ pods'[b.start].state = "ready" /\ pods'[b.start].items = shown'[s]
               \/ b.start + b.dur <= slot'
    <3>1. b.start \in Nat /\ b.dur \in Nat /\ b.dur <= Keep /\ Keep \in Nat /\ slot \in Nat
      BY BrokerAssumption DEF Covering, Numbers
    <3>2. CASE b.start >= slot - Keep
      BY <1>5, <3>2 DEF Evict, Decided
    <3>3. CASE ~(b.start >= slot - Keep)
      BY <1>5, <3>1, <3>3 DEF Evict
    <3> QED BY <3>2, <3>3
  <2> QED BY <1>5, <2>1, <2>2, <2>3 DEF Evict, Decided, Covering
<1>6. ASSUME NEW t \in 1..MaxTime, Clock(t) PROVE PieceInv'
  <2>1. Numbers' /\ Sources' /\ Waiting'
    BY <1>6, BrokerAssumption DEF Clock, Numbers, Sources, Waiting, Working
  <2> QED BY <1>6, <2>1, NothingShown DEF Clock, Numbers
<1> QED BY <1>1, <1>2, <1>3, <1>4, <1>5, <1>6 DEF PlannerNext

LEMMA PieceBroker ==
    ASSUME PieceInv, source = "broker", BrokerNext, UNCHANGED <<source, fillerVars>>
    PROVE  PieceInv'
<1> USE DEF PieceInv
<1>1. CASE Ask
  <2> DEFINE start == BreakAt(ts).start
  <2>1. Numbers' /\ Sources' /\ UNCHANGED <<shown, source, slot, ts>> /\ slot \in Nat /\ pc' = "wait"
    BY <1>1 DEF Ask, Planning, Numbers, Sources, Working
  <2>2. Covering(ts') # {}
    BY <1>1, <2>1 DEF Ask
  <2>3. CASE MustAsk(start)
    <3>1. DOMAIN pods' = DOMAIN pods \cup {start} /\ \A k \in DOMAIN pods : k # start => pods'[k] = pods[k]
      BY <1>1, <2>3 DEF Ask, With
    <3>2. start \in DOMAIN pods => pods[start].state # "ready"
      BY <2>3 DEF MustAsk
    <3>3. Waiting'
      BY <3>1, <2>1, <2>2 DEF Waiting, Covering, BreakAt
    <3> QED BY <3>1, <3>2, <3>3, <2>1, NothingShown
  <2>4. CASE ~MustAsk(start)
    <3>1. pods' = pods /\ start \in DOMAIN pods
      BY <1>1, <2>4 DEF Ask, MustAsk
    <3>2. Waiting'
      BY <3>1, <2>1, <2>2 DEF Waiting, Covering, BreakAt
    <3> QED BY <3>1, <3>2, <2>1, NothingShown
  <2> QED BY <2>3, <2>4
<1>2. CASE GiveUp
  <2> DEFINE start == BreakAt(ts).start
  <2>1. Working /\ slot <= ts /\ ts \in Nat /\ start \in DOMAIN pods /\ pods[start].state # "ready"
    BY <1>2 DEF GiveUp, Working, Numbers, Waiting
  <2>2. Numbers' /\ pc' = "plan"
    BY <1>2, <2>1, ReleaseMovesOn DEF GiveUp
  <2>3. \A b \in Covering(ts) : b = BreakAt(ts)
    BY <2>1, OneBreak
  <2>4. DOMAIN pods' = DOMAIN pods /\ pods'[start].state = "ready" /\ pods'[start].items = NoPod
        /\ \A k \in DOMAIN pods : k # start => pods'[k] = pods[k]
    BY <1>2, <2>1 DEF GiveUp, GivenUp
  <2>5. Decided' /\ BreakOfOnePiece'
    BY <1>2, <2>1, <2>3, <2>4, OnePieceReleased DEF GiveUp
  <2> QED BY <2>2, <2>5 DEF Sources, Waiting
<1>3. CASE HoldBack
  <2>1. Numbers' /\ Sources' /\ Waiting'
    BY <1>3 DEF HoldBack, Numbers, Sources, Waiting, Working
  <2> QED BY <1>3, <2>1, NothingShown DEF HoldBack, Numbers
<1>4. ASSUME NEW f \in flights, NEW a \in Pods \cup {NoPod, Error}, AnswerArrives(f, a) PROVE PieceInv'
  <2>1. Numbers' /\ Sources' /\ UNCHANGED <<pc, shown, source, slot, ts>> /\ slot \in Nat
    BY <1>4 DEF AnswerArrives, Numbers, Sources, Working
  <2>2. DOMAIN pods' = DOMAIN pods /\ \A k \in DOMAIN pods : pods[k].state = "ready" => pods'[k] = pods[k]
    <3>1. CASE Awaited(f)
      BY <1>4, <3>1 DEF AnswerArrives, Awaited
    <3>2. CASE ~Awaited(f)
      BY <1>4, <3>2 DEF AnswerArrives
    <3> QED BY <3>1, <3>2
  <2>3. Waiting'
    BY <2>1, <2>2 DEF Waiting, Covering, BreakAt
  <2> QED BY <2>1, <2>2, <2>3, NothingShown
<1> QED BY <1>1, <1>2, <1>3, <1>4 DEF BrokerNext

LEMMA PieceFiller ==
    ASSUME PieceInv, FillerNext
    PROVE  PieceInv'
<1> USE DEF PieceInv
<1>1. CASE Look
  <2>1. Numbers' /\ Sources' /\ UNCHANGED <<shown, source, slot, ts, pods>> /\ slot \in Nat
    BY <1>1 DEF Look, Planning, Numbers, Sources, Working
  <2>2. Waiting'
    BY <1>1, <2>1 DEF Look, Waiting, Covering, BreakAt
  <2> QED BY <2>1, <2>2, NothingShown
<1>2. CASE FillPod
  <2> DEFINE start == BreakAt(ts).start
  <2>1. Numbers' /\ Sources' /\ UNCHANGED <<shown, source, slot, ts>> /\ slot \in Nat /\ pc' = "wait"
    BY <1>2 DEF FillPod, Numbers, Sources, Working
  <2>2. DOMAIN pods' = DOMAIN pods \cup {start} /\ \A k \in DOMAIN pods : k # start => pods'[k] = pods[k]
    BY <1>2 DEF FillPod, With
  <2>3. start \notin DOMAIN pods /\ Covering(ts) # {}
    BY <1>2 DEF FillPod, Waiting
  <2>4. Waiting'
    BY <2>1, <2>2, <2>3 DEF Waiting, Covering, BreakAt
  <2> QED BY <2>1, <2>2, <2>3, <2>4, NothingShown
<1>3. ASSUME UNCHANGED <<vars, source>> PROVE PieceInv'
  BY <1>3 DEF vars, Numbers, Sources, Waiting, Working, Decided, BreakOfOnePiece, Covering, BreakAt
<1> QED BY <1>1, <1>2, <1>3 DEF FillerNext, MoveFile, WriteFile

LEMMA PieceNoAds ==
    ASSUME PieceInv, NoAds
    PROVE  PieceInv'
<1> USE DEF PieceInv
<1>1. Working /\ slot <= ts
  BY DEF NoAds, Planning, Working, Numbers
<1>2. Numbers' /\ pc' = "plan"
  BY <1>1, ReleaseMovesOn DEF NoAds
<1>3. Decided' /\ BreakOfOnePiece'
  BY <1>1, OnePieceReleased DEF NoAds
<1> QED BY <1>2, <1>3 DEF Sources, Waiting, NoAds

LEMMA PieceStep ==
    ASSUME PieceInv, [SourcesNext]_allVars, \A b \in Breaks : b.dur <= Keep
    PROVE  PieceInv'
<1>1. CASE UNCHANGED allVars
  BY <1>1 DEF allVars, vars, PieceInv, Numbers, Sources, Waiting, Working, Decided, BreakOfOnePiece, Covering, BreakAt
<1> QED BY <1>1, PiecePlanner, PieceBroker, PieceFiller, PieceNoAds DEF SourcesNext

\* Every break is of one piece, whatever answers arrive when and however often the registry is replaced, if no break is
\* longer than evict keeps its pod: the hour of ads.go.  The engine would ask again in the middle of a longer break, as
\* evict goes by where the break begins.
THEOREM BreaksAreOfOnePiece ==
    ASSUME \A b \in Breaks : b.dur <= Keep
    PROVE  SourcesSpec => []BreakOfOnePiece
<1>1. PieceInv => BreakOfOnePiece
  BY DEF PieceInv
<1>2. PieceInv /\ [SourcesNext]_allVars => PieceInv'
  BY PieceStep
<1> QED BY <1>1, <1>2, PieceInit, PTL DEF SourcesSpec

-----------------------------------------------------------------------------
(* Nothing that is due is held back *)

LEMMA LeadPlanner ==
    ASSUME Numbers, Progress, PlannerNext, LiveLead < PublishAhead
    PROVE  Numbers' /\ Progress'
<1>0. {now, slot, ts, released, LiveLead, PublishAhead} \subseteq Nat /\ slot <= now
  BY BrokerAssumption DEF Numbers
<1>1. CASE TickStart
  BY <1>0, <1>1 DEF TickStart, Numbers, Progress, NothingHeldBack, Working
<1>2. CASE PlanOther
  <2>1. Working
    BY <1>2 DEF PlanOther, Planning, Working
  <2> QED BY <1>2, <2>1, ReleaseMovesOn, ReleaseProgress DEF PlanOther
<1>3. CASE UsePod
  <2>1. Working
    BY <1>3 DEF UsePod, Working
  <2> QED BY <1>3, <2>1, ReleaseMovesOn, ReleaseProgress DEF UsePod
<1>4. CASE PlanDone
  <2>1. ts >= slot + PublishAhead /\ Working
    BY <1>0, <1>4 DEF PlanDone, Planning, Working
  <2>2. released >= slot + LiveLead
    BY <1>0, <2>1 DEF Progress
  <2> QED BY <1>4, <2>2 DEF PlanDone, Numbers, Progress, NothingHeldBack, Working
<1>5. CASE Evict
  BY <1>5 DEF Evict, Numbers, Progress, NothingHeldBack, Working
<1>6. ASSUME NEW t \in 1..MaxTime, Clock(t) PROVE Numbers' /\ Progress'
  BY <1>0, <1>6, BrokerAssumption DEF Clock, Numbers, Progress, NothingHeldBack, Working
<1> QED BY <1>1, <1>2, <1>3, <1>4, <1>5, <1>6 DEF PlannerNext

LEMMA LeadBroker ==
    ASSUME Numbers, Progress, BrokerNext
    PROVE  Numbers' /\ Progress'
<1>0. {now, slot, ts, released, LiveLead, PublishAhead} \subseteq Nat /\ slot <= now
  BY BrokerAssumption DEF Numbers
<1>1. CASE Ask
  BY <1>0, <1>1 DEF Ask, Planning, Numbers, Progress, NothingHeldBack, Working
<1>2. CASE GiveUp
  <2>1. Working
    BY <1>2 DEF GiveUp, Working
  <2> QED BY <1>2, <2>1, ReleaseMovesOn, ReleaseProgress DEF GiveUp
<1>3. CASE HoldBack
  <2>1. ts > slot + LiveLead /\ Working
    BY <1>0, <1>3 DEF HoldBack, IsDue, Working
  <2>2. released >= slot + LiveLead
    BY <1>0, <2>1 DEF Progress
  <2> QED BY <1>3, <2>2 DEF HoldBack, Numbers, Progress, NothingHeldBack, Working
<1>4. ASSUME NEW f \in flights, NEW a \in Pods \cup {NoPod, Error}, AnswerArrives(f, a) PROVE Numbers' /\ Progress'
  BY <1>4 DEF AnswerArrives, Numbers, Progress, NothingHeldBack, Working
<1> QED BY <1>1, <1>2, <1>3, <1>4 DEF BrokerNext

LEMMA LeadFiller ==
    ASSUME Numbers, Progress, FillerNext \/ NoAds \/ UNCHANGED allVars
    PROVE  Numbers' /\ Progress'
<1>1. CASE Look \/ FillPod
  <2>1. UNCHANGED <<now, slot, ts, released>> /\ pc \in {"plan", "fill"} /\ pc' \in {"wait", "fill"}
    BY <1>1 DEF Look, FillPod, Planning
  <2> QED BY <2>1 DEF Numbers, Progress, NothingHeldBack, Working
<1>2. CASE NoAds
  <2>1. Working
    BY <1>2 DEF NoAds, Planning, Working
  <2> QED BY <1>2, <2>1, ReleaseMovesOn, ReleaseProgress DEF NoAds
<1>3. ASSUME UNCHANGED vars PROVE Numbers' /\ Progress'
  BY <1>3 DEF vars, Numbers, Progress, NothingHeldBack, Working
<1> QED BY <1>1, <1>2, <1>3 DEF FillerNext, MoveFile, WriteFile, allVars

\* A tick ends with everything up to LIVE_LEAD_S ahead released, with any number of requests unanswered, any source of
\* pods and any file, if the plan reaches further than the lead (30 and 6 seconds by default; nothing compares them
\* when they are set).
THEOREM NothingDueIsHeldBack ==
    ASSUME LiveLead < PublishAhead
    PROVE  SourcesSpec => []NothingHeldBack
<1> DEFINE LeadInv == Numbers /\ Progress
<1>1. SourcesInit => LeadInv
  BY DEF SourcesInit, Init, Numbers, Progress, NothingHeldBack, Working
<1>2. LeadInv /\ [SourcesNext]_allVars => LeadInv'
  BY LeadPlanner, LeadBroker, LeadFiller DEF SourcesNext
<1>3. LeadInv => NothingHeldBack
  BY DEF Progress
<1> HIDE DEF LeadInv
<1> QED BY <1>1, <1>2, <1>3, PTL DEF SourcesSpec

-----------------------------------------------------------------------------
(* The registry file *)

LEMMA FileInit == SourcesInit => FileInv
  BY DEF SourcesInit, FileInv

LEMMA FileStep ==
    ASSUME FileInv, [SourcesNext]_allVars
    PROVE  FileInv'
<1>1. CASE Look
  BY <1>1 DEF Look, FileInv
<1>2. CASE FillPod
  <2>1. UNCHANGED <<file, seen>> /\ reg' = Reloaded.reg /\ mtime' = Reloaded.mtime
    BY <1>2 DEF FillPod
  <2>2. CASE seen.state = "gone"
    BY <2>1, <2>2 DEF Reloaded, FileInv
  <2>3. CASE seen.state # "gone" /\ seen.mtime # mtime /\ file.state = "good"
    BY <2>1, <2>3 DEF Reloaded, FileInv
  <2>4. CASE seen.state # "gone" /\ ~(seen.mtime # mtime /\ file.state = "good")
    BY <2>1, <2>4 DEF Reloaded, FileInv
  <2> QED BY <2>2, <2>3, <2>4
<1>3. CASE MoveFile
  <2>1. UNCHANGED <<seen, reg, mtime>> /\ file'.mtime = file.mtime /\ file'.content = file.content /\ file.state # "broken"
    BY <1>3 DEF MoveFile
  <2> QED BY <2>1 DEF FileInv
<1>4. ASSUME NEW state, NEW content, WriteFile(state, content) PROVE FileInv'
  BY <1>4 DEF WriteFile, FileInv
<1>5. ASSUME UNCHANGED fillerVars PROVE FileInv'
  BY <1>5 DEF fillerVars, FileInv
<1> QED BY <1>1, <1>2, <1>3, <1>4, <1>5 DEF SourcesNext, FillerNext, NoAds, allVars

\* A pod that is made while nobody touches the registry file is made from what the file holds: the time that reload
\* compares stands for the content, also after the file was gone or broken.
THEOREM FileAlwaysCounts == SourcesSpec => FileCounts
<1>1. FileInv /\ [SourcesNext]_allVars
      => [FillPod /\ file = seen /\ file.state = "good" => reg' = file.content]_allVars
  BY DEF FillPod, Reloaded, FileInv
<1>2. FileInv /\ [SourcesNext]_allVars => FileInv'
  BY FileStep
<1> QED BY <1>1, <1>2, FileInit, PTL DEF SourcesSpec, FileCounts

-----------------------------------------------------------------------------
(* The choice of creatives *)

\* R orders the elements of S
Orders(R, S) ==
    /\ \A x \in S : <<x, x>> \notin R
    /\ \A x, y, z \in S : <<x, y>> \in R /\ <<y, z>> \in R => <<x, z>> \in R
    /\ \A x, y \in S : x = y \/ <<x, y>> \in R \/ <<y, x>> \in R

\* a sequence has every element of a set, each once
Lists(s, S) ==
    /\ s \in Seq(S) /\ Len(s) = Cardinality(S)
    /\ \A m, n \in 1 .. Len(s) : s[m] = s[n] => m = n
    /\ \A x \in S : \E n \in 1 .. Len(s) : s[n] = x

LEMMA OrderLists ==
    ASSUME NEW S, IsFiniteSet(S), NEW R, Orders(R, S)
    PROVE  Lists(InOrder(S, R), S)
<1> DEFINE Before(x) == {d \in S : <<d, x>> \in R}
           N == Cardinality(S)
           key == [x \in S |-> Cardinality(Before(x))]
           rank == [x \in S |-> Cardinality({y \in S : key[y] <= key[x]})]
           f == InOrder(S, R)
<1>1. \A x \in S : Before(x) \in SUBSET S /\ IsFiniteSet(Before(x)) /\ Cardinality(Before(x)) \in Nat
  <2> TAKE x \in S
  <2>1. Before(x) \in SUBSET S
    OBVIOUS
  <2> QED BY <2>1, FS_Subset, FS_CardinalityType
<1>2. ASSUME NEW x \in S, NEW y \in S, <<x, y>> \in R
      PROVE  Cardinality(Before(x)) < Cardinality(Before(y))
  <2>1. Before(x) \in SUBSET Before(y)
    BY <1>2, Zenon DEF Orders
  <2>2. x \in Before(y) /\ x \notin Before(x)
    BY <1>2, Zenon DEF Orders
  <2> HIDE DEF Before
  <2>3. Cardinality(Before(x)) <= Cardinality(Before(y)) /\ Cardinality(Before(x)) # Cardinality(Before(y))
    BY <1>1, <2>1, <2>2, FS_Subset
  <2> QED BY <1>1, <2>3
<1> HIDE DEF Before
<1>3. key \in [S -> Nat] /\ \A x, y \in S : <<x, y>> \in R => key[x] < key[y]
  BY <1>1, <1>2
<1>4. \A x, y \in S : key[x] = key[y] => x = y
  <2> HIDE DEF key
  <2> TAKE x, y \in S
  <2> HAVE key[x] = key[y]
  <2>1. ~(<<x, y>> \in R) /\ ~(<<y, x>> \in R)
    BY <1>3
  <2> QED BY <2>1, Zenon DEF Orders
<1>5. /\ N \in Nat /\ rank \in [S -> 1 .. N]
      /\ \A x, y \in S : key[x] < key[y] <=> rank[x] < rank[y]
      /\ \A n \in 1 .. N : \E x \in S : rank[x] = n
  <2> DEFINE Rank == rank
  <2>1. DOMAIN Rank = S /\ Rank = [x \in S |-> Rank[x]] /\ \A x \in S : Rank[x] = Cardinality({y \in S : key[y] <= key[x]})
    OBVIOUS
  <2> HIDE DEF Rank, key
  <2>2. /\ Cardinality(S) \in Nat
        /\ Rank \in [S -> 1 .. Cardinality(S)]
        /\ \A x, y \in S : key[x] < key[y] <=> Rank[x] < Rank[y]
        /\ \A n \in 1 .. Cardinality(S) : \E x \in S : Rank[x] = n
    BY <1>3, <1>4, <2>1, Ranks
  <2> QED BY <2>2 DEF Rank
<1>6. ASSUME NEW x \in S
      PROVE  rank[x] = key[x] + 1
  <2> DEFINE T == {y \in S : key[y] <= key[x]}
  <2>1. \A y \in S : key[y] <= key[x] <=> y \in Before(x) \/ y = x
    <3> HIDE DEF key
    <3> TAKE y \in S
    <3>1. y = x => key[y] <= key[x]
      BY <1>3
    <3>2. <<y, x>> \in R => key[y] <= key[x]
      BY <1>3
    <3>3. <<x, y>> \in R => ~(key[y] <= key[x])
      BY <1>3
    <3> QED BY <3>1, <3>2, <3>3, Zenon DEF Orders, Before
  <2>2. Before(x) \cup {x} = T
    <3>1. \A y \in Before(x) : y \in S
      BY Zenon DEF Before
    <3> HIDE DEF key
    <3> QED BY <2>1, <3>1, Zenon
  <2>3. x \notin Before(x)
    BY Zenon DEF Orders, Before
  <2>4. Cardinality(Before(x) \cup {x}) = Cardinality(Before(x)) + 1
    BY <1>1, <2>3, FS_AddElement
  <2>5. rank[x] = Cardinality(T) /\ key[x] = Cardinality(Before(x))
    OBVIOUS
  <2> HIDE DEF T, key, rank
  <2> QED BY <2>2, <2>4, <2>5
<1> HIDE DEF rank
<1>7. f = [n \in 1 .. N |-> CHOOSE c \in S : key[c] = n - 1]
  <2>1. \A c \in S : key[c] = Cardinality({d \in S : <<d, c>> \in R})
    BY DEF Before
  <2> HIDE DEF key
  <2>2. \A n : (CHOOSE c \in S : Cardinality({d \in S : <<d, c>> \in R}) = n - 1) = (CHOOSE c \in S : key[c] = n - 1)
    BY <2>1, Zenon
  <2>3. f = [n \in 1 .. N |-> CHOOSE c \in S : Cardinality({d \in S : <<d, c>> \in R}) = n - 1]
    BY Zenon DEF InOrder
  <2> QED BY <2>2, <2>3, Zenon
<1> HIDE DEF key, f
<1>8. ASSUME NEW n \in 1 .. N
      PROVE  f[n] \in S /\ key[f[n]] = n - 1
  <2>1. PICK x \in S : rank[x] = n
    BY <1>5
  <2>2. key[x] = n - 1
    BY <1>3, <1>6, <2>1
  <2>3. f[n] = CHOOSE c \in S : key[c] = n - 1
    BY <1>7
  <2> QED BY <2>2, <2>3, Zenon
<1>9. f \in Seq(S) /\ Len(f) = N
  <2>1. f \in [1 .. N -> S]
    BY <1>7, <1>8, Zenon
  <2> QED BY <1>5, <2>1
<1>10. \A m, n \in 1 .. N : f[m] = f[n] => m = n
  <2> TAKE m, n \in 1 .. N
  <2> HAVE f[m] = f[n]
  <2>1. m - 1 = n - 1
    BY <1>8
  <2> QED BY <1>5, <2>1
<1>11. \A x \in S : \E n \in 1 .. N : f[n] = x
  <2> TAKE x \in S
  <2>1. rank[x] \in 1 .. N /\ key[x] = rank[x] - 1
    BY <1>3, <1>5, <1>6
  <2>2. f[rank[x]] = x
    BY <1>4, <1>8, <2>1
  <2> QED BY <2>1, <2>2
<1> HIDE DEF N
<1> QED BY <1>9, <1>10, <1>11, Zenon DEF Lists, f, N

\* both ways of sorting creatives that have identifiers of their own put them in an order
LEMMA LongerOrders ==
    ASSUME NEW S, \A c \in S : c \in Creatives, \A c, d \in S : c.id = d.id => c = d
    PROVE  Orders(Longer(S), S) /\ Orders(LongerOrLast(S), S)
<1> DEFINE First(a, b) == a.duration > b.duration \/ (a.duration = b.duration /\ a.id < b.id)
           Later(a, b) == a.duration > b.duration \/ (a.duration = b.duration /\ a.id > b.id)
<1>1. \A c \in S : c.duration \in Int /\ c.id \in Int
  BY DEF Creatives
<1>2. \A a, b \in S : (<<a, b>> \in Longer(S) <=> First(a, b)) /\ (<<a, b>> \in LongerOrLast(S) <=> Later(a, b))
  BY DEF Longer, LongerOrLast
<1>3. \A a \in S : ~First(a, a) /\ ~Later(a, a)
  BY <1>1
<1>4. \A a, b, c \in S : (First(a, b) /\ First(b, c) => First(a, c)) /\ (Later(a, b) /\ Later(b, c) => Later(a, c))
  BY <1>1
<1>5. \A a, b \in S : a = b \/ ((First(a, b) \/ First(b, a)) /\ (Later(a, b) \/ Later(b, a)))
  BY <1>1
<1> HIDE DEF First, Later
<1> QED BY <1>2, <1>3, <1>4, <1>5, Zenon DEF Orders

\* creatives that can be played: they have a length
Timed(S) == IsFiniteSet(S) /\ \A c \in S : c.duration \in Nat \ {0}

LEMMA TogetherFacts ==
    ASSUME NEW S, Timed(S)
    PROVE  /\ Together(S) \in Nat
           /\ S = {} => Together(S) = 0
           /\ \A c : c \notin S /\ c.duration \in Nat \ {0} => /\ Timed(S \cup {c})
                                                              /\ Together(S \cup {c}) = c.duration + Together(S)
<1> DEFINE f == [c \in S |-> c.duration]
<1>1. IsFiniteSet(S) /\ \A c \in S : f[c] = c.duration /\ c.duration \in Nat
  BY DEF Timed
<1>2. Together(S) = SumOver(f, S)
  BY DEF Together
<1> HIDE DEF f
<1>3. Together(S) \in Nat
  BY <1>1, <1>2, SumType
<1>4. S = {} => Together(S) = 0
  BY <1>2, SumEmpty
<1>5. ASSUME NEW c, c \notin S, c.duration \in Nat \ {0}
      PROVE  Timed(S \cup {c}) /\ Together(S \cup {c}) = c.duration + Together(S)
  <2> DEFINE T == S \cup {c}
             g == [d \in T |-> d.duration]
  <2>1. IsFiniteSet(T) /\ \A d \in T : g[d] = d.duration /\ d.duration \in Nat \ {0}
    BY <1>5, FS_AddElement DEF Timed
  <2>2. Together(T) = SumOver(g, T)
    BY DEF Together
  <2>3. g[c] = c.duration
    BY <2>1
  <2> HIDE DEF g
  <2>4. SumOver(g, T) = g[c] + SumOver(g, S)
    BY <1>1, <1>5, <2>1, SumAdd
  <2>5. SumOver(g, S) = SumOver(f, S)
    BY <1>1, <2>1, SumSame
  <2> QED BY <1>2, <2>1, <2>2, <2>3, <2>4, <2>5 DEF Timed
<1> QED BY <1>3, <1>4, <1>5

\* a creative less
LEMMA TogetherLess ==
    ASSUME NEW S, Timed(S), NEW c \in S
    PROVE  Timed(S \ {c}) /\ Together(S) = c.duration + Together(S \ {c})
<1> DEFINE T == S \ {c}
<1>1. Timed(T)
  BY FS_Subset DEF Timed
<1>2. S = T \cup {c} /\ c \notin T /\ c.duration \in Nat \ {0}
  BY DEF Timed
<1> HIDE DEF T
<1>3. Together(T \cup {c}) = c.duration + Together(T)
  BY <1>1, <1>2, TogetherFacts
<1> QED BY <1>1, <1>2, <1>3 DEF T

\* a sequence is as long as what it lists
LEMMA TotalEmpty == TotalOf(<<>>) = 0
BY SumEmpty DEF TotalOf

LEMMA TotalAppend ==
    ASSUME NEW S, \A c \in S : c.duration \in Nat, NEW s \in Seq(S), NEW c \in S
    PROVE  TotalOf(s) \in Nat /\ TotalOf(Append(s, c)) = TotalOf(s) + c.duration
<1> DEFINE n == Len(s)
           t == Append(s, c)
           f == [i \in DOMAIN s |-> s[i].duration]
           g == [i \in DOMAIN t |-> t[i].duration]
<1>1. n \in Nat /\ DOMAIN s = 1 .. n /\ DOMAIN t = 1 .. n + 1 /\ n + 1 \notin 1 .. n /\ t[n + 1] = c
  OBVIOUS
<1>2. \A i \in 1 .. n : t[i] = s[i] /\ s[i] \in S /\ i \in 1 .. n + 1
  OBVIOUS
<1>3. TotalOf(s) = SumOver(f, 1 .. n) /\ TotalOf(t) = SumOver(g, 1 .. n + 1)
  BY <1>1, Zenon DEF TotalOf
<1>4. 1 .. n + 1 = (1 .. n) \cup {n + 1}
  BY <1>1
<1>5. IsFiniteSet(1 .. n)
  BY <1>1, FS_Interval
<1>6. \A i \in 1 .. n : f[i] = s[i].duration /\ g[i] = s[i].duration /\ f[i] \in Nat
  BY <1>1, <1>2
<1>7. g[n + 1] = c.duration
  BY <1>1
<1> HIDE DEF n, t, f, g
<1>8. SumOver(f, 1 .. n) \in Nat
  BY <1>5, <1>6, SumType
<1>9. SumOver(g, (1 .. n) \cup {n + 1}) = g[n + 1] + SumOver(g, 1 .. n)
  BY <1>1, <1>5, <1>6, <1>7, SumAdd
<1>10. SumOver(g, 1 .. n) = SumOver(f, 1 .. n)
  <2>1. \A i \in 1 .. n : g[i] = f[i]
    BY <1>6
  <2> QED BY <1>5, <2>1, SumSame
<1>11. c.duration \in Nat
  OBVIOUS
<1>12. TotalOf(t) = c.duration + SumOver(f, 1 .. n)
  BY <1>3, <1>4, <1>7, <1>9, <1>10
<1> QED BY <1>3, <1>8, <1>11, <1>12 DEF t

-----------------------------------------------------------------------------

\* A loop that stays in a set has values: the first is a, and every step makes the next of the one before.
StepsIn(step, n, S) == \A k \in 1 .. n, x \in S : step[<<k, x>>] \in S

Runs(step, n, S, a) == \E g \in [0 .. n -> S] : g[0] = a /\ \A k \in 1 .. n : g[k] = step[<<k, g[k - 1]>>]

LEMMA LoopValues ==
    ASSUME NEW n \in Nat, NEW S, NEW a \in S, NEW step, StepsIn(step, n, S)
    PROVE  Runs(step, n, S, a)
<1> DEFINE Is(g, m) == g \in [0 .. m -> S] /\ g[0] = a /\ \A k \in 1 .. m : g[k] = step[<<k, g[k - 1]>>]
           X == {m \in Nat : m <= n => \E g : Is(g, m)}
<1>1. 0 \in X
  <2> DEFINE g == [k \in 0 .. 0 |-> a]
  <2>1. g \in [0 .. 0 -> S] /\ g[0] = a
    OBVIOUS
  <2>2. Is(g, 0)
    <3> HIDE DEF g
    <3> QED BY <2>1
  <2> QED BY <2>2
<1>2. ASSUME NEW m \in Nat, m \in X PROVE m + 1 \in X
  <2>1. SUFFICES ASSUME m + 1 <= n PROVE \E g : Is(g, m + 1)
    OBVIOUS
  <2>2. PICK g : Is(g, m)
    BY <1>2, <2>1
  <2>3. g[m] \in S /\ m + 1 \in 1 .. n
    BY <2>1, <2>2
  <2> DEFINE before == step[<<m + 1, g[m]>>]
             h == [k \in 0 .. m + 1 |-> IF k = m + 1 THEN before ELSE g[k]]
  <2>4. before \in S
    BY <2>3 DEF StepsIn
  <2>5. /\ h \in [0 .. m + 1 -> S]
        /\ h[m + 1] = before /\ \A k \in 0 .. m : h[k] = g[k]
    <3> HIDE DEF before
    <3>1. \A k \in 0 .. m + 1 : k = m + 1 \/ k \in 0 .. m
      OBVIOUS
    <3>2. \A k \in 0 .. m : k # m + 1 /\ k \in 0 .. m + 1 /\ g[k] \in S
      BY <2>2
    <3>3. m + 1 \in 0 .. m + 1
      OBVIOUS
    <3> QED BY <2>4, <3>1, <3>2, <3>3
  <2> HIDE DEF h
  <2>6. \A k \in 1 .. m + 1 : h[k] = step[<<k, h[k - 1]>>]
    <3> SUFFICES ASSUME NEW k \in 1 .. m + 1 PROVE h[k] = step[<<k, h[k - 1]>>]
      OBVIOUS
    <3>1. CASE k = m + 1
      <4>1. k - 1 = m /\ m \in 0 .. m
        BY <3>1
      <4>2. h[m] = g[m]
        BY <2>5, <4>1
      <4> QED BY <2>5, <3>1, <4>1, <4>2
    <3>2. CASE k # m + 1
      <4>1. k \in 1 .. m /\ k \in 0 .. m /\ k - 1 \in 0 .. m
        BY <3>2
      <4> QED BY <2>2, <2>5, <4>1
    <3> QED BY <3>1, <3>2
  <2>7. h[0] = a
    BY <2>2, <2>5
  <2> QED BY <2>5, <2>6, <2>7
<1>3. \A m \in Nat : m \in X
  <2> HIDE DEF X
  <2> QED BY <1>1, <1>2, NumberInduction
<1>4. PICK g : Is(g, n)
  BY <1>3
<1> QED BY <1>4 DEF Runs

\* what a loop over a sequence keeps: how few creatives give a sum, or that nothing does
Sums(limit) == [0 .. limit -> Nat \cup {None}]

LEMMA PassFacts ==
    ASSUME NEW limit \in Nat, NEW row \in Sums(limit), NEW c, c.duration \in Nat \ {0}
    PROVE  LET next == Pass(row, c, limit)
               d == c.duration
           IN  /\ next \in Sums(limit)
               /\ next[0] = row[0]
               /\ \A s \in 0 .. limit :
                     /\ row[s] # None => next[s] # None /\ next[s] <= row[s]
                     /\ s >= d /\ row[s - d] # None => next[s] # None /\ next[s] <= row[s - d] + 1
                     /\ Improves(row, c, s) => s >= d /\ s - d \in 0 .. limit /\ row[s - d] # None /\ next[s] = row[s - d] + 1
                     /\ ~Improves(row, c, s) => next[s] = row[s]
<1> DEFINE next == Pass(row, c, limit)
           d == c.duration
<1>1. \A s \in 0 .. limit : next[s] = IF Improves(row, c, s) THEN row[s - d] + 1 ELSE row[s]
  BY DEF Pass
<1>2. \A s \in 0 .. limit : Improves(row, c, s) <=> /\ s >= d /\ row[s - d] # None
                                                   /\ (row[s] = None \/ row[s - d] + 1 < row[s])
  BY DEF Improves
<1>3. \A s \in 0 .. limit : s >= d => s - d \in 0 .. limit
  OBVIOUS
<1>4. \A s \in 0 .. limit : row[s] \in Int /\ (row[s] # None => row[s] \in Nat)
  BY DEF Sums, None
<1>5. next = [s \in 0 .. limit |-> next[s]]
  BY DEF Pass
<1>6. 0 \in 0 .. limit /\ ~(0 >= d)
  OBVIOUS
<1> HIDE DEF next
<1>7. ASSUME NEW s \in 0 .. limit
      PROVE  /\ next[s] \in Nat \cup {None}
             /\ row[s] # None => next[s] # None /\ next[s] <= row[s]
             /\ s >= d /\ row[s - d] # None => next[s] # None /\ next[s] <= row[s - d] + 1
             /\ Improves(row, c, s) => s >= d /\ s - d \in 0 .. limit /\ row[s - d] # None /\ next[s] = row[s - d] + 1
             /\ ~Improves(row, c, s) => next[s] = row[s]
  <2>1. CASE Improves(row, c, s)
    <3>1. s >= d /\ s - d \in 0 .. limit /\ row[s - d] # None /\ next[s] = row[s - d] + 1 /\ row[s - d] \in Nat
      BY <1>1, <1>2, <1>3, <1>4, <2>1
    <3>2. row[s] = None \/ row[s - d] + 1 < row[s]
      BY <1>2, <2>1
    <3> QED BY <1>4, <2>1, <3>1, <3>2 DEF None
  <2>2. CASE ~Improves(row, c, s)
    <3>1. next[s] = row[s]
      BY <1>1, <2>2
    <3>2. row[s] \in Nat \cup {None}
      BY DEF Sums
    <3>3. ASSUME s >= d, row[s - d] # None PROVE row[s] # None /\ row[s] <= row[s - d] + 1
      <4>1. row[s] # None /\ ~(row[s - d] + 1 < row[s])
        BY <1>2, <2>2, <3>3
      <4>2. row[s] \in Int /\ row[s - d] \in Int
        BY <1>3, <1>4, <3>3
      <4> QED BY <4>1, <4>2
    <3> QED BY <1>4, <2>2, <3>1, <3>2, <3>3
  <2> QED BY <2>1, <2>2
<1>8. next \in Sums(limit)
  BY <1>5, <1>7 DEF Sums
<1>9. next[0] = row[0]
  BY <1>1, <1>2, <1>6
<1> QED BY <1>7, <1>8, <1>9 DEF next

\* a pool of creatives, each there once
IsPool(pool) ==
    /\ pool \in Seq({pool[i] : i \in 1 .. Len(pool)})
    /\ \A i \in 1 .. Len(pool) : pool[i].duration \in Nat \ {0}
    /\ \A i, j \in 1 .. Len(pool) : pool[i] = pool[j] => i = j

\* its first k
First(pool, k) == {pool[i] : i \in 1 .. k}

LEMMA FirstFacts ==
    ASSUME NEW pool, IsPool(pool), NEW k \in 0 .. Len(pool)
    PROVE  /\ First(pool, 0) = {}
           /\ \A U \in SUBSET First(pool, k) : Timed(U)
           /\ k < Len(pool) => /\ First(pool, k + 1) = First(pool, k) \cup {pool[k + 1]}
                               /\ pool[k + 1] \notin First(pool, k)
                               /\ pool[k + 1].duration \in Nat \ {0}
<1>1. Len(pool) \in Nat
  BY DEF IsPool
<1>2. First(pool, 0) = {}
  BY DEF First
<1>3. IsFiniteSet(First(pool, k))
  <2> DEFINE f == [i \in 1 .. k |-> pool[i]]
  <2>1. IsFiniteSet(1 .. k)
    BY <1>1, FS_Interval
  <2>2. IsFiniteSet({f[i] : i \in 1 .. k})
    <3> HIDE DEF f
    <3>1. f \in Surjection(1 .. k, {f[i] : i \in 1 .. k})
      BY DEF f, Surjection
    <3> QED BY <2>1, <3>1, FS_Surjection
  <2>3. {f[i] : i \in 1 .. k} = First(pool, k)
    BY DEF First
  <2> QED BY <2>2, <2>3
<1>4. \A c \in First(pool, k) : c.duration \in Nat \ {0}
  BY <1>1 DEF First, IsPool
<1>5. \A U \in SUBSET First(pool, k) : Timed(U)
  BY <1>3, <1>4, FS_Subset DEF Timed
<1>6. ASSUME k < Len(pool)
      PROVE  /\ First(pool, k + 1) = First(pool, k) \cup {pool[k + 1]}
             /\ pool[k + 1] \notin First(pool, k)
             /\ pool[k + 1].duration \in Nat \ {0}
  <2>1. k + 1 \in 1 .. Len(pool) /\ \A i \in 1 .. k : i \in 1 .. Len(pool) /\ i # k + 1
    BY <1>1, <1>6
  <2>2. \A i \in 1 .. k + 1 : i \in 1 .. k \/ i = k + 1
    BY <1>1
  <2>3. \A i \in 1 .. k : i \in 1 .. k + 1
    BY <1>1
  <2>4. k + 1 \in 1 .. k + 1
    BY <1>1
  <2>5. First(pool, k + 1) = First(pool, k) \cup {pool[k + 1]}
    BY <2>2, <2>3, <2>4 DEF First
  <2> QED BY <2>1, <2>5 DEF First, IsPool
<1> QED BY <1>2, <1>5, <1>6

\* the rows of reach, one for every creative that had its pass
LEMMA ReachLoop ==
    ASSUME NEW pool, IsPool(pool), NEW limit \in Nat
    PROVE  LET row == Reach(pool, limit)
           IN  /\ row \in [0 .. Len(pool) -> Sums(limit)]
               /\ row[0] = [s \in 0 .. limit |-> IF s = 0 THEN 0 ELSE None]
               /\ \A k \in 1 .. Len(pool) : row[k] = Pass(row[k - 1], pool[k], limit)
<1> DEFINE n == Len(pool)
           S == Sums(limit)
           a == [s \in 0 .. limit |-> IF s = 0 THEN 0 ELSE None]
           step == [p \in (1 .. n) \X S |-> Pass(p[2], pool[p[1]], limit)]
           Is(g) == g = [k \in 0 .. n |-> IF k = 0 THEN a ELSE Pass(g[k - 1], pool[k], limit)]
<1>1. n \in Nat /\ \A k \in 1 .. n : pool[k].duration \in Nat \ {0}
  BY DEF IsPool
<1>2. a \in S
  BY DEF Sums
<1>3. \A k \in 1 .. n, x \in S : step[<<k, x>>] = Pass(x, pool[k], limit) /\ step[<<k, x>>] \in S
  <2> SUFFICES ASSUME NEW k \in 1 .. n, NEW x \in S
               PROVE  step[<<k, x>>] = Pass(x, pool[k], limit) /\ step[<<k, x>>] \in S
    OBVIOUS
  <2>1. step[<<k, x>>] = Pass(x, pool[k], limit)
    OBVIOUS
  <2>2. Pass(x, pool[k], limit) \in S
    BY <1>1, PassFacts
  <2> QED BY <2>1, <2>2
<1>4. Reach(pool, limit) = CHOOSE g : Is(g)
  BY DEF Reach
<1> HIDE DEF S, a, step, n
<1>5. PICK g \in [0 .. n -> S] : g[0] = a /\ \A k \in 1 .. n : g[k] = step[<<k, g[k - 1]>>]
  <2>1. StepsIn(step, n, S)
    BY <1>3 DEF StepsIn
  <2>2. Runs(step, n, S, a)
    BY <1>1, <1>2, <2>1, LoopValues
  <2> QED BY <2>2 DEF Runs
<1>6. Is(g)
  <2>1. \A k \in 0 .. n : k = 0 \/ (k \in 1 .. n /\ k - 1 \in 0 .. n)
    BY <1>1
  <2>2. \A k \in 0 .. n : g[k] = IF k = 0 THEN a ELSE Pass(g[k - 1], pool[k], limit)
    BY <1>3, <1>5, <2>1
  <2> QED BY <1>5, <2>2
<1> DEFINE row == Reach(pool, limit)
<1>7. Is(row)
  <2> HIDE DEF Is
  <2> QED BY <1>4, <1>6
<1> HIDE DEF row
<1>8. \A k \in 0 .. n : row[k] = IF k = 0 THEN a ELSE Pass(row[k - 1], pool[k], limit)
  BY <1>7
<1>9. row[0] = a /\ \A k \in 1 .. n : row[k] = Pass(row[k - 1], pool[k], limit)
  <2>1. 0 \in 0 .. n /\ \A k \in 1 .. n : k \in 0 .. n /\ k # 0
    BY <1>1
  <2> QED BY <1>8, <2>1
<1>10. \A k \in Nat : k <= n => row[k] \in S
  <2> DEFINE X == {k \in Nat : k <= n => row[k] \in S}
  <2>1. 0 \in X
    BY <1>2, <1>9
  <2>2. ASSUME NEW k \in Nat, k \in X PROVE k + 1 \in X
    <3>1. SUFFICES ASSUME k + 1 <= n PROVE row[k + 1] \in S
      OBVIOUS
    <3>2. k + 1 \in 1 .. n /\ (k + 1) - 1 = k /\ row[k] \in S
      BY <1>1, <2>2, <3>1
    <3>3. row[k + 1] = step[<<k + 1, row[k]>>]
      BY <1>3, <1>9, <3>2
    <3> QED BY <1>3, <3>2, <3>3
  <2>3. \A k \in Nat : k \in X
    <3> HIDE DEF X
    <3> QED BY <2>1, <2>2, NumberInduction
  <2> QED BY <2>3
<1>11. row \in [0 .. n -> S]
  <2>1. row = [k \in 0 .. n |-> row[k]]
    BY <1>7
  <2> QED BY <1>1, <1>10, <2>1
<1> QED BY <1>9, <1>11 DEF row, S, a, n

\* no set of the first k creatives has fewer than the row says for what it is long
ReachHolds(pool, limit, k) ==
    /\ Reach(pool, limit)[k][0] = 0
    /\ \A U \in SUBSET First(pool, k) :
          Together(U) <= limit => /\ Reach(pool, limit)[k][Together(U)] # None
                                  /\ Reach(pool, limit)[k][Together(U)] <= Cardinality(U)

LEMMA ReachRight ==
    ASSUME NEW pool, IsPool(pool), NEW limit \in Nat
    PROVE  \A k \in 0 .. Len(pool) : ReachHolds(pool, limit, k)
<1> DEFINE n == Len(pool)
           row == Reach(pool, limit)
<1>1. n \in Nat
  BY DEF IsPool
<1>2. /\ row \in [0 .. n -> Sums(limit)]
      /\ row[0] = [s \in 0 .. limit |-> IF s = 0 THEN 0 ELSE None]
      /\ \A k \in 1 .. n : row[k] = Pass(row[k - 1], pool[k], limit)
  BY ReachLoop, ZenonT(40)
<1>3. \A k \in 0 .. n : ReachHolds(pool, limit, k) <=>
         /\ row[k][0] = 0
         /\ \A U \in SUBSET First(pool, k) :
               Together(U) <= limit => row[k][Together(U)] # None /\ row[k][Together(U)] <= Cardinality(U)
  BY DEF ReachHolds
<1> HIDE DEF row, n
<1> DEFINE X == {k \in Nat : k <= n => ReachHolds(pool, limit, k)}
<1>4. 0 \in X
  <2>1. row[0][0] = 0 /\ 0 \in 0 .. n
    BY <1>1, <1>2
  <2>2. ASSUME NEW U \in SUBSET First(pool, 0)
        PROVE  row[0][Together(U)] # None /\ row[0][Together(U)] <= Cardinality(U)
    <3>1. U = {} /\ Timed(U)
      BY FirstFacts, <1>1, <2>1 DEF n
    <3>2. Together(U) = 0 /\ Cardinality(U) = 0
      BY <3>1, TogetherFacts, FS_EmptySet
    <3> QED BY <2>1, <3>2 DEF None
  <2> QED BY <1>3, <2>1, <2>2
<1>5. ASSUME NEW k \in Nat, k \in X PROVE k + 1 \in X
  <2>1. SUFFICES ASSUME k + 1 <= n PROVE ReachHolds(pool, limit, k + 1)
    OBVIOUS
  <2> DEFINE c == pool[k + 1]
             old == row[k]
             new == row[k + 1]
             F == First(pool, k)
             d == c.duration
  <2>2. k \in 0 .. n /\ k + 1 \in 0 .. n /\ k + 1 \in 1 .. n /\ k < n /\ (k + 1) - 1 = k
    BY <1>1, <2>1
  <2>3. /\ First(pool, k + 1) = F \cup {c} /\ c \notin F /\ d \in Nat \ {0}
        /\ \A U \in SUBSET F : Timed(U)
    <3>1. k \in 0 .. Len(pool) /\ k < Len(pool)
      BY <2>2 DEF n
    <3> QED BY <3>1, FirstFacts
  <2>4. old \in Sums(limit) /\ new = Pass(old, c, limit)
    BY <1>2, <2>2
  <2>5. /\ old[0] = 0
        /\ \A U \in SUBSET F : Together(U) <= limit => old[Together(U)] # None /\ old[Together(U)] <= Cardinality(U)
    <3>1. ReachHolds(pool, limit, k)
      <4>1. k <= n
        BY <1>1, <2>1
      <4> QED BY <1>5, <4>1
    <3> QED BY <1>3, <2>2, <3>1
  <2> HIDE DEF c, old, new, F, d
  <2>6. /\ new \in Sums(limit) /\ new[0] = old[0]
        /\ \A s \in 0 .. limit : /\ old[s] # None => new[s] # None /\ new[s] <= old[s]
                                 /\ s >= d /\ old[s - d] # None => new[s] # None /\ new[s] <= old[s - d] + 1
    BY <2>3, <2>4, PassFacts DEF d
  <2>7. \A s \in 0 .. limit : old[s] \in Int /\ new[s] \in Int
    BY <2>4, <2>6 DEF Sums, None
  <2>8. ASSUME NEW U \in SUBSET (F \cup {c}), Together(U) <= limit
        PROVE  new[Together(U)] # None /\ new[Together(U)] <= Cardinality(U)
    <3>1. CASE c \notin U
      <4>1. U \in SUBSET F
        BY <3>1
      <4>2. Timed(U)
        BY <2>3, <4>1
      <4>3. Together(U) \in 0 .. limit /\ Cardinality(U) \in Nat
        BY <2>8, <4>2, TogetherFacts, FS_CardinalityType DEF Timed
      <4>4. old[Together(U)] # None /\ old[Together(U)] <= Cardinality(U)
        BY <2>5, <2>8, <4>1
      <4>5. new[Together(U)] # None /\ new[Together(U)] <= old[Together(U)]
        BY <2>6, <4>3, <4>4
      <4> QED BY <2>7, <4>3, <4>4, <4>5
    <3>2. CASE c \in U
      <4> DEFINE V == U \ {c}
      <4>1. V \in SUBSET F /\ U = V \cup {c} /\ c \notin V
        BY <3>2
      <4> HIDE DEF V
      <4>2. Timed(V)
        BY <2>3, <4>1
      <4>3. Together(V) \in Nat /\ Together(U) = d + Together(V)
        BY <2>3, <4>1, <4>2, TogetherFacts DEF d
      <4>4. IsFiniteSet(V) /\ Cardinality(V) \in Nat /\ Cardinality(U) = Cardinality(V) + 1
        BY <4>1, <4>2, FS_AddElement, FS_CardinalityType DEF Timed
      <4>5. Together(V) <= limit /\ Together(U) \in 0 .. limit /\ Together(U) >= d /\ Together(U) - d = Together(V)
        BY <2>3, <2>8, <4>3
      <4>6. old[Together(V)] # None /\ old[Together(V)] <= Cardinality(V)
        BY <2>5, <4>1, <4>5
      <4>7. new[Together(U)] # None /\ new[Together(U)] <= old[Together(V)] + 1
        BY <2>6, <4>5, <4>6
      <4>8. old[Together(V)] \in Int /\ new[Together(U)] \in Int
        BY <2>7, <4>3, <4>5
      <4> QED BY <4>4, <4>6, <4>7, <4>8
    <3> QED BY <3>1, <3>2
  <2>9. new[0] = 0
    BY <2>5, <2>6
  <2> QED BY <1>3, <2>2, <2>3, <2>8, <2>9 DEF new
<1>6. \A k \in Nat : k \in X
  <2> HIDE DEF X
  <2> QED BY <1>4, <1>5, NumberInduction
<1> QED BY <1>1, <1>6 DEF n

\* the walk back, one pass after the other
Walked(pool, limit, k, chosen) ==
    [s \in 0 .. limit |->
        IF s = 0 THEN {}
        ELSE IF Improves(Reach(pool, limit)[k - 1], pool[k], s) THEN {pool[k]} \cup chosen[s - pool[k].duration]
        ELSE chosen[s]]

LEMMA BackLoop ==
    ASSUME NEW pool, IsPool(pool), NEW limit \in Nat
    PROVE  LET chosen == Back(pool, limit)
           IN  /\ chosen[0] = [s \in 0 .. limit |-> {}]
               /\ \A k \in 1 .. Len(pool) : chosen[k] = Walked(pool, limit, k, chosen[k - 1])
<1> DEFINE n == Len(pool)
           S == [0 .. limit -> SUBSET First(pool, n)]
           a == [s \in 0 .. limit |-> {}]
           Value(g, k) == [s \in 0 .. limit |->
                             IF k = 0 \/ s = 0 THEN {}
                             ELSE IF Improves(Reach(pool, limit)[k - 1], pool[k], s)
                                  THEN {pool[k]} \cup g[k - 1][s - pool[k].duration]
                             ELSE g[k - 1][s]]
           step == [p \in (1 .. n) \X S |-> Walked(pool, limit, p[1], p[2])]
           Is(g) == g = [k \in 0 .. n |-> Value(g, k)]
<1>1. n \in Nat /\ \A k \in 1 .. n : pool[k].duration \in Nat \ {0} /\ pool[k] \in First(pool, n)
  BY DEF IsPool, First
<1>2. a \in S
  OBVIOUS
<1>3. \A k \in 1 .. n, x \in S : step[<<k, x>>] = Walked(pool, limit, k, x) /\ step[<<k, x>>] \in S
  <2> SUFFICES ASSUME NEW k \in 1 .. n, NEW x \in S
               PROVE  step[<<k, x>>] = Walked(pool, limit, k, x) /\ step[<<k, x>>] \in S
    OBVIOUS
  <2>1. step[<<k, x>>] = Walked(pool, limit, k, x)
    OBVIOUS
  <2> DEFINE d == pool[k].duration
             row == Reach(pool, limit)[k - 1]
  <2>2. d \in Nat \ {0} /\ pool[k] \in First(pool, n)
    BY <1>1
  <2>3. \A s \in 0 .. limit : Improves(row, pool[k], s) => s - d \in 0 .. limit
    BY <2>2 DEF Improves
  <2>4. Walked(pool, limit, k, x) =
           [s \in 0 .. limit |-> IF s = 0 THEN {} ELSE IF Improves(row, pool[k], s) THEN {pool[k]} \cup x[s - d] ELSE x[s]]
    BY DEF Walked
  <2> HIDE DEF row, d
  <2>5. \A s \in 0 .. limit :
           (IF s = 0 THEN {} ELSE IF Improves(row, pool[k], s) THEN {pool[k]} \cup x[s - d] ELSE x[s])
              \in SUBSET First(pool, n)
    BY <2>2, <2>3
  <2>6. Walked(pool, limit, k, x) \in S
    BY <2>4, <2>5
  <2> QED BY <2>1, <2>6
<1>4. Back(pool, limit) = CHOOSE g : Is(g)
  BY DEF Back
<1>5. \A g : Value(g, 0) = a
  OBVIOUS
<1>6. \A g : \A k \in 1 .. n : Value(g, k) = Walked(pool, limit, k, g[k - 1])
  <2> TAKE g
  <2> TAKE k \in 1 .. n
  <2>1. k # 0
    OBVIOUS
  <2> QED BY <2>1 DEF Walked
<1> HIDE DEF S, a, step, n, Value
<1>7. PICK g \in [0 .. n -> S] : g[0] = a /\ \A k \in 1 .. n : g[k] = step[<<k, g[k - 1]>>]
  <2>1. StepsIn(step, n, S)
    BY <1>3 DEF StepsIn
  <2>2. Runs(step, n, S, a)
    BY <1>1, <1>2, <2>1, LoopValues
  <2> QED BY <2>2 DEF Runs
<1>8. \A k \in 0 .. n : k = 0 \/ (k \in 1 .. n /\ k - 1 \in 0 .. n)
  BY <1>1
<1>9. Is(g)
  <2>1. ASSUME NEW k \in 0 .. n PROVE g[k] = Value(g, k)
    <3>1. CASE k = 0
      BY <1>5, <1>7, <3>1
    <3>2. CASE k \in 1 .. n /\ k - 1 \in 0 .. n
      <4>1. g[k - 1] \in S
        BY <1>7, <3>2
      <4>2. g[k] = step[<<k, g[k - 1]>>] /\ step[<<k, g[k - 1]>>] = Walked(pool, limit, k, g[k - 1])
        BY <1>3, <1>7, <3>2, <4>1
      <4>3. Value(g, k) = Walked(pool, limit, k, g[k - 1])
        BY <1>6, <3>2
      <4> QED BY <4>2, <4>3
    <3> QED BY <1>8, <3>1, <3>2
  <2> QED BY <1>7, <2>1
<1> DEFINE chosen == Back(pool, limit)
<1>10. Is(chosen)
  <2> HIDE DEF Is
  <2> QED BY <1>4, <1>9
<1> HIDE DEF chosen
<1>11. \A k \in 0 .. n : chosen[k] = Value(chosen, k)
  BY <1>10
<1>12. chosen[0] = a
  <2>1. 0 \in 0 .. n
    BY <1>1
  <2> QED BY <1>5, <1>11, <2>1
<1>13. \A k \in 1 .. n : chosen[k] = Walked(pool, limit, k, chosen[k - 1])
  <2>1. \A k \in 1 .. n : k \in 0 .. n
    BY <1>1
  <2> QED BY <1>6, <1>11, <2>1
<1> QED BY <1>12, <1>13 DEF chosen, a, n

\* what the walk back finds is as long as it should be, and has as many creatives as the row says
BackHolds(pool, limit, k) ==
    \A s \in 0 .. limit :
        LET U == Back(pool, limit)[k][s]
        IN  Reach(pool, limit)[k][s] # None =>
               U \in SUBSET First(pool, k) /\ Together(U) = s /\ Cardinality(U) = Reach(pool, limit)[k][s]

LEMMA BackRight ==
    ASSUME NEW pool, IsPool(pool), NEW limit \in Nat
    PROVE  \A k \in 0 .. Len(pool) : BackHolds(pool, limit, k)
<1> DEFINE n == Len(pool)
           row == Reach(pool, limit)
           chosen == Back(pool, limit)
<1>1. n \in Nat
  BY DEF IsPool
<1>2. /\ row \in [0 .. n -> Sums(limit)]
      /\ row[0] = [s \in 0 .. limit |-> IF s = 0 THEN 0 ELSE None]
      /\ \A k \in 1 .. n : row[k] = Pass(row[k - 1], pool[k], limit)
  BY ReachLoop, ZenonT(40)
<1>3. /\ chosen[0] = [s \in 0 .. limit |-> {}]
      /\ \A k \in 1 .. n : chosen[k] = Walked(pool, limit, k, chosen[k - 1])
  BY BackLoop, ZenonT(40)
<1>4. \A k \in 0 .. n : row[k][0] = 0
  BY ReachRight DEF ReachHolds
<1>5. \A k \in 0 .. n : BackHolds(pool, limit, k) <=>
         \A s \in 0 .. limit :
            row[k][s] # None => /\ chosen[k][s] \in SUBSET First(pool, k) /\ Together(chosen[k][s]) = s
                                /\ Cardinality(chosen[k][s]) = row[k][s]
  BY DEF BackHolds
<1>6. Together({}) = 0 /\ Cardinality({}) = 0
  <2>1. Timed({})
    BY FS_EmptySet DEF Timed
  <2> QED BY <2>1, TogetherFacts, FS_EmptySet
<1>7. \A k \in 1 .. n : \A s \in 0 .. limit :
         chosen[k][s] = IF s = 0 THEN {}
                        ELSE IF Improves(row[k - 1], pool[k], s) THEN {pool[k]} \cup chosen[k - 1][s - pool[k].duration]
                        ELSE chosen[k - 1][s]
  <2> SUFFICES ASSUME NEW k \in 1 .. n, NEW s \in 0 .. limit
               PROVE  chosen[k][s] = IF s = 0 THEN {}
                         ELSE IF Improves(row[k - 1], pool[k], s) THEN {pool[k]} \cup chosen[k - 1][s - pool[k].duration]
                         ELSE chosen[k - 1][s]
    OBVIOUS
  <2>1. chosen[k] = Walked(pool, limit, k, chosen[k - 1])
    BY <1>3
  <2> HIDE DEF chosen
  <2> QED BY <2>1 DEF Walked
<1> HIDE DEF row, n, chosen
<1> DEFINE X == {k \in Nat : k <= n => BackHolds(pool, limit, k)}
<1>8. 0 \in X
  <2>1. 0 \in 0 .. n /\ First(pool, 0) = {}
    BY <1>1, FirstFacts DEF n
  <2>2. \A s \in 0 .. limit : row[0][s] # None => s = 0 /\ row[0][s] = 0
    BY <1>2
  <2>3. \A s \in 0 .. limit : chosen[0][s] = {}
    BY <1>3
  <2> QED BY <1>5, <1>6, <2>1, <2>2, <2>3
<1>9. ASSUME NEW k \in Nat, k \in X PROVE k + 1 \in X
  <2>1. SUFFICES ASSUME k + 1 <= n PROVE BackHolds(pool, limit, k + 1)
    OBVIOUS
  <2> DEFINE c == pool[k + 1]
             old == row[k]
             new == row[k + 1]
             F == First(pool, k)
             d == c.duration
             walk == chosen[k]
             next == chosen[k + 1]
  <2>2. k \in 0 .. n /\ k + 1 \in 0 .. n /\ k + 1 \in 1 .. n /\ k < n /\ (k + 1) - 1 = k
    BY <1>1, <2>1
  <2>3. /\ First(pool, k + 1) = F \cup {c} /\ c \notin F /\ d \in Nat \ {0}
        /\ \A U \in SUBSET F : Timed(U)
    <3>1. k \in 0 .. Len(pool) /\ k < Len(pool)
      BY <2>2 DEF n
    <3> QED BY <3>1, FirstFacts
  <2>4. old \in Sums(limit) /\ new = Pass(old, c, limit)
    BY <1>2, <2>2
  <2>5. \A s \in 0 .. limit :
           old[s] # None => walk[s] \in SUBSET F /\ Together(walk[s]) = s /\ Cardinality(walk[s]) = old[s]
    <3>1. BackHolds(pool, limit, k)
      <4>1. k <= n
        BY <1>1, <2>1
      <4> QED BY <1>9, <4>1
    <3> QED BY <1>5, <2>2, <3>1
  <2>6. \A s \in 0 .. limit :
           next[s] = IF s = 0 THEN {} ELSE IF Improves(old, c, s) THEN {c} \cup walk[s - d] ELSE walk[s]
    BY <1>7, <2>2
  <2>7. new[0] = 0
    BY <1>4, <2>2
  <2>8. \A s \in 0 .. limit :
           /\ Improves(old, c, s) => s >= d /\ s - d \in 0 .. limit /\ old[s - d] # None /\ new[s] = old[s - d] + 1
           /\ ~Improves(old, c, s) => new[s] = old[s]
    BY <2>3, <2>4, PassFacts
  <2> HIDE DEF c, old, new, F, d, walk, next
  <2>9. ASSUME NEW s \in 0 .. limit, new[s] # None
        PROVE  next[s] \in SUBSET (F \cup {c}) /\ Together(next[s]) = s /\ Cardinality(next[s]) = new[s]
    <3>1. CASE s = 0
      BY <1>6, <2>6, <2>7, <3>1
    <3>2. CASE s # 0 /\ Improves(old, c, s)
      <4> DEFINE V == walk[s - d]
      <4>1. /\ s - d \in 0 .. limit /\ old[s - d] # None /\ new[s] = old[s - d] + 1
            /\ next[s] = V \cup {c}
        BY <2>6, <2>8, <3>2
      <4>2. V \in SUBSET F /\ Together(V) = s - d /\ Cardinality(V) = old[s - d]
        BY <2>5, <4>1
      <4> HIDE DEF V
      <4>3. Timed(V) /\ c \notin V
        BY <2>3, <4>2
      <4>4. Together(V \cup {c}) = d + Together(V)
        BY <2>3, <4>3, TogetherFacts DEF d
      <4>5. Cardinality(V \cup {c}) = Cardinality(V) + 1
        BY <4>3, FS_AddElement DEF Timed
      <4>6. d + (s - d) = s
        BY <2>3
      <4> QED BY <4>1, <4>2, <4>4, <4>5, <4>6
    <3>3. CASE s # 0 /\ ~Improves(old, c, s)
      BY <2>5, <2>6, <2>8, <2>9, <3>3
    <3> QED BY <3>1, <3>2, <3>3
  <2> QED BY <1>5, <2>2, <2>3, <2>9 DEF new, next
<1>10. \A k \in Nat : k \in X
  <2> HIDE DEF X
  <2> QED BY <1>8, <1>9, NumberInduction
<1> QED BY <1>1, <1>10 DEF n

\* creatives to choose from, and the best choice
Stock(P) == P \subseteq Creatives /\ Timed(P) /\ \A c, d \in P : c.id = d.id => c = d

Best(U, P, limit) ==
    /\ U \in SUBSET P /\ Together(U) <= limit
    /\ \A V \in SUBSET P : \/ Together(V) > limit \/ Together(V) < Together(U)
                           \/ Together(V) = Together(U) /\ Cardinality(V) >= Cardinality(U)

LEMMA BestIsBest ==
    ASSUME NEW P, Stock(P), Cardinality(P) <= 60, NEW all, Lists(all, P), NEW limit \in Nat \ {0}
    PROVE  \E U \in SUBSET P : Best(U, P, limit) /\ Lists(BestSubset(all, limit), U)
<1> DEFINE n == Len(all)
           row == Reach(all, limit)[n]
           sums == {s \in 0 .. limit : row[s] # None}
           best == Max(sums)
           U == Back(all, limit)[n][best]
<1>1. all \in Seq(P) /\ n \in Nat /\ n <= 60 /\ n = Cardinality(P)
  BY FS_CardinalityType DEF Lists, Stock, Timed
<1>2. SubSeq(all, 1, IF Len(all) > 60 THEN 60 ELSE Len(all)) = all
  <2>1. SubSeq(all, 1, Len(all)) = all
    BY <1>1, SubSeqFull
  <2>2. ~(Len(all) > 60)
    BY <1>1
  <2> QED BY <2>1, <2>2
<1>3. First(all, n) = P
  BY <1>1 DEF First, Lists
<1>4. IsPool(all)
  <2>1. \A i \in 1 .. n : all[i] \in P
    BY <1>1
  <2>2. P = {all[i] : i \in 1 .. Len(all)}
    BY <1>3 DEF First
  <2> QED BY <1>1, <2>1, <2>2 DEF IsPool, Lists, Stock, Timed
<1>5. ReachHolds(all, limit, n) /\ BackHolds(all, limit, n)
  <2>1. n \in 0 .. Len(all)
    BY <1>1
  <2> QED BY <1>4, <2>1, ReachRight, BackRight
<1>6. /\ 0 \in sums
      /\ \A s \in sums : s \in 0 .. limit
  BY <1>5 DEF ReachHolds, None
<1>7. IsFiniteSet(sums)
  <2>1. IsFiniteSet(0 .. limit)
    BY FS_Interval
  <2> QED BY <2>1, FS_Subset
<1>8. best \in sums /\ \A s \in sums : best >= s
  <2> HIDE DEF sums
  <2>1. PICK m \in sums : \A s \in sums : s <= m
    <3>1. sums \in SUBSET Nat
      BY <1>6
    <3> QED BY <1>6, <1>7, <3>1, Largest
  <2>2. m \in sums /\ \A s \in sums : m >= s
    BY <1>6, <2>1
  <2>3. best = CHOOSE x \in sums : \A y \in sums : x >= y
    BY DEF Max
  <2> QED BY <2>2, <2>3, Zenon
<1>9. best \in 0 .. limit /\ row[best] # None
  BY <1>8
<1> HIDE DEF best
<1>10. U \in SUBSET P /\ Together(U) = best /\ Cardinality(U) = row[best]
  BY <1>3, <1>5, <1>9 DEF BackHolds
<1>11. \A V \in SUBSET P : \/ Together(V) > limit \/ Together(V) < Together(U)
                           \/ (Together(V) = Together(U) /\ Cardinality(V) >= Cardinality(U))
  <2> SUFFICES ASSUME NEW V \in SUBSET P, ~(Together(V) > limit), ~(Together(V) < Together(U))
               PROVE  Together(V) = Together(U) /\ Cardinality(V) >= Cardinality(U)
    OBVIOUS
  <2>1. Timed(V)
    BY FS_Subset DEF Stock, Timed
  <2>2. Together(V) \in Nat /\ Cardinality(V) \in Nat
    BY <2>1, TogetherFacts, FS_CardinalityType DEF Timed
  <2>3. row[Together(V)] # None /\ row[Together(V)] <= Cardinality(V)
    BY <1>3, <1>5, <2>2 DEF ReachHolds
  <2>4. Together(V) \in sums
    BY <2>2, <2>3
  <2>5. Together(V) = best
    BY <1>8, <1>9, <1>10, <2>2, <2>4
  <2>6. Cardinality(U) \in Nat
    BY <1>10, FS_Subset, FS_CardinalityType DEF Stock, Timed
  <2> QED BY <1>10, <2>2, <2>3, <2>5, <2>6
<1>12. Best(U, P, limit)
  BY <1>9, <1>10, <1>11 DEF Best
<1>13. BestSubset(all, limit) = IF all = <<>> \/ limit <= 0 THEN <<>> ELSE InOrder(U, LongerOrLast(U))
  BY <1>2, Zenon DEF BestSubset, best
<1> HIDE DEF U
<1>14. CASE all = <<>>
  <2>1. P = {} /\ U = {}
    BY <1>1, <1>10, <1>14 DEF Lists
  <2>2. Lists(<<>>, U)
    BY <2>1, FS_EmptySet DEF Lists
  <2> QED BY <1>10, <1>12, <1>13, <1>14, <2>2
<1>15. CASE all # <<>>
  <2>1. ~(limit <= 0)
    OBVIOUS
  <2>2. IsFiniteSet(U) /\ (\A c \in U : c \in Creatives) /\ \A c, d \in U : c.id = d.id => c = d
    BY <1>10, FS_Subset DEF Stock, Timed
  <2>3. Lists(InOrder(U, LongerOrLast(U)), U)
    BY <2>2, LongerOrders, OrderLists
  <2> QED BY <1>10, <1>12, <1>13, <1>15, <2>1, <2>3
<1> QED BY <1>14, <1>15

\* the beginning of a sequence, one longer
LEMMA PrefixStep ==
    ASSUME NEW S, NEW s \in Seq(S), NEW k \in Nat, k < Len(s)
    PROVE  /\ SubSeq(s, 1, k) \in Seq(S) /\ s[k + 1] \in S
           /\ SubSeq(s, 1, k + 1) = Append(SubSeq(s, 1, k), s[k + 1])
<1>1. k + 1 \in 1 .. Len(s) /\ (k + 1) - 1 = k /\ 1 \in 1 .. Len(s) /\ k + 1 \in 1 .. Len(s)
  OBVIOUS
<1>2. SubSeq(s, 1, k + 1) = SubSeq(s, 1, (k + 1) - 1) \o <<s[k + 1]>>
  BY <1>1, SubSeqRecursiveSecond
<1>3. SubSeq(s, 1, k) \in Seq(S)
  <2>1. \A i \in 1 .. k : s[i] \in S
    OBVIOUS
  <2> QED BY <2>1, SubSeqProperties
<1>4. Append(SubSeq(s, 1, k), s[k + 1]) = SubSeq(s, 1, k) \o <<s[k + 1]>>
  BY <1>1, <1>3, AppendIsConcat
<1> QED BY <1>1, <1>2, <1>3, <1>4

\* a list is as long as the set it lists
LEMMA ListTotal ==
    ASSUME NEW U, Timed(U), NEW s, Lists(s, U)
    PROVE  TotalOf(s) = Together(U)
<1> DEFINE n == Len(s)
           F(k) == First(s, k)
           X == {k \in Nat : k <= n => TotalOf(SubSeq(s, 1, k)) = Together(F(k))}
<1>1. n \in Nat /\ s \in Seq(U) /\ F(n) = U /\ \A c \in U : c.duration \in Nat \ {0}
  BY DEF Lists, First, Timed
<1>2. IsPool(s)
  <2>1. \A i \in 1 .. n : s[i] \in U
    BY <1>1
  <2>2. U = {s[i] : i \in 1 .. n}
    BY <1>1 DEF First
  <2> QED BY <1>1, <2>1, <2>2 DEF IsPool, Lists
<1>3. 0 \in X
  <2>1. SubSeq(s, 1, 0) = <<>>
    BY SubSeqEmpty
  <2>2. 0 \in 0 .. Len(s)
    BY <1>1
  <2>3. F(0) = {} /\ Timed({})
    BY <1>2, <2>2, FirstFacts
  <2> QED BY <2>1, <2>3, TotalEmpty, TogetherFacts
<1>4. ASSUME NEW k \in Nat, k \in X PROVE k + 1 \in X
  <2>1. SUFFICES ASSUME k + 1 <= n PROVE TotalOf(SubSeq(s, 1, k + 1)) = Together(F(k + 1))
    OBVIOUS
  <2>2. k \in 0 .. Len(s) /\ k < Len(s) /\ k <= n
    BY <1>1, <2>1
  <2>3. /\ SubSeq(s, 1, k) \in Seq(U) /\ s[k + 1] \in U
        /\ SubSeq(s, 1, k + 1) = Append(SubSeq(s, 1, k), s[k + 1])
    BY <1>1, <2>2, PrefixStep
  <2>4. /\ F(k + 1) = F(k) \cup {s[k + 1]} /\ s[k + 1] \notin F(k) /\ s[k + 1].duration \in Nat \ {0}
        /\ Timed(F(k))
    BY <1>2, <2>2, FirstFacts
  <2>5. TotalOf(SubSeq(s, 1, k)) = Together(F(k))
    BY <1>4, <2>2
  <2> HIDE DEF F
  <2>6. Together(F(k) \cup {s[k + 1]}) = s[k + 1].duration + Together(F(k)) /\ Together(F(k)) \in Nat
    BY <2>4, TogetherFacts
  <2>7. TotalOf(Append(SubSeq(s, 1, k), s[k + 1])) = TotalOf(SubSeq(s, 1, k)) + s[k + 1].duration
    BY <1>1, <2>3, TotalAppend
  <2> DEFINE d == s[k + 1].duration
  <2>8. TotalOf(SubSeq(s, 1, k + 1)) = Together(F(k)) + d
    BY <2>3, <2>5, <2>7, Zenon
  <2>9. Together(F(k + 1)) = d + Together(F(k))
    BY <2>4, <2>6, Zenon
  <2>10. d \in Nat
    BY <2>4
  <2> HIDE DEF d
  <2> QED BY <2>6, <2>8, <2>9, <2>10
<1>5. \A k \in Nat : k \in X
  <2> HIDE DEF X
  <2> QED BY <1>3, <1>4, NumberInduction
<1>6. TotalOf(SubSeq(s, 1, n)) = Together(F(n))
  BY <1>1, <1>5
<1>7. SubSeq(s, 1, n) = s
  BY <1>1, SubSeqFull
<1> QED BY <1>1, <1>6, <1>7

\* x is s and then something of H
Continues(x, s, H) ==
    /\ Len(s) <= Len(x)
    /\ \A i \in 1 .. Len(s) : x[i] = s[i]
    /\ \A i \in Len(s) + 1 .. Len(x) : x[i] \in H

LEMMA ContinuesAppend ==
    ASSUME NEW T, NEW H \in SUBSET T, NEW s \in Seq(T), NEW x \in Seq(T), Continues(x, s, H), NEW c \in H
    PROVE  Append(x, c) \in Seq(T) /\ Continues(Append(x, c), s, H)
<1> DEFINE y == Append(x, c)
           n == Len(x)
           m == Len(s)
<1>1. /\ y \in Seq(T) /\ Len(y) = n + 1 /\ y[n + 1] = c /\ n \in Nat /\ m \in Nat
      /\ \A i \in 1 .. n : y[i] = x[i]
  OBVIOUS
<1>2. m <= n /\ (\A i \in 1 .. m : x[i] = s[i]) /\ \A i \in m + 1 .. n : x[i] \in H
  BY DEF Continues
<1> HIDE DEF y, n, m
<1>3. m <= n + 1 /\ \A i \in 1 .. m : y[i] = s[i]
  <2>1. \A i \in 1 .. m : i \in 1 .. n
    BY <1>1, <1>2
  <2> QED BY <1>1, <1>2, <2>1
<1>4. \A i \in m + 1 .. n + 1 : y[i] \in H
  <2> TAKE i \in m + 1 .. n + 1
  <2>1. CASE i = n + 1
    BY <1>1, <2>1
  <2>2. CASE i # n + 1
    <3>1. i \in 1 .. n /\ i \in m + 1 .. n
      BY <1>1, <2>2
    <3> QED BY <1>1, <1>2, <3>1
  <2> QED BY <2>1, <2>2
<1> QED BY <1>1, <1>3, <1>4 DEF Continues, y, n, m

LEMMA HouseFacts ==
    ASSUME NEW T, NEW H \in SUBSET T, NEW items \in Seq(T), NEW house \in Seq(H), NEW duration
    PROVE  LET list == AddHouse(items, house, duration)
           IN  list \in Seq(T) /\ Continues(list, items, H) /\ (house = <<>> => list = items)
<1> DEFINE n == Len(house)
           S == {x \in Seq(T) : Continues(x, items, H)}
           One(x, k) == IF TotalOf(x) + house[k].duration <= duration THEN Append(x, house[k]) ELSE x
           step == [p \in (1 .. n) \X S |-> One(p[2], p[1])]
           Value(g, k) == IF k = 0 THEN items ELSE One(g[k - 1], k)
           Is(g) == g = [k \in 0 .. n |-> Value(g, k)]
<1>1. n \in Nat /\ \A k \in 1 .. n : house[k] \in H
  OBVIOUS
<1>2. items \in S
  <2>1. Len(items) <= Len(items) /\ \A i \in Len(items) + 1 .. Len(items) : FALSE
    OBVIOUS
  <2> QED BY <2>1 DEF Continues
<1>3. \A k \in 1 .. n, x \in S : step[<<k, x>>] = One(x, k) /\ step[<<k, x>>] \in S
  <2> SUFFICES ASSUME NEW k \in 1 .. n, NEW x \in S
               PROVE  step[<<k, x>>] = One(x, k) /\ step[<<k, x>>] \in S
    OBVIOUS
  <2>1. step[<<k, x>>] = One(x, k)
    OBVIOUS
  <2>2. Append(x, house[k]) \in S
    BY <1>1, ContinuesAppend
  <2> QED BY <2>1, <2>2
<1>4. AddHouse(items, house, duration) = (CHOOSE g : Is(g))[n]
  BY DEF AddHouse
<1> HIDE DEF S, step, n, One
<1>5. PICK g \in [0 .. n -> S] : g[0] = items /\ \A k \in 1 .. n : g[k] = step[<<k, g[k - 1]>>]
  <2>1. StepsIn(step, n, S)
    BY <1>3 DEF StepsIn
  <2>2. Runs(step, n, S, items)
    BY <1>1, <1>2, <2>1, LoopValues
  <2> QED BY <2>2 DEF Runs
<1>6. \A k \in 0 .. n : k = 0 \/ (k \in 1 .. n /\ k - 1 \in 0 .. n /\ k # 0)
  BY <1>1
<1>7. Is(g)
  <2>1. ASSUME NEW k \in 0 .. n PROVE g[k] = Value(g, k)
    <3>1. CASE k = 0
      BY <1>5, <3>1
    <3>2. CASE k \in 1 .. n /\ k - 1 \in 0 .. n /\ k # 0
      <4>1. g[k - 1] \in S
        BY <1>5, <3>2
      <4>2. g[k] = step[<<k, g[k - 1]>>] /\ step[<<k, g[k - 1]>>] = One(g[k - 1], k)
        BY <1>3, <1>5, <3>2, <4>1
      <4> QED BY <3>2, <4>2
    <3> QED BY <1>6, <3>1, <3>2
  <2> HIDE DEF Value
  <2> QED BY <1>5, <2>1
<1> DEFINE h == CHOOSE g1 : Is(g1)
<1>8. Is(h)
  <2> HIDE DEF Is
  <2> QED BY <1>7
<1> HIDE DEF h
<1>9. \A k \in 0 .. n : h[k] = Value(h, k)
  <2> HIDE DEF Value
  <2> QED BY <1>8
<1>10. \A k \in Nat : k <= n => h[k] \in S
  <2> DEFINE X == {k \in Nat : k <= n => h[k] \in S}
  <2>1. 0 \in X
    <3>1. 0 \in 0 .. n
      BY <1>1
    <3> QED BY <1>2, <1>9, <3>1
  <2>2. ASSUME NEW k \in Nat, k \in X PROVE k + 1 \in X
    <3>1. SUFFICES ASSUME k + 1 <= n PROVE h[k + 1] \in S
      OBVIOUS
    <3>2. k + 1 \in 1 .. n /\ k + 1 \in 0 .. n /\ (k + 1) - 1 = k /\ k + 1 # 0 /\ k <= n
      BY <1>1, <3>1
    <3>3. h[k] \in S
      BY <2>2, <3>2
    <3>4. h[k + 1] = One(h[k], k + 1)
      BY <1>9, <3>2
    <3>5. step[<<k + 1, h[k]>>] = One(h[k], k + 1) /\ step[<<k + 1, h[k]>>] \in S
      BY <1>3, <3>2, <3>3
    <3> QED BY <3>4, <3>5
  <2>3. \A k \in Nat : k \in X
    <3> HIDE DEF X
    <3> QED BY <2>1, <2>2, NumberInduction
  <2> QED BY <2>3
<1>11. h[n] \in S /\ (n = 0 => h[n] = items)
  <2>1. n \in 0 .. n
    BY <1>1
  <2> QED BY <1>1, <1>9, <1>10, <2>1
<1>12. house = <<>> => n = 0
  BY DEF n
<1> QED BY <1>4, <1>11, <1>12 DEF S, h

LEMMA DivFacts ==
    ASSUME NEW a \in Nat, NEW b \in Nat \ {0}
    PROVE  a \div b \in Nat /\ a % b \in 0 .. b - 1 /\ a = (a \div b) * b + (a % b)
OBVIOUS

LEMMA PadFacts ==
    ASSUME NEW T, \A c \in T : c.duration \in Nat \ {0}, NEW H \in SUBSET T, NEW items \in Seq(T),
           NEW house \in Seq(H), NEW duration \in Nat
    PROVE  LET list == AddPad(items, house, duration)
           IN  /\ list \in Seq(T) /\ Continues(list, items, H)
               /\ house = <<>> => list = items
               /\ house # <<>> => TotalOf(list) >= duration
<1> DEFINE n == Len(house)
           pad == house[Len(house)]
           d == pad.duration
           total == TotalOf(items)
           Long(m) == items \o [i \in 1 .. m |-> pad]
<1>1. n \in Nat /\ (house # <<>> => n # 0 /\ pad \in H /\ pad \in T /\ d \in Nat \ {0})
  OBVIOUS
<1>2. total \in Nat
  <2>1. CASE items = <<>>
    BY <2>1, TotalEmpty
  <2>2. CASE items # <<>>
    <3>1. items[1] \in T /\ \A c \in T : c.duration \in Nat
      BY <2>2
    <3> QED BY <3>1, TotalAppend
  <2> QED BY <2>1, <2>2
<1>3. Continues(items, items, H)
  <2>1. Len(items) <= Len(items) /\ \A i \in Len(items) + 1 .. Len(items) : FALSE
    OBVIOUS
  <2> QED BY <2>1 DEF Continues
<1>4. CASE house = <<>> \/ total >= duration
  <2>1. AddPad(items, house, duration) = items
    BY <1>4 DEF AddPad
  <2> QED BY <1>3, <1>4, <2>1
<1>5. CASE house # <<>> /\ ~(total >= duration)
  <2> DEFINE X == {m \in Nat : /\ Long(m) \in Seq(T) /\ Continues(Long(m), items, H)
                               /\ TotalOf(Long(m)) = total + m * d}
             missing == duration - total
             many == (missing + d - 1) \div d
  <2>1. 0 \in X
    <3>1. [i \in 1 .. 0 |-> pad] = <<>>
      OBVIOUS
    <3>2. Long(0) = items
      BY <3>1
    <3>3. 0 * d = 0 /\ total + 0 = total
      BY <1>1, <1>2, <1>5
    <3> QED BY <1>3, <3>2, <3>3
  <2>2. ASSUME NEW m \in Nat, m \in X PROVE m + 1 \in X
    <3>1. Long(m + 1) = Append(Long(m), pad)
      <4> DEFINE a == [i \in 1 .. m |-> pad]
                 b == [i \in 1 .. m + 1 |-> pad]
      <4>1. a \in Seq(T) /\ b \in Seq(T) /\ Len(a) = m /\ Len(b) = m + 1
        BY <1>1, <1>5
      <4>2. b = Append(a, pad)
        BY <1>1, <1>5
      <4> HIDE DEF a, b
      <4>3. items \o Append(a, pad) = Append(items \o a, pad)
        BY <1>1, <1>5, <4>1
      <4> QED BY <4>2, <4>3 DEF a, b
    <3> HIDE DEF Long
    <3>2. Long(m) \in Seq(T) /\ Continues(Long(m), items, H) /\ TotalOf(Long(m)) = total + m * d
      BY <2>2
    <3>3. Append(Long(m), pad) \in Seq(T) /\ Continues(Append(Long(m), pad), items, H)
      BY <1>1, <1>5, <3>2, ContinuesAppend
    <3>4. TotalOf(Append(Long(m), pad)) = TotalOf(Long(m)) + d
      <4>1. pad \in T /\ \A c \in T : c.duration \in Nat
        BY <1>1, <1>5
      <4> QED BY <3>2, <4>1, TotalAppend
    <3> HIDE DEF d, total
    <3>5. (m + 1) * d = m * d + d /\ m * d \in Nat /\ d \in Nat
      BY <1>1, <1>5
    <3>6. TotalOf(Long(m + 1)) = total + (m + 1) * d
      <4> DEFINE p == m * d
      <4>1. TotalOf(Long(m + 1)) = (total + p) + d
        BY <3>1, <3>2, <3>4
      <4> DEFINE q == (m + 1) * d
      <4>2. q = p + d /\ p \in Nat /\ d \in Nat
        BY <3>5
      <4> HIDE DEF p, q
      <4>3. TotalOf(Long(m + 1)) = total + q
        BY <1>2, <4>1, <4>2
      <4> QED BY <4>3 DEF q
    <3>7. Long(m + 1) \in Seq(T) /\ Continues(Long(m + 1), items, H)
      BY <3>1, <3>3, Zenon
    <3> QED BY <3>6, <3>7
  <2>3. \A m \in Nat : m \in X
    <3> HIDE DEF X
    <3> QED BY <2>1, <2>2, NumberInduction
  <2>4. many \in Nat /\ many * d >= missing
    <3> HIDE DEF d, total
    <3> DEFINE x == missing + d - 1
               q == x \div d
               r == x % d
    <3>1. missing \in Nat \ {0} /\ d \in Nat \ {0}
      BY <1>1, <1>2, <1>5
    <3> HIDE DEF missing
    <3>2. x \in Nat
      BY <3>1
    <3>3. many = q
      OBVIOUS
    <3> HIDE DEF x, many
    <3>4. q \in Nat /\ r \in 0 .. d - 1 /\ x = q * d + r
      BY <3>1, <3>2, DivFacts
    <3> HIDE DEF q, r
    <3>5. many \in Nat /\ r \in 0 .. d - 1 /\ x = many * d + r
      BY <3>3, <3>4
    <3>6. many * d \in Nat
      BY <3>1, <3>5
    <3> QED BY <3>1, <3>5, <3>6 DEF x
  <2>5. AddPad(items, house, duration) = Long(many)
    BY <1>5 DEF AddPad
  <2>6. Long(many) \in Seq(T) /\ Continues(Long(many), items, H) /\ TotalOf(Long(many)) = total + many * d
    BY <2>3, <2>4
  <2> HIDE DEF Long, many, total, d
  <2>7. many * d \in Nat
    BY <1>1, <1>5, <2>4
  <2>8. total + many * d >= duration
    BY <1>2, <2>4, <2>7
  <2> QED BY <1>5, <2>5, <2>6, <2>8
<1> QED BY <1>4, <1>5

\* the segments of one creative
Block(c, seg) == [i \in 1 .. c.duration \div seg |-> [id |-> c.id, offset |-> (i - 1) * seg]]

\* creatives that end with a segment
Whole(T, seg) == \A c \in T : c.duration \in Nat \ {0} /\ c.duration % seg = 0

Quantum(T) == [id : {c.id : c \in T}, offset : Int]

LEMMA BlockFacts ==
    ASSUME NEW T, NEW seg \in Nat \ {0}, Whole(T, seg), NEW c \in T
    PROVE  /\ Block(c, seg) \in Seq(Quantum(T)) /\ Len(Block(c, seg)) = c.duration \div seg
           /\ Len(Block(c, seg)) \in Nat /\ Len(Block(c, seg)) * seg = c.duration
           /\ \A i \in 1 .. Len(Block(c, seg)) : Block(c, seg)[i] = [id |-> c.id, offset |-> (i - 1) * seg]
<1> DEFINE d == c.duration
           q == d \div seg
<1>1. d \in Nat /\ d % seg = 0
  BY DEF Whole
<1>2. q \in Nat /\ d = q * seg + (d % seg)
  BY <1>1, DivFacts
<1>3. q * seg = d
  <2>1. q * seg \in Nat
    BY <1>2
  <2> HIDE DEF q, d
  <2> QED BY <1>1, <1>2, <2>1
<1>4. Block(c, seg) = [i \in 1 .. q |-> [id |-> c.id, offset |-> (i - 1) * seg]]
  BY DEF Block
<1>5. c.id \in {x.id : x \in T}
  OBVIOUS
<1> HIDE DEF q
<1>6. \A i \in 1 .. q : (i - 1) * seg \in Int
  BY <1>2
<1>7. \A i \in 1 .. q : [id |-> c.id, offset |-> (i - 1) * seg] \in Quantum(T)
  BY <1>5, <1>6 DEF Quantum
<1>8. Block(c, seg) \in Seq(Quantum(T)) /\ Len(Block(c, seg)) = q
  <2> DEFINE b == Block(c, seg)
  <2>1. b \in [1 .. q -> Quantum(T)]
    BY <1>4, <1>7, Zenon
  <2> HIDE DEF b
  <2>2. b \in Seq(Quantum(T)) /\ Len(b) = q
    BY <1>2, <2>1
  <2> QED BY <2>2 DEF b
<1> QED BY <1>2, <1>3, <1>4, <1>8 DEF q, d

LEMMA AdsLoop ==
    ASSUME NEW T, NEW seg \in Nat \ {0}, Whole(T, seg), NEW items \in Seq(T)
    PROVE  LET ads == Ads(items, seg)
           IN  /\ ads \in [0 .. Len(items) -> Seq(Quantum(T))] /\ ads[0] = <<>>
               /\ \A k \in 1 .. Len(items) : ads[k] = ads[k - 1] \o Block(items[k], seg)
<1> DEFINE n == Len(items)
           S == Seq(Quantum(T))
           step == [p \in (1 .. n) \X S |-> p[2] \o Block(items[p[1]], seg)]
           Value(g, k) == IF k = 0 THEN <<>> ELSE g[k - 1] \o Block(items[k], seg)
           Is(g) == g = [k \in 0 .. n |-> Value(g, k)]
<1>1. n \in Nat /\ \A k \in 1 .. n : Block(items[k], seg) \in S
  <2>1. \A k \in 1 .. n : items[k] \in T
    OBVIOUS
  <2> QED BY <2>1, BlockFacts
<1> DEFINE none == <<>>
<1>2. none \in S
  OBVIOUS
<1>3. \A k \in 1 .. n, x \in S : step[<<k, x>>] = x \o Block(items[k], seg) /\ step[<<k, x>>] \in S
  <2> SUFFICES ASSUME NEW k \in 1 .. n, NEW x \in S
               PROVE  step[<<k, x>>] = x \o Block(items[k], seg) /\ step[<<k, x>>] \in S
    OBVIOUS
  <2>1. step[<<k, x>>] = x \o Block(items[k], seg)
    OBVIOUS
  <2>2. x \o Block(items[k], seg) \in S
    BY <1>1
  <2> QED BY <2>1, <2>2
<1>4. Ads(items, seg) = CHOOSE g : Is(g)
  BY DEF Ads, Block
<1> HIDE DEF S, step, n, none
<1>5. PICK g \in [0 .. n -> S] : g[0] = none /\ \A k \in 1 .. n : g[k] = step[<<k, g[k - 1]>>]
  <2>1. StepsIn(step, n, S)
    BY <1>3 DEF StepsIn
  <2>2. Runs(step, n, S, none)
    BY <1>1, <1>2, <2>1, LoopValues
  <2> QED BY <2>2 DEF Runs
<1>6. \A k \in 0 .. n : k = 0 \/ (k \in 1 .. n /\ k - 1 \in 0 .. n /\ k # 0)
  BY <1>1
<1>7. Is(g)
  <2>1. ASSUME NEW k \in 0 .. n PROVE g[k] = Value(g, k)
    <3>1. CASE k = 0
      BY <1>5, <3>1 DEF none
    <3>2. CASE k \in 1 .. n /\ k - 1 \in 0 .. n /\ k # 0
      <4>1. g[k - 1] \in S
        BY <1>5, <3>2
      <4>2. g[k] = step[<<k, g[k - 1]>>] /\ step[<<k, g[k - 1]>>] = g[k - 1] \o Block(items[k], seg)
        BY <1>3, <1>5, <3>2, <4>1
      <4> QED BY <3>2, <4>2
    <3> QED BY <1>6, <3>1, <3>2
  <2> HIDE DEF Value
  <2> QED BY <1>5, <2>1
<1> DEFINE h == Ads(items, seg)
<1>8. Is(h)
  <2> HIDE DEF Is
  <2> QED BY <1>4, <1>7
<1> HIDE DEF h
<1>9. DOMAIN h = 0 .. n /\ \A k \in 0 .. n : h[k] = Value(h, k)
  <2> HIDE DEF Value
  <2> QED BY <1>8
<1>10. h[0] = <<>> /\ \A k \in 1 .. n : h[k] = h[k - 1] \o Block(items[k], seg)
  <2>1. 0 \in 0 .. n /\ \A k \in 1 .. n : k \in 0 .. n /\ k # 0
    BY <1>1
  <2> QED BY <1>9, <2>1
<1>11. \A k \in Nat : k <= n => h[k] \in S
  <2> DEFINE X == {k \in Nat : k <= n => h[k] \in S}
  <2>1. 0 \in X
    BY <1>2, <1>10 DEF none
  <2>2. ASSUME NEW k \in Nat, k \in X PROVE k + 1 \in X
    <3>1. SUFFICES ASSUME k + 1 <= n PROVE h[k + 1] \in S
      OBVIOUS
    <3>2. k + 1 \in 1 .. n /\ (k + 1) - 1 = k /\ k <= n
      BY <1>1, <3>1
    <3>3. h[k] \in S /\ Block(items[k + 1], seg) \in S
      BY <1>1, <2>2, <3>2
    <3>4. h[k + 1] = h[k] \o Block(items[k + 1], seg)
      BY <1>10, <3>2
    <3> QED BY <3>3, <3>4 DEF S
  <2>3. \A k \in Nat : k \in X
    <3> HIDE DEF X
    <3> QED BY <2>1, <2>2, NumberInduction
  <2> QED BY <2>3
<1>12. h \in [0 .. n -> S]
  <2>1. h = [k \in 0 .. n |-> h[k]]
    BY <1>8, <1>9
  <2>2. \A k \in 0 .. n : h[k] \in S
    BY <1>1, <1>11
  <2> QED BY <2>1, <2>2
<1> QED BY <1>10, <1>12 DEF h, S, n

\* the segments of the first k creatives: as many as they are long, none of another creative, and each of every one
AdsHold(items, seg, k) ==
    LET ads == Ads(items, seg)
    IN  /\ Len(ads[k]) * seg = TotalOf(SubSeq(items, 1, k))
        /\ \A n \in 1 .. Len(ads[k]) :
              \E j \in 1 .. k : \E m \in 1 .. items[j].duration \div seg : ads[k][n] = [id |-> items[j].id, offset |-> (m - 1) * seg]
        /\ \A j \in 1 .. k : \A m \in 1 .. items[j].duration \div seg :
              \E n \in 1 .. Len(ads[k]) : ads[k][n] = [id |-> items[j].id, offset |-> (m - 1) * seg]
        /\ \A j \in 0 .. k : Len(ads[j]) <= Len(ads[k]) /\ \A n \in 1 .. Len(ads[j]) : ads[k][n] = ads[j][n]

LEMMA AdsRight ==
    ASSUME NEW T, NEW seg \in Nat \ {0}, Whole(T, seg), NEW items \in Seq(T)
    PROVE  \A k \in 0 .. Len(items) : AdsHold(items, seg, k)
<1> DEFINE n == Len(items)
           ads == Ads(items, seg)
           Entry(j, m) == [id |-> items[j].id, offset |-> (m - 1) * seg]
           Many(j) == items[j].duration \div seg
           X == {k \in Nat : k <= n => AdsHold(items, seg, k)}
<1>1. n \in Nat /\ \A k \in 1 .. n : items[k] \in T
  OBVIOUS
<1>2. /\ ads \in [0 .. n -> Seq(Quantum(T))] /\ ads[0] = <<>>
      /\ \A k \in 1 .. n : ads[k] = ads[k - 1] \o Block(items[k], seg)
  BY AdsLoop, Zenon
<1>3. \A k : AdsHold(items, seg, k) <=>
         /\ Len(ads[k]) * seg = TotalOf(SubSeq(items, 1, k))
         /\ \A i \in 1 .. Len(ads[k]) : \E j \in 1 .. k : \E m \in 1 .. Many(j) : ads[k][i] = Entry(j, m)
         /\ \A j \in 1 .. k : \A m \in 1 .. Many(j) : \E i \in 1 .. Len(ads[k]) : ads[k][i] = Entry(j, m)
         /\ \A j \in 0 .. k : Len(ads[j]) <= Len(ads[k]) /\ \A i \in 1 .. Len(ads[j]) : ads[k][i] = ads[j][i]
  BY Zenon DEF AdsHold
<1>4. \A k \in 1 .. n : \A m \in 1 .. Many(k) : Block(items[k], seg)[m] = Entry(k, m)
  BY <1>1, BlockFacts
<1>5. \A k \in 1 .. n : /\ Block(items[k], seg) \in Seq(Quantum(T)) /\ Len(Block(items[k], seg)) = Many(k)
                        /\ Many(k) \in Nat /\ Many(k) * seg = items[k].duration
  BY <1>1, BlockFacts
<1> HIDE DEF ads, Entry, Many, n
<1>6. 0 \in X
  <2>1. SubSeq(items, 1, 0) = <<>> /\ TotalOf(<<>>) = 0
    BY SubSeqEmpty, TotalEmpty
  <2>2. Len(ads[0]) = 0 /\ 0 * seg = 0
    BY <1>2
  <2>3. \A i \in 1 .. 0 : FALSE
    OBVIOUS
  <2>4. \A j \in 0 .. 0 : j = 0
    OBVIOUS
  <2>5. Len(ads[0]) * seg = TotalOf(SubSeq(items, 1, 0))
    BY <2>1, <2>2
  <2>6. /\ \A i \in 1 .. Len(ads[0]) : FALSE
        /\ \A j \in 1 .. 0 : FALSE
        /\ \A j \in 0 .. 0 : Len(ads[j]) <= Len(ads[0]) /\ \A i \in 1 .. Len(ads[j]) : ads[0][i] = ads[j][i]
    BY <2>2, <2>3, <2>4
  <2>7. AdsHold(items, seg, 0)
    BY <1>3, <2>5, <2>6, Zenon
  <2> QED BY <2>7
<1>7. ASSUME NEW k \in Nat, k \in X PROVE k + 1 \in X
  <2>1. SUFFICES ASSUME k + 1 <= n PROVE AdsHold(items, seg, k + 1)
    OBVIOUS
  <2> DEFINE a == ads[k]
             b == Block(items[k + 1], seg)
             c == ads[k + 1]
             l == Len(a)
             q == Many(k + 1)
  <2>2. k \in 0 .. n /\ k + 1 \in 1 .. n /\ k + 1 \in 0 .. n /\ (k + 1) - 1 = k /\ k <= n /\ k < n
    BY <1>1, <2>1
  <2>3. a \in Seq(Quantum(T)) /\ b \in Seq(Quantum(T)) /\ Len(b) = q /\ c = a \o b /\ q \in Nat
    BY <1>2, <1>5, <2>2
  <2>4. AdsHold(items, seg, k)
    BY <1>7, <2>2
  <2>5. /\ l * seg = TotalOf(SubSeq(items, 1, k))
        /\ \A i \in 1 .. l : \E j \in 1 .. k : \E m \in 1 .. Many(j) : a[i] = Entry(j, m)
        /\ \A j \in 1 .. k : \A m \in 1 .. Many(j) : \E i \in 1 .. l : a[i] = Entry(j, m)
        /\ \A j \in 0 .. k : Len(ads[j]) <= l /\ \A i \in 1 .. Len(ads[j]) : a[i] = ads[j][i]
    BY <1>3, <2>4
  <2>6. \A m \in 1 .. q : b[m] = Entry(k + 1, m)
    BY <1>4, <2>2
  <2> HIDE DEF a, b, c, q
  <2>7. /\ l \in Nat /\ Len(c) = l + q
        /\ \A i \in 1 .. l : c[i] = a[i] /\ i \in 1 .. l + q
        /\ \A m \in 1 .. q : l + m \in 1 .. l + q /\ c[l + m] = b[m]
        /\ \A i \in 1 .. l + q : i \in 1 .. l \/ (i - l \in 1 .. q /\ i = l + (i - l))
    <3>1. l \in Nat /\ Len(c) = l + q /\ \A i \in 1 .. l : c[i] = a[i] /\ i \in 1 .. l + q
      <4>1. l \in Nat /\ Len(c) = l + q
        <5>1. a \in Seq(Quantum(T)) /\ b \in Seq(Quantum(T))
          BY <2>3
        <5>2. Len(a) \in Nat /\ Len(a \o b) = Len(a) + Len(b)
          BY <5>1
        <5> QED BY <2>3, <5>2
      <4>2. \A i \in 1 .. l : c[i] = a[i]
        BY <2>3
      <4>3. \A i \in 1 .. l : i \in 1 .. l + q
        <5> HIDE DEF l
        <5> QED BY <2>3, <4>1
      <4> QED BY <4>1, <4>2, <4>3
    <3>2. \A m \in 1 .. q : l + m \in 1 .. l + q /\ c[l + m] = b[m]
      BY <2>3
    <3>3. \A i \in 1 .. l + q : i \in 1 .. l \/ (i - l \in 1 .. q /\ i = l + (i - l))
      BY <2>3, <3>1
    <3> QED BY <3>1, <3>2, <3>3
  <2> HIDE DEF l
  <2>8. Len(c) * seg = TotalOf(SubSeq(items, 1, k + 1))
    <3>1. /\ SubSeq(items, 1, k) \in Seq(T) /\ items[k + 1] \in T
          /\ SubSeq(items, 1, k + 1) = Append(SubSeq(items, 1, k), items[k + 1])
      BY <2>2, PrefixStep DEF n
    <3>2. TotalOf(Append(SubSeq(items, 1, k), items[k + 1])) = TotalOf(SubSeq(items, 1, k)) + items[k + 1].duration
      <4>1. \A x \in T : x.duration \in Nat
        BY DEF Whole
      <4> QED BY <3>1, <4>1, TotalAppend
    <3>3. q * seg = items[k + 1].duration
      BY <1>5, <2>2 DEF q
    <3>4. TotalOf(SubSeq(items, 1, k + 1)) = l * seg + q * seg
      BY <2>5, <3>1, <3>2, <3>3, Zenon
    <3>5. (l + q) * seg = l * seg + q * seg
      BY <2>3, <2>7
    <3> QED BY <2>7, <3>4, <3>5
  <2>9. ASSUME NEW i \in 1 .. Len(c)
        PROVE  \E j \in 1 .. k + 1 : \E m \in 1 .. Many(j) : c[i] = Entry(j, m)
    <3>1. CASE i \in 1 .. l
      <4>1. PICK j \in 1 .. k : \E m \in 1 .. Many(j) : a[i] = Entry(j, m)
        BY <2>5, <3>1
      <4>2. j \in 1 .. k + 1
        OBVIOUS
      <4> QED BY <2>7, <3>1, <4>1, <4>2
    <3>2. CASE i - l \in 1 .. q /\ i = l + (i - l)
      <4>1. c[i] = Entry(k + 1, i - l)
        BY <2>6, <2>7, <3>2
      <4>2. k + 1 \in 1 .. k + 1
        OBVIOUS
      <4> QED BY <3>2, <4>1, <4>2 DEF q
    <3> QED BY <2>7, <3>1, <3>2
  <2>10. ASSUME NEW j \in 1 .. k + 1, NEW m \in 1 .. Many(j)
         PROVE  \E i \in 1 .. Len(c) : c[i] = Entry(j, m)
    <3>1. CASE j \in 1 .. k
      <4>1. PICK i \in 1 .. l : a[i] = Entry(j, m)
        BY <2>5, <3>1
      <4> QED BY <2>7, <4>1
    <3>2. CASE j = k + 1
      <4>1. m \in 1 .. q
        BY <3>2 DEF q
      <4> QED BY <2>6, <2>7, <3>2, <4>1
    <3>3. j \in 1 .. k \/ j = k + 1
      OBVIOUS
    <3> QED BY <3>1, <3>2, <3>3
  <2>11. ASSUME NEW j \in 0 .. k + 1
         PROVE  Len(ads[j]) <= Len(c) /\ \A i \in 1 .. Len(ads[j]) : c[i] = ads[j][i]
    <3>1. CASE j \in 0 .. k
      <4>1. j \in 0 .. n
        BY <1>1, <2>2, <3>1
      <4>2. Len(ads[j]) \in Nat
        BY <1>2, <4>1
      <4>3. Len(ads[j]) <= l /\ \A i \in 1 .. Len(ads[j]) : a[i] = ads[j][i]
        BY <2>5, <3>1
      <4>4. \A i \in 1 .. Len(ads[j]) : i \in 1 .. l
        BY <2>7, <4>2, <4>3
      <4> QED BY <2>3, <2>7, <4>2, <4>3, <4>4
    <3>2. CASE j = k + 1
      BY <2>3, <2>7, <3>2 DEF c
    <3>3. j \in 0 .. k \/ j = k + 1
      OBVIOUS
    <3> QED BY <3>1, <3>2, <3>3
  <2> QED BY <1>3, <2>8, <2>9, <2>10, <2>11 DEF c
<1>8. \A k \in Nat : k \in X
  <2> HIDE DEF X
  <2> QED BY <1>6, <1>7, NumberInduction
<1> QED BY <1>1, <1>8 DEF n

\* the registry has no more creatives of partners than bestSubset looks at
FewPartners(r) == Cardinality({c \in Range(r) : c.type # "house"}) <= 60

\* what can be played of a registry
Choice(r, category, before, seg) == {c \in Range(r) : Usable(c, category, before, seg)}
House(S) == {c \in S : c.type = "house"}
Partners(S) == {c \in S : c.type # "house"}

LEMMA ChoiceFacts ==
    ASSUME NEW r, IsRegistry(r), NEW category, NEW before, NEW seg \in Nat \ {0}
    PROVE  LET S == Choice(r, category, before, seg)
           IN  /\ Stock(S) /\ Stock(House(S)) /\ Stock(Partners(S)) /\ Whole(S, seg)
               /\ FewPartners(r) => Cardinality(Partners(S)) <= 60
<1> DEFINE S == Choice(r, category, before, seg)
           R == Range(r)
           P == {c \in R : c.type # "house"}
<1>1. /\ R \subseteq Creatives /\ DOMAIN r = 1 .. Len(r) /\ Len(r) \in Nat
      /\ \A c, d \in R : c.id = d.id => c = d
  BY DEF IsRegistry, Range
<1>2. IsFiniteSet(R)
  <2>1. R = Elements(r)
    BY <1>1 DEF Range, Elements
  <2> QED BY <1>1, <2>1, FiniteElements
<1>3. \A c \in S : c \in R /\ c.duration \in Nat \ {0} /\ c.duration % seg = 0
  <2>1. \A c \in R : c.duration \in Int
    BY <1>1 DEF Creatives
  <2>2. \A c \in S : c \in R /\ c.duration > 0 /\ c.duration % seg = 0
    BY Zenon DEF Choice, Usable
  <2> HIDE DEF R, S
  <2> QED BY <2>1, <2>2
<1>4. Partners(S) \in SUBSET P
  BY <1>3 DEF Partners
<1>5. IsFiniteSet(P)
  BY <1>2, FS_Subset
<1>6. Cardinality(Partners(S)) <= Cardinality(P) /\ Cardinality(P) \in Nat /\ Cardinality(Partners(S)) \in Nat
  BY <1>4, <1>5, FS_Subset, FS_CardinalityType
<1> HIDE DEF R, S, P
<1>7. \A A \in SUBSET S : Stock(A)
  <2> TAKE A \in SUBSET S
  <2>1. IsFiniteSet(A)
    <3>1. A \in SUBSET R
      BY <1>3
    <3> QED BY <1>2, <3>1, FS_Subset
  <2> QED BY <1>1, <1>3, <2>1 DEF Stock, Timed
<1>8. Stock(S) /\ Stock(House(S)) /\ Stock(Partners(S))
  BY <1>7 DEF House, Partners
<1>9. Whole(S, seg)
  BY <1>3 DEF Whole
<1>10. FewPartners(r) => Cardinality(Partners(S)) <= 60
  BY <1>6 DEF FewPartners, P, R
<1> QED BY <1>8, <1>9, <1>10 DEF S

\* a break: the best choice of partners, and house creatives until it is full
LEMMA ExcludingFacts ==
    ASSUME NEW r, IsRegistry(r), FewPartners(r), NEW category, NEW before, NEW seg \in Nat \ {0},
           NEW duration \in Nat \ {0}
    PROVE  LET S == Choice(r, category, before, seg)
               items == FillBreakExcluding(r, duration, category, before, seg)
           IN  \E U \in SUBSET Partners(S) : \E best :
                  /\ Best(U, Partners(S), duration) /\ Lists(best, U)
                  /\ items \in Seq(S) /\ Continues(items, best, House(S))
                  /\ House(S) = {} => items = best
                  /\ House(S) # {} => TotalOf(items) >= duration
<1> DEFINE S == Choice(r, category, before, seg)
           H == House(S)
           P == Partners(S)
           house == InOrder(H, Longer(H))
           partner == InOrder(P, Longer(P))
           best == BestSubset(partner, duration)
           more == AddHouse(best, house, duration)
           items == AddPad(more, house, duration)
<1>1. FillBreakExcluding(r, duration, category, before, seg) = items
  <2>1. {c \in {d \in Range(r) : Usable(d, category, before, seg)} : c.type = "house"} = H
    BY DEF Choice, House
  <2>2. {c \in {d \in Range(r) : Usable(d, category, before, seg)} : c.type # "house"} = P
    BY DEF Choice, Partners
  <2>3. ~(duration <= 0 \/ seg <= 0)
    OBVIOUS
  <2> QED BY <2>1, <2>2, <2>3, Zenon DEF FillBreakExcluding
<1>2. Stock(S) /\ Stock(H) /\ Stock(P) /\ Cardinality(P) <= 60 /\ \A c \in S : c.duration \in Nat \ {0}
  BY ChoiceFacts DEF Whole
<1>3. H \in SUBSET S /\ P \in SUBSET S
  BY DEF House, Partners
<1> HIDE DEF S, H, P
<1>4. Lists(house, H) /\ Lists(partner, P)
  <2>1. \A A : Stock(A) => Lists(InOrder(A, Longer(A)), A)
    <3> TAKE A
    <3> HAVE Stock(A)
    <3>1. IsFiniteSet(A) /\ (\A c \in A : c \in Creatives) /\ \A c, d \in A : c.id = d.id => c = d
      BY DEF Stock, Timed
    <3> QED BY <3>1, LongerOrders, OrderLists
  <2> QED BY <1>2, <2>1
<1> HIDE DEF house, partner
<1>5. PICK U \in SUBSET P : Best(U, P, duration) /\ Lists(best, U)
  BY <1>2, <1>4, BestIsBest
<1> HIDE DEF best
<1>6. best \in Seq(S) /\ house \in Seq(H)
  BY <1>3, <1>4, <1>5 DEF Lists
<1>7. more \in Seq(S) /\ Continues(more, best, H) /\ (house = <<>> => more = best)
  BY <1>3, <1>6, HouseFacts
<1> HIDE DEF more
<1>8. /\ items \in Seq(S) /\ Continues(items, more, H)
      /\ house = <<>> => items = more
      /\ house # <<>> => TotalOf(items) >= duration
  <2>1. duration \in Nat
    OBVIOUS
  <2> QED BY <1>2, <1>3, <1>6, <1>7, <2>1, PadFacts
<1> HIDE DEF items
<1>9. Continues(items, best, H)
  <2> DEFINE l == Len(items)
             m == Len(more)
             n == Len(best)
  <2>1. l \in Nat /\ m \in Nat /\ n \in Nat
    BY <1>6, <1>7, <1>8
  <2>2. /\ n <= m /\ m <= l
        /\ \A i \in 1 .. m : items[i] = more[i]
        /\ \A i \in 1 .. n : more[i] = best[i]
        /\ \A i \in m + 1 .. l : items[i] \in H
        /\ \A i \in n + 1 .. m : more[i] \in H
    BY <1>7, <1>8 DEF Continues
  <2> HIDE DEF l, m, n
  <2>3. \A i \in n + 1 .. l : i \in m + 1 .. l \/ (i \in n + 1 .. m /\ i \in 1 .. m)
    BY <2>1
  <2>4. \A i \in 1 .. n : i \in 1 .. m
    BY <2>1, <2>2
  <2>5. n <= l
    BY <2>1, <2>2
  <2> QED BY <2>2, <2>3, <2>4, <2>5 DEF Continues, l, n
<1>10. house = <<>> <=> H = {}
  <2>1. Len(house) = Cardinality(H) /\ IsFiniteSet(H)
    BY <1>2, <1>4 DEF Lists, Stock, Timed
  <2>2. Cardinality(H) = 0 <=> H = {}
    BY <2>1, FS_EmptySet
  <2>3. house = <<>> <=> Len(house) = 0
    BY <1>6
  <2> QED BY <2>1, <2>2, <2>3
<1> QED BY <1>1, <1>5, <1>7, <1>8, <1>9, <1>10 DEF S, H, P

\* where the segments of a creative begin
LEMMA OffsetFacts ==
    ASSUME NEW d \in Nat \ {0}, NEW seg \in Nat \ {0}, d % seg = 0
    PROVE  {(m - 1) * seg : m \in 1 .. d \div seg} = {o \in 0 .. d - 1 : o % seg = 0}
<1> DEFINE q == d \div seg
<1>1. q \in Nat /\ d = q * seg
  <2>1. q \in Nat /\ d = q * seg + (d % seg)
    BY DivFacts
  <2>2. q * seg \in Nat
    BY <2>1
  <2> HIDE DEF q
  <2> QED BY <2>1, <2>2
<1> HIDE DEF q
<1>2. ASSUME NEW m \in 1 .. q PROVE (m - 1) * seg \in 0 .. d - 1 /\ ((m - 1) * seg) % seg = 0
  <2> DEFINE o == (m - 1) * seg
             r == o % seg
             p == o \div seg
  <2>1. o \in Nat
    BY <1>1
  <2>2. o + seg <= d
    <3>1. o + seg = m * seg
      BY <1>1
    <3>2. m * seg <= q * seg
      BY <1>1
    <3> QED BY <1>1, <3>1, <3>2
  <2>3. r = 0
    <3>1. p \in Nat /\ r \in 0 .. seg - 1 /\ o = p * seg + r
      BY <2>1, DivFacts
    <3> HIDE DEF p, r
    <3>2. (m - 1) * seg = p * seg + r
      BY <3>1
    <3>3. p = m - 1
      <4>1. CASE p >= m
        <5>1. p * seg >= m * seg /\ m * seg = (m - 1) * seg + seg
          BY <1>1, <3>1, <4>1
        <5> QED BY <1>1, <2>1, <3>1, <3>2, <5>1
      <4>2. CASE p + 1 <= m - 1
        <5>1. (p + 1) * seg <= (m - 1) * seg /\ (p + 1) * seg = p * seg + seg
          BY <1>1, <3>1, <4>2
        <5> QED BY <1>1, <2>1, <3>1, <3>2, <5>1
      <4> QED BY <1>1, <3>1, <4>1, <4>2
    <3> DEFINE z == p * seg
    <3>4. z \in Nat /\ z = z + r
      BY <3>1, <3>2, <3>3
    <3> HIDE DEF z
    <3> QED BY <3>1, <3>4
  <2> HIDE DEF o
  <2>4. o \in 0 .. d - 1
    BY <2>1, <2>2
  <2> QED BY <2>3, <2>4 DEF o
<1>3. ASSUME NEW o \in 0 .. d - 1, o % seg = 0 PROVE \E m \in 1 .. q : (m - 1) * seg = o
  <2> DEFINE p == o \div seg
  <2>1. p \in Nat /\ o = p * seg
    <3>1. p \in Nat /\ o = p * seg + (o % seg)
      BY DivFacts
    <3>2. p * seg \in Nat
      BY <3>1
    <3> HIDE DEF p
    <3> QED BY <1>3, <3>1, <3>2
  <2> HIDE DEF p
  <2>2. p < q
    <3> SUFFICES ASSUME p >= q PROVE FALSE
      BY <1>1, <2>1
    <3>1. p * seg >= q * seg
      BY <1>1, <2>1
    <3> QED BY <1>1, <2>1, <3>1
  <2>3. p + 1 \in 1 .. q /\ ((p + 1) - 1) = p
    BY <1>1, <2>1, <2>2
  <2> QED BY <2>1, <2>3
<1>4. \A o \in {(m - 1) * seg : m \in 1 .. q} : o \in 0 .. d - 1 /\ o % seg = 0
  BY <1>2
<1> QED BY <1>3, <1>4 DEF q

\* the break on the air: it has its length, it shows the creatives that fit to their end, and it shows slate only if
\* the creatives are not enough
OnAir(quanta, duration, items, seg) ==
    LET Shown(id) == {i \in DOMAIN quanta : quanta[i].id = id}
    IN  /\ Len(quanta) = duration \div seg
        /\ \A k \in 0 .. Len(items) : TotalOf(SubSeq(items, 1, k)) <= duration => \A j \in 1 .. k :
              {quanta[i].offset : i \in Shown(items[j].id)} = {o \in 0 .. items[j].duration - 1 : o % seg = 0}
        /\ Shown(NoCreative) # {} => TotalOf(items) < duration

LEMMA QuantaFacts ==
    ASSUME NEW S, Stock(S), NEW seg \in Nat \ {0}, Whole(S, seg), NEW items \in Seq(S), NEW duration \in Nat
    PROVE  OnAir(Quanta(duration, items, seg), duration, items, seg)
<1> DEFINE n == Len(items)
           every == Ads(items, seg)
           ads == every[n]
           l == Len(ads)
           total == duration \div seg
           slate == [i \in 1 .. total - l |-> [id |-> NoCreative, offset |-> 0]]
           full == ads \o slate
           quanta == Quanta(duration, items, seg)
           Shown(id) == {i \in DOMAIN quanta : quanta[i].id = id}
           Entry(j, m) == [id |-> items[j].id, offset |-> (m - 1) * seg]
           Q == Quantum(S) \cup {[id |-> NoCreative, offset |-> 0]}
<1>1. n \in Nat /\ \A j \in 1 .. n : items[j] \in S
  OBVIOUS
<1>2. every \in [0 .. n -> Seq(Quantum(S))]
  BY AdsLoop, Zenon
<1>3. \A k \in 0 .. n : AdsHold(items, seg, k)
  BY AdsRight
<1>4. total \in Nat /\ duration = total * seg + (duration % seg) /\ duration % seg \in 0 .. seg - 1
  BY DivFacts
<1>5. quanta = SubSeq(full, 1, total)
  BY Zenon DEF Quanta
<1>6. \A k \in 0 .. n :
         /\ Len(every[k]) * seg = TotalOf(SubSeq(items, 1, k)) /\ Len(every[k]) \in Nat
         /\ \A i \in 1 .. Len(every[k]) : \E j \in 1 .. k : \E m \in 1 .. items[j].duration \div seg : every[k][i] = Entry(j, m)
         /\ \A j \in 1 .. k : \A m \in 1 .. items[j].duration \div seg : \E i \in 1 .. Len(every[k]) : every[k][i] = Entry(j, m)
         /\ \A j \in 0 .. k : Len(every[j]) <= Len(every[k]) /\ \A i \in 1 .. Len(every[j]) : every[k][i] = every[j][i]
  <2> TAKE k \in 0 .. n
  <2>1. AdsHold(items, seg, k)
    BY <1>3
  <2>2. Len(every[k]) \in Nat
    BY <1>2
  <2> QED BY <2>1, <2>2, Zenon DEF AdsHold
<1>7. n \in 0 .. n /\ l \in Nat /\ ads \in Seq(Quantum(S))
  BY <1>1, <1>2
<1> HIDE DEF every, ads, l, total, quanta, n
<1>8. /\ slate \in Seq(Q) /\ Len(slate) \in Nat /\ l + Len(slate) >= total
      /\ \A i \in 1 .. Len(slate) : slate[i] = [id |-> NoCreative, offset |-> 0]
  <2>1. CASE total - l \in Nat
    <3> DEFINE w == total - l
               x == [id |-> NoCreative, offset |-> 0]
               t == [i \in 1 .. w |-> x]
    <3>1. w \in Nat /\ x \in Q /\ l + w = total
      BY <1>4, <1>7, <2>1
    <3> HIDE DEF w, x
    <3>2. t \in [1 .. w -> Q] /\ \A i \in 1 .. w : t[i] = x
      BY <3>1
    <3> HIDE DEF t
    <3>3. t \in Seq(Q) /\ Len(t) = w
      BY <3>1, <3>2
    <3>4. slate = t
      BY DEF t, w, x
    <3> HIDE DEF slate
    <3>5. total \in Nat
      BY <1>4
    <3>6. slate \in Seq(Q) /\ Len(slate) = w
      BY <3>3, <3>4
    <3>7. \A i \in 1 .. w : slate[i] = x
      BY <3>2, <3>4
    <3>8. l + w >= total
      BY <3>1, <3>5
    <3> QED BY <3>1, <3>6, <3>7, <3>8 DEF x
  <2>2. CASE ~(total - l \in Nat)
    <3>1. 1 .. total - l = {} /\ l >= total
      BY <1>4, <1>7, <2>2
    <3>2. slate = <<>>
      BY <3>1
    <3> HIDE DEF slate
    <3>3. slate \in Seq(Q) /\ Len(slate) = 0
      BY <3>2
    <3>4. l + 0 >= total
      BY <1>7, <3>1
    <3> QED BY <3>3, <3>4
  <2> QED BY <2>1, <2>2
<1> HIDE DEF slate
<1>9. /\ full \in Seq(Q) /\ Len(full) >= total /\ Len(full) \in Nat
      /\ \A i \in 1 .. total : full[i] = IF i <= l THEN ads[i] ELSE [id |-> NoCreative, offset |-> 0]
  <2> DEFINE w == Len(slate)
  <2>1. ads \in Seq(Q)
    BY <1>7
  <2>2. full \in Seq(Q) /\ Len(full) = l + w
    BY <1>8, <2>1 DEF l
  <2>3. \A i \in 1 .. l + w : full[i] = IF i <= l THEN ads[i] ELSE slate[i - l]
    BY <1>8, <2>1 DEF l
  <2>4. w \in Nat /\ l + w >= total
    BY <1>8
  <2> HIDE DEF full, w
  <2>5. \A i \in 1 .. total : i \in 1 .. l + w /\ (~(i <= l) => i - l \in 1 .. w)
    BY <1>4, <1>7, <2>4
  <2>6. l + w \in Nat
    BY <1>7, <2>4
  <2> QED BY <1>8, <2>2, <2>3, <2>4, <2>5, <2>6 DEF w
<1> HIDE DEF full, Q
<1>10. Len(quanta) = total /\ DOMAIN quanta = 1 .. total /\ \A i \in 1 .. total : quanta[i] = full[i]
  <2>1. \A i \in 1 .. total : full[i] \in Q
    <3>1. \A i \in 1 .. total : i \in 1 .. Len(full)
      BY <1>4, <1>9
    <3> QED BY <1>9, <3>1
  <2>2. /\ quanta \in Seq(Q) /\ Len(quanta) = IF 1 <= total THEN total - 1 + 1 ELSE 0
        /\ \A i \in 1 .. total - 1 + 1 : quanta[i] = full[1 + i - 1]
    BY <1>4, <1>5, <2>1, SubSeqProperties
  <2>3. Len(quanta) = total
    BY <1>4, <2>2
  <2>4. \A i \in 1 .. total : i \in 1 .. total - 1 + 1 /\ 1 + i - 1 = i
    BY <1>4
  <2> QED BY <2>2, <2>3, <2>4
<1>11. \A i \in 1 .. total : quanta[i] = IF i <= l THEN ads[i] ELSE [id |-> NoCreative, offset |-> 0]
  BY <1>9, <1>10
<1>12. \A j \in 1 .. n : items[j].id # NoCreative /\ items[j].duration \in Nat \ {0} /\ items[j].duration % seg = 0
  BY <1>1 DEF Stock, Creatives, Whole
<1>13. \A i \in 1 .. l : \E j \in 1 .. n : \E m \in 1 .. items[j].duration \div seg : ads[i] = Entry(j, m)
  BY <1>6, <1>7 DEF ads, l
<1>14. ASSUME NEW k \in 0 .. n, TotalOf(SubSeq(items, 1, k)) <= duration, NEW j \in 1 .. k
       PROVE  {quanta[i].offset : i \in Shown(items[j].id)} = {o \in 0 .. items[j].duration - 1 : o % seg = 0}
  <2> DEFINE c == items[j]
             d == c.duration
             L == Len(every[k])
  <2>1. j \in 1 .. n /\ c \in S /\ c.id # NoCreative /\ d \in Nat \ {0} /\ d % seg = 0
    <3>1. j \in 1 .. n
      BY <1>1
    <3> QED BY <1>1, <1>12, <3>1
  <2>2. L \in Nat /\ L <= total /\ L <= l /\ \A i \in 1 .. L : ads[i] = every[k][i]
    <3>1. L \in Nat /\ L * seg = TotalOf(SubSeq(items, 1, k))
      BY <1>6
    <3>2. L <= l /\ \A i \in 1 .. L : ads[i] = every[k][i]
      BY <1>6, <1>7 DEF ads, l
    <3>3. L <= total
      <4> HIDE DEF L
      <4> SUFFICES ASSUME L >= total + 1 PROVE FALSE
        BY <1>4, <3>1
      <4>1. L * seg >= (total + 1) * seg /\ (total + 1) * seg = total * seg + seg
        BY <1>4, <3>1
      <4>2. L * seg <= duration
        BY <1>14, <3>1
      <4> DEFINE x == L * seg
                 y == total * seg
                 z == duration % seg
      <4>3. x >= y + seg /\ x <= duration /\ duration = y + z /\ z \in 0 .. seg - 1 /\ y \in Nat /\ x \in Nat
        BY <1>4, <3>1, <4>1, <4>2
      <4> HIDE DEF x, y, z
      <4> QED BY <4>3
    <3> QED BY <3>1, <3>2, <3>3
  <2>3. ASSUME NEW i \in Shown(c.id)
        PROVE  quanta[i].offset \in {o \in 0 .. d - 1 : o % seg = 0}
    <3>1. i \in 1 .. total /\ quanta[i].id = c.id
      BY <1>10
    <3>2. i <= l
      BY <1>11, <2>1, <3>1
    <3>3. i \in 1 .. l
      BY <1>4, <1>7, <3>1, <3>2
    <3>4. PICK h \in 1 .. n : \E m \in 1 .. items[h].duration \div seg : ads[i] = Entry(h, m)
      BY <1>13, <3>3
    <3>5. PICK m \in 1 .. items[h].duration \div seg : ads[i] = Entry(h, m)
      BY <3>4
    <3>6. quanta[i] = Entry(h, m)
      BY <1>11, <3>1, <3>2, <3>5
    <3>7. items[h].id = c.id /\ quanta[i].offset = (m - 1) * seg
      BY <3>1, <3>6
    <3>8. items[h] = c
      BY <1>1, <2>1, <3>7 DEF Stock
    <3>9. m \in 1 .. d \div seg
      BY <3>5, <3>8
    <3>10. (m - 1) * seg \in 0 .. d - 1 /\ ((m - 1) * seg) % seg = 0
      <4> HIDE DEF d
      <4>1. {(e - 1) * seg : e \in 1 .. d \div seg} = {p \in 0 .. d - 1 : p % seg = 0}
        BY <2>1, OffsetFacts
      <4>2. (m - 1) * seg \in {(e - 1) * seg : e \in 1 .. d \div seg}
        BY <3>9
      <4> QED BY <4>1, <4>2
    <3> HIDE DEF d
    <3> QED BY <3>7, <3>10
  <2>4. ASSUME NEW o \in {o \in 0 .. d - 1 : o % seg = 0}
        PROVE  \E i \in Shown(c.id) : quanta[i].offset = o
    <3>1. PICK m \in 1 .. d \div seg : (m - 1) * seg = o
      <4> HIDE DEF d
      <4>1. {(m - 1) * seg : m \in 1 .. d \div seg} = {p \in 0 .. d - 1 : p % seg = 0}
        BY <2>1, OffsetFacts
      <4>2. o \in {(m - 1) * seg : m \in 1 .. d \div seg}
        BY <2>4, <4>1
      <4> QED BY <4>2
    <3>2. PICK i \in 1 .. L : every[k][i] = Entry(j, m)
      BY <1>6, <3>1
    <3>3. i \in 1 .. total /\ i <= l /\ ads[i] = Entry(j, m)
      <4> HIDE DEF L, Entry
      <4>1. total \in Nat /\ l \in Nat
        BY <1>4, <1>7
      <4>2. i \in 1 .. L /\ ads[i] = every[k][i]
        BY <2>2, <3>2
      <4>3. i \in 1 .. total /\ i <= l
        BY <2>2, <4>1, <4>2
      <4> QED BY <3>2, <4>2, <4>3
    <3>4. quanta[i] = Entry(j, m)
      BY <1>11, <3>3
    <3>5. i \in Shown(c.id) /\ quanta[i].offset = o
      BY <1>10, <3>1, <3>3, <3>4
    <3> QED BY <3>5
  <2> HIDE DEF Shown, c, d
  <2>5. {quanta[i].offset : i \in Shown(c.id)} = {o \in 0 .. d - 1 : o % seg = 0}
    BY <2>3, <2>4
  <2> QED BY <2>5 DEF c, d
<1>15. ASSUME NEW i \in Shown(NoCreative) PROVE TotalOf(items) < duration
  <2>1. i \in 1 .. total /\ quanta[i].id = NoCreative
    BY <1>10
  <2>2. ~(i <= l)
    <3> SUFFICES ASSUME i <= l PROVE FALSE
      OBVIOUS
    <3>1. i \in 1 .. l
      BY <1>4, <1>7, <2>1
    <3>2. PICK h \in 1 .. n : \E m \in 1 .. items[h].duration \div seg : ads[i] = Entry(h, m)
      BY <1>13, <3>1
    <3>3. quanta[i].id = items[h].id
      BY <1>11, <2>1, <3>2
    <3> QED BY <1>12, <2>1, <3>3
  <2>3. l + 1 <= total
    BY <1>4, <1>7, <2>1, <2>2
  <2>4. l * seg = TotalOf(items)
    <3>1. SubSeq(items, 1, n) = items
      BY SubSeqFull DEF n
    <3> QED BY <1>6, <1>7, <3>1 DEF l, ads
  <2>5. (l + 1) * seg <= total * seg /\ (l + 1) * seg = l * seg + seg
    BY <1>4, <1>7, <2>3
  <2> DEFINE x == l * seg
             y == total * seg
             z == duration % seg
  <2>6. x + seg <= y /\ duration = y + z /\ z \in Nat /\ x \in Nat /\ y \in Nat /\ TotalOf(items) = x
    BY <1>4, <1>7, <2>4, <2>5
  <2> HIDE DEF x, y, z
  <2> QED BY <2>6
<1> QED BY <1>10, <1>14, <1>15, Zenon DEF OnAir, quanta, total, n, Shown

\* something is played if and only if a house creative can be, or one of a partner fits
LEMMA PlaysWhenItCan ==
    ASSUME NEW r, IsRegistry(r), FewPartners(r), NEW category, NEW before, NEW seg \in Nat \ {0},
           NEW duration \in Nat \ {0}
    PROVE  LET S == Choice(r, category, before, seg)
           IN  FillBreakExcluding(r, duration, category, before, seg) # <<>> <=>
                  House(S) # {} \/ \E c \in Partners(S) : c.duration <= duration
<1> DEFINE S == Choice(r, category, before, seg)
           items == FillBreakExcluding(r, duration, category, before, seg)
           P == Partners(S)
<1>1. PICK U \in SUBSET P : \E best :
         /\ Best(U, P, duration) /\ Lists(best, U)
         /\ items \in Seq(S) /\ Continues(items, best, House(S))
         /\ House(S) = {} => items = best
         /\ House(S) # {} => TotalOf(items) >= duration
  BY ExcludingFacts, Zenon
<1>2. PICK best : /\ Best(U, P, duration) /\ Lists(best, U)
                  /\ House(S) = {} => items = best
                  /\ House(S) # {} => TotalOf(items) >= duration
  BY <1>1
<1>3. Stock(P)
  BY ChoiceFacts
<1> HIDE DEF S, items, P
<1>4. Timed(U) /\ Together(U) <= duration
  BY <1>2, <1>3, FS_Subset DEF Stock, Timed, Best
<1>5. CASE House(S) # {}
  <2>1. items # <<>>
    BY <1>2, <1>5, TotalEmpty
  <2> QED BY <1>5, <2>1 DEF S, items
<1>6. CASE House(S) = {}
  <2>1. items = best
    BY <1>2, <1>6
  <2>2. best # <<>> <=> U # {}
    <3>1. best \in Seq(U) /\ Len(best) = Cardinality(U)
      BY <1>2 DEF Lists
    <3>2. Cardinality(U) = 0 <=> U = {}
      BY <1>4, FS_EmptySet DEF Timed
    <3>3. best = <<>> <=> Len(best) = 0
      BY <3>1
    <3> QED BY <3>1, <3>2, <3>3
  <2>3. ASSUME NEW c \in U PROVE c \in P /\ c.duration <= duration
    <3>1. Timed(U \ {c}) /\ Together(U) = c.duration + Together(U \ {c})
      BY <1>4, TogetherLess
    <3>2. Together(U \ {c}) \in Nat /\ c.duration \in Nat
      BY <1>4, <3>1, TogetherFacts DEF Timed
    <3> QED BY <1>4, <3>1, <3>2
  <2>4. ASSUME NEW c \in P, c.duration <= duration, U = {} PROVE FALSE
    <3>1. Timed({}) /\ c \notin {} /\ c.duration \in Nat \ {0}
      BY <1>3, FS_EmptySet DEF Stock, Timed
    <3>2. Together({}) = 0
      BY <3>1, TogetherFacts
    <3>3. Together({} \cup {c}) = c.duration + Together({})
      BY <3>1, TogetherFacts
    <3>4. {} \cup {c} = {c} /\ {c} \in SUBSET P
      OBVIOUS
    <3>5. \/ Together({c}) > duration \/ Together({c}) < Together(U)
          \/ (Together({c}) = Together(U) /\ Cardinality({c}) >= Cardinality(U))
      BY <1>2, <3>4 DEF Best
    <3>6. Together({c}) = c.duration /\ Together(U) = 0
      BY <2>4, <3>1, <3>2, <3>3, <3>4
    <3> QED BY <2>4, <3>1, <3>5, <3>6
  <2> QED BY <1>6, <2>1, <2>2, <2>3, <2>4 DEF S, items, P
<1> QED BY <1>5, <1>6

\* what fillBreak makes is what fillBreakExcluding makes without the creative that has to be left out
LEMMA FillLeavesOut ==
    ASSUME NEW r, IsRegistry(r), FewPartners(r), NEW category, NEW before, NEW seg \in Nat \ {0},
           NEW duration \in Nat \ {0}
    PROVE  LET S == Choice(r, category, before, seg)
               out == IF House(S) # {} \/ \E c \in Partners(S) : c.duration <= duration THEN before ELSE NoCreative
           IN  Fill(r, duration, category, before, seg) = FillBreakExcluding(r, duration, category, out, seg)
<1> DEFINE S == Choice(r, category, before, seg)
           items == FillBreakExcluding(r, duration, category, before, seg)
           can == House(S) # {} \/ \E c \in Partners(S) : c.duration <= duration
<1>1. items # <<>> <=> can
  BY PlaysWhenItCan, Zenon
<1>2. Fill(r, duration, category, before, seg) =
         IF items = <<>> /\ before # NoCreative THEN FillBreakExcluding(r, duration, category, NoCreative, seg) ELSE items
  BY Zenon DEF Fill
<1> HIDE DEF can
<1>3. CASE can
  <2>1. Fill(r, duration, category, before, seg) = items
    BY <1>1, <1>2, <1>3, Zenon
  <2> QED BY <1>3, <2>1, Zenon DEF can
<1>4. CASE ~can
  <2>1. Fill(r, duration, category, before, seg) = FillBreakExcluding(r, duration, category, NoCreative, seg)
    <3>1. CASE before = NoCreative
      BY <1>1, <1>2, <1>4, <3>1, Zenon
    <3>2. CASE before # NoCreative
      BY <1>1, <1>2, <1>4, <3>2, Zenon
    <3> QED BY <3>1, <3>2
  <2> QED BY <1>4, <2>1, Zenon DEF can
<1> QED BY <1>3, <1>4

LEMMA PlayableFacts ==
    ASSUME NEW r, IsRegistry(r), NEW out
    PROVE  LET S == Choice(r, "any", out, SegmentSec)
           IN  House(S) = Playable(r, "house", out) /\ Partners(S) = Playable(r, "partner", out)
<1>1. \A c \in Range(r) : c.type \in {"partner", "house"}
  <2>1. Range(r) \subseteq Creatives
    BY DEF IsRegistry, Range
  <2> QED BY <2>1 DEF Creatives
<1>2. \A c : Usable(c, "any", out, SegmentSec) <=>
                c.active /\ c.duration > 0 /\ c.duration % SegmentSec = 0 /\ c.id # out
  BY Zenon DEF Usable
<1>3. \A c \in Range(r) : c.type # "house" <=> c.type = "partner"
  BY <1>1
<1>4. House(Choice(r, "any", out, SegmentSec)) = Playable(r, "house", out)
  BY <1>2, Zenon DEF House, Choice, Playable
<1>5. Partners(Choice(r, "any", out, SegmentSec)) = Playable(r, "partner", out)
  BY <1>2, <1>3, Zenon DEF Partners, Choice, Playable
<1> QED BY <1>4, <1>5

LEMMA BestFill ==
    ASSUME NEW r, IsRegistry(r), FewPartners(r), NEW before, NEW duration \in Nat \ {0}
    PROVE  LET items == Fill(r, duration, "any", before, SegmentSec)
           IN  WellFilled(r, duration, before, items, Quanta(duration, items, SegmentSec))
<1> DEFINE out == LeftOut(r, duration, before)
           S == Choice(r, "any", out, SegmentSec)
           H == House(S)
           P == Partners(S)
           items == Fill(r, duration, "any", before, SegmentSec)
           quanta == Quanta(duration, items, SegmentSec)
           places == {i \in DOMAIN items : items[i].type = "partner"}
           chosen == {items[i] : i \in places}
           Shown(id) == {i \in DOMAIN quanta : quanta[i].id = id}
<1>1. SegmentSec \in Nat \ {0}
  BY CodecsAssumption
<1>2. items = FillBreakExcluding(r, duration, "any", out, SegmentSec)
  <2> DEFINE T == Choice(r, "any", before, SegmentSec)
             can == House(T) # {} \/ \E c \in Partners(T) : c.duration <= duration
  <2>1. items = FillBreakExcluding(r, duration, "any", IF can THEN before ELSE NoCreative, SegmentSec)
    BY <1>1, FillLeavesOut
  <2>2. House(T) = Playable(r, "house", before) /\ Partners(T) = Playable(r, "partner", before)
    BY PlayableFacts
  <2> HIDE DEF items, T
  <2>3. out = IF can THEN before ELSE NoCreative
    BY <2>2 DEF LeftOut
  <2> QED BY <2>1, <2>3
<1>3. H = Playable(r, "house", out) /\ P = Playable(r, "partner", out)
  <2> HIDE DEF out
  <2> QED BY PlayableFacts
<1>4. PICK U \in SUBSET P : \E best :
         /\ Best(U, P, duration) /\ Lists(best, U)
         /\ items \in Seq(S) /\ Continues(items, best, H)
         /\ H # {} => TotalOf(items) >= duration
  <2> HIDE DEF out
  <2> DEFINE done == FillBreakExcluding(r, duration, "any", out, SegmentSec)
  <2>1. \E U \in SUBSET P : \E best :
           /\ Best(U, P, duration) /\ Lists(best, U)
           /\ done \in Seq(S) /\ Continues(done, best, H)
           /\ H = {} => done = best
           /\ H # {} => TotalOf(done) >= duration
    BY <1>1, ExcludingFacts
  <2>2. items = done
    BY <1>2
  <2> HIDE DEF items, done
  <2> QED BY <2>1, <2>2
<1>5. PICK best : /\ Best(U, P, duration) /\ Lists(best, U)
                  /\ items \in Seq(S) /\ Continues(items, best, H)
                  /\ H # {} => TotalOf(items) >= duration
  BY <1>4
<1>6. Stock(S) /\ Stock(P) /\ Whole(S, SegmentSec)
  <2> HIDE DEF out
  <2> QED BY <1>1, ChoiceFacts
<1>7. \A c \in P : c.type = "partner"
  BY <1>3 DEF Playable
<1>8. \A c \in H : c.type = "house"
  BY DEF House
<1> HIDE DEF out, S, H, P, items
<1>9. /\ DOMAIN items = 1 .. Len(items) /\ Len(items) \in Nat /\ Len(best) \in Nat /\ best \in Seq(U)
      /\ Len(best) = Cardinality(U)
      /\ Len(best) <= Len(items)
      /\ \A i \in 1 .. Len(best) : items[i] = best[i] /\ best[i] \in U
      /\ \A i \in Len(best) + 1 .. Len(items) : items[i] \in H
  BY <1>5 DEF Lists, Continues
<1>10. places = 1 .. Len(best)
  <2>1. \A i \in 1 .. Len(items) : i \in 1 .. Len(best) \/ i \in Len(best) + 1 .. Len(items)
    BY <1>9
  <2>2. \A i \in 1 .. Len(best) : i \in 1 .. Len(items) /\ items[i].type = "partner"
    BY <1>7, <1>9
  <2>3. \A i \in Len(best) + 1 .. Len(items) : items[i].type = "house"
    BY <1>8, <1>9
  <2> QED BY <1>9, <2>1, <2>2, <2>3
<1>11. chosen = U
  BY <1>5, <1>9, <1>10 DEF Lists
<1>12. Cardinality(chosen) = Cardinality(places)
  <2>1. Cardinality(1 .. Len(best)) = Len(best)
    BY <1>9, FS_Interval
  <2> QED BY <1>9, <1>10, <1>11, <2>1
<1> HIDE DEF places, chosen
<1>13. /\ Len(quanta) = duration \div SegmentSec
       /\ \A k \in 0 .. Len(items) : TotalOf(SubSeq(items, 1, k)) <= duration => \A j \in 1 .. k :
             {quanta[i].offset : i \in Shown(items[j].id)} = {o \in 0 .. items[j].duration - 1 : o % SegmentSec = 0}
       /\ Shown(NoCreative) # {} => TotalOf(items) < duration
  <2>1. duration \in Nat
    OBVIOUS
  <2>2. OnAir(quanta, duration, items, SegmentSec)
    BY <1>1, <1>5, <1>6, <2>1, QuantaFacts
  <2> HIDE DEF quanta
  <2> QED BY <2>2, Zenon DEF OnAir
<1> HIDE DEF quanta, Shown
<1>14. SubSeq(items, 1, Len(best)) = best
  <2> DEFINE t == SubSeq(items, 1, Len(best))
             n == Len(best)
  <2>1. \A i \in 1 .. n : items[i] \in U
    BY <1>9
  <2>2. t \in Seq(U) /\ Len(t) = (IF 1 <= n THEN n - 1 + 1 ELSE 0) /\ \A i \in 1 .. n - 1 + 1 : t[i] = items[1 + i - 1]
    BY <1>9, <2>1, SubSeqProperties
  <2>3. n \in Nat
    BY <1>9
  <2> HIDE DEF t, n
  <2>4. Len(t) = n
    BY <2>2, <2>3
  <2>5. \A i \in 1 .. n : i \in 1 .. n - 1 + 1 /\ 1 + i - 1 = i
    BY <2>3
  <2>6. \A i \in 1 .. n : t[i] = best[i]
    BY <1>9, <2>2, <2>5 DEF n
  <2>7. t = best
    BY <1>9, <2>2, <2>4, <2>6 DEF n
  <2> QED BY <2>7 DEF t
<1>15. Together(U) <= duration /\ TotalOf(best) = Together(U)
  <2>1. Timed(U)
    BY <1>6, FS_Subset DEF Stock, Timed
  <2> QED BY <1>5, <2>1, ListTotal DEF Best
<1>16. ASSUME NEW c \in chosen
       PROVE  {quanta[i].offset : i \in Shown(c.id)} = {o \in 0 .. c.duration - 1 : o % SegmentSec = 0}
  <2>1. PICK j \in 1 .. Len(best) : c = items[j]
    BY <1>5, <1>9, <1>11 DEF Lists
  <2>2. Len(best) \in 0 .. Len(items)
    BY <1>9
  <2> QED BY <1>13, <1>14, <1>15, <2>1, <2>2
<1>17. Shown(NoCreative) # {} => H = {}
  <2>1. TotalOf(items) < duration /\ H # {} => FALSE
    <3>1. CASE items = <<>>
      BY <1>5, <3>1, TotalEmpty
    <3>2. CASE items # <<>>
      <4>1. items[1] \in S /\ \A c \in S : c.duration \in Nat
        BY <1>5, <1>6, <3>2 DEF Whole
      <4>2. TotalOf(items) \in Nat
        BY <1>5, <4>1, TotalAppend
      <4> QED BY <1>5, <4>2
    <3> QED BY <3>1, <3>2
  <2> QED BY <1>13, <2>1
<1>18. \A set \in SUBSET P : \/ Together(set) > duration \/ Together(set) < Together(chosen)
                             \/ Together(set) = Together(chosen) /\ Cardinality(set) >= Cardinality(chosen)
  BY <1>5, <1>11 DEF Best
<1> QED BY <1>3, <1>11, <1>12, <1>13, <1>15, <1>16, <1>17, <1>18, Zenon DEF WellFilled, places, chosen, Shown, items, quanta, out

\* a break of no length
LEMMA EmptyFill ==
    ASSUME NEW r, IsRegistry(r), NEW before
    PROVE  LET items == Fill(r, 0, "any", before, SegmentSec)
           IN  WellFilled(r, 0, before, items, Quanta(0, items, SegmentSec))
<1> DEFINE items == Fill(r, 0, "any", before, SegmentSec)
           quanta == Quanta(0, items, SegmentSec)
           out == LeftOut(r, 0, before)
           pool == Playable(r, "partner", out)
           places == {i \in DOMAIN items : items[i].type = "partner"}
           chosen == {items[i] : i \in places}
           Shown(id) == {i \in DOMAIN quanta : quanta[i].id = id}
<1>1. SegmentSec \in Nat \ {0}
  BY CodecsAssumption
<1>2. items = <<>>
  <2>1. \A w : FillBreakExcluding(r, 0, "any", w, SegmentSec) = <<>>
    <3>1. 0 <= 0
      OBVIOUS
    <3> QED BY <3>1, Zenon DEF FillBreakExcluding
  <2>2. items = IF FillBreakExcluding(r, 0, "any", before, SegmentSec) = <<>> /\ before # NoCreative
               THEN FillBreakExcluding(r, 0, "any", NoCreative, SegmentSec)
               ELSE FillBreakExcluding(r, 0, "any", before, SegmentSec)
    BY Zenon DEF Fill
  <2> HIDE DEF items
  <2> QED BY <2>1, <2>2
<1>3. OnAir(quanta, 0, items, SegmentSec)
  <2>1. Stock({}) /\ Whole({}, SegmentSec)
    BY FS_EmptySet DEF Stock, Timed, Whole
  <2> HIDE DEF items
  <2>2. items \in Seq({})
    BY <1>2
  <2> QED BY <1>1, <2>1, <2>2, QuantaFacts
<1>4. places = {} /\ chosen = {}
  BY <1>2
<1>5. Together({}) = 0 /\ Cardinality({}) = 0
  <2>1. Timed({})
    BY FS_EmptySet DEF Timed
  <2> QED BY <2>1, TogetherFacts, FS_EmptySet
<1>6. Shown(NoCreative) = {}
  <2>1. Shown(NoCreative) # {} => TotalOf(items) < 0
    <3> HIDE DEF quanta
    <3> QED BY <1>3, Zenon DEF OnAir
  <2> QED BY <1>2, <2>1, TotalEmpty
<1>7. Len(quanta) = 0 \div SegmentSec
  BY <1>3, Zenon DEF OnAir
<1>8. ASSUME NEW set \in SUBSET pool
      PROVE  \/ Together(set) > 0 \/ Together(set) < 0
             \/ Together(set) = 0 /\ Cardinality(set) >= 0
  <2>1. Stock(pool)
    <3> HIDE DEF out
    <3> QED BY <1>1, PlayableFacts, ChoiceFacts
  <2> HIDE DEF pool
  <2>2. Timed(set)
    BY <2>1, FS_Subset DEF Stock, Timed
  <2> QED BY <2>2, TogetherFacts, FS_CardinalityType DEF Timed
<1>9. chosen \subseteq pool /\ Together(chosen) <= 0 /\ Cardinality(chosen) = Cardinality(places)
  <2> HIDE DEF places, chosen, pool
  <2> QED BY <1>4, <1>5
<1>10. \A set \in SUBSET pool : \/ Together(set) > 0 \/ Together(set) < Together(chosen)
                                \/ Together(set) = Together(chosen) /\ Cardinality(set) >= Cardinality(chosen)
  BY <1>4, <1>5, <1>8
<1> HIDE DEF out, items, quanta, places, chosen, Shown
<1> QED BY <1>4, <1>6, <1>7, <1>9, <1>10, Zenon DEF WellFilled, places, chosen, Shown, items, quanta, out

\* Whatever the registry, the creatives and the break: if no registry has more than 60 creatives of partners,
\* fillBreak makes the best choice of them, and buildAdBreakQuanta shows it.
THEOREM BreaksAreFilledBest ==
    ASSUME \A r \in Registries : FewPartners(r)
    PROVE  CodecsSpec => []FillIsBest
<1>1. CodecsInit => FillIsBest
  BY DEF CodecsInit, FillIsBest, Idle
<1>2. FillIsBest /\ [CodecsNext]_call => FillIsBest'
  <2>1. CASE CallFill
    <3>1. PICK r \in Registries, duration \in BreakLengths : \E before \in {NoCreative} \cup {r[i].id : i \in DOMAIN r} :
             LET items == Fill(r, duration, "any", before, SegmentSec)
             IN  call' = [op |-> "fill", ask |-> [reg |-> r, duration |-> duration, last |-> before],
                          answer |-> [items |-> items, quanta |-> Quanta(duration, items, SegmentSec)]]
      BY <2>1 DEF CallFill
    <3>2. PICK before :
             LET items == Fill(r, duration, "any", before, SegmentSec)
             IN  call' = [op |-> "fill", ask |-> [reg |-> r, duration |-> duration, last |-> before],
                          answer |-> [items |-> items, quanta |-> Quanta(duration, items, SegmentSec)]]
      BY <3>1
    <3> DEFINE items == Fill(r, duration, "any", before, SegmentSec)
               quanta == Quanta(duration, items, SegmentSec)
    <3>3. IsRegistry(r) /\ FewPartners(r) /\ duration \in Nat
      BY CodecsAssumption, MessagesAssumption
    <3>4. WellFilled(r, duration, before, items, quanta)
      <4>1. CASE duration = 0
        BY <3>3, <4>1, EmptyFill
      <4>2. CASE duration # 0
        BY <3>3, <4>2, BestFill
      <4> QED BY <4>1, <4>2
    <3> HIDE DEF items, quanta
    <3>5. /\ call'.ask.reg = r /\ call'.ask.duration = duration /\ call'.ask.last = before
          /\ call'.answer.items = items /\ call'.answer.quanta = quanta
      BY <3>2 DEF items, quanta
    <3> QED BY <3>4, <3>5 DEF FillIsBest
  <2>2. CASE ~CallFill
    BY <2>2 DEF CodecsNext, Call, Idle, CallChildren, CallRetime, CallDecode, CallEncode, CallMarkers, CallParse, FillIsBest
  <2> QED BY <2>1, <2>2
<1> QED BY <1>1, <1>2, PTL DEF CodecsSpec
-----------------------------------------------------------------------------
(* Not twice in a row *)

\* the registries there are
Known == FirstRegistries \cup NewRegistries \cup {<<>>}

MadePods == [break : Breaks, reg : Known, items : Seq(Creatives)]

\* last is the creative that ended the last pod that is not empty
LastKept ==
    \A i \in DOMAIN made :
        made[i].items # <<>> /\ (\A k \in i + 1 .. Len(made) : made[k].items = <<>>) => last = Last(made[i].items).id

RowInv ==
    /\ file.content \in Known /\ reg \in Known
    /\ pc = "fill" => Covering(ts) # {}
    /\ made \in Seq(MadePods)
    /\ LastKept
    /\ NotTwiceInARow

LEMMA BeforeIsLeftOut ==
    ASSUME NEW r, IsRegistry(r), FewPartners(r), NEW category, NEW before, NEW duration \in Nat
    PROVE  LET items == Fill(r, duration, category, before, 1)
           IN  /\ items \in Seq(Creatives)
               /\ (\E c \in Range(r) : Usable(c, category, before, 1) /\ (c.type = "house" \/ c.duration <= duration))
                  => \A c \in Range(items) : c.id # before
<1> DEFINE items == Fill(r, duration, category, before, 1)
           S == Choice(r, category, before, 1)
           can == House(S) # {} \/ \E c \in Partners(S) : c.duration <= duration
           out == IF can THEN before ELSE NoCreative
           T == Choice(r, category, out, 1)
<1>1. CASE duration = 0
  <2>1. \A w : FillBreakExcluding(r, duration, category, w, 1) = <<>>
    <3>1. duration <= 0
      BY <1>1
    <3> QED BY <3>1, Zenon DEF FillBreakExcluding
  <2>2. items = IF FillBreakExcluding(r, duration, category, before, 1) = <<>> /\ before # NoCreative
               THEN FillBreakExcluding(r, duration, category, NoCreative, 1)
               ELSE FillBreakExcluding(r, duration, category, before, 1)
    BY Zenon DEF Fill
  <2> HIDE DEF items
  <2>3. items = <<>>
    BY <2>1, <2>2
  <2>4. items \in Seq(Creatives) /\ Range(items) = {}
    BY <2>3 DEF Range
  <2> QED BY <2>4 DEF items
<1>2. CASE duration # 0
  <2>1. duration \in Nat \ {0} /\ 1 \in Nat \ {0}
    BY <1>2
  <2>2. items = FillBreakExcluding(r, duration, category, out, 1)
    BY <2>1, FillLeavesOut, Zenon
  <2>3. items \in Seq(T)
    <3> DEFINE w == out
    <3> HIDE DEF w
    <3> DEFINE done == FillBreakExcluding(r, duration, category, w, 1)
               W == Choice(r, category, w, 1)
    <3>1. \E U \in SUBSET Partners(W) : \E best :
             /\ Best(U, Partners(W), duration) /\ Lists(best, U)
             /\ done \in Seq(W) /\ Continues(done, best, House(W))
             /\ House(W) = {} => done = best
             /\ House(W) # {} => TotalOf(done) >= duration
      BY <2>1, ExcludingFacts, Zenon
    <3>2. done \in Seq(W)
      BY <3>1, Zenon
    <3> QED BY <2>2, <3>2, Zenon DEF w
  <2>4. Range(r) \subseteq Creatives
    BY DEF IsRegistry, Range
  <2>5. \A c \in T : c \in Creatives /\ (can => c.id # before)
    BY <2>4, Zenon DEF Choice, Usable
  <2>6. (\E c \in Range(r) : Usable(c, category, before, 1) /\ (c.type = "house" \/ c.duration <= duration)) => can
    BY Zenon DEF Choice, House, Partners
  <2> HIDE DEF items, T, can
  <2>7. items \in Seq(Creatives) /\ \A c \in Range(items) : c \in T
    BY <2>3, <2>5 DEF Range
  <2> QED BY <2>5, <2>6, <2>7 DEF items
<1> QED BY <1>1, <1>2

LEMMA RowInit == SourcesInit => RowInv
<1> SUFFICES ASSUME SourcesInit PROVE RowInv
  OBVIOUS
<1>1. made = <<>> /\ reg = <<>> /\ pc = "idle" /\ file.content \in FirstRegistries \cup {<<>>}
  BY DEF SourcesInit, Init
<1> QED BY <1>1 DEF RowInv, Known, LastKept, NotTwiceInARow

\* the pod of one more break
LEMMA RowFill ==
    ASSUME RowInv, FillPod, \A r \in FirstRegistries \cup NewRegistries : FewPartners(r)
    PROVE  RowInv'
<1> DEFINE b == BreakAt(ts)
           items == Fill(reg', b.dur, b.category, last, 1)
           pod == [break |-> b, reg |-> reg', items |-> items]
           n == Len(made)
<1>1. /\ pc = "fill" /\ pc' = "wait" /\ file' = file
      /\ reg' = Reloaded.reg /\ last' = LastOf(items) /\ made' = Append(made, pod)
  BY Zenon DEF FillPod
<1>2. reg' \in Known /\ file'.content \in Known
  <2>1. <<>> \in Known /\ file.content \in Known /\ reg \in Known
    BY DEF RowInv, Known
  <2>2. Reloaded.reg \in {<<>>, file.content, reg}
    BY DEF Reloaded
  <2> HIDE DEF Known
  <2> QED BY <1>1, <2>1, <2>2
<1>3. IsRegistry(reg') /\ FewPartners(reg')
  <2>1. CASE reg' = <<>>
    <3>1. IsRegistry(<<>>) /\ FewPartners(<<>>)
      <4>1. {c \in Range(<<>>) : c.type # "house"} = {} /\ Cardinality({}) = 0
        BY FS_EmptySet DEF Range
      <4> QED BY <4>1 DEF IsRegistry, FewPartners
    <3> QED BY <2>1, <3>1
  <2>2. CASE reg' # <<>>
    BY <1>2, <2>2, FillerAssumption DEF Known
  <2> QED BY <2>1, <2>2
<1>4. b \in Breaks /\ b.dur \in Nat
  <2>1. b \in Covering(ts)
    BY <1>1 DEF RowInv, BreakAt
  <2> QED BY <2>1, BrokerAssumption DEF Covering
<1> HIDE DEF b
<1>5. /\ items \in Seq(Creatives)
      /\ (\E c \in Range(reg') : Usable(c, b.category, last, 1) /\ (c.type = "house" \/ c.duration <= b.dur))
         => \A c \in Range(items) : c.id # last
  BY <1>3, <1>4, BeforeIsLeftOut, Zenon
<1> HIDE DEF items
<1>6. pod \in MadePods /\ pod.break = b /\ pod.reg = reg' /\ pod.items = items
  BY <1>2, <1>4, <1>5 DEF MadePods
<1> HIDE DEF pod
<1>7. /\ made \in Seq(MadePods) /\ n \in Nat /\ DOMAIN made = 1 .. n
      /\ made' \in Seq(MadePods) /\ Len(made') = n + 1 /\ DOMAIN made' = 1 .. n + 1
      /\ made'[n + 1] = pod /\ \A i \in 1 .. n : made'[i] = made[i]
  BY <1>1, <1>6 DEF RowInv
<1>8. ASSUME NEW i \in DOMAIN made', made'[i].items # <<>>, \A k \in i + 1 .. Len(made') : made'[k].items = <<>>
      PROVE  last' = Last(made'[i].items).id
  <2>1. CASE items # <<>>
    <3>1. i = n + 1
      BY <1>6, <1>7, <1>8, <2>1
    <3> QED BY <1>1, <1>6, <1>7, <2>1, <3>1 DEF LastOf
  <2>2. CASE items = <<>>
    <3>1. i \in 1 .. n /\ made[i].items # <<>> /\ made'[i] = made[i]
      BY <1>6, <1>7, <1>8, <2>2
    <3>2. ASSUME NEW k \in i + 1 .. n PROVE made[k].items = <<>>
      <4>1. k \in i + 1 .. n + 1 /\ k \in 1 .. n
        BY <1>7, <3>1
      <4> QED BY <1>7, <1>8, <4>1
    <3>3. last = Last(made[i].items).id
      BY <1>7, <3>1, <3>2 DEF RowInv, LastKept
    <3> QED BY <1>1, <2>2, <3>1, <3>3 DEF LastOf
  <2> QED BY <2>1, <2>2
<1> DEFINE Other(j, end) == \E c \in Range(made'[j].reg) :
                               /\ Usable(c, made'[j].break.category, end, 1)
                               /\ c.type = "house" \/ c.duration <= made'[j].break.dur
<1>9. ASSUME NEW i \in DOMAIN made', NEW j \in DOMAIN made', i < j, made'[i].items # <<>>,
             \A k \in i + 1 .. j - 1 : made'[k].items = <<>>, Other(j, Last(made'[i].items).id)
      PROVE  \A c \in Range(made'[j].items) : c.id # Last(made'[i].items).id
  <2>1. CASE j = n + 1
    <3>1. i \in 1 .. n /\ made'[i] = made[i]
      BY <1>7, <1>9, <2>1
    <3>2. ASSUME NEW k \in i + 1 .. n PROVE made[k].items = <<>>
      <4>1. k \in i + 1 .. j - 1 /\ k \in 1 .. n
        BY <1>7, <2>1, <3>1
      <4> QED BY <1>7, <1>9, <4>1
    <3>3. last = Last(made[i].items).id
      BY <1>7, <1>9, <3>1, <3>2 DEF RowInv, LastKept
    <3>4. made'[j].reg = reg' /\ made'[j].break = b /\ made'[j].items = items /\ Last(made'[i].items).id = last
      BY <1>6, <1>7, <2>1, <3>1, <3>3
    <3> QED BY <1>5, <1>9, <3>4
  <2>2. CASE j # n + 1
    <3>1. i \in 1 .. n /\ j \in 1 .. n /\ made'[i] = made[i] /\ made'[j] = made[j]
      BY <1>7, <1>9, <2>2
    <3>2. ASSUME NEW k \in i + 1 .. j - 1 PROVE made[k].items = <<>>
      <4>1. k \in 1 .. n
        BY <1>7, <3>1
      <4> QED BY <1>7, <1>9, <4>1
    <3>3. \E c \in Range(made[j].reg) : /\ Usable(c, made[j].break.category, Last(made[i].items).id, 1)
                                        /\ c.type = "house" \/ c.duration <= made[j].break.dur
      BY <1>9, <3>1
    <3>4. \A c \in Range(made[j].items) : c.id # Last(made[i].items).id
      BY <1>7, <1>9, <3>1, <3>2, <3>3 DEF RowInv, NotTwiceInARow
    <3> QED BY <3>1, <3>4
  <2> QED BY <2>1, <2>2
<1>10. LastKept'
  BY <1>8 DEF LastKept
<1>11. NotTwiceInARow'
  BY <1>9 DEF NotTwiceInARow
<1> QED BY <1>1, <1>2, <1>7, <1>10, <1>11 DEF RowInv

LEMMA RowStep ==
    ASSUME RowInv, [SourcesNext]_allVars, \A r \in FirstRegistries \cup NewRegistries : FewPartners(r)
    PROVE  RowInv'
<1>1. CASE FillPod
  BY <1>1, RowFill
<1>2. ASSUME file'.content \in Known, UNCHANGED <<reg, last, made>>, pc' = "fill" => Covering(ts') # {}
      PROVE  RowInv'
  <2>1. LastKept' /\ NotTwiceInARow'
    BY <1>2 DEF RowInv, LastKept, NotTwiceInARow
  <2> QED BY <1>2, <2>1 DEF RowInv
<1>3. CASE Look
  BY <1>2, <1>3 DEF Look, RowInv, Covering
<1>4. ASSUME UNCHANGED <<vars, reg, last, made>>, file'.content \in Known PROVE RowInv'
  <2>1. pc' = "fill" => Covering(ts') # {}
    BY <1>4 DEF vars, RowInv, Covering
  <2> QED BY <1>2, <1>4, <2>1
<1>5. CASE MoveFile
  BY <1>4, <1>5 DEF MoveFile, RowInv
<1>6. ASSUME NEW state, NEW content \in Known, WriteFile(state, content) PROVE RowInv'
  BY <1>4, <1>6 DEF WriteFile
<1>7. CASE FillerNext
  BY <1>1, <1>3, <1>5, <1>6, <1>7 DEF FillerNext, Known
<1>8. CASE NoAds
  BY <1>2, <1>8 DEF NoAds, Released, RowInv, fillerVars
<1>9. CASE BrokerNext /\ UNCHANGED fillerVars
  <2>1. pc' = "fill" => pc = "fill" /\ ts' = ts
    BY <1>9 DEF BrokerNext, Ask, GiveUp, HoldBack, AnswerArrives, Released
  <2> QED BY <1>2, <1>9, <2>1 DEF RowInv, fillerVars, Covering
<1>10. CASE PlannerNext /\ UNCHANGED fillerVars
  <2>1. pc' # "fill"
    BY <1>10 DEF PlannerNext, TickStart, PlanOther, UsePod, PlanDone, Evict, Clock, Released
  <2> QED BY <1>2, <1>10, <2>1 DEF RowInv, fillerVars
<1>11. CASE UNCHANGED allVars
  BY <1>4, <1>11 DEF allVars, fillerVars, RowInv
<1> QED BY <1>7, <1>8, <1>9, <1>10, <1>11 DEF SourcesNext

\* However the registry file is written, broken, moved away and put back, and whatever breaks have no creatives in
\* between: the creative that ended a break is not part of the next one of the channel if another can be played,
\* provided no registry has more than 60 creatives of partners, beyond which fillBreak does not look.
THEOREM NoCreativeTwiceInARow ==
    ASSUME \A r \in FirstRegistries \cup NewRegistries : FewPartners(r)
    PROVE  SourcesSpec => []NotTwiceInARow
<1>1. RowInv => NotTwiceInARow
  BY DEF RowInv
<1>2. RowInv /\ [SourcesNext]_allVars => RowInv'
  BY RowStep
<1> QED BY <1>1, <1>2, RowInit, PTL DEF SourcesSpec
=============================================================================
