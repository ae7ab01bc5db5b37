--------------------------- MODULE ScheduleProofs ---------------------------
(***************************************************************************)
(* Proofs about the edits of a schedule (ScheduleEdits): a key changes the  *)
(* schedule at most once, a conditional change is applied only to what the  *)
(* client has read, the schedule stays one that can be aired, and a film    *)
(* stays whole.  They hold for any number of clients, requests, repeats,    *)
(* schedules and films.                                                     *)
(***************************************************************************)
EXTENDS ScheduleEdits, IterationProofs, SequenceTheorems

-----------------------------------------------------------------------------
(* The invariant *)

Statuses   == {"waiting", "ok", "invalid", "reused", "outdated", "nothing", "error"}
AnswerType == [status : Statuses, version : Int, at : Int]
Attempt    == [at : Nat, since : Int, answer : AnswerType]
LogRecord  == [client : Clients, type : Commands \cup {"replace"}, key : Keys, answer : AnswerType]

Shapes ==
    /\ load \in Workloads /\ now \in Nat /\ version \in Nat
    /\ att \in [Clients -> Seq(Attempt)]
    /\ log \in Seq(LogRecord)
    /\ \A k \in DOMAIN idem : idem[k].answer \in AnswerType

RequestsOK ==
    /\ DOMAIN req = Clients
    /\ \A c \in Clients : /\ req[c] = NoRequest => att[c] = <<>>
                          /\ req[c] # NoRequest => req[c] \in load.requests

\* the idempotency table and the changes that were made say the same
Stored ==
    /\ \A k \in DOMAIN idem :
          k # NoKey /\ \E j \in DOMAIN log : log[j].key = k /\ log[j].answer = idem[k].answer
    /\ \A j \in DOMAIN log : log[j].key # NoKey => log[j].key \in DOMAIN idem

\* what a client has read is the schedule as long as its version is the current one
ReadOK ==
    /\ DOMAIN seen = Clients
    /\ \A c \in Clients :
          /\ seen[c].version \in Int /\ seen[c].version <= version
          /\ seen[c].done /\ seen[c].version = version => table = seen[c].entries
          /\ req[c] # NoRequest => /\ seen[c].version # Unread => seen[c].done
                                   /\ seen[c].done => Conditional(req[c])


-----------------------------------------------------------------------------
(* Requests and attempts *)

LEMMA RequestFields ==
    ASSUME Shapes, NEW q \in load.requests
    PROVE  /\ q # NoRequest /\ q.key \in Keys /\ q.type \in Commands \cup {"replace"}
           /\ q.type # "replace" => q.at \in Nat
<1>1. q # NoRequest /\ (q \in CommandType \/ q \in ReplaceType)
  BY RequestsAssumption DEF Shapes
<1>2. CASE q \in CommandType
  <2>1. q.key \in Keys /\ q.type \in Commands /\ q.at \in Nat
    BY <1>2 DEF CommandType
  <2>2. q.type \in Commands \cup {"replace"}
    BY <2>1 DEF Commands
  <2> QED BY <1>1, <2>1, <2>2
<1>3. CASE q \in ReplaceType
  <2>1. q.key \in Keys /\ q.type = "replace"
    BY <1>3 DEF ReplaceType
  <2>2. q.type \in Commands \cup {"replace"}
    BY <2>1
  <2> QED BY <1>1, <2>1, <2>2
<1> QED BY <1>1, <1>2, <1>3

\* A request that arrives becomes an attempt that has not succeeded yet; the moment of a command is ahead of the clock.
LEMMA ArrivesEffect ==
    ASSUME Shapes, NEW c \in Clients, NEW q \in load.requests, Arrives(c, q)
    PROVE  \E r \in Attempt : /\ r.answer.status # "ok" /\ att' = [att EXCEPT ![c] = Append(att[c], r)]
                              /\ r.answer = Waiting => /\ now <= r.since + MaxWait
                                                       /\ q.type # "replace" => r.since + CueLead <= r.at
<1> DEFINE A(first) == IF q.type = "replace" THEN 0 ELSE IF q.at = 0 THEN first ELSE q.at
           R(first) == IF q.type = "replace" THEN ~Validate(q.ed) ELSE A(first) < first \/ ~Inserted(q)
           W(first) == IF R(first) THEN Answer("invalid", 0, 0) ELSE Waiting
           r(first) == [at |-> A(first), since |-> now, answer |-> W(first)]
<1>1. PICK first \in Earliest : att' = [att EXCEPT ![c] = Append(att[c], r(first))]
  BY DEF Arrives
<1>2. first \in Nat /\ now + CueLead <= first /\ now \in Nat /\ now <= now + MaxWait
  BY RequestsAssumption DEF Earliest, Shapes
<1>3. A(first) \in Nat
  BY <1>2, RequestFields
<1>4. W(first) \in AnswerType /\ W(first).status # "ok"
  <2>1. W(first) = Answer("invalid", 0, 0) \/ W(first) = Waiting
    OBVIOUS
  <2>2. Answer("invalid", 0, 0) \in AnswerType /\ Answer("invalid", 0, 0).status # "ok"
    BY DEF Answer, AnswerType, Statuses
  <2>3. Waiting \in AnswerType /\ Waiting.status # "ok"
    BY DEF Waiting, AnswerType, Statuses
  <2> HIDE DEF W
  <2> QED BY <2>1, <2>2, <2>3
<1>5. q.type # "replace" /\ W(first) = Waiting => now + CueLead <= A(first)
  <2> SUFFICES ASSUME q.type # "replace", W(first) = Waiting PROVE now + CueLead <= A(first)
    OBVIOUS
  <2>1. Answer("invalid", 0, 0) # Waiting
    BY DEF Answer, Waiting
  <2>2. ~R(first)
    BY <2>1
  <2>3. ~(A(first) < first)
    BY <2>2
  <2> HIDE DEF A
  <2>4. now + CueLead \in Nat
    BY <1>2, RequestsAssumption
  <2> QED BY <1>2, <1>3, <2>3, <2>4
<1> HIDE DEF A, W
<1>6. r(first) \in Attempt /\ r(first).answer = W(first) /\ r(first).since = now /\ r(first).at = A(first)
  BY <1>2, <1>3, <1>4 DEF Attempt
<1> HIDE DEF r
<1> QED BY <1>1, <1>2, <1>4, <1>5, <1>6

\* An answer replaces the one of its attempt and leaves the others alone.
LEMMA AnswersEffect ==
    ASSUME Shapes, NEW c \in Clients, NEW i \in DOMAIN att[c], NEW a \in AnswerType, Answers(c, i, a)
    PROVE  /\ att' \in [Clients -> Seq(Attempt)]
           /\ \A d \in Clients : DOMAIN att'[d] = DOMAIN att[d]
           /\ \A d \in Clients : \A j \in DOMAIN att'[d] :
                 att'[d][j].answer = IF d = c /\ j = i THEN a ELSE att[d][j].answer
<1> DEFINE r == [at |-> att[c][i].at, since |-> att[c][i].since, answer |-> a]
           s == [att[c] EXCEPT ![i] = r]
<1>1. att[c] \in Seq(Attempt) /\ att[c][i] \in Attempt
  BY DEF Shapes
<1>2. r \in Attempt /\ r.answer = a
  BY <1>1 DEF Attempt
<1> HIDE DEF r
<1>3. s \in Seq(Attempt) /\ DOMAIN s = DOMAIN att[c] /\ s[i] = r
      /\ \A j \in DOMAIN att[c] : j # i => s[j] = att[c][j]
  BY <1>1, <1>2
<1>4. att' = [att EXCEPT ![c] = s]
  BY DEF Answers, r
<1> HIDE DEF s
<1>5. att'[c] = s /\ \A d \in Clients : d # c => att'[d] = att[d]
  BY <1>4 DEF Shapes
<1>6. att' \in [Clients -> Seq(Attempt)]
  BY <1>3, <1>4 DEF Shapes
<1> QED BY <1>2, <1>3, <1>5, <1>6

LEMMA RequestIsKnown ==
    ASSUME RequestsOK, NEW c \in Clients, NEW i \in DOMAIN att[c]
    PROVE  req[c] \in load.requests
<1>1. att[c] # <<>>
  <2> SUFFICES ASSUME att[c] = <<>> PROVE FALSE
    OBVIOUS
  <2> QED OBVIOUS
<1> QED BY <1>1 DEF RequestsOK

-----------------------------------------------------------------------------
(* The shapes, and that a request is sent once, kept by every step *)

Base == Shapes /\ RequestsOK

LEMMA BaseInit == Init => Base
BY DEF Init, Base, Shapes, RequestsOK

LEMMA BaseArrives ==
    ASSUME Base, NEW c \in Clients, NEW q \in load.requests, Arrives(c, q),
           DOMAIN req' = Clients, req'[c] = q, \A d \in Clients : d # c => req'[d] = req[d],
           UNCHANGED <<load, now, version, idem, log>>
    PROVE  Base'
<1>1. PICK r \in Attempt : r.answer.status # "ok" /\ att' = [att EXCEPT ![c] = Append(att[c], r)]
  BY ArrivesEffect DEF Base
<1>2. att' \in [Clients -> Seq(Attempt)]
  BY <1>1 DEF Base, Shapes
<1>3. \A d \in Clients : d # c => att'[d] = att[d] /\ req'[d] = req[d]
  BY <1>1 DEF Base, Shapes, RequestsOK
<1>4. req'[c] = q /\ q # NoRequest
  BY RequestFields DEF Base, RequestsOK
<1> QED BY <1>2, <1>3, <1>4 DEF Base, Shapes, RequestsOK

LEMMA NothingStaysNothing ==
    ASSUME NEW s \in Seq(Attempt), DOMAIN s = DOMAIN <<>>
    PROVE  s = <<>>
<1>1. Len(s) \in Nat /\ DOMAIN s = 1 .. Len(s) /\ DOMAIN s = {}
  OBVIOUS
<1>2. Len(s) = 0
  BY <1>1
<1> QED BY <1>2

LEMMA BaseAnswers ==
    ASSUME Base, NEW c \in Clients, NEW i \in DOMAIN att[c], NEW a \in AnswerType, Answers(c, i, a),
           UNCHANGED <<load, now, version, idem, log, req>>
    PROVE  Base'
<1>1. att' \in [Clients -> Seq(Attempt)] /\ \A d \in Clients : DOMAIN att'[d] = DOMAIN att[d]
  BY AnswersEffect DEF Base
<1>2. \A d \in Clients : req[d] = NoRequest => att'[d] = <<>>
  BY <1>1, NothingStaysNothing DEF Base, RequestsOK
<1> QED BY <1>1, <1>2 DEF Base, Shapes, RequestsOK

\* What an applied change appends to the log and stores.
LEMMA ApplyEffect ==
    ASSUME Base, NEW c \in Clients, NEW i \in DOMAIN att[c], Apply(c, i)
    PROVE  \E a \in AnswerType :
              /\ a.status = "ok" /\ Answers(c, i, a)
              /\ idem' = Remember(req[c], a)
              /\ \E l \in LogRecord : /\ l.client = c /\ l.key = req[c].key /\ l.answer = a
                                      /\ log' = Append(log, l)
<1> DEFINE a == Answer("ok", version + 1, att[c][i].at)
           l == [client |-> c, type |-> req[c].type, key |-> req[c].key, answer |-> a]
<1>1. req[c] \in load.requests
  BY RequestIsKnown DEF Base
<1>2. req[c].key \in Keys /\ req[c].type \in Commands \cup {"replace"}
  BY <1>1, RequestFields DEF Base
<1>3. att[c][i].at \in Int /\ version + 1 \in Int
  <2>1. att[c] \in Seq(Attempt) /\ att[c][i] \in Attempt
    BY DEF Base, Shapes
  <2> QED BY <2>1 DEF Base, Shapes, Attempt
<1>4. a \in AnswerType /\ a.status = "ok"
  BY <1>3 DEF Answer, AnswerType, Statuses
<1>5. Answers(c, i, a) /\ idem' = Remember(req[c], a) /\ log' = Append(log, l)
  BY DEF Apply
<1> HIDE DEF a
<1>6. l \in LogRecord /\ l.client = c /\ l.key = req[c].key /\ l.answer = a
  BY <1>2, <1>4 DEF LogRecord
<1> QED BY <1>4, <1>5, <1>6

LEMMA RememberEffect ==
    ASSUME NEW q, NEW a
    PROVE  /\ q.key = NoKey => Remember(q, a) = idem
           /\ q.key # NoKey => /\ DOMAIN Remember(q, a) = DOMAIN idem \cup {q.key}
                               /\ Remember(q, a)[q.key].answer = a
                               /\ \A m \in DOMAIN idem : m # q.key => Remember(q, a)[m] = idem[m]
BY DEF Remember

LEMMA BaseApply ==
    ASSUME Base, NEW c \in Clients, NEW i \in DOMAIN att[c], Apply(c, i)
    PROVE  Base'
<1>1. PICK a \in AnswerType, l \in LogRecord :
        Answers(c, i, a) /\ idem' = Remember(req[c], a) /\ log' = Append(log, l)
  BY ApplyEffect
<1>2. /\ load' = load /\ now' = now /\ req' = req /\ version' = version + 1
  BY DEF Apply
<1>3. att' \in [Clients -> Seq(Attempt)] /\ \A d \in Clients : DOMAIN att'[d] = DOMAIN att[d]
  BY <1>1, AnswersEffect DEF Base
<1>4. \A d \in Clients : req[d] = NoRequest => att'[d] = <<>>
  BY <1>3, NothingStaysNothing DEF Base, RequestsOK
<1>5. log' \in Seq(LogRecord)
  BY <1>1 DEF Base, Shapes
<1>6. \A k \in DOMAIN idem' : idem'[k].answer \in AnswerType
  <2>1. \A k \in DOMAIN idem : idem[k].answer \in AnswerType
    BY DEF Base, Shapes
  <2> DEFINE q == req[c]
  <2>2. /\ q.key = NoKey => idem' = idem
        /\ q.key # NoKey => /\ DOMAIN idem' = DOMAIN idem \cup {q.key}
                            /\ idem'[q.key].answer = a
                            /\ \A m \in DOMAIN idem : m # q.key => idem'[m] = idem[m]
    BY <1>1, RememberEffect, ZenonT(60)
  <2> HIDE DEF q
  <2> QED BY <2>1, <2>2
<1>7. version' \in Nat
  BY <1>2 DEF Base, Shapes
<1> QED BY <1>2, <1>3, <1>4, <1>5, <1>6, <1>7 DEF Base, Shapes, RequestsOK

\* The answers that change nothing: only one that was stored can be a success.
LEMMA RefusalTypes ==
    ASSUME Shapes, NEW c \in Clients, NEW i \in DOMAIN att[c], Replayed(c, i) \/ Refused(c, i) \/ Fails(c, i)
    PROVE  \E a \in AnswerType :
              /\ Answers(c, i, a)
              /\ a.status = "ok" => req[c].key \in DOMAIN idem /\ a = idem[req[c].key].answer
<1>1. \A s \in Statuses, v \in Int : Answer(s, v, 0) \in AnswerType /\ Answer(s, v, 0).status = s
  BY DEF Answer, AnswerType
<1>2. Answer("reused", 0, 0) \in AnswerType /\ Answer("reused", 0, 0).status # "ok"
  BY <1>1 DEF Statuses
<1>3. version \in Int
  BY DEF Shapes
<1>4. Answer("outdated", version, 0) \in AnswerType /\ Answer("outdated", version, 0).status # "ok"
  BY <1>1, <1>3 DEF Statuses
<1>5. \A s \in {"nothing", "invalid", "error"} : Answer(s, 0, 0) \in AnswerType /\ Answer(s, 0, 0).status # "ok"
  BY <1>1 DEF Statuses
<1>6. CASE Replayed(c, i)
  <2>1. req[c].key \in DOMAIN idem
    BY <1>6 DEF Replayed, Known
  <2>2. \/ Answers(c, i, idem[req[c].key].answer)
        \/ Answers(c, i, Answer("reused", 0, 0))
    <3>1. CASE idem[req[c].key].body = Body(req[c])
      BY <1>6, <3>1 DEF Replayed
    <3>2. CASE idem[req[c].key].body # Body(req[c])
      BY <1>6, <3>2 DEF Replayed
    <3> QED BY <3>1, <3>2
  <2> QED BY <1>2, <2>1, <2>2 DEF Shapes
<1>7. CASE Refused(c, i)
  BY <1>4, <1>5, <1>7 DEF Refused
<1>8. CASE Fails(c, i)
  BY <1>5, <1>8 DEF Fails
<1> QED BY <1>6, <1>7, <1>8

LEMMA BaseNext ==
    ASSUME Base, [Next]_vars
    PROVE  Base'
<1>1. CASE UNCHANGED vars
  BY <1>1 DEF Base, Shapes, RequestsOK, vars, dbVars, clientVars, engineVars
<1>2. ASSUME NEW c \in Clients, GetChannel(c) \/ GetTimeline(c) PROVE Base'
  BY <1>2 DEF GetChannel, GetTimeline, Base, Shapes, RequestsOK, dbVars, engineVars
<1>3. ASSUME NEW c \in Clients, Repeat(c) PROVE Base'
  <2>1. req[c] \in load.requests /\ Arrives(c, req[c]) /\ UNCHANGED <<load, now, version, idem, log, req>>
    BY <1>3 DEF Repeat, Base, RequestsOK, dbVars
  <2> QED BY <2>1, BaseArrives DEF Base, RequestsOK
<1>4. ASSUME NEW c \in Clients, NEW q \in load.requests, Send(c, q) PROVE Base'
  BY <1>4, BaseArrives DEF Send, dbVars, Base, RequestsOK
<1>5. ASSUME NEW c \in Clients, NEW i \in DOMAIN att[c], Replayed(c, i) \/ Refused(c, i) \/ Fails(c, i) PROVE Base'
  <2>1. \E a \in AnswerType : Answers(c, i, a)
    BY <1>5, RefusalTypes DEF Base
  <2>2. UNCHANGED <<load, now, version, idem, log, req>>
    BY <1>5 DEF Replayed, Refused, Fails, dbVars
  <2> QED BY <2>1, <2>2, BaseAnswers
<1>6. ASSUME NEW c \in Clients, NEW i \in DOMAIN att[c], Apply(c, i) PROVE Base'
  BY <1>6, BaseApply
<1>7. CASE ReadSchedule \/ Release \/ Tick
  BY <1>7 DEF ReadSchedule, Release, Tick, Base, Shapes, RequestsOK, dbVars, clientVars, engineVars
<1> QED BY <1>1, <1>2, <1>3, <1>4, <1>5, <1>6, <1>7 DEF Next

-----------------------------------------------------------------------------
(* One change for each key *)

\* the two parts of KeyChangesOnce
ChangedOnce == \A i, j \in DOMAIN log : i # j /\ log[i].key # NoKey => log[i].key # log[j].key
Confirmed(c) ==
    \A i \in DOMAIN att[c] :
        att[c][i].answer.status = "ok" /\ req[c].key # NoKey =>
            \E j \in DOMAIN log : log[j].key = req[c].key /\ log[j].answer = att[c][i].answer

LEMMA KeyParts == KeyChangesOnce <=> ChangedOnce /\ \A c \in Clients : Confirmed(c)
BY DEF KeyChangesOnce, ChangedOnce, Confirmed

Once == Stored /\ ChangedOnce /\ \A c \in Clients : Confirmed(c)

LEMMA OnceInit == Init => Once
BY DEF Init, Once, Stored, ChangedOnce, Confirmed

LEMMA OnceSame ==
    ASSUME Once, UNCHANGED <<log, idem, req, att>>
    PROVE  Once'
BY DEF Once, Stored, ChangedOnce, Confirmed

LEMMA OnceArrives ==
    ASSUME Base, Once, NEW c \in Clients, NEW q \in load.requests, Arrives(c, q),
           att[c] = <<>> \/ req'[c] = req[c], \A d \in Clients : d # c => req'[d] = req[d],
           UNCHANGED <<idem, log>>
    PROVE  Once'
<1>1. PICK r \in Attempt : r.answer.status # "ok" /\ att' = [att EXCEPT ![c] = Append(att[c], r)]
  BY ArrivesEffect DEF Base
<1>2. att'[c] = Append(att[c], r) /\ \A d \in Clients : d # c => att'[d] = att[d]
  BY <1>1 DEF Base, Shapes
<1>3. Stored' /\ ChangedOnce'
  BY DEF Once, Stored, ChangedOnce
<1>4. ASSUME NEW d \in Clients, d # c PROVE Confirmed(d)'
  BY <1>2, <1>4 DEF Once, Confirmed
<1>5. Confirmed(c)'
  <2> SUFFICES ASSUME NEW i \in DOMAIN att'[c], att'[c][i].answer.status = "ok", req'[c].key # NoKey
               PROVE  \E j \in DOMAIN log' : log'[j].key = req'[c].key /\ log'[j].answer = att'[c][i].answer
    BY DEF Confirmed
  <2>1. att[c] \in Seq(Attempt)
    BY DEF Base, Shapes
  <2>2. i \in DOMAIN att[c] /\ att'[c][i] = att[c][i]
    <3> DEFINE s == att[c]
    <3>1. i \in DOMAIN Append(s, r) /\ Append(s, r)[i] # r
      BY <1>1, <1>2
    <3>2. s \in Seq(Attempt)
      BY <2>1
    <3> HIDE DEF s
    <3>3. i \in DOMAIN s /\ Append(s, r)[i] = s[i]
      BY <3>1, <3>2
    <3> QED BY <1>2, <3>3 DEF s
  <2>3. att[c] # <<>>
    BY <2>2
  <2> QED BY <2>2, <2>3 DEF Once, Confirmed
<1> QED BY <1>3, <1>4, <1>5 DEF Once

LEMMA OnceAnswers ==
    ASSUME Base, Once, NEW c \in Clients, NEW i \in DOMAIN att[c],
           Replayed(c, i) \/ Refused(c, i) \/ Fails(c, i)
    PROVE  Once'
<1>1. PICK a \in AnswerType :
          /\ Answers(c, i, a)
          /\ a.status = "ok" => req[c].key \in DOMAIN idem /\ a = idem[req[c].key].answer
  BY RefusalTypes DEF Base
<1>2. UNCHANGED <<log, idem, req>>
  BY DEF Replayed, Refused, Fails, dbVars
<1>3. /\ \A d \in Clients : DOMAIN att'[d] = DOMAIN att[d]
      /\ \A d \in Clients : \A j \in DOMAIN att'[d] :
            att'[d][j].answer = IF d = c /\ j = i THEN a ELSE att[d][j].answer
  BY <1>1, AnswersEffect DEF Base
<1>4. Stored' /\ ChangedOnce'
  BY <1>2 DEF Once, Stored, ChangedOnce
<1>5. ASSUME NEW d \in Clients PROVE Confirmed(d)'
  <2> SUFFICES ASSUME NEW j \in DOMAIN att'[d], att'[d][j].answer.status = "ok", req[d].key # NoKey
               PROVE  \E k \in DOMAIN log : log[k].key = req[d].key /\ log[k].answer = att'[d][j].answer
    BY <1>2 DEF Confirmed
  <2>1. CASE d = c /\ j = i
    <3>1. req[c].key \in DOMAIN idem /\ att'[d][j].answer = idem[req[c].key].answer
      BY <1>1, <1>3, <2>1
    <3> QED BY <2>1, <3>1 DEF Once, Stored
  <2>2. CASE ~(d = c /\ j = i)
    <3>1. j \in DOMAIN att[d] /\ att'[d][j].answer = att[d][j].answer
      BY <1>3, <2>2
    <3> QED BY <3>1 DEF Once, Confirmed
  <2> QED BY <2>1, <2>2
<1> QED BY <1>4, <1>5 DEF Once

LEMMA OnceApply ==
    ASSUME Base, Once, NEW c \in Clients, NEW i \in DOMAIN att[c], Apply(c, i)
    PROVE  Once'
<1>1. PICK a \in AnswerType, l \in LogRecord :
         /\ Answers(c, i, a) /\ idem' = Remember(req[c], a)
         /\ l.key = req[c].key /\ l.answer = a /\ log' = Append(log, l)
  BY ApplyEffect
<1> DEFINE k == req[c].key
           n == Len(log) + 1
<1>2. req' = req /\ (k # NoKey => k \notin DOMAIN idem)
  BY DEF Apply, Known
<1>3. log \in Seq(LogRecord) /\ Len(log) \in Nat /\ DOMAIN log = 1 .. Len(log)
  BY DEF Base, Shapes
<1>4. DOMAIN log' = DOMAIN log \cup {n} /\ log'[n] = l /\ n \notin DOMAIN log
      /\ \A j \in DOMAIN log : log'[j] = log[j]
  BY <1>1, <1>3
<1>5. k # NoKey => \A j \in DOMAIN log : log[j].key # k
  BY <1>2 DEF Once, Stored
<1>6. /\ k = NoKey => idem' = idem
      /\ k # NoKey => /\ DOMAIN idem' = DOMAIN idem \cup {k}
                      /\ idem'[k].answer = a
                      /\ \A m \in DOMAIN idem : m # k => idem'[m] = idem[m]
  <2>1. idem' = Remember(req[c], a)
    BY <1>1
  <2> QED BY <2>1, RememberEffect, ZenonT(60)
<1>7. /\ \A d \in Clients : DOMAIN att'[d] = DOMAIN att[d]
      /\ \A d \in Clients : \A j \in DOMAIN att'[d] :
            att'[d][j].answer = IF d = c /\ j = i THEN a ELSE att[d][j].answer
  BY <1>1, AnswersEffect DEF Base
<1>8. l.key = k /\ l.answer = a
  BY <1>1
<1> HIDE DEF k, n
<1>9. ChangedOnce'
  <2> SUFFICES ASSUME NEW x \in DOMAIN log', NEW y \in DOMAIN log', x # y, log'[x].key # NoKey
               PROVE  log'[x].key # log'[y].key
    BY DEF ChangedOnce
  <2>1. CASE x = n
    BY <1>4, <1>5, <1>8, <2>1
  <2>2. CASE y = n
    BY <1>4, <1>5, <1>8, <2>2
  <2>3. CASE x # n /\ y # n
    BY <1>4, <2>3 DEF Once, ChangedOnce
  <2> QED BY <2>1, <2>2, <2>3
<1>10. Stored'
  <2>1. ASSUME NEW m \in DOMAIN idem'
        PROVE  m # NoKey /\ \E j \in DOMAIN log' : log'[j].key = m /\ log'[j].answer = idem'[m].answer
    <3>1. CASE m = k /\ k # NoKey
      BY <1>4, <1>6, <1>8, <3>1
    <3>2. CASE ~(m = k /\ k # NoKey)
      <4>1. m \in DOMAIN idem /\ idem'[m] = idem[m]
        BY <1>6, <3>2, <2>1
      <4>2. m # NoKey /\ \E j \in DOMAIN log : log[j].key = m /\ log[j].answer = idem[m].answer
        BY <4>1 DEF Once, Stored
      <4> QED BY <1>4, <4>1, <4>2
    <3> QED BY <3>1, <3>2
  <2>2. ASSUME NEW j \in DOMAIN log', log'[j].key # NoKey PROVE log'[j].key \in DOMAIN idem'
    <3>1. CASE j = n
      BY <1>4, <1>6, <1>8, <2>2, <3>1
    <3>2. CASE j # n
      <4>1. log[j].key \in DOMAIN idem /\ log'[j] = log[j]
        BY <1>4, <2>2, <3>2 DEF Once, Stored
      <4> QED BY <1>6, <4>1
    <3> QED BY <3>1, <3>2
  <2> QED BY <2>1, <2>2 DEF Stored
<1>11. ASSUME NEW d \in Clients PROVE Confirmed(d)'
  <2> SUFFICES ASSUME NEW j \in DOMAIN att'[d], att'[d][j].answer.status = "ok", req[d].key # NoKey
               PROVE  \E x \in DOMAIN log' : log'[x].key = req[d].key /\ log'[x].answer = att'[d][j].answer
    BY <1>2 DEF Confirmed
  <2>1. CASE d = c /\ j = i
    BY <1>4, <1>7, <1>8, <2>1 DEF k
  <2>2. CASE ~(d = c /\ j = i)
    <3>1. j \in DOMAIN att[d] /\ att'[d][j].answer = att[d][j].answer
      BY <1>7, <2>2
    <3>2. \E x \in DOMAIN log : log[x].key = req[d].key /\ log[x].answer = att[d][j].answer
      BY <3>1 DEF Once, Confirmed
    <3> QED BY <1>4, <3>1, <3>2
  <2> QED BY <2>1, <2>2
<1> QED BY <1>9, <1>10, <1>11 DEF Once

LEMMA OnceNext ==
    ASSUME Base, Once, [Next]_vars
    PROVE  Once'
<1>1. CASE UNCHANGED vars
  BY <1>1, OnceSame DEF vars, dbVars, clientVars
<1>2. ASSUME NEW c \in Clients, GetChannel(c) \/ GetTimeline(c) PROVE Once'
  BY <1>2, OnceSame DEF GetChannel, GetTimeline, dbVars
<1>3. ASSUME NEW c \in Clients, Repeat(c) PROVE Once'
  <2>1. req[c] \in load.requests /\ Arrives(c, req[c]) /\ UNCHANGED <<idem, log, req>>
    BY <1>3 DEF Repeat, Base, RequestsOK, dbVars
  <2> QED BY <2>1, OnceArrives
<1>4. ASSUME NEW c \in Clients, NEW q \in load.requests, Send(c, q) PROVE Once'
  BY <1>4, OnceArrives DEF Send, dbVars, Base, RequestsOK
<1>5. ASSUME NEW c \in Clients, NEW i \in DOMAIN att[c], Replayed(c, i) \/ Refused(c, i) \/ Fails(c, i) PROVE Once'
  BY <1>5, OnceAnswers
<1>6. ASSUME NEW c \in Clients, NEW i \in DOMAIN att[c], Apply(c, i) PROVE Once'
  BY <1>6, OnceApply
<1>7. CASE ReadSchedule \/ Release \/ Tick
  BY <1>7, OnceSame DEF ReadSchedule, Release, Tick, dbVars, clientVars
<1> QED BY <1>1, <1>2, <1>3, <1>4, <1>5, <1>6, <1>7 DEF Next

\* However often and in whatever order requests and their repeats reach EditSchedule, and whatever fails, one
\* Idempotency-Key changes the schedule at most once, and every success that is reported for it is that change.
THEOREM OneChangePerKey == Spec => []KeyChangesOnce
<1>1. Init => Base /\ Once
  BY BaseInit, OnceInit
<1>2. Base /\ Once /\ [Next]_vars => Base' /\ Once'
  BY BaseNext, OnceNext
<1>3. Base /\ Once => KeyChangesOnce
  BY KeyParts DEF Once
<1> QED BY <1>1, <1>2, <1>3, PTL DEF Spec

-----------------------------------------------------------------------------
(* A conditional change *)

LEMMA ReadInit == Init => ReadOK
BY DEF Init, ReadOK, Unread

LEMMA ReadSame ==
    ASSUME ReadOK, UNCHANGED <<table, version, seen, req>>
    PROVE  ReadOK'
BY DEF ReadOK

LEMMA ReadGet ==
    ASSUME Base, ReadOK, NEW c \in Clients, GetChannel(c) \/ GetTimeline(c)
    PROVE  ReadOK'
<1>1. UNCHANGED <<table, version, req>> /\ version \in Nat
  BY DEF GetChannel, GetTimeline, dbVars, Base, Shapes
<1>2. DOMAIN seen = Clients
  BY DEF ReadOK
<1>3. CASE GetChannel(c)
  <2>1. seen'[c] = [version |-> version, entries |-> <<>>, done |-> FALSE] /\ DOMAIN seen' = Clients
        /\ (\A d \in Clients : d # c => seen'[d] = seen[d]) /\ req[c] = NoRequest
    BY <1>2, <1>3 DEF GetChannel
  <2> QED BY <1>1, <2>1 DEF ReadOK
<1>4. CASE GetTimeline(c)
  <2>1. seen'[c] = [version |-> seen[c].version, entries |-> table, done |-> TRUE] /\ DOMAIN seen' = Clients
        /\ (\A d \in Clients : d # c => seen'[d] = seen[d])
    BY <1>2, <1>4 DEF GetTimeline
  <2>2. req[c] = NoRequest
    BY <1>4 DEF GetTimeline, ReadOK
  <2> QED BY <1>1, <2>1, <2>2 DEF ReadOK
<1> QED BY <1>3, <1>4

LEMMA ReadSend ==
    ASSUME Base, ReadOK, NEW c \in Clients, NEW q \in load.requests, Send(c, q)
    PROVE  ReadOK'
<1>1. UNCHANGED <<table, version, seen>> /\ req'[c] = q /\ \A d \in Clients : d # c => req'[d] = req[d]
  BY DEF Send, dbVars, Base, RequestsOK
<1>2. (seen[c].version # Unread => seen[c].done) /\ (seen[c].done => Conditional(q))
  BY DEF Send
<1> QED BY <1>1, <1>2 DEF ReadOK, Conditional

LEMMA ReadApply ==
    ASSUME Base, ReadOK, NEW c \in Clients, NEW i \in DOMAIN att[c], Apply(c, i)
    PROVE  ReadOK'
<1>1. version' = version + 1 /\ UNCHANGED <<seen, req>> /\ version \in Nat
  BY DEF Apply, Base, Shapes
<1> QED BY <1>1 DEF ReadOK

LEMMA ReadNext ==
    ASSUME Base, ReadOK, [Next]_vars
    PROVE  ReadOK'
<1>1. CASE UNCHANGED vars
  BY <1>1, ReadSame DEF vars, dbVars, clientVars
<1>2. ASSUME NEW c \in Clients, GetChannel(c) \/ GetTimeline(c) PROVE ReadOK'
  BY <1>2, ReadGet
<1>3. ASSUME NEW c \in Clients, Repeat(c) PROVE ReadOK'
  BY <1>3, ReadSame DEF Repeat, dbVars
<1>4. ASSUME NEW c \in Clients, NEW q \in load.requests, Send(c, q) PROVE ReadOK'
  BY <1>4, ReadSend
<1>5. ASSUME NEW c \in Clients, NEW i \in DOMAIN att[c], Replayed(c, i) \/ Refused(c, i) \/ Fails(c, i) PROVE ReadOK'
  BY <1>5, ReadSame DEF Replayed, Refused, Fails, dbVars
<1>6. ASSUME NEW c \in Clients, NEW i \in DOMAIN att[c], Apply(c, i) PROVE ReadOK'
  BY <1>6, ReadApply
<1>7. CASE ReadSchedule \/ Release \/ Tick
  BY <1>7, ReadSame DEF ReadSchedule, Release, Tick, dbVars, clientVars
<1> QED BY <1>1, <1>2, <1>3, <1>4, <1>5, <1>6, <1>7 DEF Next

\* The client whose change is applied, if it has read the schedule, has read the one that its change replaces.
LEMMA AppliedToWhatWasRead ==
    ASSUME Base, ReadOK, NEW c \in Clients, NEW i \in DOMAIN att[c], Apply(c, i)
    PROVE  Last(log').client = c /\ (seen[c].done => table = seen[c].entries)
<1>1. PICK l \in LogRecord : l.client = c /\ log' = Append(log, l)
  BY ApplyEffect
<1>2. log \in Seq(LogRecord)
  BY DEF Base, Shapes
<1>3. Last(log') = l
  BY <1>1, <1>2 DEF Last
<1>4. req[c] # NoRequest
  BY RequestIsKnown, RequestFields DEF Base
<1>5. ~Outdated(c, req[c])
  BY DEF Apply
<1>6. seen[c].done => Conditional(req[c])
  BY <1>4 DEF ReadOK
<1> QED BY <1>1, <1>3, <1>5, <1>6 DEF ReadOK, Outdated

LEMMA LogSame ==
    ASSUME [Next]_vars, \A c \in Clients : \A i \in DOMAIN att[c] : ~Apply(c, i)
    PROVE  log' = log
BY DEF Next, vars, GetChannel, GetTimeline, Send, Repeat, Replayed, Refused, Fails, ReadSchedule, Release, Tick

\* The version and the entries are read in two queries without a lock.  A change that is sent with the version as
\* If-Match replaces exactly the schedule that was read, however the reads interleave with the changes of others.
THEOREM OnlyWhatWasRead == Spec => ChangesWhatItRead
<1> DEFINE A(c) == (log' # log /\ Last(log').client = c /\ seen[c].done) => table = seen[c].entries
<1>1. Init => Base /\ ReadOK
  BY BaseInit, ReadInit
<1>2. Base /\ ReadOK /\ [Next]_vars => Base' /\ ReadOK'
  BY BaseNext, ReadNext
<1>3. Base /\ ReadOK /\ [Next]_vars => [\A c \in Clients : A(c)]_vars
  <2> SUFFICES ASSUME Base, ReadOK, [Next]_vars, NEW c \in Clients PROVE A(c)
    OBVIOUS
  <2>1. CASE \E d \in Clients : \E i \in DOMAIN att[d] : Apply(d, i)
    BY <2>1, AppliedToWhatWasRead
  <2>2. CASE \A d \in Clients : \A i \in DOMAIN att[d] : ~Apply(d, i)
    BY <2>2, LogSame
  <2> QED BY <2>1, <2>2
<1> QED BY <1>1, <1>2, <1>3, PTL DEF Spec, ChangesWhatItRead

-----------------------------------------------------------------------------
(* Timetables: entries that follow one another *)

Apart(e, f) == EndOf(e) <= f.start \/ EndOf(f) <= e.start

Timetable(s) ==
    /\ s \in Seq(EntryType) /\ \A i \in 1 .. Len(s) : s[i].dur > 0
    /\ \A i, j \in 1 .. Len(s) : i < j => EndOf(s[i]) <= s[j].start

LEMMA EntryFields ==
    ASSUME NEW e \in EntryType
    PROVE  e.start \in Nat /\ e.dur \in Nat /\ e.off \in Nat /\ EndOf(e) \in Nat /\ EndOf(e) = e.start + e.dur
BY DEF EntryType, EndOf

\* What the property says of a table of entries.
LEMMA AirableTables ==
    ASSUME NEW s \in Seq(EntryType)
    PROVE  Airable(s) <=> Timetable(s)
<1>1. DOMAIN s = 1 .. Len(s) /\ \A i \in 1 .. Len(s) : s[i] \in EntryType
  OBVIOUS
<1>2. \A i \in 1 .. Len(s) : s[i].off >= 0
  BY <1>1, EntryFields
<1> QED BY <1>1, <1>2 DEF Airable, Timetable

LEMMA ElementsAre ==
    ASSUME NEW T, NEW s \in Seq(T)
    PROVE  ToSet(s) = Elements(s) /\ Elements(s) \subseteq T /\ IsFiniteSet(Elements(s))
<1>1. DOMAIN s = 1 .. Len(s) /\ Len(s) \in Nat /\ \A i \in 1 .. Len(s) : s[i] \in T
  OBVIOUS
<1> QED BY <1>1, FiniteElements DEF ToSet, Elements

\* No two entries of a timetable are on the air at once.
LEMMA TimetableApart ==
    ASSUME NEW s, Timetable(s)
    PROVE  /\ \A e \in Elements(s) : e \in EntryType /\ e.dur > 0 /\ e.start < EndOf(e)
           /\ \A e, f \in Elements(s) : e = f \/ Apart(e, f)
           /\ IsFiniteSet(Elements(s))
<1>1. s \in Seq(EntryType) /\ Len(s) \in Nat /\ \A i \in 1 .. Len(s) : s[i] \in EntryType
  BY DEF Timetable
<1>2. \A e \in Elements(s) : e \in EntryType /\ e.dur > 0
  BY <1>1 DEF Elements, Timetable
<1>3. \A e \in Elements(s) : e.start < EndOf(e)
  BY <1>2, EntryFields
<1>4. ASSUME NEW e \in Elements(s), NEW f \in Elements(s) PROVE e = f \/ Apart(e, f)
  <2>1. PICK i, j \in 1 .. Len(s) : e = s[i] /\ f = s[j]
    BY DEF Elements
  <2>2. i < j \/ i = j \/ j < i
    OBVIOUS
  <2> QED BY <2>1, <2>2 DEF Timetable, Apart
<1>5. IsFiniteSet(Elements(s))
  BY <1>1, FiniteElements
<1> QED BY <1>2, <1>3, <1>4, <1>5

LEMMA TimetableEmpty == Timetable(<<>>) /\ Elements(<<>>) = {}
BY DEF Timetable, Elements

\* One more entry, after all others.
LEMMA TimetableAppend ==
    ASSUME NEW s, Timetable(s), NEW x \in EntryType, x.dur > 0, \A y \in Elements(s) : EndOf(y) <= x.start
    PROVE  Timetable(Append(s, x)) /\ Elements(Append(s, x)) = Elements(s) \cup {x}
<1> DEFINE t == Append(s, x)
           k == Len(s)
<1>1. /\ s \in Seq(EntryType) /\ k \in Nat /\ t \in Seq(EntryType) /\ Len(t) = k + 1 /\ t[k + 1] = x
      /\ \A n \in 1 .. k : t[n] = s[n]
  BY DEF Timetable
<1>2. /\ \A m, n \in 1 .. k : m < n => EndOf(s[m]) <= s[n].start
      /\ \A n \in 1 .. k : s[n].dur > 0 /\ EndOf(s[n]) <= x.start
  BY DEF Timetable, Elements
<1> HIDE DEF t, k
<1>3. \A n \in 1 .. k + 1 : n \in 1 .. k \/ n = k + 1
  BY <1>1
<1>4. \A m, n \in 1 .. k + 1 : m < n => m \in 1 .. k
  BY <1>1
<1>5. ASSUME NEW m \in 1 .. k + 1, NEW n \in 1 .. k + 1, m < n PROVE EndOf(t[m]) <= t[n].start
  <2>1. m \in 1 .. k /\ t[m] = s[m]
    BY <1>1, <1>4, <1>5
  <2>2. CASE n \in 1 .. k
    BY <1>1, <1>2, <1>5, <2>1, <2>2
  <2>3. CASE n = k + 1
    BY <1>1, <1>2, <2>1, <2>3
  <2> QED BY <1>3, <2>2, <2>3
<1>6. {t[n] : n \in 1 .. k + 1} = {s[n] : n \in 1 .. k} \cup {x}
  <2>1. \A n \in 1 .. k : n \in 1 .. k + 1
    BY <1>1
  <2>2. k + 1 \in 1 .. k + 1
    BY <1>1
  <2> QED BY <1>1, <1>3, <2>1, <2>2
<1>7. Elements(t) = {t[n] : n \in 1 .. k + 1} /\ Elements(s) = {s[n] : n \in 1 .. k}
  BY <1>1 DEF Elements, k
<1>8. \A n \in 1 .. k + 1 : t[n].dur > 0
  BY <1>1, <1>2, <1>3
<1>9. Timetable(t)
  BY <1>1, <1>5, <1>8 DEF Timetable
<1> QED BY <1>6, <1>7, <1>9 DEF t

\* What a filter leaves.
LEMMA TimetableFilter ==
    ASSUME NEW s, Timetable(s), NEW S
    PROVE  Timetable(Filter(s, S)) /\ Elements(Filter(s, S)) = Elements(s) \cap S
<1>1. s \in Seq(EntryType) /\ Len(s) \in Nat /\ (\A n \in 1 .. Len(s) : s[n] \in EntryType /\ s[n].dur > 0)
      /\ \A m, n \in 1 .. Len(s) : m < n => EndOf(s[m]) <= s[n].start
  BY DEF Timetable
<1>2. PICK kept : /\ kept[0] = <<>>
                  /\ \A i \in 1 .. Len(s) : kept[i] = IF s[i] \in S THEN Append(kept[i - 1], s[i]) ELSE kept[i - 1]
                  /\ Filter(s, S) = kept[Len(s)]
  BY <1>1, FilterLoop
<1> DEFINE k == Len(s)
           Those(i) == {s[n] : n \in 1 .. i} \cap S
           X == {i \in Nat : i <= k => Timetable(kept[i]) /\ Elements(kept[i]) = Those(i)}
<1>3. 0 \in X
  <2>1. 1 .. 0 = {}
    OBVIOUS
  <2>2. Those(0) = {}
    BY <2>1
  <2> HIDE DEF Those
  <2> QED BY <1>2, <2>2, TimetableEmpty
<1>4. ASSUME NEW i \in Nat, i \in X PROVE i + 1 \in X
  <2> SUFFICES ASSUME i + 1 <= k PROVE Timetable(kept[i + 1]) /\ Elements(kept[i + 1]) = Those(i + 1)
    OBVIOUS
  <2> HIDE DEF k
  <2>1. k \in Nat /\ i <= k /\ i + 1 \in 1 .. k /\ (i + 1) - 1 = i /\ \A n \in 1 .. i : n \in 1 .. k /\ n < i + 1
    BY <1>1 DEF k
  <2>2. Timetable(kept[i]) /\ Elements(kept[i]) = Those(i)
    BY <1>4, <2>1
  <2>3. kept[i + 1] = IF s[i + 1] \in S THEN Append(kept[i], s[i + 1]) ELSE kept[i]
    BY <1>2, <2>1 DEF k
  <2>4. \A n \in 1 .. i + 1 : n \in 1 .. i \/ n = i + 1
    OBVIOUS
  <2>5. i + 1 \in 1 .. i + 1 /\ \A n \in 1 .. i : n \in 1 .. i + 1
    OBVIOUS
  <2>6. {s[n] : n \in 1 .. i + 1} = {s[n] : n \in 1 .. i} \cup {s[i + 1]}
    BY <2>4, <2>5
  <2>7. CASE s[i + 1] \in S
    <3>1. s[i + 1] \in EntryType /\ s[i + 1].dur > 0 /\ \A y \in Elements(kept[i]) : EndOf(y) <= s[i + 1].start
      BY <1>1, <2>1, <2>2 DEF k
    <3>2. Timetable(kept[i + 1]) /\ Elements(kept[i + 1]) = Those(i) \cup {s[i + 1]}
      BY <2>2, <2>3, <2>7, <3>1, TimetableAppend
    <3> QED BY <2>6, <2>7, <3>2
  <2>8. CASE s[i + 1] \notin S
    BY <2>2, <2>3, <2>6, <2>8
  <2> QED BY <2>7, <2>8
<1>5. \A i \in Nat : i \in X
  <2> HIDE DEF X
  <2> QED BY <1>3, <1>4, NumberInduction
<1>6. Timetable(kept[k]) /\ Elements(kept[k]) = Those(k)
  <2>1. k \in Nat /\ k <= k
    BY <1>1
  <2> QED BY <1>5, <2>1
<1> QED BY <1>2, <1>6 DEF Elements

\* Entries that are apart, in the order of their starts.
LEMMA TimetableByStart ==
    ASSUME NEW es \in SUBSET EntryType, IsFiniteSet(es), \A e \in es : e.dur > 0, \A e, f \in es : e = f \/ Apart(e, f)
    PROVE  Timetable(ByStart(es)) /\ Elements(ByStart(es)) = es
<1> DEFINE key == [e \in es |-> e.start]
           rank == [e \in es |-> Cardinality({f \in es : f.start <= e.start})]
           N == Cardinality(es)
           t == [n \in 1 .. N |-> CHOOSE e \in es : rank[e] = n]
<1>1. ByStart(es) = t
  <2> DEFINE F(n) == CHOOSE e \in es : Cardinality({f \in es : f.start <= e.start}) = n
             G(n) == CHOOSE e \in es : rank[e] = n
  <2>1. \A n : F(n) = G(n)
    OBVIOUS
  <2>2. ByStart(es) = [n \in 1 .. N |-> F(n)]
    BY DEF ByStart
  <2>3. t = [n \in 1 .. N |-> G(n)]
    BY Zenon
  <2> HIDE DEF N, rank, F, G, t
  <2> QED BY <2>1, <2>2, <2>3
<1>2. key \in [es -> Nat] /\ \A e \in es : key[e] = e.start
  BY EntryFields
<1>3. \A e, f \in es : e.start < f.start => EndOf(e) <= f.start
  <2> SUFFICES ASSUME NEW e \in es, NEW f \in es, e.start < f.start, ~(EndOf(e) <= f.start) PROVE FALSE
    OBVIOUS
  <2>1. e.start \in Nat /\ f.start \in Nat /\ EndOf(f) = f.start + f.dur /\ f.dur \in Nat
    BY EntryFields
  <2>2. EndOf(f) <= e.start
    BY <2>1 DEF Apart
  <2> QED BY <2>1, <2>2
<1>4. \A e, f \in es : key[e] = key[f] => e = f
  <2> SUFFICES ASSUME NEW e \in es, NEW f \in es, e.start = f.start PROVE e = f
    BY <1>2
  <2>1. e.start < EndOf(e) /\ f.start < EndOf(f) /\ e.start \in Nat /\ f.start \in Nat /\ EndOf(e) \in Nat /\ EndOf(f) \in Nat
    BY EntryFields
  <2> QED BY <2>1 DEF Apart
<1>5. /\ N \in Nat
      /\ rank \in [es -> 1 .. N]
      /\ \A e, f \in es : e.start < f.start <=> rank[e] < rank[f]
      /\ \A n \in 1 .. N : \E e \in es : rank[e] = n
  <2>1. \A e \in es : {f \in es : key[f] <= key[e]} = {f \in es : f.start <= e.start}
    BY <1>2
  <2> HIDE DEF key
  <2>2. \A e \in es : rank[e] = Cardinality({f \in es : key[f] <= key[e]})
    BY <2>1
  <2>3. DOMAIN rank = es /\ rank = [e \in es |-> rank[e]]
    OBVIOUS
  <2> HIDE DEF rank, N
  <2>4. /\ N \in Nat /\ rank \in [es -> 1 .. N]
        /\ \A e, f \in es : key[e] < key[f] <=> rank[e] < rank[f]
        /\ \A n \in 1 .. N : \E e \in es : rank[e] = n
    BY <1>2, <1>4, <2>2, <2>3, Ranks DEF N
  <2> QED BY <1>2, <2>4
<1> HIDE DEF key, rank, N
<1>6. \A n \in 1 .. N : t[n] \in es /\ rank[t[n]] = n
  BY <1>5
<1>7. t \in Seq(EntryType) /\ Len(t) = N
  <2>1. t \in [1 .. N -> EntryType]
    BY <1>6
  <2> HIDE DEF t
  <2>2. t \in Seq(EntryType)
    BY <1>5, <2>1, SeqDef
  <2> QED BY <1>5, <2>1, <2>2
<1> HIDE DEF t
<1>8. \A m, n \in 1 .. N : m < n => EndOf(t[m]) <= t[n].start
  BY <1>3, <1>5, <1>6
<1>9. Timetable(t)
  BY <1>6, <1>7, <1>8 DEF Timetable
<1>10. ASSUME NEW e \in es PROVE e = t[rank[e]] /\ rank[e] \in 1 .. N
  <2>1. rank[e] \in 1 .. N
    BY <1>5
  <2> DEFINE p == t[rank[e]]
  <2>2. p \in es /\ rank[p] = rank[e]
    BY <1>6, <2>1
  <2> HIDE DEF p
  <2>3. p.start \in Nat /\ e.start \in Nat /\ ~(p.start < e.start) /\ ~(e.start < p.start)
    <3>1. \A n \in 1 .. N : ~(n < n)
      BY <1>5
    <3> QED BY <1>5, <2>1, <2>2, <3>1, EntryFields
  <2>4. p.start = e.start
    BY <2>3
  <2>5. p = e
    BY <1>2, <1>4, <2>2, <2>4
  <2> QED BY <2>1, <2>5 DEF p
<1>11. Elements(t) = es
  <2>1. Elements(t) = {t[n] : n \in 1 .. N}
    BY <1>7 DEF Elements
  <2> QED BY <1>6, <1>10, <2>1
<1> QED BY <1>1, <1>9, <1>11

-----------------------------------------------------------------------------
(* What the edits see, and what their windows cover *)

LEMMA LargestEnd ==
    ASSUME NEW es \in SUBSET EntryType, IsFiniteSet(es), NEW A, A = {EndOf(e) : e \in es} \/ A = {EndOf(e) : e \in es} \cup {0},
           A # {}
    PROVE  Max(A) \in Nat /\ \A e \in es : EndOf(e) <= Max(A)
<1> DEFINE ends == {EndOf(e) : e \in es}
           f == [e \in es |-> EndOf(e)]
<1>1. f \in Surjection(es, ends)
  BY DEF Surjection
<1>2. ends \subseteq Nat
  BY EntryFields
<1>3. \A e \in es : EndOf(e) \in ends
  OBVIOUS
<1>4. A = ends \/ A = ends \cup {0}
  OBVIOUS
<1> HIDE DEF f, ends
<1>5. IsFiniteSet(ends)
  BY <1>1, FS_Surjection
<1>6. A \in SUBSET Nat /\ IsFiniteSet(A) /\ ends \subseteq A
  <2>1. IsFiniteSet(ends \cup {0})
    BY <1>5, FS_AddElement
  <2>2. ends \cup {0} \subseteq Nat
    BY <1>2
  <2> QED BY <1>2, <1>4, <1>5, <2>1, <2>2
<1>7. PICK m \in A : \A x \in A : x <= m
  BY <1>6, Largest
<1>8. \E x \in A : \A y \in A : x >= y
  BY <1>6, <1>7
<1>9. Max(A) \in A /\ \A y \in A : Max(A) >= y
  BY <1>8, Zenon DEF Max
<1> QED BY <1>3, <1>6, <1>9

\* Reader.Horizon: nothing ends after it.
LEMMA HorizonFacts ==
    ASSUME Timetable(table)
    PROVE  Horizon \in Nat /\ \A e \in Elements(table) : EndOf(e) <= Horizon
<1> DEFINE es == Elements(table)
           A == {EndOf(e) : e \in es} \cup {0}
<1>1. ToSet(table) = es /\ es \in SUBSET EntryType /\ IsFiniteSet(es)
  BY ElementsAre DEF Timetable
<1>2. A # {} /\ Horizon = Max(A)
  BY <1>1 DEF Horizon
<1> HIDE DEF es
<1>3. Max(A) \in Nat /\ \A e \in es : EndOf(e) <= Max(A)
  <2>1. A = {EndOf(e) : e \in es} \/ A = {EndOf(e) : e \in es} \cup {0}
    OBVIOUS
  <2> HIDE DEF A
  <2> QED BY <1>1, <1>2, <2>1, LargestEnd
<1> QED BY <1>2, <1>3 DEF es

\* Reader.Range from at on: all that ends after at.
LEMMA ExistingFacts ==
    ASSUME Timetable(table), NEW at \in Nat
    PROVE  Timetable(Existing(at)) /\ Elements(Existing(at)) = {e \in Elements(table) : EndOf(e) > at}
<1> DEFINE es == Elements(table)
           S == {e \in ToSet(table) : e.start < Horizon + 1 /\ EndOf(e) > at}
<1>1. table \in Seq(EntryType) /\ ToSet(table) = es /\ es \in SUBSET EntryType /\ IsFiniteSet(es)
  BY ElementsAre DEF Timetable
<1>2. Horizon \in Nat /\ \A e \in es : EndOf(e) <= Horizon
  BY HorizonFacts
<1>3. Existing(at) = Filter(table, S)
  BY DEF Existing, QueryRange
<1>4. \A e \in es : e.start < Horizon + 1
  <2> SUFFICES ASSUME NEW e \in es PROVE e.start < Horizon + 1
    OBVIOUS
  <2>1. e.start \in Nat /\ EndOf(e) \in Nat /\ e.start < EndOf(e) /\ EndOf(e) <= Horizon
    BY <1>1, <1>2, TimetableApart, EntryFields
  <2> QED BY <1>2, <2>1
<1>5. es \cap S = {e \in es : EndOf(e) > at}
  BY <1>1, <1>4
<1> HIDE DEF S
<1>6. Timetable(Filter(table, S)) /\ Elements(Filter(table, S)) = es \cap S
  BY TimetableFilter
<1> QED BY <1>3, <1>5, <1>6

\* the entries of an edit, before the rules have been applied to them
EditType == [type : {"content", "bumper", "slate", "ad_break"}, clip : Clips, start : Int, dur : Int, off : Int]

\* The window of an edit in a table: what is before it has ended when it begins, and nothing is after it.
CoversRest(ed) ==
    /\ ed.from \in Nat /\ ed.to \in Int /\ ed.entries \in Seq(EditType)
    /\ \A e \in Elements(table) : EndOf(e) <= ed.from \/ (ed.from <= e.start /\ e.start < ed.to)

LEMMA ThreeFields ==
    ASSUME NEW e \in EntryType, NEW x \in Int, NEW y \in Int, NEW z \in Int
    PROVE  [e EXCEPT !.start = x, !.dur = y, !.off = z] = [type |-> e.type, clip |-> e.clip, start |-> x, dur |-> y, off |-> z]
<1> DEFINE t == [[[e EXCEPT !.start = x] EXCEPT !.dur = y] EXCEPT !.off = z]
<1>1. [e EXCEPT !.start = x, !.dur = y, !.off = z] = t
  OBVIOUS
<1>2. t = [[[e EXCEPT !.start = x] EXCEPT !.dur = y] EXCEPT !.off = z]
  OBVIOUS
<1> HIDE DEF t
<1>3. t = [type |-> e.type, clip |-> e.clip, start |-> x, dur |-> y, off |-> z]
  BY <1>2 DEF EntryType
<1> QED BY <1>1, <1>3

\* InsertShift moves all that ends after at, and its window begins with what it cuts.
LEMMA InsertCovers ==
    ASSUME Timetable(table), NEW at \in Nat, NEW ins \in EntryType,
           NEW ed, ed = InsertShift(Existing(at), at, ins), CheckEntries(ed)
    PROVE  CoversRest(ed)
<1> DEFINE existing == Existing(at)
           live == Filter(existing, {e \in ToSet(existing) : EndOf(e) > at})
           cut == Filter(live, {e \in ToSet(live) : e.start < at})
           heads == [i \in DOMAIN cut |-> HeadOf(cut[i], at)]
           after == [i \in DOMAIN live |-> IF live[i].start < at THEN TailOf(live[i], at, ins.dur)
                                           ELSE [live[i] EXCEPT !.start = @ + ins.dur]]
           first == [ins EXCEPT !.start = at]
           es == Elements(table)
           L == {e \in es : EndOf(e) > at}
           C == {e \in L : e.start < at}
<1>1. /\ ed.from = IF cut = <<>> THEN at ELSE Last(cut).start
      /\ ed.to = EndOf(Last(ed.entries))
      /\ ed.entries = heads \o <<first>> \o after
  BY DEF InsertShift
<1>2. Timetable(existing) /\ Elements(existing) = L
  BY ExistingFacts
<1>3. Timetable(live) /\ Elements(live) = L
  <2> HIDE DEF existing
  <2>1. ToSet(existing) = L
    BY <1>2, ElementsAre DEF Timetable
  <2>2. L \cap {e \in ToSet(existing) : EndOf(e) > at} = L
    BY <2>1
  <2> QED BY <1>2, <2>2, TimetableFilter
<1> HIDE DEF existing
<1>4. Timetable(cut) /\ Elements(cut) = C
  <2> HIDE DEF live
  <2>1. ToSet(live) = L
    BY <1>3, ElementsAre DEF Timetable
  <2>2. L \cap {e \in ToSet(live) : e.start < at} = C
    BY <2>1
  <2> QED BY <1>3, <2>2, TimetableFilter
<1> HIDE DEF live, cut
<1>5. /\ live \in Seq(EntryType) /\ cut \in Seq(EntryType) /\ DOMAIN live = 1 .. Len(live) /\ DOMAIN cut = 1 .. Len(cut)
      /\ Len(live) \in Nat /\ Len(cut) \in Nat
      /\ \A i \in DOMAIN live : live[i] \in EntryType
      /\ \A i \in DOMAIN cut : cut[i] \in EntryType
  BY <1>3, <1>4 DEF Timetable
<1>6. \A e \in EntryType : /\ HeadOf(e, at) \in EditType
                           /\ TailOf(e, at, ins.dur) \in EditType /\ TailOf(e, at, ins.dur).start = at + ins.dur
                           /\ [e EXCEPT !.start = @ + ins.dur] \in EditType
                           /\ [e EXCEPT !.start = @ + ins.dur].start = e.start + ins.dur
  <2> SUFFICES ASSUME NEW e \in EntryType, NEW d, d = ins.dur
               PROVE  /\ HeadOf(e, at) \in EditType
                      /\ TailOf(e, at, d) \in EditType /\ TailOf(e, at, d).start = at + d
                      /\ [e EXCEPT !.start = @ + d] \in EditType
                      /\ [e EXCEPT !.start = @ + d].start = e.start + d
    OBVIOUS
  <2>1. d \in Nat /\ e.start \in Nat /\ e.dur \in Nat /\ e.off \in Nat /\ EndOf(e) \in Nat
    BY EntryFields
  <2>2. HeadOf(e, at) \in EditType
    BY <2>1 DEF HeadOf, EntryType, EditType
  <2>3. TailOf(e, at, d) = [type |-> e.type, clip |-> e.clip, start |-> at + d, dur |-> EndOf(e) - at, off |-> e.off + (at - e.start)]
    <3> DEFINE x == at + d
               y == EndOf(e) - at
               z == e.off + (at - e.start)
    <3>1. x \in Int /\ y \in Int /\ z \in Int
      BY <2>1
    <3>2. TailOf(e, at, d) = [e EXCEPT !.start = x, !.dur = y, !.off = z]
      BY DEF TailOf
    <3> HIDE DEF x, y, z
    <3>3. [e EXCEPT !.start = x, !.dur = y, !.off = z] = [type |-> e.type, clip |-> e.clip, start |-> x, dur |-> y, off |-> z]
      BY <3>1, ThreeFields
    <3> QED BY <3>2, <3>3 DEF x, y, z
  <2>4. TailOf(e, at, d) \in EditType /\ TailOf(e, at, d).start = at + d
    BY <2>1, <2>3 DEF EntryType, EditType
  <2>5. [e EXCEPT !.start = @ + d] \in EditType /\ [e EXCEPT !.start = @ + d].start = e.start + d
    BY <2>1 DEF EntryType, EditType
  <2> QED BY <2>2, <2>4, <2>5
<1>7. first \in EditType
  BY DEF EntryType, EditType
<1>8. heads \in Seq(EditType) /\ Len(heads) = Len(cut)
  <2>1. heads \in [1 .. Len(cut) -> EditType]
    BY <1>5, <1>6
  <2> HIDE DEF heads
  <2>2. heads \in Seq(EditType)
    BY <1>5, <2>1, SeqDef
  <2> QED BY <1>5, <2>1, <2>2
<1>9. after \in Seq(EditType) /\ Len(after) = Len(live)
  <2>1. after \in [1 .. Len(live) -> EditType]
    BY <1>5, <1>6
  <2> HIDE DEF after
  <2>2. after \in Seq(EditType)
    BY <1>5, <2>1, SeqDef
  <2> QED BY <1>5, <2>1, <2>2
<1>10. \A i \in 1 .. Len(live) : after[i] \in EditType /\ after[i].start >= live[i].start
  <2>0. \A i \in 1 .. Len(live) : after[i] \in EditType
    <3> HIDE DEF after
    <3> QED BY <1>9
  <2> SUFFICES ASSUME NEW i \in 1 .. Len(live) PROVE after[i].start >= live[i].start
    BY <2>0, Zenon
  <2>1. live[i] \in EntryType /\ live[i].start \in Nat /\ ins.dur \in Nat
    BY <1>5, EntryFields
  <2>2. after[i] = IF live[i].start < at THEN TailOf(live[i], at, ins.dur) ELSE [live[i] EXCEPT !.start = @ + ins.dur]
    BY <1>5, Zenon
  <2> HIDE DEF after
  <2>3. after[i].start = IF live[i].start < at THEN at + ins.dur ELSE live[i].start + ins.dur
    BY <1>6, <2>1, <2>2
  <2> HIDE DEF after
  <2> QED BY <2>1, <2>3
<1> HIDE DEF heads, after, first
<1>11. ed.entries \in Seq(EditType) /\ ed.to \in Int /\ \A i \in 1 .. Len(live) : \E f \in ToSet(ed.entries) : f = after[i]
  <2> DEFINE front == heads \o <<first>>
             all == front \o after
             k == Len(heads) + 1
  <2>1. front \in Seq(EditType) /\ Len(front) = k /\ k \in Nat
    BY <1>7, <1>8
  <2>2. ed.entries = all
    BY <1>1
  <2> HIDE DEF front, k
  <2>3. all \in Seq(EditType) /\ k + Len(live) = Len(all) /\ \A i \in 1 .. Len(live) : k + i \in DOMAIN all /\ all[k + i] = after[i]
    <3> DEFINE l == Len(live)
    <3>1. l \in Nat /\ Len(after) = l
      BY <1>5, <1>9
    <3>2. /\ all \in Seq(EditType) /\ Len(all) = k + l /\ DOMAIN all = 1 .. k + l
          /\ \A j \in 1 .. k + l : all[j] = IF j <= k THEN front[j] ELSE after[j - k]
      BY <1>9, <2>1, <3>1
    <3> HIDE DEF l, all
    <3>3. ASSUME NEW i \in 1 .. l PROVE k + i \in 1 .. k + l /\ all[k + i] = after[i]
      <4>1. k + i \in 1 .. k + l /\ ~(k + i <= k) /\ (k + i) - k = i
        BY <2>1, <3>1
      <4> QED BY <3>2, <4>1
    <3> QED BY <3>2, <3>3 DEF l
  <2> HIDE DEF all
  <2>4. Len(all) \in Nat /\ Len(all) # 0
    BY <1>5, <1>8, <2>3 DEF k
  <2>5. Last(all) \in EditType
    BY <2>3, <2>4 DEF Last
  <2>6. EndOf(Last(all)) \in Int
    BY <2>5 DEF EditType, EndOf
  <2> QED BY <1>1, <2>2, <2>3, <2>6 DEF ToSet
<1>12. \A e \in L : e.start < ed.to
  <2> SUFFICES ASSUME NEW e \in L PROVE e.start < ed.to
    OBVIOUS
  <2>1. PICK i \in 1 .. Len(live) : e = live[i]
    <3> HIDE DEF L
    <3> QED BY <1>3 DEF Elements
  <2>2. after[i] \in ToSet(ed.entries) /\ after[i].start >= e.start /\ after[i].start \in Int
    BY <1>10, <1>11, <2>1 DEF EditType
  <2>3. after[i].start < ed.to /\ ed.from <= after[i].start
    BY <2>2 DEF CheckEntries
  <2>4. e.start \in Nat
    BY <1>5, <2>1, EntryFields
  <2> QED BY <1>11, <2>2, <2>3, <2>4
<1>13. \A e \in es : e \in EntryType /\ e.start \in Nat /\ EndOf(e) \in Nat /\ e.start < EndOf(e)
  BY TimetableApart, EntryFields
<1>14. \A e, f \in es : e = f \/ Apart(e, f)
  BY TimetableApart
<1>15. CASE cut = <<>>
  <2>1. C = {} /\ ed.from = at
    BY <1>1, <1>4, <1>15, TimetableEmpty
  <2>2. ASSUME NEW e \in es PROVE EndOf(e) <= at \/ (at <= e.start /\ e.start < ed.to)
    <3>1. CASE EndOf(e) <= at
      BY <3>1
    <3>2. CASE ~(EndOf(e) <= at)
      <4>1. e \in L
        BY <1>13, <3>2
      <4>2. at <= e.start
        BY <1>13, <2>1, <4>1
      <4> QED BY <1>12, <4>1, <4>2
    <3> QED BY <3>1, <3>2
  <2> QED BY <1>11, <2>1, <2>2 DEF CoversRest
<1>16. CASE cut # <<>>
  <2> DEFINE m == Last(cut)
  <2>1. m \in C /\ ed.from = m.start
    <3>1. Len(cut) \in 1 .. Len(cut)
      BY <1>5, <1>16
    <3>2. m \in Elements(cut)
      BY <3>1 DEF Last, Elements
    <3> QED BY <1>1, <1>4, <1>16, <3>2
  <2> HIDE DEF m
  <2>2. m \in es /\ m.start < at /\ at < EndOf(m) /\ m.start \in Nat /\ EndOf(m) \in Nat
    BY <1>13, <2>1
  <2>3. ASSUME NEW e \in es PROVE EndOf(e) <= m.start \/ (m.start <= e.start /\ e.start < ed.to)
    <3>1. e.start \in Nat /\ EndOf(e) \in Nat /\ e.start < EndOf(e)
      BY <1>13
    <3>2. e = m \/ EndOf(e) <= m.start \/ EndOf(m) <= e.start
      BY <1>14, <2>2 DEF Apart
    <3>3. CASE e = m
      BY <1>12, <2>1, <2>2, <3>3
    <3>4. CASE EndOf(m) <= e.start
      <4>1. EndOf(e) > at /\ m.start <= e.start
        BY <2>2, <3>1, <3>4
      <4> QED BY <1>12, <4>1
    <3> QED BY <3>2, <3>3, <3>4
  <2> QED BY <1>11, <2>1, <2>2, <2>3 DEF CoversRest
<1> QED BY <1>15, <1>16

\* The entry on the air, if there is one.
LEMMA OnAirFacts ==
    ASSUME NEW s, Timetable(s), NEW at \in Nat, \E i \in DOMAIN s : OnAir(s[i], at)
    PROVE  FirstOnAir(s, at) \in 1 .. Len(s) /\ OnAir(s[FirstOnAir(s, at)], at)
<1> DEFINE them == {i \in DOMAIN s : OnAir(s[i], at)}
<1>1. them # {} /\ FirstOnAir(s, at) = Min(them)
  BY DEF FirstOnAir
<1>2. DOMAIN s = 1 .. Len(s) /\ Len(s) \in Nat /\ \A i \in 1 .. Len(s) : s[i] \in EntryType
  BY DEF Timetable
<1>3. ASSUME NEW i \in them, NEW j \in them, i < j PROVE FALSE
  <2>1. s[i].start \in Nat /\ s[j].start \in Nat /\ EndOf(s[i]) \in Nat /\ EndOf(s[i]) <= s[j].start
    BY <1>2, <1>3, EntryFields DEF Timetable
  <2>2. at < EndOf(s[i]) /\ s[j].start <= at
    BY DEF OnAir
  <2> QED BY <2>1, <2>2
<1>4. \A i, j \in them : i <= j
  BY <1>2, <1>3
<1>5. them \subseteq 1 .. Len(s) /\ \A i \in them : OnAir(s[i], at)
  BY <1>2
<1> HIDE DEF them
<1>6. Min(them) \in them
  BY <1>1, <1>4, Zenon DEF Min
<1> QED BY <1>1, <1>5, <1>6

\* Skip moves or keeps all that follows the entry on the air, and its window reaches the end of the last.
LEMMA SkipCovers ==
    ASSUME Timetable(table), NEW at \in Nat, \E i \in DOMAIN Existing(at) : OnAir(Existing(at)[i], at),
           NEW ed, ed = Skip(Existing(at), at)
    PROVE  CoversRest(ed)
<1> DEFINE s == Existing(at)
           idx == FirstOnAir(s, at)
           n == Len(s)
           cur == s[idx]
           rest == SubSeq(s, idx + 1, n)
           moved == [i \in DOMAIN rest |-> IF Chained(s, idx, idx + i) THEN [rest[i] EXCEPT !.start = @ - (EndOf(cur) - at)]
                                           ELSE rest[i]]
           head == IF at > cur.start THEN <<HeadOf(cur, at)>> ELSE <<>>
<1>1. ed.from = cur.start /\ ed.to = SkipTo(cur, rest) /\ ed.entries = head \o moved
  BY DEF Skip
<1>2. Timetable(s) /\ Elements(s) = {e \in Elements(table) : EndOf(e) > at}
  BY ExistingFacts
<1>3. idx \in 1 .. n /\ OnAir(cur, at)
  BY <1>2, OnAirFacts
<1> HIDE DEF s, idx
<1>4. /\ s \in Seq(EntryType) /\ n \in Nat /\ (\A i \in 1 .. n : s[i] \in EntryType)
      /\ \A i, j \in 1 .. n : i < j => EndOf(s[i]) <= s[j].start
  BY <1>2 DEF Timetable
<1>5. cur \in EntryType /\ cur.start \in Nat /\ EndOf(cur) \in Nat /\ cur.start <= at /\ at < EndOf(cur)
  BY <1>3, <1>4, EntryFields DEF OnAir
<1> HIDE DEF n
<1>6. /\ rest \in Seq(EntryType) /\ Len(rest) = n - idx /\ Len(rest) \in Nat
      /\ \A i \in 1 .. n - idx : rest[i] = s[idx + i]
  BY <1>3, <1>4
<1> HIDE DEF rest, cur
<1>7. moved \in Seq(EditType)
  <2>1. \A e \in EntryType : e \in EditType /\ [e EXCEPT !.start = @ - (EndOf(cur) - at)] \in EditType
    <3> SUFFICES ASSUME NEW e \in EntryType PROVE e \in EditType /\ [e EXCEPT !.start = @ - (EndOf(cur) - at)] \in EditType
      OBVIOUS
    <3> DEFINE x == e.start - (EndOf(cur) - at)
    <3>1. x \in Int
      BY <1>5, EntryFields
    <3> HIDE DEF x
    <3>2. e \in EditType /\ [e EXCEPT !.start = x] \in EditType
      BY <3>1 DEF EntryType, EditType
    <3> QED BY <3>2 DEF x
  <2>2. DOMAIN rest = 1 .. Len(rest) /\ \A i \in 1 .. Len(rest) : rest[i] \in EntryType
    BY <1>6
  <2>3. moved \in [1 .. Len(rest) -> EditType]
    <3> DEFINE m(i) == IF Chained(s, idx, idx + i) THEN [rest[i] EXCEPT !.start = @ - (EndOf(cur) - at)] ELSE rest[i]
    <3>1. \A i \in 1 .. Len(rest) : m(i) \in EditType
      BY <2>1, <2>2
    <3>2. moved = [i \in 1 .. Len(rest) |-> m(i)]
      BY <2>2
    <3> HIDE DEF m, moved
    <3> QED BY <3>1, <3>2
  <2> HIDE DEF moved
  <2> QED BY <1>6, <2>3, SeqDef
<1>8. head \in Seq(EditType)
  <2>1. HeadOf(cur, at) \in EditType
    BY <1>5 DEF HeadOf, EntryType, EditType
  <2> QED BY <2>1
<1> HIDE DEF moved, head
<1>9. ed.from \in Nat /\ ed.entries \in Seq(EditType)
  BY <1>1, <1>5, <1>7, <1>8
<1>10. ed.to \in Nat /\ EndOf(cur) <= ed.to /\ \A i \in 1 .. Len(rest) : EndOf(rest[i]) <= ed.to
  <2> DEFINE es == Elements(rest) \cup {cur}
             A == {EndOf(e) : e \in es}
  <2>1. ToSet(rest) = Elements(rest) /\ Elements(rest) \subseteq EntryType /\ IsFiniteSet(Elements(rest))
    BY <1>6, ElementsAre
  <2>2. es \in SUBSET EntryType /\ IsFiniteSet(es)
    BY <1>5, <2>1, FS_AddElement
  <2>3. ed.to = Max(A) /\ A # {}
    BY <1>1, <2>1 DEF SkipTo
  <2>4. cur \in es /\ \A i \in 1 .. Len(rest) : rest[i] \in es
    BY DEF Elements
  <2>5. A = {EndOf(e) : e \in es} \/ A = {EndOf(e) : e \in es} \cup {0}
    OBVIOUS
  <2> HIDE DEF es, A
  <2>6. Max(A) \in Nat /\ \A e \in es : EndOf(e) <= Max(A)
    BY <2>2, <2>3, <2>5, LargestEnd
  <2> QED BY <2>3, <2>4, <2>6
<1>11. ASSUME NEW e \in Elements(table) PROVE EndOf(e) <= cur.start \/ (cur.start <= e.start /\ e.start < ed.to)
  <2>1. e \in EntryType /\ e.start \in Nat /\ EndOf(e) \in Nat /\ e.start < EndOf(e)
    BY TimetableApart, EntryFields
  <2>2. CASE EndOf(e) > at
    <3>1. PICK k \in 1 .. n : e = s[k]
      BY <1>2, <2>2 DEF Elements, n
    <3>2. ~(k < idx)
      <4>1. k < idx => EndOf(e) <= cur.start
        BY <1>3, <1>4, <3>1 DEF cur
      <4> QED BY <1>5, <2>1, <2>2, <4>1
    <3>3. CASE k = idx
      <4>1. e = cur
        BY <3>1, <3>3 DEF cur
      <4> QED BY <1>5, <1>10, <2>1, <4>1
    <3>4. CASE k > idx
      <4>1. EndOf(cur) <= e.start
        BY <1>3, <1>4, <3>1, <3>4 DEF cur
      <4>2. k - idx \in 1 .. n - idx /\ idx + (k - idx) = k
        BY <1>3, <1>4, <3>4
      <4>3. e = rest[k - idx] /\ k - idx \in 1 .. Len(rest)
        BY <1>6, <3>1, <4>2
      <4>4. EndOf(e) <= ed.to
        BY <1>10, <4>3
      <4> QED BY <1>5, <1>10, <2>1, <4>1, <4>4
    <3> QED BY <1>3, <3>2, <3>3, <3>4
  <2>3. CASE ~(EndOf(e) > at)
    <3>1. cur \in Elements(table)
      BY <1>2, <1>3 DEF Elements, cur, n
    <3>2. e = cur \/ EndOf(e) <= cur.start \/ EndOf(cur) <= e.start
      BY <3>1, TimetableApart DEF Apart
    <3> QED BY <1>5, <2>1, <2>3, <3>2
  <2> QED BY <2>2, <2>3
<1> QED BY <1>1, <1>9, <1>10, <1>11 DEF CoversRest

-----------------------------------------------------------------------------
(* What an edit leaves *)

\* a window that cuts nothing: an entry of the table is in it, before it, or after it and after all that is new
FitsInto(ed) ==
    \A e \in Elements(table) :
        \/ EndOf(e) <= ed.from
        \/ ed.from <= e.start /\ e.start < ed.to
        \/ ed.to <= e.start /\ \A f \in Elements(ed.entries) : EndOf(f) <= ed.to

\* Entries that CheckEntries has passed, in a window that cuts nothing.
LEMMA ReplaceKeeps ==
    ASSUME Timetable(table), NEW ed, ed.from \in Nat, ed.to \in Int, ed.entries \in Seq(EditType), CheckEntries(ed),
           FitsInto(ed)
    PROVE  /\ Timetable(Replace(table, ed))
           /\ Elements(Replace(table, ed)) =
                {e \in Elements(table) : ~(ed.from <= e.start /\ e.start < ed.to)} \cup Elements(ed.entries)
<1> DEFINE es == Elements(table)
           new == Elements(ed.entries)
           old == {e \in es : ~(ed.from <= e.start /\ e.start < ed.to)}
<1>1. ToSet(table) = es /\ ToSet(ed.entries) = new /\ new \subseteq EditType /\ IsFiniteSet(es) /\ IsFiniteSet(new)
  BY ElementsAre DEF Timetable
<1>2. Replace(table, ed) = ByStart(old \cup new)
  BY <1>1 DEF Replace
<1>3. \A e \in new : e.dur > 0 /\ e.off >= 0 /\ ed.from <= e.start /\ e.start < ed.to
  BY <1>1 DEF CheckEntries
<1>4. ASSUME NEW e \in new PROVE e \in EntryType
  <2>1. e \in EditType /\ e.dur > 0 /\ e.off >= 0 /\ ed.from <= e.start
    BY <1>1, <1>3
  <2>2. e.start \in Nat /\ e.dur \in Nat /\ e.off \in Nat
    BY <2>1 DEF EditType
  <2> QED BY <2>1, <2>2 DEF EditType, EntryType
<1>5. \A e, f \in new : e = f \/ Apart(e, f)
  <2> DEFINE d == ed.entries
  <2>1. DOMAIN d = 1 .. Len(d)
    OBVIOUS
  <2>2. \A i, j \in DOMAIN d : i # j => Apart(d[i], d[j])
    BY DEF CheckEntries, Apart
  <2> QED BY <2>1, <2>2 DEF Elements
<1>6. \A e \in es : e \in EntryType /\ e.dur > 0 /\ e.start \in Nat /\ EndOf(e) \in Nat
  BY TimetableApart, EntryFields
<1>7. \A e, f \in old : e = f \/ Apart(e, f)
  BY TimetableApart
<1>8. ASSUME NEW e \in old, NEW f \in new PROVE Apart(e, f) /\ Apart(f, e)
  <2>1. EndOf(e) \in Nat /\ e.start \in Nat /\ f.start \in Nat /\ EndOf(f) \in Nat /\ ed.from <= f.start
    BY <1>3, <1>4, <1>6, EntryFields
  <2>2. CASE EndOf(e) <= ed.from
    BY <2>1, <2>2 DEF Apart
  <2>3. CASE ed.to <= e.start /\ EndOf(f) <= ed.to
    BY <2>1, <2>3 DEF Apart
  <2> QED BY <2>2, <2>3 DEF FitsInto
<1> DEFINE all == old \cup new
<1>9. all \in SUBSET EntryType /\ \A e \in all : e.dur > 0
  BY <1>3, <1>4, <1>6
<1>10. IsFiniteSet(all)
  <2>1. IsFiniteSet(old)
    BY <1>1, FS_Subset
  <2> QED BY <1>1, <2>1, FS_Union
<1>11. \A e, f \in all : e = f \/ Apart(e, f)
  BY <1>5, <1>7, <1>8
<1> HIDE DEF all
<1>12. Timetable(ByStart(all)) /\ Elements(ByStart(all)) = all
  BY <1>9, <1>10, <1>11, TimetableByStart
<1> QED BY <1>2, <1>12 DEF all

LEMMA RequestTypes ==
    ASSUME Shapes, NEW q \in load.requests
    PROVE  /\ q.type # "replace" => q.ins \in EntryType
           /\ q.type = "replace" => q.ed.from \in Nat /\ q.ed.to \in Nat /\ q.ed.entries \in Seq(EntryType)
<1>1. q \in CommandType \/ q \in ReplaceType
  BY RequestsAssumption DEF Shapes
<1>2. CASE q \in CommandType
  BY <1>2 DEF CommandType, Commands
<1>3. CASE q \in ReplaceType
  BY <1>3 DEF ReplaceType
<1> QED BY <1>1, <1>2, <1>3

\* a replacement fits into the schedule it is applied to
ReplacementsFit ==
    \A c \in Clients : \A i \in DOMAIN att[c] : Apply(c, i) /\ req[c].type = "replace" => FitsInto(req[c].ed)

\* The table after an edit.
LEMMA ApplyKeeps ==
    ASSUME Base, Timetable(table), NEW c \in Clients, NEW i \in DOMAIN att[c], Apply(c, i),
           req[c].type = "replace" => FitsInto(req[c].ed)
    PROVE  Timetable(table')
<1> DEFINE q == req[c]
           at == att[c][i].at
           ed == EditOf(q, at)
<1>1. q \in load.requests /\ at \in Nat
  <2>1. att[c] \in Seq(Attempt) /\ att[c][i] \in Attempt
    BY DEF Base, Shapes
  <2> QED BY <2>1, RequestIsKnown DEF Base, Attempt
<1>2. ~NothingToDo(q, at) /\ CheckEntries(ed) /\ table' = Replace(table, ed)
  BY DEF Apply
<1>3. /\ q.type \in Commands \cup {"replace"}
      /\ q.type # "replace" => q.ins \in EntryType
      /\ q.type = "replace" => q.ed.from \in Nat /\ q.ed.to \in Nat /\ q.ed.entries \in Seq(EntryType) /\ FitsInto(q.ed)
  BY <1>1, RequestFields, RequestTypes DEF Base
<1> HIDE DEF q, at
<1>4. CASE q.type = "replace"
  <2>1. ed = q.ed
    BY <1>4, Zenon DEF EditOf
  <2>2. EntryType \subseteq EditType
    BY DEF EntryType, EditType
  <2>3. q.ed.entries \in Seq(EditType)
    BY <1>3, <1>4, <2>2
  <2> QED BY <1>2, <1>3, <1>4, <2>1, <2>3, ReplaceKeeps
<1>5. ASSUME CoversRest(ed) PROVE Timetable(table')
  <2> HIDE DEF ed
  <2>1. FitsInto(ed)
    BY <1>5 DEF CoversRest, FitsInto
  <2> QED BY <1>2, <1>5, <2>1, ReplaceKeeps DEF CoversRest
<1>6. CASE q.type \in {"skip", "return"}
  <2>1. ed = Skip(Existing(at), at)
    BY <1>6, Zenon DEF EditOf
  <2>2. \E k \in DOMAIN Existing(at) : OnAir(Existing(at)[k], at)
    <3>1. CASE q.type = "skip"
      BY <1>2, <3>1 DEF NothingToDo, FirstOnAir
    <3>2. CASE q.type = "return"
      BY <1>2, <3>2 DEF NothingToDo, BreakOnAir, ToSet
    <3> QED BY <1>6, <3>1, <3>2
  <2> HIDE DEF ed
  <2> QED BY <1>1, <1>5, <2>1, <2>2, SkipCovers
<1>7. CASE q.type \in {"ad_break", "slate", "insert"}
  <2>1. ed = InsertShift(Existing(at), at, q.ins)
    BY <1>7, Zenon DEF EditOf
  <2>2. q.ins \in EntryType
    BY <1>3, <1>7
  <2> HIDE DEF ed
  <2> QED BY <1>1, <1>2, <1>5, <2>1, <2>2, InsertCovers
<1> QED BY <1>3, <1>4, <1>6, <1>7 DEF Commands

LEMMA TableSame ==
    ASSUME [Next]_vars, \A c \in Clients : \A i \in DOMAIN att[c] : ~Apply(c, i)
    PROVE  table' = table
BY DEF Next, vars, dbVars, GetChannel, GetTimeline, Send, Repeat, Replayed, Refused, Fails, ReadSchedule, Release, Tick

\* The schedule stays one that can be aired, through every command at every moment and every replacement whose window
\* cuts no entry: InsertShift and Skip leave nothing behind in a place it has moved away from, and nothing runs into what
\* they move.  (The hypothesis is about schedule:replace alone: nothing in the code looks at the entries at the ends of
\* its window.)
THEOREM ScheduleStaysAirable == Spec /\ [][ReplacementsFit]_vars => []NoOverlap
<1>1. Init => Base /\ Timetable(table)
  <2> SUFFICES ASSUME Init PROVE Timetable(table)
    BY BaseInit
  <2>1. table \in Seq(EntryType) /\ Airable(table)
    BY RequestsAssumption DEF Init
  <2> QED BY <2>1, AirableTables
<1>2. Base /\ Timetable(table) /\ [Next]_vars /\ [ReplacementsFit]_vars => Base' /\ Timetable(table)'
  <2> SUFFICES ASSUME Base, Timetable(table), [Next]_vars, [ReplacementsFit]_vars PROVE Timetable(table')
    BY BaseNext DEF Timetable, EntryType
  <2>1. CASE UNCHANGED vars
    BY <2>1 DEF vars, dbVars
  <2>2. CASE ReplacementsFit /\ \E c \in Clients : \E i \in DOMAIN att[c] : Apply(c, i)
    BY <2>2, ApplyKeeps DEF ReplacementsFit
  <2>3. CASE \A c \in Clients : \A i \in DOMAIN att[c] : ~Apply(c, i)
    BY <2>3, TableSame
  <2> QED BY <2>1, <2>2, <2>3
<1>3. Timetable(table) => NoOverlap
  <2> SUFFICES ASSUME Timetable(table) PROVE NoOverlap
    OBVIOUS
  <2>1. table \in Seq(EntryType)
    BY DEF Timetable
  <2> QED BY <2>1, AirableTables DEF NoOverlap
<1> QED BY <1>1, <1>2, <1>3, PTL DEF Spec

-----------------------------------------------------------------------------
(* What a schedule shows *)

\* what entry e shows at second t
FrameOf(e, t) == <<e.clip, e.off + t - e.start>>

\* some entry of S shows f at second t
Shown(S, t, f) == \E e \in S : OnAir(e, t) /\ f = FrameOf(e, t)

\* One entry at a time.
LEMMA OnAirAlone ==
    ASSUME NEW s, Timetable(s), NEW e \in Elements(s), NEW f \in Elements(s), NEW t \in Int, OnAir(e, t), OnAir(f, t)
    PROVE  e = f
<1>1. e.start \in Nat /\ f.start \in Nat /\ EndOf(e) \in Nat /\ EndOf(f) \in Nat
  BY TimetableApart, EntryFields
<1>2. e = f \/ EndOf(e) <= f.start \/ EndOf(f) <= e.start
  BY TimetableApart DEF Apart
<1> QED BY <1>1, <1>2 DEF OnAir

\* Frame finds what is shown.
LEMMA FrameIsShown ==
    ASSUME NEW s, Timetable(s), NEW t \in Nat
    PROVE  /\ Frame(s, t) \in Clips \X Int
           /\ \A f : OfFilm(f) => (Frame(s, t) = f <=> Shown(Elements(s), t, f))
<1>1. s \in Seq(EntryType) /\ DOMAIN s = 1 .. Len(s) /\ Len(s) \in Nat
  BY DEF Timetable
<1>2. CASE \E i \in DOMAIN s : OnAir(s[i], t)
  <2> DEFINE i == FirstOnAir(s, t)
  <2>1. i \in 1 .. Len(s) /\ OnAir(s[i], t)
    BY <1>2, OnAirFacts
  <2>2. i # 0
    BY <1>1, <2>1
  <2>3. Frame(s, t) = FrameOf(s[i], t)
    BY <2>2 DEF Frame, FrameOf
  <2> HIDE DEF i
  <2>4. s[i] \in EntryType /\ s[i] \in Elements(s)
    BY <1>1, <2>1 DEF Elements
  <2>5. Frame(s, t) \in Clips \X Int
    BY <2>3, <2>4 DEF FrameOf, EntryType
  <2>6. ASSUME NEW f PROVE Frame(s, t) = f <=> Shown(Elements(s), t, f)
    <3>1. \A e \in Elements(s) : OnAir(e, t) => e = s[i]
      BY <2>1, <2>4, OnAirAlone
    <3> QED BY <2>1, <2>3, <2>4, <3>1 DEF Shown
  <2> QED BY <2>5, <2>6
<1>3. CASE ~ \E i \in DOMAIN s : OnAir(s[i], t)
  <2>1. FirstOnAir(s, t) = 0
    BY <1>3 DEF FirstOnAir
  <2>2. Frame(s, t) = <<NoClip, 0>>
    BY <2>1 DEF Frame
  <2>3. NoClip \in Clips /\ NoClip \notin DOMAIN FilmLen
    BY RequestsAssumption
  <2>4. \A f : ~Shown(Elements(s), t, f)
    BY <1>1, <1>3 DEF Shown, Elements
  <2> QED BY <2>2, <2>3, <2>4 DEF OfFilm
<1> QED BY <1>2, <1>3

\* What the part of an entry before second at shows.
LEMMA HeadShows ==
    ASSUME NEW e \in EntryType, NEW at \in Nat, NEW t \in Int
    PROVE  /\ OnAir(HeadOf(e, at), t) <=> e.start <= t /\ t < at
           /\ FrameOf(HeadOf(e, at), t) = FrameOf(e, t)
<1>1. e.start \in Nat /\ e.dur \in Nat
  BY EntryFields
<1>2. /\ HeadOf(e, at).start = e.start /\ HeadOf(e, at).dur = at - e.start
      /\ HeadOf(e, at).clip = e.clip /\ HeadOf(e, at).off = e.off
  BY DEF HeadOf, EntryType
<1> QED BY <1>1, <1>2 DEF OnAir, EndOf, FrameOf

\* What the part from second at on shows, d seconds later.
LEMMA TailShows ==
    ASSUME NEW e \in EntryType, NEW at \in Nat, NEW d \in Nat, NEW t \in Int
    PROVE  /\ OnAir(TailOf(e, at, d), t) <=> at + d <= t /\ t < EndOf(e) + d
           /\ FrameOf(TailOf(e, at, d), t) = FrameOf(e, t - d)
<1>1. e.start \in Nat /\ e.dur \in Nat /\ e.off \in Nat /\ EndOf(e) = e.start + e.dur
  BY EntryFields
<1>2. /\ TailOf(e, at, d).start = at + d /\ TailOf(e, at, d).dur = EndOf(e) - at
      /\ TailOf(e, at, d).clip = e.clip /\ TailOf(e, at, d).off = e.off + (at - e.start)
  <2> DEFINE u == at + d
             v == EndOf(e) - at
             w == e.off + (at - e.start)
  <2>1. u \in Int /\ v \in Int /\ w \in Int
    BY <1>1
  <2>2. TailOf(e, at, d) = [e EXCEPT !.start = u, !.dur = v, !.off = w]
    BY DEF TailOf
  <2> HIDE DEF u, v, w
  <2>3. TailOf(e, at, d) = [type |-> e.type, clip |-> e.clip, start |-> u, dur |-> v, off |-> w]
    BY <2>1, <2>2, ThreeFields
  <2> QED BY <2>3 DEF u, v, w
<1>3. EndOf(TailOf(e, at, d)) = EndOf(e) + d
  BY <1>1, <1>2 DEF EndOf
<1>4. OnAir(TailOf(e, at, d), t) <=> at + d <= t /\ t < EndOf(e) + d
  BY <1>2, <1>3 DEF OnAir
<1>5. e.off + (at - e.start) + t - (at + d) = e.off + (t - d) - e.start
  BY <1>1
<1> QED BY <1>2, <1>4, <1>5 DEF FrameOf

\* What an entry shows that is put elsewhere.
LEMMA MovedShows ==
    ASSUME NEW e \in EntryType, NEW d \in Int, NEW m, m = [e EXCEPT !.start = e.start + d], NEW t \in Int
    PROVE  /\ OnAir(m, t) <=> e.start + d <= t /\ t < EndOf(e) + d
           /\ FrameOf(m, t) = FrameOf(e, t - d)
<1>1. e.start \in Nat /\ e.dur \in Nat /\ e.off \in Nat /\ EndOf(e) = e.start + e.dur
  BY EntryFields
<1>2. m.start = e.start + d /\ m.dur = e.dur /\ m.clip = e.clip /\ m.off = e.off
  BY DEF EntryType
<1>3. e.off + t - (e.start + d) = e.off + (t - d) - e.start
  BY <1>1
<1> QED BY <1>1, <1>2, <1>3 DEF OnAir, EndOf, FrameOf

-----------------------------------------------------------------------------
(* What is in the table after an edit *)

\* The entries that an edit leaves alone are those that are over at at.
LEMMA KeptEntries ==
    ASSUME Timetable(table), NEW at \in Nat, NEW ed, CoversRest(ed),
           ed.from = at \/ \E m \in Elements(table) : OnAir(m, at) /\ ed.from = m.start
    PROVE  {e \in Elements(table) : ~(ed.from <= e.start /\ e.start < ed.to)} = {e \in Elements(table) : EndOf(e) <= at}
<1> DEFINE es == Elements(table)
<1>1. \A e \in es : e.start \in Nat /\ EndOf(e) \in Nat /\ e.start < EndOf(e)
  BY TimetableApart, EntryFields
<1>2. \A e, f \in es : e = f \/ EndOf(e) <= f.start \/ EndOf(f) <= e.start
  BY TimetableApart DEF Apart
<1>3. ed.from \in Nat /\ ed.to \in Int /\ \A e \in es : EndOf(e) <= ed.from \/ (ed.from <= e.start /\ e.start < ed.to)
  BY DEF CoversRest
<1> HIDE DEF es
<1>4. CASE ed.from = at
  BY <1>1, <1>3, <1>4 DEF es
<1>5. ASSUME NEW m \in es, OnAir(m, at), ed.from = m.start
      PROVE  \A e \in es : ~(ed.from <= e.start /\ e.start < ed.to) <=> EndOf(e) <= at
  <2>1. m.start \in Nat /\ EndOf(m) \in Nat /\ m.start <= at /\ at < EndOf(m)
    BY <1>1, <1>5 DEF OnAir
  <2> SUFFICES ASSUME NEW e \in es PROVE ~(ed.from <= e.start /\ e.start < ed.to) <=> EndOf(e) <= at
    OBVIOUS
  <2>2. /\ e.start \in Nat /\ EndOf(e) \in Nat /\ e.start < EndOf(e)
        /\ e = m \/ EndOf(e) <= m.start \/ EndOf(m) <= e.start
        /\ EndOf(e) <= ed.from \/ (ed.from <= e.start /\ e.start < ed.to)
    BY <1>1, <1>2, <1>3
  <2>3. CASE EndOf(e) <= ed.from
    BY <1>3, <1>5, <2>1, <2>2, <2>3
  <2>4. CASE ed.from <= e.start /\ e.start < ed.to
    <3>1. e # m => EndOf(m) <= e.start
      BY <1>5, <2>1, <2>2, <2>4
    <3> QED BY <1>5, <2>1, <2>2, <2>4, <3>1
  <2> QED BY <2>2, <2>3, <2>4
<1> QED BY <1>4, <1>5 DEF es

LEMMA ElementsConcat ==
    ASSUME NEW T, NEW U, NEW s \in Seq(T), NEW t \in Seq(U)
    PROVE  Elements(s \o t) = Elements(s) \cup Elements(t)
<1> DEFINE k == Len(s)
           l == Len(t)
           u == s \o t
<1>1. k \in Nat /\ l \in Nat /\ s \in Seq(T \cup U) /\ t \in Seq(T \cup U)
  OBVIOUS
<1>2. /\ u \in Seq(T \cup U) /\ Len(u) = k + l
      /\ \A n \in 1 .. k + l : u[n] = IF n <= k THEN s[n] ELSE t[n - k]
  BY <1>1
<1> HIDE DEF k, l, u
<1>3. Elements(u) \subseteq Elements(s) \cup Elements(t)
  <2> SUFFICES ASSUME NEW n \in 1 .. k + l PROVE u[n] \in Elements(s) \cup Elements(t)
    BY <1>2 DEF Elements
  <2>1. CASE n <= k
    <3>1. n \in 1 .. k /\ u[n] = s[n]
      BY <1>1, <1>2, <2>1
    <3> QED BY <3>1 DEF Elements, k
  <2>2. CASE ~(n <= k)
    <3>1. n - k \in 1 .. l /\ u[n] = t[n - k]
      BY <1>1, <1>2, <2>2
    <3> QED BY <3>1 DEF Elements, l
  <2> QED BY <2>1, <2>2
<1>4. ASSUME NEW n \in 1 .. k PROVE s[n] \in Elements(u)
  <2>1. n \in 1 .. k + l /\ u[n] = s[n]
    BY <1>1, <1>2
  <2> QED BY <1>2, <2>1 DEF Elements
<1>5. ASSUME NEW n \in 1 .. l PROVE t[n] \in Elements(u)
  <2>1. k + n \in 1 .. k + l /\ ~(k + n <= k) /\ (k + n) - k = n
    BY <1>1
  <2>2. u[k + n] = t[n]
    BY <1>2, <2>1
  <2> QED BY <1>2, <2>1, <2>2 DEF Elements
<1> QED BY <1>2, <1>3, <1>4, <1>5 DEF Elements, k, l, u

LEMMA ThreeElements ==
    ASSUME NEW T, NEW U, NEW s \in Seq(T), NEW t \in Seq(U), NEW x
    PROVE  Elements(s \o <<x>> \o t) = Elements(s) \cup {x} \cup Elements(t)
<1>1. ASSUME NEW a \in Seq({x}), Elements(a) = {x}
      PROVE  Elements(s \o a \o t) = Elements(s) \cup {x} \cup Elements(t)
  <2>1. Elements(s \o a) = Elements(s) \cup Elements(a)
    BY ElementsConcat
  <2>2. ASSUME NEW b \in Seq(T \cup {x}) PROVE Elements(b \o t) = Elements(b) \cup Elements(t)
    BY ElementsConcat
  <2>3. s \o a \in Seq(T \cup {x})
    OBVIOUS
  <2> QED BY <1>1, <2>1, <2>2, <2>3
<1>2. <<x>> \in Seq({x}) /\ Elements(<<x>>) = {x}
  BY DEF Elements
<1> QED BY <1>1, <1>2, Zenon

\* x is in the window of InsertShift: a part of what is cut, the new entry, or what is live behind it
InsertHas(L, at, ins, x) ==
    \/ \E e \in L : e.start < at /\ x \in {HeadOf(e, at), TailOf(e, at, ins.dur)}
    \/ x = [ins EXCEPT !.start = at]
    \/ \E e \in L : ~(e.start < at) /\ x = [e EXCEPT !.start = @ + ins.dur]

\* x is in the window of Skip: the head of what is cut, one of the entries behind it that move, or one that does not
SkipHas(L, cur, K, at, x) ==
    \/ at > cur.start /\ x = HeadOf(cur, at)
    \/ \E e \in K : x = [e EXCEPT !.start = @ - (EndOf(cur) - at)]
    \/ x \in L \ {cur} /\ x \notin K

\* ed is the window that Skip makes when cur is on the air and the entries K behind it move
SkipMakes(ed, L, cur, K, at) ==
    /\ OnAir(cur, at) /\ ed.from = cur.start
    /\ \A x : x \in Elements(ed.entries) <=> SkipHas(L, cur, K, at, x)

LEMMA InsertParts ==
    ASSUME Timetable(table), NEW at \in Nat, NEW ins \in EntryType,
           NEW ed, ed = InsertShift(Existing(at), at, ins),
           NEW L, L = {e \in Elements(table) : EndOf(e) > at}
    PROVE  /\ ed.from = at \/ \E m \in Elements(table) : OnAir(m, at) /\ ed.from = m.start
           /\ \A x : x \in Elements(ed.entries) <=> InsertHas(L, at, ins, x)
<1> DEFINE existing == Existing(at)
           live == Filter(existing, {e \in ToSet(existing) : EndOf(e) > at})
           cut == Filter(live, {e \in ToSet(live) : e.start < at})
           heads == [i \in DOMAIN cut |-> HeadOf(cut[i], at)]
           after == [i \in DOMAIN live |-> IF live[i].start < at THEN TailOf(live[i], at, ins.dur)
                                           ELSE [live[i] EXCEPT !.start = @ + ins.dur]]
           first == [ins EXCEPT !.start = at]
           C == {e \in L : e.start < at}
<1>1. /\ ed.from = IF cut = <<>> THEN at ELSE Last(cut).start
      /\ ed.entries = heads \o <<first>> \o after
  BY DEF InsertShift
<1>2. Timetable(existing) /\ Elements(existing) = L
  BY ExistingFacts
<1>3. Timetable(live) /\ Elements(live) = L
  <2> HIDE DEF existing
  <2>1. ToSet(existing) = L
    BY <1>2, ElementsAre DEF Timetable
  <2>2. L \cap {e \in ToSet(existing) : EndOf(e) > at} = L
    BY <2>1
  <2> QED BY <1>2, <2>2, TimetableFilter
<1> HIDE DEF existing
<1>4. Timetable(cut) /\ Elements(cut) = C
  <2> HIDE DEF live
  <2>1. ToSet(live) = L
    BY <1>3, ElementsAre DEF Timetable
  <2>2. L \cap {e \in ToSet(live) : e.start < at} = C
    BY <2>1
  <2> QED BY <1>3, <2>2, TimetableFilter
<1> HIDE DEF live, cut
<1>5. /\ live \in Seq(EntryType) /\ cut \in Seq(EntryType) /\ DOMAIN live = 1 .. Len(live) /\ DOMAIN cut = 1 .. Len(cut)
      /\ Len(live) \in Nat /\ Len(cut) \in Nat
  BY <1>3, <1>4 DEF Timetable
<1>6. heads \in Seq({heads[i] : i \in DOMAIN cut}) /\ Len(heads) = Len(cut)
  <2> DEFINE H == {heads[i] : i \in DOMAIN cut}
  <2>1. heads \in [1 .. Len(cut) -> H]
    BY <1>5
  <2> HIDE DEF heads, H
  <2>2. heads \in Seq(H)
    BY <1>5, <2>1, SeqDef
  <2> QED BY <1>5, <2>1, <2>2 DEF H
<1>7. after \in Seq({after[i] : i \in DOMAIN live}) /\ Len(after) = Len(live)
  <2> DEFINE A == {after[i] : i \in DOMAIN live}
  <2>1. after \in [1 .. Len(live) -> A]
    BY <1>5
  <2> HIDE DEF after, A
  <2>2. after \in Seq(A)
    BY <1>5, <2>1, SeqDef
  <2> QED BY <1>5, <2>1, <2>2 DEF A
<1>8. \A x : x \in Elements(heads) <=> \E e \in L : e.start < at /\ x = HeadOf(e, at)
  <2>1. \A i \in 1 .. Len(cut) : heads[i] = HeadOf(cut[i], at)
    BY <1>5, Zenon
  <2>2. \A e : (\E i \in 1 .. Len(cut) : e = cut[i]) <=> e \in L /\ e.start < at
    BY <1>4 DEF Elements
  <2> HIDE DEF heads
  <2>3. \A x : x \in Elements(heads) <=> \E i \in 1 .. Len(cut) : x = heads[i]
    BY <1>6 DEF Elements
  <2>4. ASSUME NEW i \in 1 .. Len(cut) PROVE \E e \in L : e.start < at /\ heads[i] = HeadOf(e, at)
    BY <2>1, <2>2, Zenon
  <2>5. ASSUME NEW e \in L, e.start < at PROVE \E i \in 1 .. Len(cut) : HeadOf(e, at) = heads[i]
    BY <2>1, <2>2, <2>5, Zenon
  <2>6. ASSUME NEW x, \E i \in 1 .. Len(cut) : x = heads[i] PROVE \E e \in L : e.start < at /\ x = HeadOf(e, at)
    BY <2>4, <2>6
  <2> QED BY <2>3, <2>5, <2>6
<1>9. \A x : x \in Elements(after) <=>
                 \/ \E e \in L : e.start < at /\ x = TailOf(e, at, ins.dur)
                 \/ \E e \in L : ~(e.start < at) /\ x = [e EXCEPT !.start = @ + ins.dur]
  <2> DEFINE Later(e) == IF e.start < at THEN TailOf(e, at, ins.dur) ELSE [e EXCEPT !.start = @ + ins.dur]
  <2>1. \A i \in 1 .. Len(live) : after[i] = Later(live[i])
    BY <1>5, Zenon
  <2>2. \A e : (\E i \in 1 .. Len(live) : e = live[i]) <=> e \in L
    BY <1>3 DEF Elements
  <2>3. \A e : /\ e.start < at => Later(e) = TailOf(e, at, ins.dur)
               /\ ~(e.start < at) => Later(e) = [e EXCEPT !.start = @ + ins.dur]
    BY Zenon
  <2> HIDE DEF after, Later
  <2>4. \A x : x \in Elements(after) <=> \E i \in 1 .. Len(live) : x = after[i]
    BY <1>7 DEF Elements
  <2>5. \A x : x \in Elements(after) <=> \E e \in L : x = Later(e)
    <3>1. ASSUME NEW i \in 1 .. Len(live) PROVE \E e \in L : after[i] = Later(e)
      BY <2>1, <2>2, Zenon
    <3>2. ASSUME NEW e \in L PROVE \E i \in 1 .. Len(live) : Later(e) = after[i]
      BY <2>1, <2>2, Zenon
    <3>3. ASSUME NEW x, \E i \in 1 .. Len(live) : x = after[i] PROVE \E e \in L : x = Later(e)
      BY <3>1, <3>3
    <3> QED BY <2>4, <3>2, <3>3
  <2> SUFFICES ASSUME NEW x
               PROVE  (\E e \in L : x = Later(e)) <=>
                         \/ \E e \in L : e.start < at /\ x = TailOf(e, at, ins.dur)
                         \/ \E e \in L : ~(e.start < at) /\ x = [e EXCEPT !.start = @ + ins.dur]
    BY <2>5, Zenon
  <2>6. \A e \in L : x = Later(e) <=>
                         \/ e.start < at /\ x = TailOf(e, at, ins.dur)
                         \/ ~(e.start < at) /\ x = [e EXCEPT !.start = @ + ins.dur]
    BY <2>3, Zenon
  <2> QED BY <2>6, Zenon
<1> HIDE DEF heads, after, first
<1>10. Elements(ed.entries) = Elements(heads) \cup {first} \cup Elements(after)
  BY <1>1, <1>6, <1>7, ThreeElements
<1>11. ed.from = at \/ \E m \in Elements(table) : OnAir(m, at) /\ ed.from = m.start
  <2>1. CASE cut = <<>>
    BY <1>1, <2>1
  <2>2. CASE cut # <<>>
    <3>1. Len(cut) \in 1 .. Len(cut)
      BY <1>5, <2>2
    <3>2. Last(cut) \in C
      BY <1>4, <3>1 DEF Last, Elements
    <3>3. Last(cut).start \in Nat
      BY <3>2, TimetableApart, EntryFields
    <3> QED BY <1>1, <2>2, <3>2, <3>3 DEF OnAir
  <2> QED BY <2>1, <2>2
<1>12. \A x : x \in Elements(ed.entries) <=> x \in Elements(heads) \/ x = first \/ x \in Elements(after)
  BY <1>10
<1> HIDE DEF C
<1>13. \A x : x \in Elements(ed.entries) <=>
                 \/ \E e \in L : e.start < at /\ x \in {HeadOf(e, at), TailOf(e, at, ins.dur)}
                 \/ x = [ins EXCEPT !.start = at]
                 \/ \E e \in L : ~(e.start < at) /\ x = [e EXCEPT !.start = @ + ins.dur]
  BY <1>8, <1>9, <1>12, Zenon DEF first
<1> QED BY <1>11, <1>13, Zenon DEF InsertHas

LEMMA SkipParts ==
    ASSUME Timetable(table), NEW at \in Nat, \E i \in DOMAIN Existing(at) : OnAir(Existing(at)[i], at),
           NEW ed, ed = Skip(Existing(at), at),
           NEW L, L = {e \in Elements(table) : EndOf(e) > at}
    PROVE  \E cur \in L : \E K \in SUBSET (L \ {cur}) : SkipMakes(ed, L, cur, K, at)
<1> DEFINE s == Existing(at)
           idx == FirstOnAir(s, at)
           n == Len(s)
           cur == s[idx]
           rest == SubSeq(s, idx + 1, n)
           Sooner(e) == [e EXCEPT !.start = @ - (EndOf(cur) - at)]
           moved == [i \in DOMAIN rest |-> IF Chained(s, idx, idx + i) THEN [rest[i] EXCEPT !.start = @ - (EndOf(cur) - at)]
                                           ELSE rest[i]]
           head == IF at > cur.start THEN <<HeadOf(cur, at)>> ELSE <<>>
           K == {s[k] : k \in {j \in idx + 1 .. n : Chained(s, idx, j)}}
<1>1. ed.from = cur.start /\ ed.entries = head \o moved
  BY DEF Skip
<1>2. Timetable(s) /\ Elements(s) = L
  BY ExistingFacts
<1>3. idx \in 1 .. n /\ OnAir(cur, at)
  BY <1>2, OnAirFacts
<1> HIDE DEF s, idx
<1>4. /\ s \in Seq(EntryType) /\ n \in Nat /\ (\A i \in 1 .. n : s[i] \in EntryType /\ s[i] \in L)
      /\ \A i, j \in 1 .. n : i < j => EndOf(s[i]) <= s[j].start
      /\ \A e \in L : \E i \in 1 .. n : e = s[i]
  BY <1>2 DEF Timetable, Elements
<1>5. cur \in EntryType /\ cur \in L /\ cur.start \in Nat /\ EndOf(cur) \in Nat /\ cur.start <= at /\ at < EndOf(cur)
  BY <1>3, <1>4, EntryFields DEF OnAir
<1> HIDE DEF n
<1>6. /\ rest \in Seq(EntryType) /\ Len(rest) = n - idx /\ DOMAIN rest = 1 .. n - idx
      /\ \A i \in 1 .. n - idx : rest[i] = s[idx + i]
  BY <1>3, <1>4
<1> HIDE DEF rest
<1>7. ASSUME NEW k \in 1 .. n, k < idx PROVE FALSE
  <2>1. EndOf(s[k]) <= cur.start /\ s[k] \in L /\ s[k] \in EntryType
    BY <1>3, <1>4, <1>7
  <2>2. EndOf(s[k]) \in Nat /\ EndOf(s[k]) > at
    BY <2>1, EntryFields
  <2> QED BY <1>5, <2>1, <2>2
<1>8. \A i, j \in 1 .. n : s[i] = s[j] => i = j
  <2> SUFFICES ASSUME NEW i \in 1 .. n, NEW j \in 1 .. n, i < j PROVE s[i] # s[j]
    BY <1>4
  <2>1. EndOf(s[i]) <= s[j].start /\ s[i] \in L /\ s[i] \in EntryType
    BY <1>4
  <2>2. s[i].start < EndOf(s[i]) /\ s[i].start \in Nat /\ EndOf(s[i]) \in Nat
    BY <2>1, TimetableApart, EntryFields
  <2>3. s[j].start \in Nat
    BY <1>4, EntryFields
  <2> QED BY <2>1, <2>2, <2>3
<1>9. \A k \in 1 .. n : k = idx \/ k \in idx + 1 .. n
  BY <1>3, <1>4, <1>7
<1>10. \A x : x \in L \ {cur} <=> \E k \in idx + 1 .. n : x = s[k]
  <2>1. ASSUME NEW k \in idx + 1 .. n PROVE s[k] \in L /\ s[k] # cur
    <3>1. k \in 1 .. n /\ k # idx
      BY <1>3, <1>4
    <3> QED BY <1>3, <1>4, <1>8, <3>1
  <2>2. ASSUME NEW x \in L, x # cur PROVE \E k \in idx + 1 .. n : x = s[k]
    BY <1>4, <1>9, <2>2
  <2> QED BY <2>1, <2>2
<1> HIDE DEF cur
<1>11. K \in SUBSET (L \ {cur}) /\ \A k \in idx + 1 .. n : s[k] \in K <=> Chained(s, idx, k)
  <2>1. K \subseteq L \ {cur}
    BY <1>10
  <2>2. ASSUME NEW k \in idx + 1 .. n, s[k] \in K PROVE Chained(s, idx, k)
    <3>1. PICK j \in idx + 1 .. n : s[k] = s[j] /\ Chained(s, idx, j)
      BY <2>2
    <3>2. j \in 1 .. n /\ k \in 1 .. n
      BY <1>3, <1>4
    <3> QED BY <1>8, <3>1, <3>2
  <2> QED BY <2>1, <2>2
<1>12. moved \in Seq({moved[i] : i \in DOMAIN rest}) /\ Len(moved) = n - idx
  <2> DEFINE A == {moved[i] : i \in DOMAIN rest}
  <2>0. n - idx \in Nat
    BY <1>3, <1>4
  <2>1. moved \in [1 .. n - idx -> A]
    BY <1>6
  <2> HIDE DEF moved, A
  <2>2. moved \in Seq(A)
    BY <2>0, <2>1, SeqDef
  <2> QED BY <2>0, <2>1, <2>2 DEF A
<1>13. \A i \in 1 .. n - idx : moved[i] = IF s[idx + i] \in K THEN Sooner(s[idx + i]) ELSE s[idx + i]
  <2> SUFFICES ASSUME NEW i \in 1 .. n - idx
               PROVE  moved[i] = IF s[idx + i] \in K THEN Sooner(s[idx + i]) ELSE s[idx + i]
    OBVIOUS
  <2>1. moved[i] = IF Chained(s, idx, idx + i) THEN [rest[i] EXCEPT !.start = @ - (EndOf(cur) - at)] ELSE rest[i]
    BY <1>6, Zenon
  <2>2. idx + i \in idx + 1 .. n /\ rest[i] = s[idx + i]
    BY <1>3, <1>4, <1>6
  <2>3. s[idx + i] \in K <=> Chained(s, idx, idx + i)
    BY <1>11, <2>2
  <2> HIDE DEF moved, K
  <2> QED BY <2>1, <2>2, <2>3, Zenon
<1> HIDE DEF K, moved, Sooner
<1>14. \A x : x \in Elements(moved) <=>
                    \/ \E e \in K : x = Sooner(e)
                    \/ x \in L \ {cur} /\ x \notin K
  <2>1. \A x : x \in Elements(moved) <=> \E i \in 1 .. n - idx : x = moved[i]
    BY <1>12 DEF Elements
  <2>2. ASSUME NEW i \in 1 .. n - idx
        PROVE  \/ \E e \in K : moved[i] = Sooner(e)
               \/ moved[i] \in L \ {cur} /\ moved[i] \notin K
    <3>1. idx + i \in idx + 1 .. n
      BY <1>3, <1>4
    <3>2. s[idx + i] \in L \ {cur}
      BY <1>10, <3>1
    <3> QED BY <1>13, <3>2
  <2>3. ASSUME NEW e \in L \ {cur}
        PROVE  \E i \in 1 .. n - idx : moved[i] = IF e \in K THEN Sooner(e) ELSE e
    <3>1. PICK k \in idx + 1 .. n : e = s[k]
      BY <1>10
    <3>2. k - idx \in 1 .. n - idx /\ idx + (k - idx) = k
      BY <1>3, <1>4
    <3> QED BY <1>13, <3>1, <3>2
  <2>4. ASSUME NEW e \in K PROVE \E i \in 1 .. n - idx : moved[i] = Sooner(e)
    <3>1. e \in L \ {cur}
      BY <1>11
    <3> QED BY <2>3, <3>1
  <2>5. ASSUME NEW e \in L \ {cur}, e \notin K PROVE \E i \in 1 .. n - idx : moved[i] = e
    BY <2>3, <2>5
  <2> QED BY <2>1, <2>2, <2>4, <2>5
<1>15. head \in Seq({HeadOf(cur, at)}) /\ \A x : x \in Elements(head) <=> at > cur.start /\ x = HeadOf(cur, at)
  <2> DEFINE h == HeadOf(cur, at)
  <2> HIDE DEF h
  <2>1. <<h>> \in Seq({h}) /\ Elements(<<h>>) = {h}
    BY DEF Elements
  <2>2. <<>> \in Seq({h}) /\ Elements(<<>>) = {}
    BY DEF Elements
  <2>3. (IF at > cur.start THEN <<h>> ELSE <<>>) \in Seq({h})
    BY <2>1, <2>2
  <2>4. \A x : x \in Elements(IF at > cur.start THEN <<h>> ELSE <<>>) <=> at > cur.start /\ x = h
    BY <2>1, <2>2
  <2> QED BY <2>3, <2>4 DEF h
<1> HIDE DEF head
<1>16. Elements(ed.entries) = Elements(head) \cup Elements(moved)
  BY <1>1, <1>12, <1>15, ElementsConcat
<1>17. \A x : x \in Elements(ed.entries) <=>
                    \/ at > cur.start /\ x = HeadOf(cur, at)
                    \/ \E e \in K : x = Sooner(e)
                    \/ x \in L \ {cur} /\ x \notin K
  BY <1>14, <1>15, <1>16
<1>18. \A x : x \in Elements(ed.entries) <=> SkipHas(L, cur, K, at, x)
  BY <1>17, Zenon DEF Sooner, SkipHas
<1>19. SkipMakes(ed, L, cur, K, at)
  BY <1>1, <1>3, <1>18, Zenon DEF cur, SkipMakes
<1> QED BY <1>5, <1>11, <1>19, Zenon

-----------------------------------------------------------------------------
(* What the table shows after an edit *)

\* each second of a film that S shows from second at on it shows at one second
ShowsOnce(S, at) ==
    \A s, t \in Nat : \A f :
        s >= at /\ t >= at /\ OfFilm(f) /\ Shown(S, s, f) /\ Shown(S, t, f) => s = t

\* new shows what old shows before second at
KeepsBefore(old, new, at) == \A t \in Nat : \A f : t < at => (Shown(new, t, f) <=> Shown(old, t, f))

\* of a film, new shows from second at on what old shows from there on, each second once, but for what is gone
KeepsAfter(old, new, at, gone) ==
    /\ ShowsOnce(new, at)
    /\ \A t \in Nat : \A f : t >= at /\ OfFilm(f) /\ Shown(new, t, f) =>
          f \notin gone /\ \E s \in Nat : s >= at /\ Shown(old, s, f)
    /\ \A t \in Nat : \A f : t >= at /\ OfFilm(f) /\ Shown(old, t, f) =>
          f \in gone \/ \E s \in Nat : s >= at /\ Shown(new, s, f)
    /\ \A f \in gone : OfFilm(f) => \E s \in Nat : s >= at /\ Shown(old, s, f)

\* InsertShift: what is shown from at on is shown later, by the length of what is inserted.
LEMMA InsertMoves ==
    ASSUME Timetable(table), NEW at \in Nat, NEW ins \in EntryType, ins.clip \notin DOMAIN FilmLen,
           NEW S, S = Elements(table), ShowsOnce(S, at), NEW L, L = {e \in S : EndOf(e) > at},
           NEW new, \A x : x \in new <=> (x \in S /\ EndOf(x) <= at) \/ InsertHas(L, at, ins, x)
    PROVE  KeepsBefore(S, new, at) /\ KeepsAfter(S, new, at, {})
<1> DEFINE d == ins.dur
           Part(e, x) == /\ EndOf(e) > at
                         /\ \/ e.start < at /\ x \in {HeadOf(e, at), TailOf(e, at, d)}
                            \/ ~(e.start < at) /\ x = [e EXCEPT !.start = @ + d]
<1>1. d \in Nat
  BY EntryFields
<1>2. \A e \in S : e \in EntryType /\ e.start \in Nat /\ e.dur \in Nat /\ e.off \in Nat /\ EndOf(e) \in Nat
                  /\ EndOf(e) = e.start + e.dur /\ e.start < EndOf(e)
  BY TimetableApart, EntryFields
<1>3. \A e \in S, t \in Int : /\ OnAir(HeadOf(e, at), t) <=> e.start <= t /\ t < at
                              /\ FrameOf(HeadOf(e, at), t) = FrameOf(e, t)
  BY <1>2, HeadShows
<1>4. \A e \in S, t \in Int : /\ OnAir(TailOf(e, at, d), t) <=> at + d <= t /\ t < EndOf(e) + d
                              /\ FrameOf(TailOf(e, at, d), t) = FrameOf(e, t - d)
  BY <1>1, <1>2, TailShows
<1>5. \A e \in S, t \in Int : /\ OnAir([e EXCEPT !.start = @ + d], t) <=> e.start + d <= t /\ t < EndOf(e) + d
                              /\ FrameOf([e EXCEPT !.start = @ + d], t) = FrameOf(e, t - d)
  BY <1>1, <1>2, MovedShows
<1>6. ASSUME NEW t \in Int
      PROVE  /\ OnAir([ins EXCEPT !.start = at], t) => at <= t /\ t < at + d
             /\ ~OfFilm(FrameOf([ins EXCEPT !.start = at], t))
  <2> DEFINE m == [ins EXCEPT !.start = at]
  <2>1. m.start = at /\ m.dur = d /\ m.clip = ins.clip
    BY DEF EntryType
  <2> HIDE DEF m
  <2> QED BY <2>1 DEF OnAir, EndOf, FrameOf, OfFilm, m
<1>7. \A x : x \in new <=>
                 \/ x \in S /\ EndOf(x) <= at
                 \/ x = [ins EXCEPT !.start = at]
                 \/ \E e \in S : Part(e, x)
  BY DEF InsertHas
<1> HIDE DEF d
<1>8. ASSUME NEW t \in Nat, t < at, NEW f PROVE Shown(new, t, f) <=> Shown(S, t, f)
  <2>1. ASSUME NEW x \in new, OnAir(x, t), f = FrameOf(x, t) PROVE Shown(S, t, f)
    <3>1. CASE x \in S
      BY <2>1, <3>1 DEF Shown
    <3>2. CASE x = [ins EXCEPT !.start = at]
      BY <1>6, <1>8, <2>1, <3>2
    <3>3. ASSUME NEW e \in S, Part(e, x) PROVE Shown(S, t, f)
      <4>1. CASE x = HeadOf(e, at)
        <5>1. e.start <= t /\ f = FrameOf(e, t)
          BY <1>3, <2>1, <4>1
        <5>2. OnAir(e, t)
          BY <1>2, <1>8, <3>3, <5>1 DEF OnAir
        <5> QED BY <5>1, <5>2 DEF Shown
      <4>2. CASE x = TailOf(e, at, d)
        BY <1>1, <1>8, <1>4, <2>1, <4>2
      <4>3. CASE ~(e.start < at) /\ x = [e EXCEPT !.start = @ + d]
        BY <1>1, <1>2, <1>8, <1>5, <2>1, <4>3
      <4> QED BY <3>3, <4>1, <4>2, <4>3
    <3> QED BY <1>7, <3>1, <3>2, <3>3
  <2>2. ASSUME NEW e \in S, OnAir(e, t), f = FrameOf(e, t) PROVE Shown(new, t, f)
    <3>1. e.start <= t /\ t < EndOf(e) /\ e.start < at
      BY <1>2, <1>8, <2>2 DEF OnAir
    <3>2. CASE EndOf(e) <= at
      BY <1>7, <2>2, <3>2 DEF Shown
    <3>3. CASE ~(EndOf(e) <= at)
      <4>1. EndOf(e) > at
        BY <1>2, <3>3
      <4>2. HeadOf(e, at) \in new
        BY <1>7, <3>1, <4>1
      <4> QED BY <1>3, <1>8, <2>2, <3>1, <4>2 DEF Shown
    <3> QED BY <3>2, <3>3
  <2> QED BY <2>1, <2>2 DEF Shown
<1>9. ASSUME NEW t \in Nat, t >= at, NEW f, OfFilm(f), Shown(new, t, f) PROVE t - d >= at /\ Shown(S, t - d, f)
  <2>1. PICK x \in new : OnAir(x, t) /\ f = FrameOf(x, t)
    BY <1>9 DEF Shown
  <2>2. ~(x \in S /\ EndOf(x) <= at)
    BY <1>2, <1>9, <2>1 DEF OnAir
  <2>3. x # [ins EXCEPT !.start = at]
    BY <1>6, <1>9, <2>1
  <2>4. PICK e \in S : Part(e, x)
    BY <1>7, <2>2, <2>3
  <2>5. CASE x = HeadOf(e, at)
    BY <1>3, <1>9, <2>1, <2>5
  <2>6. CASE x = TailOf(e, at, d) /\ e.start < at
    <3>1. at + d <= t /\ t < EndOf(e) + d /\ f = FrameOf(e, t - d)
      BY <1>4, <2>1, <2>6
    <3>2. at <= t - d /\ OnAir(e, t - d)
      BY <1>1, <1>2, <2>6, <3>1 DEF OnAir
    <3> QED BY <3>1, <3>2 DEF Shown
  <2>7. CASE x = [e EXCEPT !.start = @ + d] /\ ~(e.start < at)
    <3>1. e.start + d <= t /\ t < EndOf(e) + d /\ f = FrameOf(e, t - d)
      BY <1>5, <2>1, <2>7
    <3>2. at <= t - d /\ OnAir(e, t - d)
      BY <1>1, <1>2, <2>7, <3>1 DEF OnAir
    <3> QED BY <3>1, <3>2 DEF Shown
  <2> QED BY <2>4, <2>5, <2>6, <2>7
<1>10. ASSUME NEW t \in Nat, t >= at, NEW f, Shown(S, t, f) PROVE t + d \in Nat /\ t + d >= at /\ Shown(new, t + d, f)
  <2>1. PICK e \in S : OnAir(e, t) /\ f = FrameOf(e, t)
    BY <1>10 DEF Shown
  <2>2. e.start <= t /\ t < EndOf(e) /\ EndOf(e) > at
    BY <1>2, <1>10, <2>1 DEF OnAir
  <2>3. t + d \in Nat /\ t + d >= at /\ (t + d) - d = t
    BY <1>1, <1>10
  <2>4. CASE e.start < at
    <3>1. TailOf(e, at, d) \in new
      BY <1>7, <2>2, <2>4
    <3>2. OnAir(TailOf(e, at, d), t + d) /\ FrameOf(TailOf(e, at, d), t + d) = f
      BY <1>1, <1>2, <1>10, <1>4, <2>1, <2>2, <2>3
    <3> QED BY <2>3, <3>1, <3>2 DEF Shown
  <2>5. CASE ~(e.start < at)
    <3>1. [e EXCEPT !.start = @ + d] \in new
      BY <1>7, <2>2, <2>5
    <3>2. OnAir([e EXCEPT !.start = @ + d], t + d) /\ FrameOf([e EXCEPT !.start = @ + d], t + d) = f
      BY <1>1, <1>2, <1>5, <2>1, <2>2, <2>3
    <3> QED BY <2>3, <3>1, <3>2 DEF Shown
  <2> QED BY <2>4, <2>5
<1>11. ShowsOnce(new, at)
  <2> SUFFICES ASSUME NEW s \in Nat, NEW t \in Nat, NEW f, s >= at, t >= at, OfFilm(f), Shown(new, s, f), Shown(new, t, f)
               PROVE  s = t
    BY DEF ShowsOnce
  <2>1. s - d >= at /\ Shown(S, s - d, f) /\ t - d >= at /\ Shown(S, t - d, f) /\ s - d \in Nat /\ t - d \in Nat
    BY <1>1, <1>9
  <2>2. s - d = t - d
    BY <2>1 DEF ShowsOnce
  <2> QED BY <1>1, <2>2
<1>12. ASSUME NEW t \in Nat, NEW f, t >= at, OfFilm(f), Shown(new, t, f) PROVE \E s \in Nat : s >= at /\ Shown(S, s, f)
  <2>1. t - d >= at /\ Shown(S, t - d, f) /\ t - d \in Nat
    BY <1>1, <1>9, <1>12
  <2> QED BY <2>1
<1>13. ASSUME NEW t \in Nat, NEW f, t >= at, Shown(S, t, f) PROVE \E s \in Nat : s >= at /\ Shown(new, s, f)
  BY <1>10, <1>13
<1> QED BY <1>8, <1>11, <1>12, <1>13 DEF KeepsBefore, KeepsAfter

\* Skip: what is behind the entry on the air is shown sooner or when it was, and the rest of that entry not at all.
LEMMA SkipMoves ==
    ASSUME Timetable(table), NEW at \in Nat, NEW S, S = Elements(table), ShowsOnce(S, at),
           NEW L, L = {e \in S : EndOf(e) > at}, NEW cur \in L, OnAir(cur, at), NEW K \in SUBSET (L \ {cur}),
           NEW new, \A x : x \in new <=> (x \in S /\ EndOf(x) <= at) \/ SkipHas(L, cur, K, at, x),
           NEW gone, \A f : f \in gone <=> \E t \in Nat : t >= at /\ OnAir(cur, t) /\ f = FrameOf(cur, t)
    PROVE  KeepsBefore(S, new, at) /\ KeepsAfter(S, new, at, gone)
<1> DEFINE d == at - EndOf(cur)
           Sooner(e) == [e EXCEPT !.start = @ - (EndOf(cur) - at)]
           Second(e, t) == IF e \in K THEN t - d ELSE t
<1>1. \A e \in S : e \in EntryType /\ e.start \in Nat /\ e.dur \in Nat /\ e.off \in Nat /\ EndOf(e) \in Nat /\ e.start < EndOf(e)
  BY TimetableApart, EntryFields
<1>2. cur \in S /\ cur.start <= at /\ at < EndOf(cur) /\ d \in Int /\ d < 0 /\ d = at - EndOf(cur)
  BY <1>1 DEF OnAir
<1>3. \A e \in L \ {cur} : EndOf(cur) <= e.start
  <2> SUFFICES ASSUME NEW e \in L \ {cur} PROVE EndOf(cur) <= e.start
    OBVIOUS
  <2>1. e \in S /\ e # cur /\ EndOf(e) > at /\ EndOf(e) \in Nat
    BY <1>1
  <2>2. EndOf(e) <= cur.start \/ EndOf(cur) <= e.start
    BY <1>2, <2>1, TimetableApart DEF Apart
  <2> QED BY <1>1, <1>2, <2>1, <2>2
<1>4. \A e \in S, t \in Int : /\ OnAir(Sooner(e), t) <=> e.start + d <= t /\ t < EndOf(e) + d
                              /\ FrameOf(Sooner(e), t) = FrameOf(e, t - d)
  <2> SUFFICES ASSUME NEW e \in S, NEW t \in Int
               PROVE  /\ OnAir(Sooner(e), t) <=> e.start + d <= t /\ t < EndOf(e) + d
                      /\ FrameOf(Sooner(e), t) = FrameOf(e, t - d)
    OBVIOUS
  <2>1. e.start - (EndOf(cur) - at) = e.start + d
    BY <1>1, <1>2
  <2> HIDE DEF d
  <2>2. Sooner(e) = [e EXCEPT !.start = e.start + d]
    BY <2>1
  <2> HIDE DEF Sooner
  <2> QED BY <1>1, <1>2, <2>2, MovedShows
<1>5. \A t \in Int : /\ OnAir(HeadOf(cur, at), t) <=> cur.start <= t /\ t < at
                     /\ FrameOf(HeadOf(cur, at), t) = FrameOf(cur, t)
  BY <1>1, <1>2, HeadShows
<1>6. \A x : x \in new <=>
                 \/ x \in S /\ EndOf(x) <= at
                 \/ at > cur.start /\ x = HeadOf(cur, at)
                 \/ \E e \in K : x = Sooner(e)
                 \/ x \in L \ {cur} /\ x \notin K
  BY DEF SkipHas
<1>7. L \subseteq S /\ K \subseteq L \ {cur} /\ \A e \in S : e \in L <=> EndOf(e) > at
  OBVIOUS
<1> HIDE DEF d, Sooner
<1>8. ASSUME NEW t \in Nat, t < at, NEW f PROVE Shown(new, t, f) <=> Shown(S, t, f)
  <2>1. ASSUME NEW x \in new, OnAir(x, t), f = FrameOf(x, t) PROVE Shown(S, t, f)
    <3>1. CASE x \in S
      BY <2>1, <3>1 DEF Shown
    <3>2. CASE x = HeadOf(cur, at)
      <4>1. cur.start <= t /\ t < at /\ f = FrameOf(cur, t)
        BY <1>5, <2>1, <3>2
      <4>2. OnAir(cur, t)
        BY <1>1, <1>2, <4>1 DEF OnAir
      <4> QED BY <1>2, <4>1, <4>2 DEF Shown
    <3>3. ASSUME NEW e \in K, x = Sooner(e) PROVE FALSE
      <4>1. e \in S /\ EndOf(cur) <= e.start /\ e.start + d <= t
        BY <1>3, <1>4, <1>7, <2>1, <3>3
      <4> QED BY <1>1, <1>2, <1>8, <4>1
    <3> QED BY <1>6, <1>7, <3>1, <3>2, <3>3
  <2>2. ASSUME NEW e \in S, OnAir(e, t), f = FrameOf(e, t) PROVE Shown(new, t, f)
    <3>1. e.start <= t /\ t < EndOf(e)
      BY <2>2 DEF OnAir
    <3>2. CASE EndOf(e) <= at
      BY <1>6, <2>2, <3>2 DEF Shown
    <3>3. CASE ~(EndOf(e) <= at)
      <4>1. e = cur
        <5>1. e \in L
          BY <1>1, <1>7, <3>3
        <5>2. ~(EndOf(cur) <= e.start)
          BY <1>1, <1>2, <1>8, <3>1
        <5> QED BY <1>3, <5>1, <5>2
      <4>2. at > cur.start
        BY <1>1, <1>2, <1>8, <3>1, <4>1
      <4>3. HeadOf(cur, at) \in new
        BY <1>6, <4>2
      <4>4. OnAir(HeadOf(cur, at), t) /\ FrameOf(HeadOf(cur, at), t) = f
        BY <1>5, <1>8, <2>2, <3>1, <4>1
      <4> QED BY <4>3, <4>4 DEF Shown
    <3> QED BY <3>2, <3>3
  <2> QED BY <2>1, <2>2 DEF Shown
<1>9. ASSUME NEW t \in Nat, t >= at, NEW f, Shown(new, t, f)
      PROVE  \E e \in L \ {cur} : /\ OnAir(e, Second(e, t)) /\ f = FrameOf(e, Second(e, t))
                                  /\ Second(e, t) \in Nat /\ Second(e, t) >= at
  <2>1. PICK x \in new : OnAir(x, t) /\ f = FrameOf(x, t)
    BY <1>9 DEF Shown
  <2>2. ~(x \in S /\ EndOf(x) <= at)
    BY <1>1, <1>9, <2>1 DEF OnAir
  <2>3. x # HeadOf(cur, at)
    BY <1>5, <1>9, <2>1
  <2>4. ASSUME NEW e \in K, x = Sooner(e)
        PROVE  OnAir(e, t - d) /\ f = FrameOf(e, t - d) /\ t - d \in Nat /\ t - d >= at
    <3>1. e \in S /\ e.start + d <= t /\ t < EndOf(e) + d /\ f = FrameOf(e, t - d)
      BY <1>4, <1>7, <2>1, <2>4
    <3>2. e.start <= t - d /\ t - d < EndOf(e) /\ t - d \in Nat /\ t - d >= at
      BY <1>1, <1>2, <1>9, <3>1
    <3> QED BY <3>1, <3>2 DEF OnAir
  <2>5. CASE \E e \in K : x = Sooner(e)
    <3>1. PICK e \in K : x = Sooner(e)
      BY <2>5
    <3>2. e \in L \ {cur} /\ Second(e, t) = t - d
      BY <1>7
    <3> QED BY <2>4, <3>1, <3>2
  <2>6. CASE x \in L \ {cur} /\ x \notin K
    <3>1. Second(x, t) = t
      BY <2>6
    <3> QED BY <1>9, <2>1, <2>6, <3>1
  <2> QED BY <1>6, <2>2, <2>3, <2>5, <2>6
<1>10. ASSUME NEW e \in L \ {cur}, NEW t \in Nat, Second(e, t) \in Nat, OnAir(e, Second(e, t)), NEW g \in L, NEW u \in Nat, OnAir(g, u),
              Second(e, t) = u
       PROVE  g = e
  BY <1>7, <1>10, OnAirAlone
<1>11. ShowsOnce(new, at)
  <2> SUFFICES ASSUME NEW s \in Nat, NEW t \in Nat, NEW f, s >= at, t >= at, OfFilm(f), Shown(new, s, f), Shown(new, t, f)
               PROVE  s = t
    BY DEF ShowsOnce
  <2>1. PICK e \in L \ {cur} : /\ OnAir(e, Second(e, s)) /\ f = FrameOf(e, Second(e, s))
                               /\ Second(e, s) \in Nat /\ Second(e, s) >= at
    BY <1>9
  <2>2. PICK g \in L \ {cur} : /\ OnAir(g, Second(g, t)) /\ f = FrameOf(g, Second(g, t))
                               /\ Second(g, t) \in Nat /\ Second(g, t) >= at
    BY <1>9
  <2>3. Second(e, s) = Second(g, t)
    <3> DEFINE u == Second(e, s)
               v == Second(g, t)
    <3>1. u \in Nat /\ v \in Nat /\ u >= at /\ v >= at
      BY <2>1, <2>2
    <3>2. Shown(S, u, f) /\ Shown(S, v, f)
      BY <1>7, <2>1, <2>2 DEF Shown
    <3> HIDE DEF u, v
    <3>3. u = v
      BY <3>1, <3>2 DEF ShowsOnce
    <3> QED BY <3>3 DEF u, v
  <2>4. g = e
    BY <1>10, <2>1, <2>2, <2>3
  <2> QED BY <1>2, <2>3, <2>4
<1>12. ASSUME NEW t \in Nat, NEW f, t >= at, OfFilm(f), Shown(new, t, f)
       PROVE  f \notin gone /\ \E s \in Nat : s >= at /\ Shown(S, s, f)
  <2>1. PICK e \in L \ {cur} : /\ OnAir(e, Second(e, t)) /\ f = FrameOf(e, Second(e, t))
                               /\ Second(e, t) \in Nat /\ Second(e, t) >= at
    BY <1>9, <1>12
  <2> DEFINE u == Second(e, t)
  <2>2. u \in Nat /\ u >= at /\ Shown(S, u, f)
    BY <1>7, <2>1 DEF Shown
  <2>3. ASSUME f \in gone PROVE FALSE
    <3>1. PICK v \in Nat : v >= at /\ OnAir(cur, v) /\ f = FrameOf(cur, v)
      BY <2>3
    <3>2. Shown(S, v, f)
      BY <1>2, <3>1 DEF Shown
    <3> HIDE DEF u
    <3>3. u = v
      BY <1>12, <2>2, <3>1, <3>2 DEF ShowsOnce
    <3>4. cur = e
      BY <1>10, <2>1, <3>1, <3>3 DEF u
    <3> QED BY <3>4
  <2> QED BY <2>2, <2>3
<1>13. ASSUME NEW t \in Nat, NEW f, t >= at, Shown(S, t, f) PROVE f \in gone \/ \E s \in Nat : s >= at /\ Shown(new, s, f)
  <2>1. PICK e \in S : OnAir(e, t) /\ f = FrameOf(e, t)
    BY <1>13 DEF Shown
  <2>2. e.start <= t /\ t < EndOf(e) /\ e \in L
    BY <1>1, <1>7, <1>13, <2>1 DEF OnAir
  <2>3. CASE e = cur
    BY <1>13, <2>1, <2>3
  <2>4. CASE e # cur /\ e \notin K
    <3>1. e \in new
      BY <1>6, <2>2, <2>4
    <3> QED BY <1>13, <2>1, <3>1 DEF Shown
  <2>5. CASE e \in K
    <3>1. EndOf(cur) <= e.start /\ Sooner(e) \in new
      BY <1>3, <1>6, <1>7, <2>5
    <3>2. t + d \in Nat /\ t + d >= at /\ (t + d) - d = t /\ e.start + d <= t + d /\ t + d < EndOf(e) + d
      BY <1>1, <1>2, <2>2, <3>1
    <3>3. OnAir(Sooner(e), t + d) /\ FrameOf(Sooner(e), t + d) = f
      BY <1>4, <2>1, <3>2
    <3> QED BY <3>1, <3>2, <3>3 DEF Shown
  <2> QED BY <2>3, <2>4, <2>5
<1>14. ASSUME NEW f \in gone PROVE \E s \in Nat : s >= at /\ Shown(S, s, f)
  BY <1>2 DEF Shown
<1> HIDE DEF Second
<1> QED BY <1>8, <1>11, <1>12, <1>13, <1>14 DEF KeepsBefore, KeepsAfter

\* a command puts no other showing of a film on the air
InsertsNoFilm == \A w \in Workloads : \A q \in w.requests : q.type # "replace" => q.ins.clip \notin DOMAIN FilmLen

\* What a command does to the table, and what it drops.
LEMMA ApplyShows ==
    ASSUME InsertsNoFilm, Base, Timetable(table), NEW c \in Clients, NEW i \in DOMAIN att[c], Apply(c, i),
           req[c].type # "replace", NEW at \in Nat, at = att[c][i].at, ShowsOnce(Elements(table), at)
    PROVE  /\ KeepsBefore(Elements(table), Elements(table'), at)
           /\ \E gone : dropped' = dropped \cup gone /\ KeepsAfter(Elements(table), Elements(table'), at, gone)
<1> DEFINE q == req[c]
           ed == EditOf(q, at)
           S == Elements(table)
           L == {e \in S : EndOf(e) > at}
           new == Elements(table')
<1>1. q \in load.requests
  BY RequestIsKnown DEF Base
<1>2. /\ ~NothingToDo(q, at) /\ CheckEntries(ed) /\ table' = Replace(table, ed)
      /\ dropped' = dropped \cup (IF q.type \in {"skip", "return"} THEN SkippedFrames(at) ELSE {})
  BY DEF Apply
<1>3. q.type \in Commands /\ q.ins \in EntryType /\ q.ins.clip \notin DOMAIN FilmLen
  <2>1. q.type \in Commands /\ q.ins \in EntryType
    BY <1>1, RequestFields, RequestTypes DEF Base
  <2>2. load \in Workloads
    BY DEF Base, Shapes
  <2> QED BY <1>1, <2>1, <2>2 DEF InsertsNoFilm
<1>4. S = Elements(table) /\ L = {e \in Elements(table) : EndOf(e) > at} /\ L = {e \in S : EndOf(e) > at}
  OBVIOUS
<1> HIDE DEF q, S, L
<1>5. ASSUME CoversRest(ed), ed.from = at \/ \E m \in S : OnAir(m, at) /\ ed.from = m.start
      PROVE  new = {e \in S : EndOf(e) <= at} \cup Elements(ed.entries)
  <2> HIDE DEF ed
  <2>1. FitsInto(ed) /\ ed.from \in Nat /\ ed.to \in Int /\ ed.entries \in Seq(EditType)
    BY <1>5, <1>4 DEF CoversRest, FitsInto
  <2>2. new = {e \in S : ~(ed.from <= e.start /\ e.start < ed.to)} \cup Elements(ed.entries)
    BY <1>2, <1>4, <2>1, ReplaceKeeps DEF S
  <2>3. {e \in S : ~(ed.from <= e.start /\ e.start < ed.to)} = {e \in S : EndOf(e) <= at}
    BY <1>5, <1>4, KeptEntries DEF S
  <2> QED BY <2>2, <2>3
<1>6. CASE q.type \in {"ad_break", "slate", "insert"}
  <2>1. ed = InsertShift(Existing(at), at, q.ins) /\ dropped' = dropped \cup {}
    BY <1>2, <1>6, Zenon DEF EditOf
  <2> HIDE DEF ed
  <2>2. CoversRest(ed)
    BY <1>2, <1>3, <2>1, InsertCovers
  <2>3. /\ ed.from = at \/ \E m \in S : OnAir(m, at) /\ ed.from = m.start
        /\ \A x : x \in Elements(ed.entries) <=> InsertHas(L, at, q.ins, x)
    BY <1>3, <1>4, <2>1, InsertParts DEF S
  <2>4. \A x : x \in new <=> (x \in S /\ EndOf(x) <= at) \/ x \in Elements(ed.entries)
    BY <1>5, <2>2, <2>3
  <2>5. \A x : x \in new <=> (x \in S /\ EndOf(x) <= at) \/ InsertHas(L, at, q.ins, x)
    BY <2>3, <2>4
  <2> HIDE DEF new
  <2>6. KeepsBefore(S, new, at) /\ KeepsAfter(S, new, at, {})
    BY <1>3, <1>4, <2>5, InsertMoves DEF S
  <2> QED BY <1>4, <2>1, <2>6 DEF S, new
<1>7. CASE q.type \in {"skip", "return"}
  <2>1. ed = Skip(Existing(at), at) /\ dropped' = dropped \cup SkippedFrames(at)
    BY <1>2, <1>7, Zenon DEF EditOf
  <2>2. \E k \in DOMAIN Existing(at) : OnAir(Existing(at)[k], at)
    <3>1. CASE q.type = "skip"
      BY <1>2, <3>1 DEF NothingToDo, FirstOnAir
    <3>2. CASE q.type = "return"
      BY <1>2, <3>2 DEF NothingToDo, BreakOnAir, ToSet
    <3> QED BY <1>7, <3>1, <3>2
  <2> HIDE DEF ed
  <2>3. CoversRest(ed)
    BY <2>1, <2>2, SkipCovers
  <2>4. \E cur \in L : \E K \in SUBSET (L \ {cur}) : SkipMakes(ed, L, cur, K, at)
    BY <1>4, <2>1, <2>2, SkipParts, Zenon
  <2>5. PICK cur \in L : \E K \in SUBSET (L \ {cur}) : SkipMakes(ed, L, cur, K, at)
    BY <2>4, Zenon
  <2>6. PICK K \in SUBSET (L \ {cur}) : SkipMakes(ed, L, cur, K, at)
    BY <2>5, Zenon
  <2>7. /\ OnAir(cur, at) /\ ed.from = cur.start
        /\ \A x : x \in Elements(ed.entries) <=> SkipHas(L, cur, K, at, x)
    BY <2>6 DEF SkipMakes
  <2>8. new = {e \in S : EndOf(e) <= at} \cup Elements(ed.entries)
    BY <1>5, <1>4, <2>3, <2>7
  <2>9. \A x : x \in new <=> (x \in S /\ EndOf(x) <= at) \/ SkipHas(L, cur, K, at, x)
    BY <2>7, <2>8
  <2>10. \A f : f \in SkippedFrames(at) <=> \E t \in Nat : t >= at /\ OnAir(cur, t) /\ f = FrameOf(cur, t)
    <3> DEFINE first == FirstOnAir(table, at)
               e == table[first]
    <3>1. cur \in S /\ cur \in EntryType /\ cur.start \in Nat /\ EndOf(cur) \in Nat /\ cur.start <= at
      BY <1>4, <2>7, TimetableApart, EntryFields DEF OnAir
    <3>2. e = cur
      <4>1. \E k \in DOMAIN table : OnAir(table[k], at)
        BY <1>4, <2>7, <3>1 DEF Elements, Timetable
      <4>2. first \in 1 .. Len(table) /\ OnAir(e, at)
        BY <4>1, OnAirFacts
      <4>3. e \in S
        BY <1>4, <4>2 DEF Elements
      <4> HIDE DEF e
      <4> QED BY <1>4, <2>7, <3>1, <4>2, <4>3, OnAirAlone
    <3>3. SkippedFrames(at) = {<<cur.clip, cur.off + t - cur.start>> : t \in at .. EndOf(cur) - 1}
      BY <3>2 DEF SkippedFrames
    <3>4. \A t \in Nat : t >= at /\ OnAir(cur, t) <=> t \in at .. EndOf(cur) - 1
      BY <3>1 DEF OnAir
    <3>5. at .. EndOf(cur) - 1 \subseteq Nat
      BY <3>1
    <3> QED BY <3>3, <3>4, <3>5 DEF FrameOf
  <2> DEFINE gone == SkippedFrames(at)
  <2> HIDE DEF gone, new
  <2>11. KeepsBefore(S, new, at) /\ KeepsAfter(S, new, at, gone)
    BY <1>4, <2>7, <2>9, <2>10, SkipMoves DEF S, gone
  <2> QED BY <1>4, <2>1, <2>11 DEF S, gone, new
<1> QED BY <1>3, <1>6, <1>7 DEF Commands

-----------------------------------------------------------------------------
(* The clock, the engine and the requests that wait *)

\* a request that waits has not waited too long, and the moment of a command was ahead by CueLead when it arrived
Timely(c) ==
    \A i \in DOMAIN att[c] : Unanswered(c, i) =>
        /\ now <= att[c][i].since + MaxWait
        /\ req[c].type # "replace" => att[c][i].since + CueLead <= att[c][i].at

Clock ==
    /\ released \in Nat /\ released <= now + LiveLead
    /\ entriesAt \in Nat /\ entriesAt <= now
    /\ \A c \in Clients : Timely(c)

LEMMA ClockInit == Init => Clock
BY RequestsAssumption DEF Init, Clock, Timely

LEMMA ClockSame ==
    ASSUME Clock, UNCHANGED <<now, released, entriesAt, req, att>>
    PROVE  Clock'
BY DEF Clock, Timely, Unanswered

\* An answer leaves the times of its attempt as they were.
LEMMA AnswersTimes ==
    ASSUME Shapes, NEW c \in Clients, NEW i \in DOMAIN att[c], NEW a, Answers(c, i, a)
    PROVE  \A d \in Clients : /\ DOMAIN att'[d] = DOMAIN att[d]
                              /\ \A j \in DOMAIN att'[d] : /\ att'[d][j].at = att[d][j].at
                                                           /\ att'[d][j].since = att[d][j].since
                                                           /\ ~(d = c /\ j = i) => att'[d][j].answer = att[d][j].answer
<1> DEFINE r == [at |-> att[c][i].at, since |-> att[c][i].since, answer |-> a]
           s == [att[c] EXCEPT ![i] = r]
<1>1. att[c] \in Seq(Attempt)
  BY DEF Shapes
<1>2. r.at = att[c][i].at /\ r.since = att[c][i].since
  OBVIOUS
<1>3. att' = [att EXCEPT ![c] = s]
  BY DEF Answers
<1> HIDE DEF r
<1>4. DOMAIN s = DOMAIN att[c] /\ s[i] = r /\ \A j \in DOMAIN att[c] : j # i => s[j] = att[c][j]
  BY <1>1
<1> HIDE DEF s
<1>5. att'[c] = s /\ \A d \in Clients : d # c => att'[d] = att[d]
  BY <1>3 DEF Shapes
<1> QED BY <1>2, <1>4, <1>5

LEMMA ClockArrives ==
    ASSUME Base, Clock, NEW c \in Clients, NEW q \in load.requests, Arrives(c, q), req'[c] = q,
           att[c] = <<>> \/ req'[c] = req[c], \A d \in Clients : d # c => req'[d] = req[d],
           UNCHANGED <<now, released, entriesAt>>
    PROVE  Clock'
<1>1. PICK r \in Attempt : /\ att' = [att EXCEPT ![c] = Append(att[c], r)]
                           /\ r.answer = Waiting => /\ now <= r.since + MaxWait
                                                    /\ q.type # "replace" => r.since + CueLead <= r.at
  BY ArrivesEffect DEF Base
<1>2. att'[c] = Append(att[c], r) /\ \A d \in Clients : d # c => att'[d] = att[d]
  BY <1>1 DEF Base, Shapes
<1>3. ASSUME NEW d \in Clients, d # c PROVE Timely(d)'
  BY <1>2, <1>3 DEF Clock, Timely, Unanswered
<1>4. Timely(c)'
  <2> SUFFICES ASSUME NEW i \in DOMAIN att'[c], att'[c][i].answer = Waiting
               PROVE  /\ now <= att'[c][i].since + MaxWait
                      /\ q.type # "replace" => att'[c][i].since + CueLead <= att'[c][i].at
    BY DEF Timely, Unanswered
  <2>1. CASE i \in DOMAIN att[c]
    <3> DEFINE s == att[c]
    <3>1. s \in Seq(Attempt) /\ att'[c] = Append(s, r) /\ i \in DOMAIN s
      BY <1>2, <2>1 DEF Base, Shapes
    <3> HIDE DEF s
    <3>2. Append(s, r)[i] = s[i] /\ s # <<>>
      BY <3>1
    <3>3. att'[c][i] = att[c][i] /\ req'[c] = req[c]
      BY <3>1, <3>2 DEF s
    <3> QED BY <2>1, <3>3 DEF Clock, Timely, Unanswered
  <2>2. CASE i \notin DOMAIN att[c]
    <3> DEFINE s == att[c]
    <3>1. s \in Seq(Attempt) /\ att'[c] = Append(s, r) /\ i \in DOMAIN Append(s, r) /\ i \notin DOMAIN s
      BY <1>2, <2>2 DEF Base, Shapes
    <3> HIDE DEF s
    <3>2. Append(s, r)[i] = r
      BY <3>1
    <3> QED BY <1>1, <3>1, <3>2
  <2> QED BY <2>1, <2>2
<1> QED BY <1>3, <1>4 DEF Clock

LEMMA ClockAnswers ==
    ASSUME Base, Clock, NEW c \in Clients, NEW i \in DOMAIN att[c], NEW a, Answers(c, i, a), Unanswered(c, i),
           UNCHANGED <<now, released, entriesAt, req>>
    PROVE  Clock'
<1>1. \A d \in Clients : /\ DOMAIN att'[d] = DOMAIN att[d]
                         /\ \A j \in DOMAIN att'[d] : /\ att'[d][j].at = att[d][j].at
                                                      /\ att'[d][j].since = att[d][j].since
                                                      /\ ~(d = c /\ j = i) => att'[d][j].answer = att[d][j].answer
  BY AnswersTimes DEF Base
<1>2. ASSUME NEW d \in Clients PROVE Timely(d)'
  <2> SUFFICES ASSUME NEW j \in DOMAIN att'[d], att'[d][j].answer = Waiting
               PROVE  /\ now <= att'[d][j].since + MaxWait
                      /\ req[d].type # "replace" => att'[d][j].since + CueLead <= att'[d][j].at
    BY DEF Timely, Unanswered
  <2>1. j \in DOMAIN att[d] /\ att[d][j].answer = Waiting
    BY <1>1 DEF Unanswered
  <2>2. /\ now <= att[d][j].since + MaxWait
        /\ req[d].type # "replace" => att[d][j].since + CueLead <= att[d][j].at
    BY <2>1 DEF Clock, Timely, Unanswered
  <2> QED BY <1>1, <2>2
<1> QED BY <1>2 DEF Clock

LEMMA ClockNext ==
    ASSUME Base, Clock, [Next]_vars
    PROVE  Clock'
<1>1. CASE UNCHANGED vars
  BY <1>1, ClockSame DEF vars, clientVars, engineVars
<1>2. ASSUME NEW c \in Clients, GetChannel(c) \/ GetTimeline(c) PROVE Clock'
  BY <1>2, ClockSame DEF GetChannel, GetTimeline, engineVars
<1>3. ASSUME NEW c \in Clients, Repeat(c) PROVE Clock'
  <2>1. req[c] \in load.requests /\ Arrives(c, req[c]) /\ UNCHANGED <<now, req, released, entriesAt>>
    BY <1>3 DEF Repeat, Base, RequestsOK, engineVars
  <2> QED BY <2>1, ClockArrives
<1>4. ASSUME NEW c \in Clients, NEW q \in load.requests, Send(c, q) PROVE Clock'
  <2>1. /\ Arrives(c, q) /\ req' = [req EXCEPT ![c] = q] /\ req[c] = NoRequest /\ UNCHANGED <<now, released, entriesAt>>
    BY <1>4 DEF Send, engineVars
  <2>2. att[c] = <<>> /\ req'[c] = q /\ \A d \in Clients : d # c => req'[d] = req[d]
    BY <2>1 DEF Base, RequestsOK
  <2> QED BY <2>1, <2>2, ClockArrives
<1>5. ASSUME NEW c \in Clients, NEW i \in DOMAIN att[c], Replayed(c, i) \/ Refused(c, i) \/ Fails(c, i) \/ Apply(c, i)
      PROVE  Clock'
  <2>1. \E a : Answers(c, i, a)
    BY <1>5 DEF Replayed, Refused, Fails, Apply
  <2>2. Unanswered(c, i) /\ UNCHANGED <<now, released, entriesAt, req>>
    BY <1>5 DEF Replayed, Refused, Fails, Apply, engineVars
  <2> QED BY <2>1, <2>2, ClockAnswers
<1>6. CASE ReadSchedule
  <2>1. entriesAt' = now /\ UNCHANGED <<now, released, req, att>> /\ now \in Nat
    BY <1>6 DEF ReadSchedule, clientVars, Base, Shapes
  <2> QED BY <2>1 DEF Clock, Timely, Unanswered
<1>7. CASE Release
  <2>1. released < now + LiveLead /\ released' = released + 1 /\ UNCHANGED <<now, entriesAt, req, att>> /\ now \in Nat
    BY <1>7 DEF Release, clientVars, Base, Shapes
  <2>2. released' \in Nat /\ released' <= now + LiveLead
    BY <2>1, RequestsAssumption DEF Clock
  <2> QED BY <2>1, <2>2 DEF Clock, Timely, Unanswered
<1>8. CASE Tick
  <2>1. /\ released = now + LiveLead /\ now' = now + 1 /\ UNCHANGED <<released, entriesAt, req, att>> /\ now \in Nat
        /\ \A c \in Clients : \A i \in DOMAIN att[c] : Unanswered(c, i) => now - att[c][i].since < MaxWait
    BY <1>8 DEF Tick, clientVars, engineVars, Base, Shapes
  <2>2. ASSUME NEW c \in Clients PROVE Timely(c)'
    <3> SUFFICES ASSUME NEW i \in DOMAIN att[c], Unanswered(c, i)
                 PROVE  /\ now' <= att[c][i].since + MaxWait
                        /\ req[c].type # "replace" => att[c][i].since + CueLead <= att[c][i].at
      BY <2>1 DEF Timely, Unanswered
    <3>1. att[c] \in Seq(Attempt) /\ att[c][i] \in Attempt
      BY DEF Base, Shapes
    <3>3. att[c][i].since \in Int
      BY <3>1 DEF Attempt
    <3>2. now' <= att[c][i].since + MaxWait
      BY <2>1, <3>3, RequestsAssumption
    <3> QED BY <3>2 DEF Clock, Timely
  <2>3. released' <= now' + LiveLead /\ entriesAt' <= now'
    BY <2>1, RequestsAssumption DEF Clock
  <2> QED BY <2>1, <2>2, <2>3 DEF Clock
<1> QED BY <1>1, <1>2, <1>3, <1>4, <1>5, <1>6, <1>7, <1>8 DEF Next

-----------------------------------------------------------------------------
(* The invariant *)

\* a command acts behind the second that the engine releases from a copy of the schedule the command is not in
LeadIsEnough == LiveLead + MaxAge + MaxWait < CueLead

NoReplace == \A i \in DOMAIN log : log[i].type # "replace"

\* second t was released as f, or the schedule has f for it
On(t, f) == IF t <= released THEN aired[t] = f ELSE Shown(Elements(table), t, f)

\* the copy of the engine shows what the table does, as far as no command that comes now can reach
Copy ==
    /\ Timetable(entries)
    /\ entriesAt > 0 =>
          \A t \in Nat : \A f :
              t + MaxWait < entriesAt + CueLead => (Shown(Elements(entries), t, f) <=> Shown(Elements(table), t, f))

\* each frame of a film is on at one second, or was dropped
Whole ==
    /\ \A t \in Nat \ {0} : \A f : OfFilm(f) /\ On(t, f) => f \in Movie /\ f \notin dropped
    /\ \A s, t \in Nat \ {0} : \A f : OfFilm(f) /\ On(s, f) /\ On(t, f) => s = t
    /\ \A f \in Movie : f \in dropped \/ \E t \in Nat \ {0} : On(t, f)
    /\ \A f \in dropped : OfFilm(f) => f \in Movie

Films == Timetable(table) /\ aired \in Seq(Clips \X Int) /\ Len(aired) = released /\ Copy /\ Whole

FilmInv == Base /\ Clock /\ (NoReplace => Films)

LEMMA MovieFrames == \A f \in Movie : OfFilm(f)
BY DEF Movie, OfFilm

-----------------------------------------------------------------------------
(* A command *)

\* The moment of a command is behind all that is released, and behind what the engine releases from its copy.
LEMMA ApplyIsAhead ==
    ASSUME LeadIsEnough, Base, Clock, NEW c \in Clients, NEW i \in DOMAIN att[c], Apply(c, i), req[c].type # "replace"
    PROVE  /\ att[c][i].at \in Nat
           /\ released < att[c][i].at
           /\ \A t \in Nat : t + MaxWait < entriesAt + CueLead => t < att[c][i].at
<1>1. att[c] \in Seq(Attempt) /\ att[c][i] \in Attempt
  BY DEF Base, Shapes
<1>2. att[c][i].at \in Nat /\ att[c][i].since \in Int
  BY <1>1 DEF Attempt
<1>3. now <= att[c][i].since + MaxWait /\ att[c][i].since + CueLead <= att[c][i].at
  BY DEF Apply, Clock, Timely
<1>4. /\ now \in Nat /\ released \in Nat /\ released <= now + LiveLead /\ entriesAt \in Nat /\ entriesAt <= now
      /\ MaxWait \in Nat /\ CueLead \in Nat /\ LiveLead \in Nat /\ MaxAge \in Nat
      /\ LiveLead + MaxAge + MaxWait < CueLead
  BY RequestsAssumption DEF Clock, Base, Shapes, LeadIsEnough
<1> QED BY <1>2, <1>3, <1>4

\* What is on after a command, at the moments before the one it acts on and from there on.
LEMMA OnApply ==
    ASSUME Films, NEW at \in Nat, released < at, released \in Nat, released' = released, aired' = aired,
           NEW gone, dropped' = dropped \cup gone,
           KeepsBefore(Elements(table), Elements(table'), at), KeepsAfter(Elements(table), Elements(table'), at, gone)
    PROVE  Whole'
<1>1. ASSUME NEW t \in Nat \ {0}, NEW f, t < at PROVE On(t, f)' <=> On(t, f)
  BY <1>1 DEF On, KeepsBefore
<1>2. ASSUME NEW t \in Nat \ {0}, NEW f, t >= at
      PROVE  /\ On(t, f) <=> Shown(Elements(table), t, f)
             /\ On(t, f)' <=> Shown(Elements(table'), t, f)
  <2>1. ~(t <= released)
    BY <1>2
  <2> QED BY <2>1 DEF On
<1>3. \A s \in Nat : s >= at => s \in Nat \ {0}
  OBVIOUS
<1> DEFINE O(t, f) == On(t, f)
           P(t, f) == On(t, f)'
<1>4. /\ \A t \in Nat \ {0} : \A f : OfFilm(f) /\ O(t, f) => f \in Movie /\ f \notin dropped
      /\ \A s, t \in Nat \ {0} : \A f : OfFilm(f) /\ O(s, f) /\ O(t, f) => s = t
      /\ \A f \in Movie : f \in dropped \/ \E t \in Nat \ {0} : O(t, f)
      /\ \A f \in dropped : OfFilm(f) => f \in Movie
  BY DEF Films, Whole
<1>5. ASSUME NEW t \in Nat \ {0}, NEW f, t >= at, OfFilm(f), P(t, f)
      PROVE  f \notin gone /\ \E s \in Nat \ {0} : s >= at /\ O(s, f)
  <2>1. f \notin gone /\ \E s \in Nat : s >= at /\ Shown(Elements(table), s, f)
    BY <1>2, <1>5 DEF KeepsAfter
  <2> QED BY <1>2, <1>3, <2>1
<1>6. ASSUME NEW t \in Nat \ {0}, NEW f, t >= at, OfFilm(f), O(t, f)
      PROVE  f \in gone \/ \E s \in Nat \ {0} : s >= at /\ P(s, f)
  <2>1. f \in gone \/ \E s \in Nat : s >= at /\ Shown(Elements(table'), s, f)
    BY <1>2, <1>6 DEF KeepsAfter
  <2> QED BY <1>2, <1>3, <2>1
<1>7. ASSUME NEW f \in gone, OfFilm(f) PROVE \E s \in Nat \ {0} : s >= at /\ O(s, f)
  <2>1. \E s \in Nat : s >= at /\ Shown(Elements(table), s, f)
    BY <1>7 DEF KeepsAfter
  <2> QED BY <1>2, <1>3, <2>1
<1>8. ASSUME NEW s \in Nat \ {0}, NEW t \in Nat \ {0}, NEW f, s >= at, t >= at, OfFilm(f), P(s, f), P(t, f) PROVE s = t
  <2>1. Shown(Elements(table'), s, f) /\ Shown(Elements(table'), t, f)
    BY <1>2, <1>8
  <2> QED BY <1>8, <2>1 DEF KeepsAfter, ShowsOnce
<1>9. \A t \in Nat \ {0} : \A f : t < at => (P(t, f) <=> O(t, f))
  BY <1>1
<1> HIDE DEF O, P
<1>10. ASSUME NEW t \in Nat \ {0}, NEW f, OfFilm(f), P(t, f) PROVE f \in Movie /\ f \notin dropped'
  <2>1. CASE t < at
    <3>1. O(t, f)
      BY <1>9, <1>10, <2>1
    <3>2. f \notin gone
      <4> SUFFICES ASSUME f \in gone PROVE FALSE
        OBVIOUS
      <4>1. PICK s \in Nat \ {0} : s >= at /\ O(s, f)
        BY <1>7, <1>10
      <4>2. s = t
        BY <1>4, <1>10, <3>1, <4>1
      <4> QED BY <2>1, <4>1, <4>2
    <3> QED BY <1>4, <1>10, <3>1, <3>2
  <2>2. CASE ~(t < at)
    <3>1. f \notin gone /\ \E s \in Nat \ {0} : s >= at /\ O(s, f)
      BY <1>5, <1>10, <2>2
    <3> QED BY <1>4, <1>10, <3>1
  <2> QED BY <2>1, <2>2
<1>11. ASSUME NEW s \in Nat \ {0}, NEW t \in Nat \ {0}, NEW f, OfFilm(f), P(s, f), P(t, f), s < at, t >= at PROVE FALSE
  <2>1. O(s, f)
    BY <1>9, <1>11
  <2>2. PICK u \in Nat \ {0} : u >= at /\ O(u, f)
    BY <1>5, <1>11
  <2>3. s = u
    BY <1>4, <1>11, <2>1, <2>2
  <2> QED BY <1>11, <2>2, <2>3
<1>12. ASSUME NEW s \in Nat \ {0}, NEW t \in Nat \ {0}, NEW f, OfFilm(f), P(s, f), P(t, f) PROVE s = t
  <2>1. CASE s < at /\ t < at
    BY <1>4, <1>9, <1>12, <2>1
  <2>2. CASE s >= at /\ t >= at
    BY <1>8, <1>12, <2>2
  <2> QED BY <1>11, <1>12, <2>1, <2>2
<1>13. ASSUME NEW f \in Movie PROVE f \in dropped' \/ \E t \in Nat \ {0} : P(t, f)
  <2>1. OfFilm(f)
    BY MovieFrames
  <2>2. CASE f \in dropped
    BY <2>2
  <2>3. ASSUME NEW t \in Nat \ {0}, O(t, f) PROVE f \in dropped' \/ \E s \in Nat \ {0} : P(s, f)
    <3>1. CASE t < at
      BY <1>9, <2>3, <3>1
    <3>2. CASE ~(t < at)
      BY <1>6, <2>1, <2>3, <3>2
    <3> QED BY <3>1, <3>2
  <2> QED BY <1>4, <2>2, <2>3
<1>14. ASSUME NEW f \in dropped', OfFilm(f) PROVE f \in Movie
  BY <1>4, <1>7, <1>14
<1> QED BY <1>10, <1>12, <1>13, <1>14 DEF Whole, P, Movie

LEMMA FilmApply ==
    ASSUME LeadIsEnough, InsertsNoFilm, Base, Clock, Films, NEW c \in Clients, NEW i \in DOMAIN att[c], Apply(c, i),
           req[c].type # "replace"
    PROVE  Films'
<1> DEFINE at == att[c][i].at
           S == Elements(table)
<1>1. at \in Nat /\ released < at /\ \A t \in Nat : t + MaxWait < entriesAt + CueLead => t < at
  BY ApplyIsAhead
<1>2. UNCHANGED <<released, aired, entries, entriesAt>>
  BY DEF Apply, engineVars
<1>3. released \in Nat /\ Timetable(table)
  BY DEF Clock, Films
<1> HIDE DEF at
<1>4. ShowsOnce(S, at)
  <2> SUFFICES ASSUME NEW s \in Nat, NEW t \in Nat, NEW f, s >= at, t >= at, OfFilm(f), Shown(S, s, f), Shown(S, t, f)
               PROVE  s = t
    BY DEF ShowsOnce
  <2>1. s \in Nat \ {0} /\ t \in Nat \ {0} /\ ~(s <= released) /\ ~(t <= released)
    BY <1>1, <1>3
  <2>2. On(s, f) /\ On(t, f)
    BY <2>1 DEF On
  <2> QED BY <2>1, <2>2 DEF Films, Whole
<1>5. /\ KeepsBefore(Elements(table), Elements(table'), at)
      /\ \E gone : dropped' = dropped \cup gone /\ KeepsAfter(Elements(table), Elements(table'), at, gone)
  BY <1>1, <1>3, <1>4, ApplyShows DEF at
<1>6. Timetable(table')
  BY <1>3, ApplyKeeps
<1>7. Whole'
  BY <1>1, <1>2, <1>3, <1>5, OnApply
<1>8. Copy'
  BY <1>1, <1>2, <1>5 DEF Films, Copy, KeepsBefore, Timetable, EntryType
<1> QED BY <1>2, <1>6, <1>7, <1>8 DEF Films, Timetable, EntryType

-----------------------------------------------------------------------------
(* The steps of the engine *)

\* What is released is what the table shows.
LEMMA FilmRelease ==
    ASSUME LeadIsEnough, Base, Clock, Films, Release
    PROVE  Films'
<1> DEFINE t == released + 1
           fr == Frame(entries, t)
<1>1. /\ released \in Nat /\ t \in Nat \ {0} /\ released' = t /\ aired' = Append(aired, fr)
      /\ UNCHANGED <<table, entries, entriesAt, dropped>> /\ entriesAt > 0 /\ t + MaxWait < entriesAt + CueLead
  <2>1. /\ released < now + LiveLead /\ entriesAt >= now - MaxAge /\ now \in Nat /\ released \in Nat /\ entriesAt \in Nat
        /\ LiveLead \in Nat /\ MaxAge \in Nat /\ MaxWait \in Nat /\ CueLead \in Nat
        /\ LiveLead + MaxAge + MaxWait < CueLead
    BY RequestsAssumption DEF Release, Clock, Base, Shapes, LeadIsEnough
  <2>2. t + MaxWait < entriesAt + CueLead
    BY <2>1
  <2> QED BY <2>1, <2>2 DEF Release, dbVars
<1>2. fr \in Clips \X Int /\ \A f : OfFilm(f) => (fr = f <=> Shown(Elements(entries), t, f))
  BY <1>1, FrameIsShown DEF Films, Copy
<1>3. \A f : OfFilm(f) => (fr = f <=> Shown(Elements(table), t, f))
  BY <1>1, <1>2 DEF Films, Copy
<1> HIDE DEF t, fr
<1>4. aired \in Seq(Clips \X Int) /\ Len(aired) = released
  BY DEF Films
<1>5. /\ aired' \in Seq(Clips \X Int) /\ Len(aired') = t /\ aired'[t] = fr
      /\ \A s \in Nat \ {0} : s <= released => aired'[s] = aired[s]
  BY <1>1, <1>2, <1>4 DEF t
<1>6. ASSUME NEW s \in Nat \ {0}, NEW f, OfFilm(f) PROVE On(s, f)' <=> On(s, f)
  <2>1. CASE s <= released
    <3>1. s <= released' /\ aired'[s] = aired[s]
      BY <1>1, <1>5, <2>1 DEF t
    <3> QED BY <2>1, <3>1 DEF On
  <2>2. CASE s = t
    <3>1. s <= released' /\ ~(s <= released) /\ aired'[s] = fr
      BY <1>1, <1>5, <2>2 DEF t
    <3> QED BY <1>3, <1>6, <2>2, <3>1 DEF On
  <2>3. CASE s > t
    <3>1. ~(s <= released') /\ ~(s <= released) /\ table' = table
      BY <1>1, <2>3 DEF t
    <3> QED BY <3>1 DEF On
  <2> QED BY <1>1, <2>1, <2>2, <2>3 DEF t
<1>7. Whole'
  <2> DEFINE O(s, f) == On(s, f)
             P(s, f) == On(s, f)'
  <2>1. \A s \in Nat \ {0} : \A f : OfFilm(f) => (P(s, f) <=> O(s, f))
    BY <1>6
  <2>2. /\ \A s \in Nat \ {0} : \A f : OfFilm(f) /\ O(s, f) => f \in Movie /\ f \notin dropped
        /\ \A r, s \in Nat \ {0} : \A f : OfFilm(f) /\ O(r, f) /\ O(s, f) => r = s
        /\ \A f \in Movie : f \in dropped \/ \E s \in Nat \ {0} : O(s, f)
        /\ \A f \in dropped : OfFilm(f) => f \in Movie
    BY DEF Films, Whole
  <2> HIDE DEF O, P
  <2>3. /\ \A s \in Nat \ {0} : \A f : OfFilm(f) /\ P(s, f) => f \in Movie /\ f \notin dropped'
        /\ \A r, s \in Nat \ {0} : \A f : OfFilm(f) /\ P(r, f) /\ P(s, f) => r = s
        /\ \A f \in Movie : f \in dropped' \/ \E s \in Nat \ {0} : P(s, f)
        /\ \A f \in dropped' : OfFilm(f) => f \in Movie
    BY <1>1, <2>1, <2>2, MovieFrames
  <2> QED BY <2>3 DEF Whole, P, Movie
<1>8. Timetable(table)' /\ Copy'
  BY <1>1 DEF Films, Copy, Timetable, EntryType
<1> QED BY <1>1, <1>5, <1>7, <1>8 DEF Films

LEMMA FilmRead ==
    ASSUME Films, ReadSchedule
    PROVE  Films'
<1>1. entries' = table /\ UNCHANGED <<table, released, aired, dropped>>
  BY DEF ReadSchedule, dbVars
<1>2. Whole'
  BY <1>1 DEF Films, Whole, On, Movie
<1>3. Timetable(table)' /\ Copy'
  BY <1>1 DEF Films, Copy, Timetable, EntryType
<1> QED BY <1>1, <1>2, <1>3 DEF Films

LEMMA FilmSame ==
    ASSUME Films, UNCHANGED <<table, entries, entriesAt, released, aired, dropped>>
    PROVE  Films'
<1>1. Whole'
  BY DEF Films, Whole, On, Movie
<1>2. Timetable(table)' /\ Copy'
  BY DEF Films, Copy, Timetable, EntryType
<1> QED BY <1>1, <1>2 DEF Films

-----------------------------------------------------------------------------
(* Every step *)

LEMMA AppliedCommand ==
    ASSUME Base, NEW c \in Clients, NEW i \in DOMAIN att[c], Apply(c, i), NoReplace'
    PROVE  NoReplace /\ req[c].type # "replace"
<1> DEFINE l == [client |-> c, type |-> req[c].type, key |-> req[c].key,
                 answer |-> Answer("ok", version + 1, att[c][i].at)]
<1>1. log \in Seq(LogRecord) /\ log' = Append(log, l) /\ l.type = req[c].type
  BY DEF Apply, Base, Shapes
<1> HIDE DEF l
<1>2. /\ \A j \in DOMAIN log : j \in DOMAIN log' /\ log'[j] = log[j]
      /\ Len(log) + 1 \in DOMAIN log' /\ log'[Len(log) + 1] = l
  BY <1>1
<1> QED BY <1>1, <1>2 DEF NoReplace

LEMMA FilmNext ==
    ASSUME LeadIsEnough, InsertsNoFilm, FilmInv, [Next]_vars
    PROVE  FilmInv'
<1>1. Base' /\ Clock'
  BY BaseNext, ClockNext DEF FilmInv
<1> SUFFICES ASSUME NoReplace' PROVE Films'
  BY <1>1 DEF FilmInv
<1>2. ASSUME NEW c \in Clients, NEW i \in DOMAIN att[c], Apply(c, i) PROVE Films'
  BY <1>2, AppliedCommand, FilmApply DEF FilmInv
<1>3. ASSUME log' = log PROVE Films
  BY <1>3 DEF NoReplace, FilmInv
<1>4. CASE UNCHANGED vars
  BY <1>3, <1>4, FilmSame DEF vars, dbVars, engineVars
<1>5. ASSUME NEW c \in Clients, GetChannel(c) \/ GetTimeline(c) \/ Repeat(c) PROVE Films'
  BY <1>3, <1>5, FilmSame DEF GetChannel, GetTimeline, Repeat, dbVars, engineVars
<1>6. ASSUME NEW c \in Clients, NEW q \in load.requests, Send(c, q) PROVE Films'
  BY <1>3, <1>6, FilmSame DEF Send, dbVars, engineVars
<1>7. ASSUME NEW c \in Clients, NEW i \in DOMAIN att[c], Replayed(c, i) \/ Refused(c, i) \/ Fails(c, i) PROVE Films'
  BY <1>3, <1>7, FilmSame DEF Replayed, Refused, Fails, dbVars, engineVars
<1>8. CASE ReadSchedule
  BY <1>3, <1>8, FilmRead DEF ReadSchedule
<1>9. CASE Release
  BY <1>3, <1>9, FilmRelease DEF Release, FilmInv
<1>10. CASE Tick
  BY <1>3, <1>10, FilmSame DEF Tick, dbVars, engineVars
<1> QED BY <1>2, <1>4, <1>5, <1>6, <1>7, <1>8, <1>9, <1>10 DEF Next

-----------------------------------------------------------------------------
(* Counting frames *)

LEMMA SameCount ==
    ASSUME NEW S, IsFiniteSet(S), NEW T, NEW f \in [S -> T], \A y \in T : \E x \in S : f[x] = y,
           \A x, y \in S : f[x] = f[y] => x = y
    PROVE  IsFiniteSet(T) /\ Cardinality(T) = Cardinality(S)
<1>1. f \in Surjection(S, T) /\ f \in Injection(S, T)
  BY DEF Surjection, Injection, IsInjective
<1> QED BY <1>1, FS_Surjection

LEMMA CountedOnce ==
    ASSUME NEW S, IsFiniteSet(S), NEW T, NEW f \in [S -> T], \A y \in T : \E x \in S : f[x] = y,
           Cardinality(S) = Cardinality(T)
    PROVE  \A x, y \in S : f[x] = f[y] => x = y
<1>1. f \in Surjection(S, T)
  BY DEF Surjection
<1>2. f \in Injection(S, T)
  BY <1>1, FS_Surjection
<1> QED BY <1>2 DEF Injection, IsInjective

LEMMA ThreeParts ==
    ASSUME NEW A, IsFiniteSet(A), NEW B, IsFiniteSet(B), NEW C, IsFiniteSet(C),
           A \cap B = {}, A \cap C = {}, B \cap C = {}
    PROVE  Cardinality(A \cup B \cup C) = Cardinality(A) + Cardinality(B) + Cardinality(C)
<1>1. IsFiniteSet(A \cup B) /\ Cardinality(A \cup B) = Cardinality(A) + Cardinality(B) - Cardinality(A \cap B)
  BY FS_Union
<1>2. (A \cup B) \cap C = {}
  OBVIOUS
<1>3. Cardinality((A \cup B) \cup C) = Cardinality(A \cup B) + Cardinality(C) - Cardinality((A \cup B) \cap C)
  BY <1>1, FS_Union
<1>4. Cardinality(A \cap B) = 0 /\ Cardinality((A \cup B) \cap C) = 0
  BY <1>2, FS_EmptySet
<1>5. Cardinality(A) \in Nat /\ Cardinality(B) \in Nat /\ Cardinality(C) \in Nat
  BY FS_CardinalityType
<1>6. Cardinality(A \cup B) = Cardinality(A) + Cardinality(B)
  BY <1>1, <1>4, <1>5
<1> QED BY <1>3, <1>4, <1>5, <1>6

LEMMA MovieFinite == IsFiniteSet(Movie)
<1> DEFINE D == DOMAIN FilmLen
           F(c) == {<<c, k>> : k \in 0 .. FilmLen[c] - 1}
           S == {F(c) : c \in D}
<1>1. IsFiniteSet(D) /\ \A c \in D : FilmLen[c] \in Nat
  BY FilmsAssumption
<1>2. ASSUME NEW c \in D PROVE IsFiniteSet(F(c))
  <2> DEFINE I == 0 .. FilmLen[c] - 1
             f == [k \in I |-> <<c, k>>]
  <2>1. IsFiniteSet(I)
    BY <1>1, FS_Interval
  <2>2. f \in Surjection(I, F(c))
    BY DEF Surjection
  <2> QED BY <2>1, <2>2, FS_Surjection
<1>3. IsFiniteSet(S)
  <2> DEFINE f == [c \in D |-> F(c)]
  <2>1. f \in Surjection(D, S)
    BY DEF Surjection
  <2> QED BY <1>1, <2>1, FS_Surjection
<1>4. Movie = UNION S
  BY DEF Movie
<1>5. \A T \in S : IsFiniteSet(T)
  BY <1>2
<1> HIDE DEF S
<1> QED BY <1>3, <1>4, <1>5, FS_UNION

\* What is still to come, counted by the entries and the seconds at which they show it.
LEMMA ComingFacts ==
    ASSUME Timetable(table), released \in Nat
    PROVE  /\ IsFiniteSet(ComingAt)
           /\ \A p \in ComingAt : /\ p[2] \in Nat \ {0} /\ released < p[2] /\ OfFilm(Coming(p))
                                  /\ Shown(Elements(table), p[2], Coming(p))
           /\ \A p, q \in ComingAt : p[2] = q[2] => p = q
           /\ \A t \in Nat \ {0} : \A f :
                 released < t /\ OfFilm(f) /\ Shown(Elements(table), t, f) => \E p \in ComingAt : p[2] = t /\ Coming(p) = f
<1> DEFINE es == Elements(table)
           n == Len(table)
<1>1. /\ table \in Seq(EntryType) /\ n \in Nat /\ DOMAIN table = 1 .. n /\ ToSet(table) = es /\ es \in SUBSET EntryType
      /\ IsFiniteSet(es) /\ \A i \in 1 .. n : table[i] \in EntryType /\ table[i] \in es
  <2>1. table \in Seq(EntryType)
    BY DEF Timetable
  <2>2. ToSet(table) = es /\ es \subseteq EntryType /\ IsFiniteSet(es)
    BY <2>1, ElementsAre
  <2>3. \A i \in 1 .. n : table[i] \in es
    BY DEF Elements
  <2> QED BY <2>1, <2>2, <2>3
<1>2. Horizon \in Nat /\ \A e \in es : EndOf(e) <= Horizon
  BY HorizonFacts
<1> DEFINE seconds == released + 1 .. Horizon
<1>3. seconds \subseteq Nat \ {0} /\ \A t \in seconds : released < t
  BY <1>2
<1>4. ComingAt \subseteq (1 .. n) \X seconds
  BY <1>1 DEF ComingAt
<1>5. IsFiniteSet(ComingAt)
  <2>1. IsFiniteSet(1 .. n) /\ IsFiniteSet(seconds)
    BY <1>1, <1>2, FS_Interval
  <2> HIDE DEF seconds, n
  <2>2. IsFiniteSet((1 .. n) \X seconds)
    BY <2>1, FS_Product
  <2> QED BY <1>4, <2>2, FS_Subset
<1>6. ASSUME NEW p \in ComingAt
      PROVE  /\ p = <<p[1], p[2]>> /\ p[1] \in 1 .. n /\ p[2] \in seconds /\ OnAir(table[p[1]], p[2])
             /\ table[p[1]].clip \in DOMAIN FilmLen /\ Coming(p) = FrameOf(table[p[1]], p[2])
  <2>1. p \in (1 .. n) \X seconds
    BY <1>4
  <2>2. p = <<p[1], p[2]>> /\ p[1] \in 1 .. n /\ p[2] \in seconds
    BY <2>1
  <2>3. OnAir(table[p[1]], p[2]) /\ table[p[1]].clip \in DOMAIN FilmLen
    BY DEF ComingAt
  <2> QED BY <2>2, <2>3 DEF Coming, FrameOf
<1> HIDE DEF seconds
<1>7. ASSUME NEW p \in ComingAt
      PROVE  p[2] \in Nat \ {0} /\ released < p[2] /\ OfFilm(Coming(p)) /\ Shown(es, p[2], Coming(p))
  <2>1. OfFilm(Coming(p))
    BY <1>6 DEF FrameOf, OfFilm
  <2>2. Shown(es, p[2], Coming(p))
    BY <1>1, <1>6 DEF Shown
  <2> QED BY <1>3, <1>6, <2>1, <2>2
<1>8. ASSUME NEW p \in ComingAt, NEW q \in ComingAt, p[2] = q[2] PROVE p = q
  <2>1. /\ p[1] \in 1 .. n /\ q[1] \in 1 .. n /\ p[2] \in Int /\ OnAir(table[p[1]], p[2]) /\ OnAir(table[q[1]], p[2])
        /\ p = <<p[1], p[2]>> /\ q = <<q[1], q[2]>>
    BY <1>3, <1>6, <1>8
  <2>2. ASSUME NEW i \in 1 .. n, NEW j \in 1 .. n, i < j, OnAir(table[i], p[2]), OnAir(table[j], p[2]) PROVE FALSE
    <3>1. EndOf(table[i]) <= table[j].start
      BY <2>2 DEF Timetable
    <3>2. EndOf(table[i]) \in Nat /\ table[j].start \in Nat
      BY <1>1, EntryFields
    <3> QED BY <2>1, <2>2, <3>1, <3>2 DEF OnAir
  <2>3. p[1] = q[1]
    BY <2>1, <2>2
  <2> QED BY <1>8, <2>1, <2>3
<1>9. ASSUME NEW t \in Nat \ {0}, NEW f, released < t, OfFilm(f), Shown(es, t, f)
      PROVE  \E p \in ComingAt : p[2] = t /\ Coming(p) = f
  <2>1. PICK e \in es : OnAir(e, t) /\ f = FrameOf(e, t)
    BY <1>9 DEF Shown
  <2>2. PICK i \in 1 .. n : e = table[i]
    BY DEF Elements
  <2>3. e.clip \in DOMAIN FilmLen
    BY <1>9, <2>1 DEF OfFilm, FrameOf
  <2>4. t \in released + 1 .. Horizon
    <3>1. EndOf(e) <= Horizon /\ EndOf(e) \in Nat /\ t < EndOf(e)
      BY <1>1, <1>2, <2>1, EntryFields DEF OnAir
    <3> QED BY <1>2, <1>9, <3>1
  <2> DEFINE p == <<i, t>>
  <2>5. p \in ComingAt
    BY <1>1, <2>1, <2>2, <2>3, <2>4 DEF ComingAt
  <2>6. Coming(p) = f
    BY <2>1, <2>2 DEF Coming, FrameOf
  <2> QED BY <2>5, <2>6
<1> QED BY <1>5, <1>7, <1>8, <1>9

-----------------------------------------------------------------------------
(* The invariant and the property *)

LEMMA FilmInit == Init /\ MovieIsWhole => FilmInv
<1> SUFFICES ASSUME Init, MovieIsWhole PROVE FilmInv
  OBVIOUS
<1>1. Base /\ Clock
  BY BaseInit, ClockInit
<1>2. /\ table \in Tables /\ released = 0 /\ aired = <<>> /\ log = <<>> /\ dropped = {} /\ entries = <<>> /\ entriesAt = 0
  BY DEF Init
<1>3. Timetable(table)
  BY <1>2, RequestsAssumption, AirableTables
<1>4. Copy
  BY <1>2, TimetableEmpty DEF Copy
<1> DEFINE coming == {Coming(p) : p \in ComingAt}
           f == [p \in ComingAt |-> Coming(p)]
<1>5. coming = Movie /\ Cardinality(ComingAt) = Cardinality(Movie)
  <2>1. AiredAt = {} /\ {g \in dropped : OfFilm(g)} = {}
    BY <1>2 DEF AiredAt
  <2>2. {aired[t] : t \in AiredAt} = {}
    BY <2>1
  <2>3. /\ {aired[t] : t \in AiredAt} \cup coming \cup {g \in dropped : OfFilm(g)} = Movie
        /\ Cardinality(AiredAt) + Cardinality(ComingAt) + Cardinality({g \in dropped : OfFilm(g)}) = Cardinality(Movie)
    BY <1>2 DEF MovieIsWhole
  <2>4. IsFiniteSet(ComingAt) /\ Cardinality(ComingAt) \in Nat /\ Cardinality({}) = 0
    BY <1>2, <1>3, ComingFacts, FS_CardinalityType, FS_EmptySet
  <2> QED BY <2>1, <2>2, <2>3, <2>4
<1>6. /\ IsFiniteSet(ComingAt)
      /\ \A p \in ComingAt : /\ p[2] \in Nat \ {0} /\ released < p[2] /\ OfFilm(Coming(p))
                             /\ Shown(Elements(table), p[2], Coming(p))
      /\ \A p, q \in ComingAt : p[2] = q[2] => p = q
      /\ \A t \in Nat \ {0} : \A g :
            released < t /\ OfFilm(g) /\ Shown(Elements(table), t, g) => \E p \in ComingAt : p[2] = t /\ Coming(p) = g
  BY <1>2, <1>3, ComingFacts
<1>7. \A p, q \in ComingAt : Coming(p) = Coming(q) => p = q
  <2>1. f \in [ComingAt -> coming] /\ \A y \in coming : \E p \in ComingAt : f[p] = y
    OBVIOUS
  <2>2. Cardinality(ComingAt) = Cardinality(coming)
    BY <1>5
  <2>3. \A p \in ComingAt : f[p] = Coming(p)
    OBVIOUS
  <2> HIDE DEF f, coming
  <2>4. \A p, q \in ComingAt : f[p] = f[q] => p = q
    BY <1>6, <2>1, <2>2, CountedOnce
  <2> QED BY <2>3, <2>4
<1>8. \A t \in Nat \ {0} : \A g : On(t, g) <=> Shown(Elements(table), t, g)
  BY <1>2 DEF On
<1>9. Whole
  <2>1. ASSUME NEW t \in Nat \ {0}, NEW g, OfFilm(g), On(t, g) PROVE g \in Movie /\ \E p \in ComingAt : p[2] = t /\ Coming(p) = g
    <3>1. \E p \in ComingAt : p[2] = t /\ Coming(p) = g
      BY <1>2, <1>6, <1>8, <2>1
    <3> QED BY <1>5, <3>1
  <2>2. ASSUME NEW s \in Nat \ {0}, NEW t \in Nat \ {0}, NEW g, OfFilm(g), On(s, g), On(t, g) PROVE s = t
    BY <1>7, <2>1, <2>2
  <2>3. ASSUME NEW g \in Movie PROVE \E t \in Nat \ {0} : On(t, g)
    <3>1. PICK p \in ComingAt : g = Coming(p)
      BY <1>5
    <3> QED BY <1>6, <1>8, <3>1
  <2> QED BY <1>2, <2>1, <2>2, <2>3 DEF Whole
<1> QED BY <1>1, <1>2, <1>3, <1>4, <1>9 DEF FilmInv, Films

LEMMA FilmsMeansWhole == FilmInv => MovieIsWhole
<1> DEFINE past == {aired[t] : t \in AiredAt}
           coming == {Coming(p) : p \in ComingAt}
           gone == {f \in dropped : OfFilm(f)}
<1> SUFFICES ASSUME FilmInv, NoReplace
             PROVE  /\ past \cup coming \cup gone = Movie
                    /\ Cardinality(AiredAt) + Cardinality(ComingAt) + Cardinality(gone) = Cardinality(Movie)
  BY Zenon DEF MovieIsWhole, NoReplace
<1>1. Films /\ released \in Nat /\ Timetable(table) /\ aired \in Seq(Clips \X Int) /\ Len(aired) = released
  BY DEF FilmInv, Films, Clock
<1>2. /\ \A t \in Nat \ {0} : \A f : OfFilm(f) /\ On(t, f) => f \in Movie /\ f \notin dropped
      /\ \A s, t \in Nat \ {0} : \A f : OfFilm(f) /\ On(s, f) /\ On(t, f) => s = t
      /\ \A f \in Movie : f \in dropped \/ \E t \in Nat \ {0} : On(t, f)
      /\ \A f \in dropped : OfFilm(f) => f \in Movie
  BY <1>1 DEF Films, Whole
<1>3. /\ IsFiniteSet(ComingAt)
      /\ \A p \in ComingAt : /\ p[2] \in Nat \ {0} /\ released < p[2] /\ OfFilm(Coming(p))
                             /\ Shown(Elements(table), p[2], Coming(p))
      /\ \A p, q \in ComingAt : p[2] = q[2] => p = q
      /\ \A t \in Nat \ {0} : \A f :
            released < t /\ OfFilm(f) /\ Shown(Elements(table), t, f) => \E p \in ComingAt : p[2] = t /\ Coming(p) = f
  BY <1>1, ComingFacts
<1>4. ASSUME NEW t \in AiredAt PROVE t \in Nat \ {0} /\ t <= released /\ OfFilm(aired[t]) /\ On(t, aired[t])
  <2>1. t \in 1 .. released /\ OfFilm(aired[t])
    BY <1>1 DEF AiredAt
  <2> QED BY <1>1, <2>1 DEF On
<1>5. ASSUME NEW p \in ComingAt PROVE p[2] \in Nat \ {0} /\ released < p[2] /\ OfFilm(Coming(p)) /\ On(p[2], Coming(p))
  <2>1. p[2] \in Nat \ {0} /\ released < p[2] /\ OfFilm(Coming(p)) /\ Shown(Elements(table), p[2], Coming(p))
    BY <1>3
  <2>2. ~(p[2] <= released)
    BY <1>1, <2>1
  <2> QED BY <2>1, <2>2 DEF On
<1>6. ASSUME NEW f, OfFilm(f), NEW t \in Nat \ {0}, On(t, f) PROVE f \in past \/ f \in coming
  <2>1. CASE t <= released
    <3>1. aired[t] = f /\ t \in DOMAIN aired
      BY <1>1, <1>6, <2>1 DEF On
    <3>2. t \in AiredAt
      BY <1>6, <3>1 DEF AiredAt
    <3> QED BY <3>1, <3>2
  <2>2. CASE ~(t <= released)
    <3>1. Shown(Elements(table), t, f) /\ released < t
      BY <1>1, <1>6, <2>2 DEF On
    <3>2. PICK p \in ComingAt : p[2] = t /\ Coming(p) = f
      BY <1>3, <1>6, <3>1
    <3> QED BY <3>2
  <2> QED BY <2>1, <2>2
<1>7. past \cup coming \cup gone = Movie
  <2>1. past \subseteq Movie
    BY <1>2, <1>4
  <2>2. coming \subseteq Movie
    BY <1>2, <1>5
  <2>3. gone \subseteq Movie
    BY <1>2
  <2>4. ASSUME NEW f \in Movie PROVE f \in past \cup coming \cup gone
    <3>1. OfFilm(f)
      BY MovieFrames
    <3>2. CASE f \in dropped
      BY <3>1, <3>2
    <3>3. CASE f \notin dropped
      <4>1. PICK t \in Nat \ {0} : On(t, f)
        BY <1>2, <3>3
      <4> QED BY <1>6, <3>1, <4>1
    <3> QED BY <3>2, <3>3
  <2> QED BY <2>1, <2>2, <2>3, <2>4
<1>8. past \cap coming = {} /\ past \cap gone = {} /\ coming \cap gone = {}
  <2>1. ASSUME NEW t \in AiredAt, NEW p \in ComingAt, aired[t] = Coming(p) PROVE FALSE
    <3>1. t = p[2]
      BY <1>2, <1>4, <1>5, <2>1
    <3> QED BY <1>1, <1>4, <1>5, <3>1
  <2>2. ASSUME NEW t \in AiredAt PROVE aired[t] \notin gone
    BY <1>2, <1>4
  <2>3. ASSUME NEW p \in ComingAt PROVE Coming(p) \notin gone
    BY <1>2, <1>5
  <2> QED BY <2>1, <2>2, <2>3
<1>9. IsFiniteSet(past) /\ Cardinality(past) = Cardinality(AiredAt)
  <2> DEFINE f == [t \in AiredAt |-> aired[t]]
  <2>1. f \in [AiredAt -> past] /\ \A y \in past : \E t \in AiredAt : f[t] = y
    OBVIOUS
  <2>2. ASSUME NEW s \in AiredAt, NEW t \in AiredAt, f[s] = f[t] PROVE s = t
    <3>1. aired[s] = aired[t]
      BY <2>2
    <3> QED BY <1>2, <1>4, <3>1
  <2>3. IsFiniteSet(AiredAt)
    <3>1. AiredAt \subseteq 1 .. released
      BY <1>1 DEF AiredAt
    <3>2. IsFiniteSet(1 .. released)
      BY <1>1, FS_Interval
    <3> QED BY <3>1, <3>2, FS_Subset
  <2> HIDE DEF f, past
  <2> QED BY <2>1, <2>2, <2>3, SameCount
<1>10. IsFiniteSet(coming) /\ Cardinality(coming) = Cardinality(ComingAt)
  <2> DEFINE f == [p \in ComingAt |-> Coming(p)]
  <2>1. f \in [ComingAt -> coming] /\ \A y \in coming : \E p \in ComingAt : f[p] = y
    OBVIOUS
  <2>2. ASSUME NEW p \in ComingAt, NEW q \in ComingAt, f[p] = f[q] PROVE p = q
    <3>1. Coming(p) = Coming(q)
      BY <2>2
    <3>2. p[2] = q[2]
      BY <1>2, <1>5, <3>1
    <3> QED BY <1>3, <3>2
  <2> HIDE DEF f, coming
  <2> QED BY <1>3, <2>1, <2>2, SameCount
<1> HIDE DEF past, coming, gone
<1>11. IsFiniteSet(gone)
  <2>1. gone \subseteq Movie
    BY <1>7
  <2> QED BY <2>1, MovieFinite, FS_Subset
<1>12. Cardinality(past \cup coming \cup gone) = Cardinality(past) + Cardinality(coming) + Cardinality(gone)
  BY <1>8, <1>9, <1>10, <1>11, ThreeParts
<1> QED BY <1>7, <1>9, <1>10, <1>12

\* A film that is whole in the schedule stays whole, whatever the commands cut, insert, shift and skip and however the
\* engine's copy of the schedule lags behind: each of its seconds is aired once, is still to be aired once, or was dropped
\* by a skip.  The moment a command acts on (runCommand: CUE_LEAD_S ahead of its arrival) has to be behind all that the
\* engine releases before it has read the change: LIVE_LEAD_S, the age of its copy, and the wait of the command for the
\* row of the channel.
THEOREM FilmsStayWhole ==
    ASSUME LeadIsEnough, InsertsNoFilm
    PROVE  Spec /\ MovieIsWhole => []MovieIsWhole
<1>1. Init /\ MovieIsWhole => FilmInv
  BY FilmInit
<1>2. FilmInv /\ [Next]_vars => FilmInv'
  BY FilmNext
<1>3. FilmInv => MovieIsWhole
  BY FilmsMeansWhole
<1> QED BY <1>1, <1>2, <1>3, PTL DEF Spec
=============================================================================
