--------------------------- MODULE ScheduleEdits ---------------------------
(***************************************************************************)
(* The schedule of one channel between its two sides: clients of the        *)
(* control API that change it, repeat requests whose answer they did not    *)
(* see and race each other, and the engine that reads it and releases one   *)
(* second after the other, LIVE_LEAD_S ahead of the air.                    *)
(*                                                                          *)
(* EditSchedule of pkg/storage/api_store.go holds the lock of the channel   *)
(* row from its first read to its commit, so a transaction is one step.     *)
(* What happens before it is not under the lock: the moment a command acts  *)
(* on is computed when the request arrives.                                 *)
(***************************************************************************)
EXTENDS Schedule, FiniteSets

CONSTANTS
    Clients,        \* each sends one request, and may repeat it
    Clips,          \* the assets, and NoClip
    Keys,           \* the Idempotency-Keys, and NoKey
    NoKey,          \* a request without one
    Workloads,      \* what clients may do, see WorkloadType; a behaviour is about one of them
    NoRequest,      \* a client that has not sent one yet
    Tables,         \* the schedules a behaviour may begin with
    FilmLen,        \* the films in those schedules: clip -> its length in seconds
    MaxAge,         \* how old the engine's copy of the schedule gets, through the refresh and outages of the store
    CueLead,        \* CUE_LEAD_S of the control API
    LiveLead,       \* LIVE_LEAD_S of the engine
    MaxWait         \* bound: how long an attempt waits for the row, in seconds

Commands == {"ad_break", "slate", "insert", "skip", "return"}

EntryType == [type : {"content", "bumper", "slate", "ad_break"}, clip : Clips, start : Nat, dur : Nat, off : Nat]

\* a command names its moment (0: now) and what it puts on the air
CommandType == [type : Commands, key : Keys, at : Nat, ins : EntryType]

\* schedule:replace names its window and whether it is conditional on the version the client read
ReplaceType ==
    [type : {"replace"}, key : Keys, ed : [from : Nat, to : Nat, entries : Seq(EntryType)], ifMatch : BOOLEAN]

\* the requests there are, how often a client sends its own, and the last second of the clock
WorkloadType == [requests : SUBSET (CommandType \cup ReplaceType), attempts : Nat, until : Nat]

ASSUME RequestsAssumption ==
    /\ NoClip \in Clips /\ NoKey \in Keys
    /\ \A w \in Workloads :
         /\ \A q \in w.requests : q # NoRequest /\ (q \in CommandType \/ q \in ReplaceType)
         /\ w.attempts \in Nat /\ w.until \in Nat
    /\ Tables \subseteq Seq(EntryType) /\ \A t \in Tables : Airable(t)
    /\ DOMAIN FilmLen \subseteq Clips \ {NoClip}
    /\ {CueLead, LiveLead, MaxAge, MaxWait} \subseteq Nat

\* finitely many films
ASSUME FilmsAssumption == IsFiniteSet(DOMAIN FilmLen) /\ FilmLen \in [DOMAIN FilmLen -> Nat]

VARIABLES
    load,       \* the workload of this behaviour
    now,        \* the clock
    table,      \* timeline_entry
    version,    \* channel.schedule_version
    idem,       \* the table idempotency: key -> the body and the answer
    req,        \* the request of each client
    att,        \* its attempts: the moment a command acts on, when it arrived, the answer
    seen,       \* what the GET of each client has read
    entries,    \* engine: the schedule it knows
    entriesAt,  \* engine: when it read it
    released,   \* engine: the last second it put into the playlist
    aired,      \* what it put there, second by second
    log,        \* the requests that changed the schedule, in order
    dropped     \* the frames a skip was asked to drop

clientVars == <<req, att, seen>>
dbVars     == <<table, version, idem>>
engineVars == <<entries, entriesAt, released, aired>>
vars == <<load, now, dbVars, clientVars, engineVars, log, dropped>>

-----------------------------------------------------------------------------
(* Data *)

Unread  == -1
Waiting == [status |-> "waiting", version |-> 0, at |-> 0]
Answer(status, v, at) == [status |-> status, version |-> v, at |-> at]

\* a change that is sent with If-Match
Conditional(q) == q.type = "replace" /\ q.ifMatch

\* what bodyHash tells apart: If-Match is a header
Body(q) == IF q.type = "replace" THEN <<q.type, q.ed>> ELSE <<q.type, q.at, q.ins>>

\* what second t shows under a schedule, as a clip and a second of it
Frame(es, t) ==
    LET i == FirstOnAir(es, t) IN
    IF i = 0 THEN <<NoClip, 0>> ELSE <<es[i].clip, es[i].off + t - es[i].start>>

Init ==
    /\ load \in Workloads
    /\ now = 1
    /\ table \in Tables /\ version = 0 /\ idem = <<>>
    /\ req = [c \in Clients |-> NoRequest]
    /\ att = [c \in Clients |-> <<>>]
    /\ seen = [c \in Clients |-> [version |-> Unread, entries |-> <<>>, done |-> FALSE]]
    /\ entries = <<>> /\ entriesAt = 0 /\ released = 0 /\ aired = <<>>
    /\ log = <<>> /\ dropped = {}

-----------------------------------------------------------------------------
(* Reading the schedule: two queries, with no lock *)

\* getSchedule, the channel with its version
GetChannel(c) ==
    /\ req[c] = NoRequest
    /\ seen[c].version = Unread
    /\ \E q \in load.requests : Conditional(q)
    /\ seen' = [seen EXCEPT ![c] = [version |-> version, entries |-> <<>>, done |-> FALSE]]
    /\ UNCHANGED <<load, now, dbVars, req, att, engineVars, log, dropped>>

\* getSchedule, the entries
GetTimeline(c) ==
    /\ seen[c].version # Unread /\ ~seen[c].done
    /\ seen' = [seen EXCEPT ![c] = [version |-> seen[c].version, entries |-> table, done |-> TRUE]]
    /\ UNCHANGED <<load, now, dbVars, req, att, engineVars, log, dropped>>

-----------------------------------------------------------------------------
(* A request arrives: all that is checked before the transaction *)

\* earliest: the clock is rarely at a whole second, and then the moment is rounded up
Earliest == {now + CueLead, now + CueLead + 1}

\* inserted: the entry a command puts on the air is one it can have
Inserted(q) ==
    \/ q.type \in {"skip", "return"}
    \/ /\ q.ins.dur >= 1
       /\ q.type = "ad_break" => q.ins.clip = NoClip
       /\ q.type = "insert" => q.ins.clip # NoClip

\* runCommand and replaceSchedule up to EditSchedule: the moment of the edit, or 400
Arrives(c, q) ==
    \E first \in Earliest :
        LET at      == IF q.type = "replace" THEN 0 ELSE IF q.at = 0 THEN first ELSE q.at
            refused == IF q.type = "replace" THEN ~Validate(q.ed) ELSE at < first \/ ~Inserted(q)
        IN  att' = [att EXCEPT ![c] = Append(@,
                       [at |-> at, since |-> now,
                        answer |-> IF refused THEN Answer("invalid", 0, 0) ELSE Waiting])]

Send(c, q) ==
    /\ req[c] = NoRequest
    /\ seen[c].version # Unread => seen[c].done
    /\ Conditional(q) <=> seen[c].done
    /\ req' = [req EXCEPT ![c] = q]
    /\ Arrives(c, q)
    /\ UNCHANGED <<load, now, dbVars, seen, engineVars, log, dropped>>

\* the client saw no answer, whether or not there is or will be one, and sends the same request again
Repeat(c) ==
    /\ req[c] # NoRequest
    /\ req[c].key # NoKey
    /\ Len(att[c]) < load.attempts
    /\ Arrives(c, req[c])
    /\ UNCHANGED <<load, now, dbVars, req, seen, engineVars, log, dropped>>

-----------------------------------------------------------------------------
(* EditSchedule *)

Answers(c, i, a) ==
    att' = [att EXCEPT ![c] = [att[c] EXCEPT ![i] = [at |-> att[c][i].at, since |-> att[c][i].since, answer |-> a]]]

Unanswered(c, i) == att[c][i].answer = Waiting

\* the key was used before
Known(q) == q.key # NoKey /\ q.key \in DOMAIN idem

\* mutant of Outdated: If-Match is not compared
OutdatedNever(c, q) == FALSE

\* If-Match names another version
Outdated(c, q) == Conditional(q) /\ seen[c].version # version

\* Reader.Horizon: the end of the last entry
Horizon == Max({EndOf(e) : e \in ToSet(table)} \cup {0})

\* Reader.Range from the moment to the horizon: every entry that ends after it
Existing(at) == QueryRange(table, at, Horizon + 1)

\* ErrNothing of a command
NothingToDo(q, at) ==
    \/ q.type = "skip" /\ FirstOnAir(Existing(at), at) = 0
    \/ q.type = "return" /\ ~BreakOnAir(Existing(at), at)
    \/ q.type = "ad_break" /\ BreakOnAir(Existing(at), at)

\* decide
EditOf(q, at) ==
    CASE q.type = "replace"            -> q.ed
      [] q.type \in {"skip", "return"} -> Skip(Existing(at), at)
      [] OTHER                         -> InsertShift(Existing(at), at, q.ins)

\* a repeat: the stored answer, nothing changes; or 422, the key belongs to another request
Replayed(c, i) ==
    LET q == req[c] IN
    /\ Unanswered(c, i)
    /\ Known(q)
    /\ Answers(c, i, IF idem[q.key].body = Body(q) THEN idem[q.key].answer ELSE Answer("reused", 0, 0))
    /\ UNCHANGED <<load, now, dbVars, req, seen, engineVars, log, dropped>>

\* 412, 409 or 400: the transaction is rolled back
Refused(c, i) ==
    LET q  == req[c]
        at == att[c][i].at
    IN  /\ Unanswered(c, i)
        /\ ~Known(q)
        /\ \/ /\ Outdated(c, q)
              /\ Answers(c, i, Answer("outdated", version, 0))
           \/ /\ ~Outdated(c, q) /\ NothingToDo(q, at)
              /\ Answers(c, i, Answer("nothing", 0, 0))
           \/ /\ ~Outdated(c, q) /\ ~NothingToDo(q, at) /\ ~CheckEntries(EditOf(q, at))
              /\ Answers(c, i, Answer("invalid", 0, 0))
        /\ UNCHANGED <<load, now, dbVars, req, seen, engineVars, log, dropped>>

\* the frames of the entry on the air that a skip at at gives up
SkippedFrames(at) ==
    LET e == table[FirstOnAir(table, at)] IN
    {<<e.clip, e.off + t - e.start>> : t \in at .. EndOf(e) - 1}

\* mutant of Remember: the answer is not stored
RememberNothing(q, a) == idem

\* the row of the idempotency table
Remember(q, a) ==
    IF q.key = NoKey THEN idem
    ELSE [k \in DOMAIN idem \cup {q.key} |-> IF k = q.key THEN [body |-> Body(q), answer |-> a] ELSE idem[k]]

\* the schedule changes: the window, the version and the stored answer, all in one commit
Apply(c, i) ==
    LET q  == req[c]
        at == att[c][i].at
        a  == Answer("ok", version + 1, at)
    IN  /\ Unanswered(c, i)
        /\ ~Known(q) /\ ~Outdated(c, q) /\ ~NothingToDo(q, at)
        /\ CheckEntries(EditOf(q, at))
        /\ table' = Replace(table, EditOf(q, at))
        /\ version' = version + 1
        /\ idem' = Remember(q, a)
        /\ Answers(c, i, a)
        /\ log' = Append(log, [client |-> c, type |-> q.type, key |-> q.key, answer |-> a])
        /\ dropped' = dropped \cup (IF q.type \in {"skip", "return"} THEN SkippedFrames(at) ELSE {})
        /\ UNCHANGED <<load, now, req, seen, engineVars>>

\* the database or the connection to it fails before the commit: 500, nothing has changed
Fails(c, i) ==
    /\ Unanswered(c, i)
    /\ Answers(c, i, Answer("error", 0, 0))
    /\ UNCHANGED <<load, now, dbVars, req, seen, engineVars, log, dropped>>

-----------------------------------------------------------------------------
(* The engine and the clock *)

\* a tick reads the schedule
ReadSchedule ==
    /\ entries' = table
    /\ entriesAt' = now
    /\ UNCHANGED <<load, now, dbVars, clientVars, released, aired, log, dropped>>

\* a tick releases the next second by the schedule it knows: the store may be slow or gone, and the last known one airs
Release ==
    /\ released < now + LiveLead
    /\ entriesAt > 0 /\ entriesAt >= now - MaxAge
    /\ released' = released + 1
    /\ aired' = Append(aired, Frame(entries, released + 1))
    /\ UNCHANGED <<load, now, dbVars, clientVars, entries, entriesAt, log, dropped>>

\* the engine keeps up with the clock, and no attempt waits longer than MaxWait
Tick ==
    /\ now < load.until
    /\ released = now + LiveLead
    /\ \A c \in Clients : \A i \in DOMAIN att[c] : Unanswered(c, i) => now - att[c][i].since < MaxWait
    /\ now' = now + 1
    /\ UNCHANGED <<load, dbVars, clientVars, engineVars, log, dropped>>

Next ==
    \/ \E c \in Clients : GetChannel(c) \/ GetTimeline(c) \/ Repeat(c)
    \/ \E c \in Clients, q \in load.requests : Send(c, q)
    \/ \E c \in Clients : \E i \in DOMAIN att[c] :
          Replayed(c, i) \/ Refused(c, i) \/ Apply(c, i) \/ Fails(c, i)
    \/ ReadSchedule \/ Release \/ Tick

Spec == Init /\ [][Next]_vars

-----------------------------------------------------------------------------
(* Properties *)

\* However often requests are repeated, and however repeats race the first one (EditSchedule, "a repeat of an
\* earlier request changes nothing"), one Idempotency-Key changes the schedule at most once, every successful answer
\* to a request with that key is the answer of that change, and there is none before the change.
KeyChangesOnce ==
    /\ \A i, j \in DOMAIN log : i # j /\ log[i].key # NoKey => log[i].key # log[j].key
    /\ \A c \in Clients : \A i \in DOMAIN att[c] :
        att[c][i].answer.status = "ok" /\ req[c].key # NoKey =>
            \E j \in DOMAIN log : log[j].key = req[c].key /\ log[j].answer = att[c][i].answer

\* getSchedule reads the version and the entries in two queries, with changes in between.  Still a client that sends
\* the version back as If-Match only ever changes the schedule it has seen: when its change is applied, the entries it
\* read are the ones in the table.
ChangesWhatItRead ==
    [][\A c \in Clients :
          (log' # log /\ Last(log').client = c /\ seen[c].done) => table = seen[c].entries]_vars

\* The schedule stays one that can be aired: no entry is empty or begins before its clip does, and each begins when
\* the one before it is over; the rule of Validate and CheckEntries, kept by every command and by every replacement
\* of the whole schedule.  (A window that begins inside an entry is another matter: nothing looks at that entry.)
NoOverlap == Airable(table)

Movie == UNION {{<<c, k>> : k \in 0 .. FilmLen[c] - 1} : c \in DOMAIN FilmLen}

OfFilm(f) == f[1] \in DOMAIN FilmLen

AiredAt  == {t \in DOMAIN aired : OfFilm(aired[t])}
ComingAt == {p \in (DOMAIN table) \X (released + 1 .. Horizon) :
                OnAir(table[p[1]], p[2]) /\ table[p[1]].clip \in DOMAIN FilmLen}
Coming(p) == <<table[p[1]].clip, table[p[1]].off + p[2] - table[p[1]].start>>

\* Whatever commands cut, insert, shift and skip, and whenever they do (InsertShift, "a movie resumes after the break
\* at the same frame"; Skip), every second of a film is aired once, is still to be aired once, or belongs to what a skip
\* was asked to drop; none is lost and none airs twice.  Nor does an outage of the store change that while it is
\* shorter than what CUE_LEAD_S leaves for it (engine.go:154, "The channel keeps airing the last schedule it knows").
MovieIsWhole ==
    (\A i \in DOMAIN log : log[i].type # "replace") =>
    LET past   == {aired[t] : t \in AiredAt}
        coming == {Coming(p) : p \in ComingAt}
        gone   == {f \in dropped : OfFilm(f)}
    IN  /\ past \cup coming \cup gone = Movie
        /\ Cardinality(AiredAt) + Cardinality(ComingAt) + Cardinality(gone) = Cardinality(Movie)
=============================================================================
