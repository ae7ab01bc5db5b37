----------------------------- MODULE Migrations -----------------------------
(***************************************************************************)
(* How the services connect to their database: ConnectPostgresWait and      *)
(* migrate of pkg/storage/postgres.go.  Several services start at once, in  *)
(* any order and while the database comes and goes; each brings the schema  *)
(* up to date before it does anything else.                                 *)
(*                                                                          *)
(* The advisory lock and the transactions are those of PostgreSQL           *)
(* (external): a connection that is lost gives up both.                     *)
(***************************************************************************)
EXTENDS Integers, Sequences, FiniteSets

CONSTANTS
    Services,       \* the processes that connect
    Steps           \* how many migrations there are

ASSUME MigrationsAssumption == Steps \in Nat

VARIABLES
    service,        \* where each service is: [at, step, tx]
    advisory,       \* who holds the advisory lock: a set of at most one service
    recorded,       \* schema_migrations
    applied         \* the migrations the schema has been through, in order

migrationVars == <<service, advisory, recorded, applied>>

Down == [at |-> "down", step |-> 0, tx |-> <<>>]

MigrationsInit ==
    /\ service = [s \in Services |-> Down]
    /\ advisory = {} /\ recorded = {} /\ applied = <<>>

\* ConnectPostgres gets a connection, at the first try or at a later one
Connect(s) ==
    /\ service[s].at = "down"
    /\ service' = [service EXCEPT ![s].at = "lock"]
    /\ UNCHANGED <<advisory, recorded, applied>>

Lock(s) ==
    /\ service[s].at = "lock" /\ advisory = {}
    /\ advisory' = {s}
    /\ service' = [service EXCEPT ![s].at = "check", ![s].step = 1]
    /\ UNCHANGED <<recorded, applied>>

\* the head of the loop: the migration is done, or it is to be applied, or there are no more and the lock is released
Check(s) ==
    /\ service[s].at = "check"
    /\ LET step == service[s].step IN
       \/ /\ step > Steps
          /\ service' = [service EXCEPT ![s] = [Down EXCEPT !.at = "connected"]]
          /\ advisory' = advisory \ {s}
       \/ /\ step <= Steps /\ step \in recorded
          /\ service' = [service EXCEPT ![s].step = step + 1]
          /\ UNCHANGED advisory
       \/ /\ step <= Steps /\ step \notin recorded
          /\ service' = [service EXCEPT ![s].at = "exec"]
          /\ UNCHANGED advisory
    /\ UNCHANGED <<recorded, applied>>

\* mutant of Exec: the statements of the migration are not part of a transaction
ExecAtOnce(s) ==
    /\ service[s].at = "exec"
    /\ applied' = Append(applied, service[s].step)
    /\ service' = [service EXCEPT ![s].at = "commit"]
    /\ UNCHANGED <<advisory, recorded>>

\* the migration runs in a transaction
Exec(s) ==
    /\ service[s].at = "exec"
    /\ service' = [service EXCEPT ![s] = [at |-> "commit", step |-> @.step, tx |-> <<@.step>>]]
    /\ UNCHANGED <<advisory, recorded, applied>>

\* it is recorded in the same transaction, which is committed
Commit(s) ==
    /\ service[s].at = "commit"
    /\ recorded' = recorded \cup {service[s].step}
    /\ applied' = applied \o service[s].tx
    /\ service' = [service EXCEPT ![s] = [at |-> "check", step |-> @.step + 1, tx |-> <<>>]]
    /\ UNCHANGED advisory

\* an error, a lost connection or the end of the process: the pool is closed, and another try follows
Lose(s) ==
    /\ service[s].at \notin {"down", "connected"}
    /\ service' = [service EXCEPT ![s] = Down]
    /\ advisory' = advisory \ {s}
    /\ UNCHANGED <<recorded, applied>>

MigrationsNext == \E s \in Services : Connect(s) \/ Lock(s) \/ Check(s) \/ Exec(s) \/ Commit(s) \/ Lose(s)

Connected == \A s \in Services : service[s].at = "connected"

-----------------------------------------------------------------------------
(* Properties *)

\* "migrations are applied in order, once each" (migrations), whoever applies them and wherever a connection is lost;
\* and a service that is connected has all of them.
AppliedOnce ==
    /\ applied = [i \in 1 .. Len(applied) |-> i]
    /\ \A s \in Services : service[s].at = "connected" => Len(applied) = Steps
=============================================================================
