----------------------------- MODULE Migrations -----------------------------
(***************************************************************************)
(* runMigrations: how processes bring one SQLite file to the schema of      *)
(* their build.  A server is restarted with a newer or an older build, a    *)
(* second process (cmd/seed, a server not yet stopped) may do the same at   *)
(* the same time, and each may fail or die between any two statements.      *)
(*                                                                         *)
(* SQLite is modelled from its use: one writer at a time, another one gets  *)
(* SQLITE_BUSY at once (no busy_timeout is set); DDL is part of the         *)
(* transaction; what is not committed is gone with the connection.          *)
(***************************************************************************)
EXTENDS Naturals, Sequences, FiniteSets

CONSTANTS Procs, NoProc,
          Builds,      \* the lengths of the lists All() of the builds deployed:
                       \* "Append only - never modify or reorder existing entries."
          Rerunnable,  \* ids whose SQL does not fail when it is run once more
          MaxFaults    \* bound: failed statements and deaths

ASSUME ProcsOK == NoProc \notin Procs
ASSUME BuildsOK == Builds \subseteq Nat /\ Rerunnable \subseteq Nat
ASSUME MaxFaultsOK == MaxFaults \in Nat

VARIABLES
    schema,    \* the ids whose SQL has been committed, in that order
    tracking,  \* the ids in table schema_migrations
    writer,    \* the process whose transaction holds the write lock
    at,        \* where each process is
    build,     \* the number of migrations its build has
    m,         \* the id its loop is at
    faults

migrationVars == <<schema, tracking, writer, at, build, m, faults>>

Stations == {"down", "check", "run", "record", "commit", "serving"}

MigrationsInit ==
    /\ schema = <<>> /\ tracking = {}
    /\ writer = NoProc
    /\ at = [p \in Procs |-> "down"]
    /\ build \in [Procs -> Builds]
    /\ m = [p \in Procs |-> 1]
    /\ faults = 0

GoTo(p, label) == at' = [at EXCEPT ![p] = label]

\* The transaction and the process end: runMigrations returns an error, OpenCore
\* closes the database and main exits.
GiveUp(p) ==
    /\ GoTo(p, "down")
    /\ writer' = IF writer = p THEN NoProc ELSE writer

\* OpenCore; CREATE TABLE IF NOT EXISTS for the tracking table is idempotent.
Open(p) ==
    /\ at[p] = "down"
    /\ \E b \in Builds : build' = [build EXCEPT ![p] = b]
    /\ m' = [m EXCEPT ![p] = 1]
    /\ GoTo(p, "check")
    /\ UNCHANGED <<schema, tracking, writer, faults>>

\* SELECT COUNT(*) ... WHERE id = ?: skip what is tracked, or Begin, which
\* takes no lock yet; after the last entry the process goes on to serve.
Check(p) ==
    /\ at[p] = "check"
    /\ \/ m[p] > build[p] /\ GoTo(p, "serving") /\ UNCHANGED m
       \/ /\ m[p] <= build[p] /\ m[p] \in tracking
          /\ m' = [m EXCEPT ![p] = @ + 1]
          /\ UNCHANGED at
       \/ m[p] <= build[p] /\ m[p] \notin tracking /\ GoTo(p, "run") /\ UNCHANGED m
    /\ UNCHANGED <<schema, tracking, writer, build, faults>>

\* transaction.Exec(m.SQL) takes the write lock, or fails because another has
\* it, or because the schema change is already there.
Applied(i) == i \in {schema[k] : k \in DOMAIN schema}
BugOutsideTransaction(p) ==
    /\ at[p] = "run"
    /\ IF writer = NoProc /\ (Applied(m[p]) => m[p] \in Rerunnable)
       THEN schema' = Append(schema, m[p]) /\ GoTo(p, "record") /\ UNCHANGED writer
       ELSE GiveUp(p) /\ UNCHANGED schema
    /\ UNCHANGED <<tracking, build, m, faults>>
RunSQL(p) ==
    /\ at[p] = "run"
    /\ IF writer = NoProc /\ (Applied(m[p]) => m[p] \in Rerunnable)
       THEN writer' = p /\ GoTo(p, "record")
       ELSE GiveUp(p)
    /\ UNCHANGED <<schema, tracking, build, m, faults>>

\* INSERT of the tracking row, whose id is the primary key.
BugInsertOrIgnore(p) ==
    /\ at[p] = "record"
    /\ GoTo(p, "commit")
    /\ UNCHANGED <<schema, tracking, writer, build, m, faults>>
Record(p) ==
    /\ at[p] = "record"
    /\ IF m[p] \notin tracking THEN GoTo(p, "commit") /\ UNCHANGED writer
       ELSE GiveUp(p)
    /\ UNCHANGED <<schema, tracking, build, m, faults>>

\* Commit makes the schema change and its row durable at once.
Commit(p) ==
    /\ at[p] = "commit"
    /\ schema' = Append(schema, m[p])
    /\ tracking' = tracking \cup {m[p]}
    /\ writer' = NoProc
    /\ m' = [m EXCEPT ![p] = @ + 1]
    /\ GoTo(p, "check")
    /\ UNCHANGED <<build, faults>>

\* Any statement may fail and any process may be killed or die.
Fail(p) ==
    /\ at[p] \notin {"down", "serving"} /\ faults < MaxFaults
    /\ faults' = faults + 1
    /\ GiveUp(p)
    /\ UNCHANGED <<schema, tracking, build, m>>

\* The process is stopped, to be started again with another build.
StopServing(p) ==
    /\ at[p] = "serving"
    /\ GoTo(p, "down")
    /\ UNCHANGED <<schema, tracking, writer, build, m, faults>>

Advance(p) == Open(p) \/ Check(p) \/ RunSQL(p) \/ Record(p) \/ Commit(p)

MigrationsNext == \E p \in Procs : Advance(p) \/ Fail(p) \/ StopServing(p)

MigrationsSpec == MigrationsInit /\ [][MigrationsNext]_migrationVars

-----------------------------------------------------------------------------

\* The types, and that a transaction that has written holds the write lock.
MigrationsTypeOK ==
    /\ schema \in Seq(Nat) /\ tracking \subseteq Nat
    /\ writer \in Procs \cup {NoProc}
    /\ \A p \in Procs : writer = p <=> at[p] \in {"record", "commit"}
    /\ at \in [Procs -> Stations]
    /\ build \in [Procs -> Builds]
    /\ m \in [Procs -> Nat]
    /\ faults \in 0..MaxFaults

\* What is tracked is what is applied, and it is a beginning of the list:
\* no migration is applied twice, skipped, out of order, or not remembered.
AppliedIsTracked ==
    /\ tracking = 1..Len(schema)
    /\ \A k \in DOMAIN schema : schema[k] = k

\* A process serves only on a schema its build knows completely, whatever
\* another process does to the file meanwhile.
ServedOnItsSchema ==
    \A p \in Procs : at[p] = "serving" => build[p] <= Len(schema)

\* Whatever the processes do, the file goes through the schemas of the list.
Log == INSTANCE SchemaLog
Promise == Log!LogSpec

\* A process that has begun, and is started again whenever it ends, comes to
\* serve some time, though it may lose a race against the other and fail at
\* each migration.
EveryProcessServes == \A p \in Procs : at[p] # "down" ~> at[p] = "serving"
=============================================================================
