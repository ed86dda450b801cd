-------------------------- MODULE MigrationsProofs --------------------------
(***************************************************************************)
(* For any number of processes, builds and failures: the schema is always   *)
(* the tracked beginning of the list, it implements SchemaLog, and nobody   *)
(* serves on less than its build needs.                                     *)
(***************************************************************************)
EXTENDS Migrations, TLAPS

\* Where the loops are: a process has passed what is applied, and no more; a
\* transaction about to commit has seen that its row was missing, and since it
\* holds the lock nobody else can have added it.
LoopInv ==
    \A p \in Procs :
        /\ m[p] \in 1..(Len(schema) + 1)
        /\ at[p] = "commit" => m[p] \notin tracking
        /\ at[p] = "serving" => build[p] <= Len(schema)

SchemaInv == MigrationsTypeOK /\ AppliedIsTracked /\ LoopInv

USE ProcsOK, BuildsOK, MaxFaultsOK

\* The initial states satisfy the invariant.
LEMMA SchemaInits == MigrationsInit => SchemaInv
  BY DEF MigrationsInit, SchemaInv, MigrationsTypeOK, Stations, AppliedIsTracked, LoopInv

\* At the commit the migration in hand is the next one of the list.
LEMMA CommitIsNext ==
    ASSUME SchemaInv, NEW p \in Procs, at[p] = "commit"
    PROVE  m[p] = Len(schema) + 1
  <1>1. m[p] \in 1..(Len(schema) + 1) /\ m[p] \notin tracking
    BY DEF SchemaInv, LoopInv
  <1>2. tracking = 1..Len(schema) /\ Len(schema) \in Nat
    BY DEF SchemaInv, AppliedIsTracked, MigrationsTypeOK
  <1> QED
    BY <1>1, <1>2

\* A commit keeps the invariant.
LEMMA CommitInv ==
    ASSUME SchemaInv, NEW p \in Procs, Commit(p)
    PROVE  SchemaInv'
  <1>1. at[p] = "commit" /\ m[p] = Len(schema) + 1
    BY CommitIsNext DEF Commit
  <1>2. /\ schema \in Seq(Nat) /\ Len(schema) \in Nat
        /\ schema' \in Seq(Nat) /\ Len(schema') = Len(schema) + 1
        /\ \A k \in DOMAIN schema' : schema'[k] = k
    <2>1. schema \in Seq(Nat) /\ \A k \in DOMAIN schema : schema[k] = k
      BY DEF SchemaInv, MigrationsTypeOK, AppliedIsTracked
    <2>2. schema' = Append(schema, Len(schema) + 1)
      BY <1>1 DEF Commit
    <2>3. DOMAIN schema = 1..Len(schema) /\ DOMAIN schema' = 1..Len(schema')
      BY <2>1, <2>2
    <2> QED
      BY <2>1, <2>2, <2>3
  <1>3. tracking' = 1..Len(schema')
    <2>1. tracking = 1..Len(schema) /\ tracking' = tracking \cup {Len(schema) + 1}
      BY <1>1 DEF SchemaInv, AppliedIsTracked, Commit
    <2> QED
      BY <1>2, <2>1
  <1>4. /\ m' = [m EXCEPT ![p] = @ + 1] /\ at' = [at EXCEPT ![p] = "check"]
        /\ writer' = NoProc /\ build' = build /\ faults' = faults
    BY DEF Commit, GoTo
  <1>5. writer = p /\ \A q \in Procs : q # p => at[q] \notin {"record", "commit"}
    BY <1>1 DEF SchemaInv, MigrationsTypeOK
  <1>6. MigrationsTypeOK'
    BY <1>1, <1>2, <1>3, <1>4, <1>5 DEF SchemaInv, MigrationsTypeOK, Stations
  <1>7. LoopInv'
    <2> SUFFICES ASSUME NEW q \in Procs
                 PROVE  /\ m'[q] \in 1..(Len(schema') + 1)
                        /\ at'[q] # "commit"
                        /\ at'[q] = "serving" => build'[q] <= Len(schema')
      BY DEF LoopInv
    <2>1. /\ m \in [Procs -> Nat] /\ at \in [Procs -> Stations]
          /\ build \in [Procs -> Builds] /\ build[q] \in Nat
      BY DEF SchemaInv, MigrationsTypeOK
    <2>2. CASE q = p
      BY <1>1, <1>2, <1>4, <2>1, <2>2
    <2>3. CASE q # p
      <3>1. m'[q] = m[q] /\ at'[q] = at[q] /\ build'[q] = build[q]
        BY <1>4, <2>1, <2>3
      <3>2. m[q] \in 1..(Len(schema) + 1) /\ (at[q] = "serving" => build[q] <= Len(schema))
        BY DEF SchemaInv, LoopInv
      <3> QED
        BY <1>2, <1>5, <2>1, <2>3, <3>1, <3>2
    <2> QED
      BY <2>2, <2>3
  <1> QED
    BY <1>2, <1>3, <1>6, <1>7 DEF SchemaInv, AppliedIsTracked

\* Every other step leaves the file alone and keeps the invariant.
LEMMA OtherInv ==
    ASSUME SchemaInv, NEW p \in Procs,
           Open(p) \/ Check(p) \/ RunSQL(p) \/ Record(p) \/ Fail(p) \/ StopServing(p)
    PROVE  SchemaInv' /\ UNCHANGED schema
  <1>1. UNCHANGED <<schema, tracking>>
    BY DEF Open, Check, RunSQL, Record, Fail, StopServing
  <1>2. MigrationsTypeOK'
    <2>1. CASE Open(p)
      BY <1>1, <2>1 DEF Open, GoTo, SchemaInv, MigrationsTypeOK, Stations
    <2>2. CASE Check(p)
      BY <1>1, <2>2 DEF Check, GoTo, SchemaInv, MigrationsTypeOK, Stations
    <2>3. CASE RunSQL(p)
      BY <1>1, <2>3 DEF RunSQL, GiveUp, GoTo, SchemaInv, MigrationsTypeOK, Stations
    <2>4. CASE Record(p)
      <3>1. at[p] = "record" /\ writer = p /\ at \in [Procs -> Stations]
        BY <2>4 DEF Record, SchemaInv, MigrationsTypeOK
      <3>2. CASE GoTo(p, "commit") /\ UNCHANGED writer
        BY <1>1, <2>4, <3>1, <3>2 DEF Record, GoTo, SchemaInv, MigrationsTypeOK, Stations
      <3>3. CASE GiveUp(p)
        BY <1>1, <2>4, <3>1, <3>3 DEF Record, GiveUp, GoTo, SchemaInv, MigrationsTypeOK, Stations
      <3> QED
        BY <2>4, <3>2, <3>3 DEF Record
    <2>5. CASE Fail(p)
      BY <1>1, <2>5 DEF Fail, GiveUp, GoTo, SchemaInv, MigrationsTypeOK, Stations
    <2>6. CASE StopServing(p)
      BY <1>1, <2>6 DEF StopServing, GoTo, SchemaInv, MigrationsTypeOK, Stations
    <2> QED
      BY <2>1, <2>2, <2>3, <2>4, <2>5, <2>6
  <1>3. AppliedIsTracked'
    BY <1>1 DEF SchemaInv, AppliedIsTracked
  <1>4. LoopInv'
    <2> USE DEF SchemaInv, MigrationsTypeOK, LoopInv, AppliedIsTracked, GoTo
    <2>1. CASE Open(p)
      BY <1>1, <2>1 DEF Open
    <2>2. CASE Check(p)
      <3>1. /\ m[p] \in 1..(Len(schema) + 1) /\ build[p] \in Nat /\ Len(schema) \in Nat
            /\ m[p] \in tracking => m[p] \in 1..Len(schema)
        <4>1. schema \in Seq(Nat) /\ build[p] \in Nat
          BY BuildsOK
        <4>2. Len(schema) \in Nat
          BY <4>1
        <4>3. m[p] \in 1..(Len(schema) + 1) /\ tracking = 1..Len(schema)
          OBVIOUS
        <4> QED
          BY <4>1, <4>2, <4>3
      <3>2. CASE m[p] > build[p] /\ GoTo(p, "serving") /\ UNCHANGED m
        BY <1>1, <2>2, <3>1, <3>2 DEF Check
      <3>3. CASE m[p] \in tracking /\ m' = [m EXCEPT ![p] = @ + 1] /\ UNCHANGED at
        BY <1>1, <2>2, <3>1, <3>3 DEF Check
      <3>4. CASE m[p] \notin tracking /\ GoTo(p, "run") /\ UNCHANGED m
        BY <1>1, <2>2, <3>4 DEF Check
      <3> QED
        BY <2>2, <3>2, <3>3, <3>4 DEF Check
    <2>3. CASE RunSQL(p)
      BY <1>1, <2>3 DEF RunSQL, GiveUp
    <2>4. CASE Record(p)
      BY <1>1, <2>4 DEF Record, GiveUp
    <2>5. CASE Fail(p)
      BY <1>1, <2>5 DEF Fail, GiveUp
    <2>6. CASE StopServing(p)
      BY <1>1, <2>6 DEF StopServing
    <2> QED
      BY <2>1, <2>2, <2>3, <2>4, <2>5, <2>6
  <1> QED
    BY <1>1, <1>2, <1>3, <1>4 DEF SchemaInv

\* The invariant is inductive.
LEMMA SchemaPreserved == SchemaInv /\ [MigrationsNext]_migrationVars => SchemaInv'
  <1> SUFFICES ASSUME SchemaInv, [MigrationsNext]_migrationVars PROVE SchemaInv'
    OBVIOUS
  <1>1. CASE UNCHANGED migrationVars
    BY <1>1 DEF migrationVars, SchemaInv, MigrationsTypeOK, Stations, AppliedIsTracked, LoopInv
  <1>2. CASE MigrationsNext
    <2> PICK p \in Procs : Advance(p) \/ Fail(p) \/ StopServing(p)
      BY <1>2 DEF MigrationsNext
    <2> QED
      BY CommitInv, OtherInv DEF Advance
  <1> QED
    BY <1>1, <1>2

\* The inductive invariant holds in every reachable state.
THEOREM SchemaInvariant == MigrationsSpec => []SchemaInv
  BY SchemaInits, SchemaPreserved, PTL DEF MigrationsSpec

\* The variables keep their types, and who has written in a transaction holds
\* the write lock of the file (migrate.go:48-69).
THEOREM SchemaTypes == MigrationsSpec => []MigrationsTypeOK
  <1>1. SchemaInv => MigrationsTypeOK
    BY DEF SchemaInv
  <1> QED
    BY <1>1, SchemaInvariant, PTL

\* The tracked migrations are the applied ones, and a beginning of the list.
THEOREM Tracked == MigrationsSpec => []AppliedIsTracked
  <1>1. SchemaInv => AppliedIsTracked
    BY DEF SchemaInv
  <1> QED
    BY <1>1, SchemaInvariant, PTL

\* No process serves on a schema that lacks a migration of its build.
THEOREM SchemaServed == MigrationsSpec => []ServedOnItsSchema
  <1>1. SchemaInv => ServedOnItsSchema
    BY DEF SchemaInv, LoopInv, ServedOnItsSchema
  <1> QED
    BY <1>1, SchemaInvariant, PTL

\* runMigrations, run by any number of processes, implements SchemaLog.
THEOREM ImplementsLog == MigrationsSpec => Promise
  <1>1. MigrationsInit => Log!LogInit
    BY DEF MigrationsInit, Log!LogInit
  <1>2. SchemaInv /\ [MigrationsNext]_migrationVars => [Log!LogNext]_schema
    <2> SUFFICES ASSUME SchemaInv, [MigrationsNext]_migrationVars PROVE Log!LogNext \/ UNCHANGED schema
      OBVIOUS
    <2>1. CASE UNCHANGED migrationVars
      BY <2>1 DEF migrationVars
    <2>2. CASE MigrationsNext
      <3> PICK p \in Procs : Advance(p) \/ Fail(p) \/ StopServing(p)
        BY <2>2 DEF MigrationsNext
      <3>1. CASE Commit(p)
        BY <3>1, CommitIsNext DEF Commit, Log!LogNext
      <3> QED
        BY <3>1, OtherInv DEF Advance
    <2> QED
      BY <2>1, <2>2
  <1> QED
    BY <1>1, <1>2, SchemaInvariant, PTL DEF MigrationsSpec, Promise, Log!LogSpec
=============================================================================
