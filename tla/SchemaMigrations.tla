--------------------------- MODULE SchemaMigrations ---------------------------
(***************************************************************************)
(* The database schema of the hub (backend/app/schema_migrations.py):      *)
(* hubs and the operator's command bring one database, empty or left by an *)
(* older program, to the schema of their release, beside each other and    *)
(* with crashes at any step.                                               *)
(*                                                                         *)
(* A migration creates objects where they are missing (CREATE and ADD      *)
(* COLUMN ... IF NOT EXISTS); a release is a sequence of migrations, and   *)
(* releases may disagree on one.  Each step below is one transaction.      *)
(***************************************************************************)
EXTENDS Naturals, Sequences, SequencesExt, Functions

CONSTANTS
    Processes,    \* hubs and commands
    Releases,     \* sequences of migrations, [id |-> ..., creates |-> ...]
    Objects,      \* tables, columns and indexes
    KindOf,       \* "table", "column", "addable" (column) or "index" of an object
    TableOf,      \* the table an object is part of
    Databases     \* schemas found at first: a definition or "absent" for each object

Migrations == UNION {Range(r) : r \in Releases}
Identifiers == {m.id : m \in Migrations}

\* There is a release, the holder of the lock can be told from nobody, and a database that
\* is found says of each object what it is.
ASSUME SchemaConstants ==
    /\ Releases # {} /\ Releases \subseteq Seq(Migrations) /\ "nobody" \notin Processes
    /\ \A db \in Databases : DOMAIN db = Objects

VARIABLES
    objects,      \* the definition of each object, or "absent"
    ledger,       \* identifiers in oaw_schema_migrations; a table without rows is <<>>
    registry,     \* that table exists
    locked,       \* the process that has the advisory lock, or "nobody"
    runner        \* each process: its release, what it read and how far it is

migrationVars == <<objects, ledger, registry, locked, runner>>

Off == [pc |-> "off"]
IsAt(p, pc) == runner[p].pc = pc
Release(p) == runner[p].release
Ids(r) == [i \in DOMAIN r |-> r[i].id]

MigrationTypeOK ==
    /\ DOMAIN objects = Objects
    /\ registry \in BOOLEAN
    /\ ~registry => ledger = <<>>
    /\ locked \in Processes \cup {"nobody"}
    /\ \A p \in Processes :
          /\ runner[p].pc \in {"off", "waiting", "locked", "applying", "ready", "failed"}
          /\ (runner[p].pc \in {"locked", "applying"}) = (locked = p)

MigrationInit ==
    /\ objects \in Databases
    /\ ledger = <<>> /\ registry = FALSE
    /\ locked = "nobody"
    /\ runner = [p \in Processes |-> Off]

--------------------------------------------------------------------------------
(* What the SQL of the first n migrations of a release declares, and what  *)
(* a database must have of it.                                             *)

Contract(r, n) ==
    LET of(o) == {i \in 1..n : o \in DOMAIN r[i].creates}
    IN  [o \in {x \in Objects : of(x) # {}} |-> r[CHOOSE i \in of(o) : TRUE].creates[o]]

Compatible(db, contract, missing) ==
    \A o \in DOMAIN contract :
        \/ db[o] = contract[o]
        \/ /\ missing /\ db[o] = "absent"
           /\ KindOf[o] # "column" \/ db[TableOf[o]] = "absent"

\* A column of CREATE TABLE is not added to a table that is there.
Execute(db, creates) ==
    [o \in Objects |->
        IF /\ o \in DOMAIN creates /\ db[o] = "absent"
           /\ KindOf[o] # "column" \/ db[TableOf[o]] = "absent"
        THEN creates[o] ELSE db[o]]

ValidHistory(applied, r) == IsPrefix(applied, Ids(r))

--------------------------------------------------------------------------------
(* migrate_database_schema.                                                *)

Unlock(p) == locked' = IF locked = p THEN "nobody" ELSE locked
StopAs(p, pc) ==
    /\ runner' = [runner EXCEPT ![p] = IF pc = "off" THEN Off ELSE [@ EXCEPT !.pc = pc]]
    /\ Unlock(p)
SchemaStays == UNCHANGED <<objects, ledger, registry>>

StartUp(p, r) ==
    /\ runner[p].pc \in {"off", "failed"}
    /\ runner' = [runner EXCEPT ![p] = [pc |-> "waiting", release |-> r, applied |-> <<>>]]
    /\ SchemaStays /\ UNCHANGED locked

\* Mutant of TryLock: pg_try_advisory_lock is not asked for its answer.
TryLockAnyway(p) ==
    /\ IsAt(p, "waiting")
    /\ locked' = p
    /\ runner' = [runner EXCEPT ![p].pc = "locked"]
    /\ SchemaStays

TryLock(p) ==
    /\ IsAt(p, "waiting") /\ locked = "nobody"
    /\ locked' = p
    /\ runner' = [runner EXCEPT ![p].pc = "locked"]
    /\ SchemaStays

LockTimeout(p) ==
    /\ IsAt(p, "waiting") /\ locked # "nobody"
    /\ StopAs(p, "failed") /\ SchemaStays

Adoptable(r) ==
    ValidHistory(ledger, r) /\ Compatible(objects, Contract(r, Len(r)), TRUE)

\* The registry is created, the history read and both are compared with the release.
Inspect(p) ==
    /\ IsAt(p, "locked") /\ Adoptable(Release(p))
    /\ registry' = TRUE
    /\ runner' = [runner EXCEPT ![p] =
                    [pc |-> "applying", release |-> Release(p), applied |-> ledger]]
    /\ UNCHANGED <<objects, ledger, locked>>

InspectFails(p) ==
    IsAt(p, "locked") /\ ~Adoptable(Release(p)) /\ StopAs(p, "failed") /\ SchemaStays

\* The first migration that is not applied: its SQL, the contract so far and the row
\* in the registry, whose primary key is the version.
Applies(p) ==
    LET r == Release(p)  n == Len(runner[p].applied) + 1
    IN  /\ Compatible(Execute(objects, r[n].creates), Contract(r, n), FALSE)
        /\ Len(ledger) < n

ApplyMigration(p) ==
    LET r == Release(p)  n == Len(runner[p].applied) + 1
    IN  /\ IsAt(p, "applying") /\ n <= Len(r) /\ Applies(p)
        /\ objects' = Execute(objects, r[n].creates)
        /\ ledger' = Append(ledger, r[n].id)
        /\ runner' = [runner EXCEPT ![p].applied = Append(@, r[n].id)]
        /\ UNCHANGED <<registry, locked>>

\* Mutant of ApplyFails: the statements that were executed are not rolled back.
ApplyFailsHalfway(p) ==
    /\ IsAt(p, "applying") /\ Len(runner[p].applied) < Len(Release(p))
    /\ objects' = Execute(objects, Release(p)[Len(runner[p].applied) + 1].creates)
    /\ StopAs(p, "failed") /\ UNCHANGED <<ledger, registry>>

\* A contract that is not met, an error of the database or a statement of the migration.
ApplyFails(p) ==
    /\ IsAt(p, "applying") /\ Len(runner[p].applied) < Len(Release(p))
    /\ StopAs(p, "failed") /\ SchemaStays

Complete(r) == ValidHistory(ledger, r) /\ Compatible(objects, Contract(r, Len(r)), FALSE)

FinalCheck(p) ==
    /\ IsAt(p, "applying") /\ Len(runner[p].applied) >= Len(Release(p))
    /\ StopAs(p, IF Complete(Release(p)) THEN "ready" ELSE "failed")
    /\ SchemaStays

\* The end of a process, or of its connection: PostgreSQL rolls back and unlocks.
Exit(p) == ~IsAt(p, "off") /\ StopAs(p, "off") /\ SchemaStays

MigrationNext ==
    \E p \in Processes :
        \/ \E r \in Releases : StartUp(p, r)
        \/ TryLock(p) \/ LockTimeout(p) \/ Inspect(p) \/ InspectFails(p)
        \/ ApplyMigration(p) \/ ApplyFails(p) \/ FinalCheck(p) \/ Exit(p)

MigrationSpec == MigrationInit /\ [][MigrationNext]_migrationVars

\* verify_database_schema, for the operator.
Verified(r) ==
    IF ~registry THEN "uninitialized"
    ELSE IF ~ValidHistory(ledger, r) \/ ~Compatible(objects, Contract(r, Len(ledger)), FALSE)
    THEN "failed"
    ELSE IF Len(ledger) = Len(r) THEN "ready" ELSE "migration-required"

--------------------------------------------------------------------------------
(* Properties.                                                             *)

\* The registry is a history that some release has, and the database has every object
\* of it as that release declares it, whoever crashed; a hub that is ready has no
\* migration that the registry lacks, so hubs of different releases that serve beside
\* each other agree on every migration both have; a migration never meets a row of
\* another process; and `verify` says ready exactly to releases that need nothing.
SchemaConsistent ==
    /\ \E r \in Releases : /\ ValidHistory(ledger, r)
                           /\ Compatible(objects, Contract(r, Len(ledger)), FALSE)
    /\ \A p \in Processes : IsAt(p, "ready") => IsPrefix(Ids(Release(p)), ledger)
    /\ \A p \in Processes : IsAt(p, "applying") => runner[p].applied = ledger
    /\ \A r \in Releases : Verified(r) = "ready" <=> ledger = Ids(r) /\ registry /\ Complete(r)

\* The history only grows by one row, with the objects of that migration; what the
\* database had before stays as it was, also where a migration fails.
SchemaMoves ==
    [][/\ ledger' # ledger => IsPrefix(ledger, ledger') /\ Len(ledger') = Len(ledger) + 1
       /\ objects' # objects => ledger' # ledger
       /\ \A o \in Objects : objects[o] # "absent" => objects'[o] = objects[o]]_migrationVars

\* What holds in every state, and of every step.
SchemaSound == []SchemaConsistent /\ SchemaMoves
================================================================================
