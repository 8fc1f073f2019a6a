----------------------------- MODULE Migrations -----------------------------
(* MigrateUp and MigrateDown of binaries of different age, run concurrently *)
(* with the applications and consumers that write the state a downgrade     *)
(* would destroy. A migration is one READ COMMITTED transaction under an    *)
(* advisory lock; it may fail, or its process die, at any statement.        *)
EXTENDS Naturals, FiniteSets

CONSTANTS
    Migrator,       \* processes running emitlane migrate up|down
    BinaryVersion,  \* migrator -> currentSchemaVersion of its binary
    MaxMigrations   \* bound: migrate commands in a behaviour

\* The versions whose down migration first checks for state it would destroy.
InboxVersion == 4
OrderingVersion == 3
Guarded == {InboxVersion, OrderingVersion}

ASSUME MigrationConstants ==
    /\ BinaryVersion \in [Migrator -> Nat] /\ \A m \in Migrator : BinaryVersion[m] >= InboxVersion
    /\ MaxMigrations \in Nat

VARIABLES
    history,     \* versions recorded in schema_migrations
    migrator,    \* the transaction of each migrator
    protected,   \* guarded version -> its tables hold committed active or ordered state
    writer,      \* guarded version -> a transaction has inserted such state, uncommitted
    migrations   \* commands started so far

migrationVars == <<history, migrator, protected, writer, migrations>>

NoMigration == [at |-> "idle", command |-> "none", version |-> 0,
                added |-> {}, dropped |-> {}, locked |-> {}]

\* validateVersions: the recorded versions are 1..latest, within the binary.
Latest(versions) == IF versions = {} THEN 0
                    ELSE CHOOSE v \in versions : \A w \in versions : w <= v
ValidVersions(m, versions) ==
    /\ Latest(versions) <= BinaryVersion[m]
    /\ versions = 1 .. Latest(versions)

\* What a migration's DDL refers to: 2 and 4 alter tables of 1, 3 also of 2.
NeedsVersions(v) == CASE v = 1 -> {} [] v = 3 -> {1, 2} [] OTHER -> {1}

Finished(m) == migrator' = [migrator EXCEPT ![m] = NoMigration]
TableLocked(v) == \E m \in Migrator : v \in migrator[m].locked

-----------------------------------------------------------------------------
StartMigration(m, command) ==
    /\ migrator[m].at = "idle" /\ migrations < MaxMigrations
    /\ migrator' = [migrator EXCEPT ![m].at = "begin", ![m].command = command]
    /\ migrations' = migrations + 1
    /\ UNCHANGED <<history, protected, writer>>

\* beginMigration: pg_advisory_xact_lock, held to the end of the transaction.
AdvisoryLockIgnored(m) == TRUE
AdvisoryLockFree(m) == \A o \in Migrator \ {m} : migrator[o].at \in {"idle", "begin"}

BeginMigration(m) ==
    /\ migrator[m].at = "begin" /\ AdvisoryLockFree(m)
    /\ migrator' = [migrator EXCEPT ![m].at = "read"]
    /\ UNCHANGED <<history, protected, writer, migrations>>

\* appliedVersions and validateVersions.
ReadVersions(m) ==
    LET latest == Latest(history)
    IN  /\ migrator[m].at = "read"
        /\ \/ ~ValidVersions(m, history) /\ Finished(m)
           \/ /\ ValidVersions(m, history) /\ migrator[m].command = "up"
              /\ migrator' = [migrator EXCEPT ![m].at = "apply", ![m].version = latest + 1]
           \/ /\ ValidVersions(m, history) /\ migrator[m].command = "down" /\ latest = 0
              /\ Finished(m)
           \/ /\ ValidVersions(m, history) /\ migrator[m].command = "down" /\ latest # 0
              /\ migrator' = [migrator EXCEPT ![m].version = latest,
                                ![m].at = IF latest \in Guarded THEN "lock" ELSE "drop"]
        /\ UNCHANGED <<history, protected, writer, migrations>>

\* The loop over the embedded files ends with the binary's own version.
MoreFilesAlways(m) == TRUE
MoreFiles(m) == migrator[m].version <= BinaryVersion[m]

\* One up migration: it fails when its objects exist or what it alters is gone.
ApplyUp(m) ==
    LET v == migrator[m].version
    IN  /\ migrator[m].at = "apply" /\ MoreFiles(m)
        /\ \/ /\ v \notin history /\ NeedsVersions(v) \subseteq history \cup migrator[m].added
              /\ migrator' = [migrator EXCEPT ![m].added = @ \cup {v}, ![m].version = v + 1]
           \/ /\ v \in history \/ ~(NeedsVersions(v) \subseteq history \cup migrator[m].added)
              /\ Finished(m)
        /\ UNCHANGED <<history, protected, writer, migrations>>

\* LOCK TABLE ... IN ACCESS EXCLUSIVE MODE waits for the transactions that have
\* written the tables and keeps others out. The mutant checks without it.
LockSkipped(m) == migrator' = [migrator EXCEPT ![m].at = "check"]
LockTaken(m) ==
    /\ ~writer[migrator[m].version]
    /\ migrator' = [migrator EXCEPT ![m].at = "check", ![m].locked = {migrator[m].version}]

LockDowngradeState(m) ==
    /\ migrator[m].at = "lock" /\ LockTaken(m)
    /\ UNCHANGED <<history, protected, writer, migrations>>

\* The DO block of the down migration sees committed rows only.
CheckDowngrade(m) ==
    /\ migrator[m].at = "check"
    /\ \/ protected[migrator[m].version] /\ Finished(m)
       \/ ~protected[migrator[m].version] /\ migrator' = [migrator EXCEPT ![m].at = "drop"]
    /\ UNCHANGED <<history, protected, writer, migrations>>

\* The down migration of a version the binary embeds; downMigrationName returns
\* an error for any other, and MigrationFails. DROP and ALTER TABLE take the
\* table lock if it is not yet held, and the version's row is deleted.
DropVersion(m) ==
    LET v == migrator[m].version
    IN  /\ migrator[m].at = "drop" /\ v <= BinaryVersion[m]
        /\ v \in Guarded => ~writer[v]
        /\ migrator' = [migrator EXCEPT ![m].at = "commit", ![m].dropped = {v},
                                        ![m].locked = Guarded \cap {v}]
        /\ UNCHANGED <<history, protected, writer, migrations>>

CommitMigration(m) ==
    /\ \/ migrator[m].at = "commit"
       \/ migrator[m].at = "apply" /\ ~MoreFiles(m)
    /\ history' = (history \cup migrator[m].added) \ migrator[m].dropped
    /\ Finished(m)
    /\ UNCHANGED <<protected, writer, migrations>>

\* An error, the two minute deadline or a crash: the transaction rolls back.
MigrationFails(m) ==
    /\ migrator[m].at # "idle" /\ Finished(m)
    /\ UNCHANGED <<history, protected, writer, migrations>>

-----------------------------------------------------------------------------
(* Enqueue of an ordered event, or a consumer recording an inbox event.     *)

WriterInserts(v) ==
    /\ v \in history /\ ~writer[v] /\ ~TableLocked(v)
    /\ writer' = [writer EXCEPT ![v] = TRUE]
    /\ UNCHANGED <<history, migrator, protected, migrations>>

WriterCommits(v) ==
    /\ writer[v]
    /\ writer' = [writer EXCEPT ![v] = FALSE]
    /\ protected' = [protected EXCEPT ![v] = TRUE]
    /\ UNCHANGED <<history, migrator, migrations>>

WriterRollsBack(v) ==
    /\ writer[v]
    /\ writer' = [writer EXCEPT ![v] = FALSE]
    /\ UNCHANGED <<history, migrator, protected, migrations>>

\* The last inbox row is processed, or an operator retires the ordered streams.
StateRetired(v) ==
    /\ protected[v] /\ ~TableLocked(v)
    /\ protected' = [protected EXCEPT ![v] = FALSE]
    /\ UNCHANGED <<history, migrator, writer, migrations>>

-----------------------------------------------------------------------------
\* The database is new, or at a version that earlier commands left it at.
MigrationsInit ==
    /\ history \in {1 .. n : n \in 0 .. InboxVersion} /\ migrations = 0
    /\ migrator = [m \in Migrator |-> NoMigration]
    /\ protected = [v \in Guarded |-> FALSE]
    /\ writer = [v \in Guarded |-> FALSE]

MigratorStep(m) ==
    \/ BeginMigration(m) \/ ReadVersions(m) \/ ApplyUp(m) \/ LockDowngradeState(m)
    \/ CheckDowngrade(m) \/ DropVersion(m) \/ CommitMigration(m)

MigrationsNext ==
    \/ \E m \in Migrator :
         \/ \E command \in {"up", "down"} : StartMigration(m, command)
         \/ MigratorStep(m) \/ MigrationFails(m)
    \/ \E v \in Guarded :
         WriterInserts(v) \/ WriterCommits(v) \/ WriterRollsBack(v) \/ StateRetired(v)

MigrationsSpec == MigrationsInit /\ [][MigrationsNext]_migrationVars

-----------------------------------------------------------------------------
(* Type invariant.                                                          *)
MigrationsTypeOK ==
    /\ history \subseteq Nat
    /\ migrator \in [Migrator ->
         [at : {"idle", "begin", "read", "apply", "lock", "check", "drop", "commit"},
          command : {"none", "up", "down"}, version : Nat,
          added : SUBSET Nat, dropped : SUBSET Nat, locked : SUBSET Guarded]]
    /\ \A m \in Migrator : migrator[m].version <= BinaryVersion[m] + 1
    /\ protected \in [Guarded -> BOOLEAN]
    /\ writer \in [Guarded -> BOOLEAN]
    /\ migrations \in Nat

\* The recorded migrations are always 1..N for some N, however the migrators'
\* commands overlap and fail (MigrateUp, MigrateDown; UPGRADING.md: "Migration
\* history must be exactly a contiguous prefix 1..N").
HistoryIsPrefix == history = 1 .. Latest(history)

\* A downgrade never removes the tables or columns of a version while they hold
\* committed active inbox rows (version 4) or ordered streams (version 3), not
\* even rows a writer had inserted but not committed when the safety check ran
\* (MigrateDown: lock before check).
DowngradeKeepsState ==
    [][\A v \in Guarded : v \in history /\ v \notin history' => ~protected[v] /\ ~writer[v]]_migrationVars

\* A binary that does not know the database's schema version never changes it,
\* even if another binary upgraded while this one waited for the lock
\* (validateVersions after pg_advisory_xact_lock).
NewerSchemaUntouched ==
    \A m \in Migrator :
        migrator[m].added \cup migrator[m].dropped # {} => Latest(history) <= BinaryVersion[m]
=============================================================================
