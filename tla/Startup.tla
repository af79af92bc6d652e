------------------------------- MODULE Startup -------------------------------
(***************************************************************************)
(* The start of a process, New of internal/app/app.go: Open brings the     *)
(* schema up to date (Migrate of internal/repository/postgres/postgres.go, *)
(* one transaction under an advisory lock), then KeySet.Ensure runs, which *)
(* is SigningKeys' Start.  Servers and commands alike do this, several at  *)
(* once, over an empty database, one of an older release, one made before  *)
(* there was schema_migrations, or one of a newer release.                 *)
(***************************************************************************)
EXTENDS SigningKeys

CONSTANT Newest  \* the last migration of this release (3)

ASSUME NewestAssumption == Newest \in Nat \ {0}

VARIABLES
    schema,         \* max(version) of schema_migrations, 0 without a row
    ran,            \* how often a migration has changed the tables
    migrationLock,  \* holder of pg_advisory_xact_lock(77213001)
    opener          \* the Migrate that a process runs

migrationVars == <<schema, ran, migrationLock, opener>>
startupVars == <<vars, migrationVars>>

Migrations == 1..Newest

Closed == [pc |-> "closed", version |-> 0]

(* A database of any release, up to the one after this; or the accounts of  *)
(* the time before schema_migrations.                                       *)
MigrationInit ==
    /\ \E version \in 0..(Newest + 1), early \in BOOLEAN :
         /\ schema = version
         /\ ran = [m \in Migrations |-> IF m <= version \/ (early /\ m = 1) THEN 1 ELSE 0]
    /\ migrationLock = None
    /\ opener = [p \in Processes |-> Closed]

-----------------------------------------------------------------------------
OpenDatabase(p) ==
    /\ proc[p].pc = "off"
    /\ opener[p].pc = "closed"
    /\ opener' = [opener EXCEPT ![p].pc = "lock"]
    /\ UNCHANGED <<vars, schema, ran, migrationLock>>

(* A version without the advisory lock. *)
MigrateUnlocked(p) ==
    /\ opener[p].pc = "lock"
    /\ opener' = [opener EXCEPT ![p].pc = "read"]
    /\ UNCHANGED <<vars, schema, ran, migrationLock>>

LockMigrations(p) ==
    /\ opener[p].pc = "lock"
    /\ migrationLock = None
    /\ migrationLock' = p
    /\ opener' = [opener EXCEPT ![p].pc = "read"]
    /\ UNCHANGED <<vars, schema, ran>>

GiveUp(p) ==
    /\ opener' = [opener EXCEPT ![p] = Closed]
    /\ migrationLock' = IF migrationLock = p THEN None ELSE migrationLock

(* A version that does not refuse the schema of a newer release. *)
ReadAnyVersion(p) ==
    /\ opener[p].pc = "read"
    /\ opener' = [opener EXCEPT ![p].pc = "apply", ![p].version = schema]
    /\ UNCHANGED <<vars, schema, ran, migrationLock>>

ReadVersion(p) ==
    /\ opener[p].pc = "read"
    /\ IF schema > Newest
       THEN GiveUp(p)
       ELSE /\ opener' = [opener EXCEPT ![p].pc = "apply", ![p].version = schema]
            /\ UNCHANGED migrationLock
    /\ UNCHANGED <<vars, schema, ran>>

(* to_regclass('public.accounts'), asked only below version 1. *)
Existing(p) == opener[p].version = 0 /\ ran[1] > 0

(* A version that creates the tables without looking for them. *)
EveryMissing(p) == {m \in Migrations : m > opener[p].version}

(* The migrations the transaction executes. *)
Missing(p) == {m \in Migrations : /\ m > opener[p].version
                                  /\ ~(m = 1 /\ Existing(p))}

(* The migrations one after the other, and the commit; then Ensure. *)
CommitMigrations(p) ==
    /\ opener[p].pc = "apply"
    /\ schema' = IF opener[p].version < Newest THEN Newest ELSE opener[p].version
    /\ ran' = [m \in Migrations |-> ran[m] + IF m \in Missing(p) THEN 1 ELSE 0]
    /\ GiveUp(p)
    /\ Start(p)

(* A version with a lock of the session, on a pooled connection. *)
FailLocked(p) ==
    /\ opener[p].pc # "closed"
    /\ opener' = [opener EXCEPT ![p] = Closed]
    /\ UNCHANGED <<vars, schema, ran, migrationLock>>

(* A statement fails or the process dies: all of it is rolled back. *)
FailMigration(p) ==
    /\ opener[p].pc # "closed"
    /\ GiveUp(p)
    /\ UNCHANGED <<vars, schema, ran>>

MigrationStep(p) ==
    \/ LockMigrations(p)
    \/ ReadVersion(p)
    \/ CommitMigrations(p)

(* What SigningKeys does, with Start only after the migrations. *)
KeyNext ==
    /\ \/ \E p \in Processes : RotateKey(p) \/ ReadActiveKey(p) \/ Step(p) \/ Stop(p)
       \/ Tick
    /\ UNCHANGED migrationVars

StartupNext ==
    \/ \E p \in Processes : OpenDatabase(p) \/ MigrationStep(p) \/ FailMigration(p)
    \/ KeyNext

StartupInit ==
    /\ Init
    /\ MigrationInit

StartupSafety == StartupInit /\ [][StartupNext]_startupVars

(* A process goes on to its next statement, and obtains a lock that becomes  *)
(* free again and again: PostgreSQL queues those that wait.                 *)
StartupSpec ==
    /\ StartupSafety
    /\ \A p \in Processes :
         SF_startupVars(MigrationStep(p) \/ (Step(p) /\ UNCHANGED migrationVars))

-----------------------------------------------------------------------------
(***************************************************************************)
(* Properties.                                                             *)
(***************************************************************************)
(* Every variable has its type, those of SigningKeys as well. *)
StartupTyped ==
    /\ TypeOK
    /\ schema \in 0..(Newest + 1)
    /\ ran \in [Migrations -> Nat]
    /\ migrationLock \in Processes \cup {None}
    /\ opener \in [Processes -> [pc : {"closed", "lock", "read", "apply"},
                                 version : 0..(Newest + 1)]]

(* The tables have gone through every migration up to the recorded version, *)
(* once, and through no other, whoever started at the same time or died     *)
(* half-way; tables found in place count as the first migration.            *)
MigratedOnce ==
    \A m \in Migrations :
      IF m <= schema THEN ran[m] = 1 ELSE ran[m] = 0 \/ (m = 1 /\ ran[m] = 1)

(* A process touches its tables only over the schema it was written for:    *)
(* not before the migrations, not over those of a newer release.            *)
KnownSchemaServed == \A p \in Processes : proc[p].pc # "off" => schema = Newest

(* A process that opens the database comes to serve, or stops: those that   *)
(* migrate or rotate at the same time, or die of it, hold nobody up.        *)
OpeningEnds ==
    \A p \in Processes :
      opener[p].pc # "closed" ~>
        \/ proc[p].pc = "serving"
        \/ opener[p].pc = "closed" /\ proc[p].pc = "off"
=============================================================================
