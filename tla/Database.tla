----------------------------- MODULE Database ------------------------------
(***************************************************************************)
(* The control-plane database (internal/platform/database/database.go):    *)
(* Open and its embedded migrations, the factory reset, which drops tables *)
(* and migrates again in a process that goes on serving, and Backup, with  *)
(* stops of the process and failing statements anywhere in between.        *)
(*                                                                         *)
(* Tables and columns are told apart by the migration that brings them:    *)
(* "identity" are the twelve tables of 001, "store" the two of 002,      *)
(* "compose" the column and "apps" the tables of 003, "runtime" the        *)
(* columns of 004.  A transaction of SQLite is one action: it commits as a *)
(* whole or not at all.                                                    *)
(***************************************************************************)
EXTENDS Integers, FiniteSets

CONSTANTS
    Boot,        \* the start of the process: app.New
    Reset,       \* requests to POST /api/v1/admin/reset
    Nothing,     \* no table schema_migrations, no file
    MaxFaults,   \* bound: statements that fail
    MaxCrashes,  \* bound: stops of the process
    MaxBackups   \* bound: calls of Backup

ASSUME BootIsNoReset == Boot \notin Reset
ASSUME BoundsAreNatural == MaxFaults \in Nat /\ MaxCrashes \in Nat /\ MaxBackups \in Nat

Initializer == Reset \cup {Boot}

\* The embedded files in the order of their names, 001_identity.sql first.
Migration == 1..4
Table == {"identity", "store", "compose", "apps", "runtime"}

ASSUME NothingIsNoRecord == \A a \in SUBSET Migration : Nothing # a

\* The rows of schema_migrations, or no such table.
Record == (SUBSET Migration) \cup {Nothing}

\* What a migration brings.
Adds(m) == CASE m = 1 -> {"identity"}
             [] m = 2 -> {"store"}
             [] m = 3 -> {"compose", "apps"}
             [] OTHER -> {"runtime"}

\* What its ALTER TABLE statements need.
Needs(m) == CASE m = 3 -> {"store"} [] m = 4 -> {"apps"} [] OTHER -> {}

\* What they may not find: SQLite has no ADD COLUMN IF NOT EXISTS.
Rejects(m) == CASE m = 3 -> {"compose"} [] m = 4 -> {"runtime"} [] OTHER -> {}

\* What the first n migrations leave.
Shape(n) == UNION {Adds(m) : m \in 1..n}

VARIABLES
    tables,       \* the tables and columns in the file
    applied,      \* the rows of schema_migrations, or Nothing
    accounts,     \* there are rows in users
    token,        \* there is a bootstrap token to be consumed
    pc, next,     \* per initializer: its next call, and the migration it is at
    backup,       \* Backup's next call; while it is not "idle" Backup holds writeMu
    temporary,    \* the file Backup writes, or Nothing
    destination,  \* the published backup, or Nothing
    faults, crashes, backups

file == <<tables, applied, accounts, token>>
copy == <<backup, temporary, destination, backups>>
vars == <<file, pc, next, copy, faults, crashes>>

\* A copy of the database: written, flushed to the disk, or torn by a stop before.
Snapshot == [tables : SUBSET Table, applied : Record,
             disk : {"written", "synced", "torn"}]

Call == {"down", "none", "drop", "begin", "check", "apply", "verify", "bootstrap",
         "serving", "done", "failed"}

Serving == pc[Boot] = "serving"
writeMuFree == backup = "idle"

\* Backup renames its file and then flushes the directory: stopped or failing
\* there, it may have published the file.
Destinations == IF backup = "publish" THEN {destination, temporary} ELSE {destination}

-----------------------------------------------------------------------------
(* initialize, by the start of the process and by every reset *)

\* Start of the process.
Open ==
    /\ pc[Boot] = "down"
    /\ pc' = [pc EXCEPT ![Boot] = "begin"]
    /\ UNCHANGED <<file, next, copy, faults, crashes>>

\* The pragmas and CREATE TABLE IF NOT EXISTS schema_migrations.
Begin(p) ==
    /\ pc[p] = "begin"
    /\ applied' = IF applied = Nothing THEN {} ELSE applied
    /\ pc' = [pc EXCEPT ![p] = "check"]
    /\ next' = [next EXCEPT ![p] = 1]
    /\ UNCHANGED <<tables, accounts, token, copy, faults, crashes>>

\* The process exits when its start fails and with it every request; a reset
\* that fails is answered with status 500.
Failed(p) ==
    IF p = Boot THEN [pc EXCEPT ![p] = "down"] ELSE [pc EXCEPT ![p] = "failed"]

\* Mutant: the loop does not end with the last migration.
AdvanceTooFar(p) ==
    IF next[p] > 4
    THEN /\ pc' = [pc EXCEPT ![p] = "verify"]
         /\ UNCHANGED next
    ELSE /\ pc' = [pc EXCEPT ![p] = "check"]
         /\ next' = [next EXCEPT ![p] = @ + 1]

\* Where an initializer goes after migration m: the next one, or quick_check.
Advance(p) ==
    IF next[p] = 4
    THEN /\ pc' = [pc EXCEPT ![p] = "verify"]
         /\ UNCHANGED next
    ELSE /\ pc' = [pc EXCEPT ![p] = "check"]
         /\ next' = [next EXCEPT ![p] = @ + 1]

\* Mutant: a migration that is applied ends the loop.
CheckBreaking(p) ==
    /\ pc[p] = "check"
    /\ pc' = IF applied = Nothing THEN Failed(p)
             ELSE [pc EXCEPT ![p] = IF next[p] \in applied THEN "verify" ELSE "apply"]
    /\ UNCHANGED <<file, next, copy, faults, crashes>>

\* The SELECT that tells whether the migration has been applied.
Check(p) ==
    /\ pc[p] = "check"
    /\ \/ /\ applied = Nothing
          /\ pc' = Failed(p)
          /\ UNCHANGED next
       \/ /\ applied # Nothing /\ next[p] \in applied
          /\ Advance(p)
       \/ /\ applied # Nothing /\ next[p] \notin applied
          /\ pc' = [pc EXCEPT ![p] = "apply"]
          /\ UNCHANGED next
    /\ UNCHANGED <<file, copy, faults, crashes>>

\* All statements of the migration run, and its record is new.
Applies(m) ==
    /\ Needs(m) \subseteq tables
    /\ Rejects(m) \cap tables = {}
    /\ applied # Nothing /\ m \notin applied

\* Mutant: the statements are not in the transaction of the record.
ApplyTorn(p) ==
    /\ pc[p] = "apply" /\ writeMuFree
    /\ \/ /\ Applies(next[p])
          /\ tables' = tables \cup Adds(next[p])
          /\ \/ applied' = applied \cup {next[p]} /\ Advance(p) /\ UNCHANGED faults
             \/ /\ faults < MaxFaults /\ faults' = faults + 1
                /\ UNCHANGED <<applied, next>>
                /\ pc' = Failed(p)
       \/ /\ ~Applies(next[p])
          /\ pc' = Failed(p)
          /\ UNCHANGED <<tables, applied, next, faults>>
    /\ UNCHANGED <<accounts, token, copy, crashes>>

\* The migration and its record, in one transaction.
Apply(p) ==
    /\ pc[p] = "apply" /\ writeMuFree
    /\ \/ /\ Applies(next[p])
          /\ tables' = tables \cup Adds(next[p])
          /\ applied' = applied \cup {next[p]}
          /\ Advance(p)
       \/ /\ ~Applies(next[p])
          /\ pc' = Failed(p)
          /\ UNCHANGED <<tables, applied, next>>
    /\ UNCHANGED <<accounts, token, copy, faults, crashes>>

\* PRAGMA quick_check; the start goes on, a reset answers.
QuickCheck(p) ==
    /\ pc[p] = "verify"
    /\ pc' = [pc EXCEPT ![p] = IF p = Boot THEN "bootstrap" ELSE "done"]
    /\ UNCHANGED <<file, next, copy, faults, crashes>>

\* Without accounts the start replaces the bootstrap token, or keeps a valid one.
EnsureBootstrap ==
    /\ pc[Boot] = "bootstrap"
    /\ IF "identity" \in tables
       THEN /\ token' = (token \/ ~accounts)
            /\ pc' = [pc EXCEPT ![Boot] = "serving"]
       ELSE /\ pc' = Failed(Boot)
            /\ UNCHANGED token
    /\ UNCHANGED <<tables, applied, accounts, next, copy, faults, crashes>>

\* A statement of an initializer fails.
StatementFails(p) ==
    /\ pc[p] \in {"begin", "check", "apply", "verify", "bootstrap"}
    /\ faults < MaxFaults
    /\ faults' = faults + 1
    /\ pc' = Failed(p)
    /\ UNCHANGED <<file, next, copy, crashes>>

-----------------------------------------------------------------------------
(* The factory reset *)

\* RequireRole lets an administrator in: there are accounts.
ResetSystem(r) ==
    /\ Serving /\ pc[r] = "none"
    /\ accounts
    /\ pc' = [pc EXCEPT ![r] = "drop"]
    /\ UNCHANGED <<file, next, copy, faults, crashes>>

\* Mutant: schema_migrations is not in the list of tables.
DropKeepingRecords(r) ==
    /\ pc[r] = "drop" /\ writeMuFree
    /\ tables' = tables \ {"identity"}
    /\ accounts' = FALSE /\ token' = FALSE
    /\ pc' = [pc EXCEPT ![r] = "begin"]
    /\ UNCHANGED <<applied, next, copy, faults, crashes>>

\* The list of DropAllTables names the tables of 001 and schema_migrations.  A
\* transaction that fails leaves nothing behind.
DropAllTables(r) ==
    /\ pc[r] = "drop" /\ writeMuFree
    /\ \/ /\ tables' = tables \ {"identity"}
          /\ accounts' = FALSE /\ token' = FALSE
          /\ applied' = Nothing
          /\ pc' = [pc EXCEPT ![r] = "begin"]
          /\ UNCHANGED faults
       \/ /\ faults < MaxFaults /\ faults' = faults + 1
          /\ pc' = [pc EXCEPT ![r] = "none"]
          /\ UNCHANGED file
    /\ UNCHANGED <<next, copy, crashes>>

-----------------------------------------------------------------------------
(* The rest of the process *)

\* CreateFirstAdmin consumes the token.
CompleteSetup ==
    /\ Serving /\ writeMuFree
    /\ "identity" \in tables /\ token /\ ~accounts
    /\ accounts' = TRUE /\ token' = FALSE
    /\ UNCHANGED <<tables, applied, pc, next, copy, faults, crashes>>

\* The process stops.  A reset that had not dropped the tables had no effect.  A
\* file that was not flushed may be torn.
Crash ==
    /\ pc[Boot] # "down" /\ crashes < MaxCrashes
    /\ crashes' = crashes + 1
    /\ pc' = [p \in Initializer |->
                 IF p = Boot THEN "down"
                 ELSE IF pc[p] = "drop" THEN "none"
                 ELSE IF pc[p] \in {"begin", "check", "apply", "verify"} THEN "failed"
                 ELSE pc[p]]
    /\ backup' = "idle"
    /\ temporary' = Nothing
    /\ \E d \in Destinations :
          destination' = IF d # Nothing /\ d.disk = "written"
                         THEN [d EXCEPT !.disk = "torn"] ELSE d
    /\ UNCHANGED <<file, next, faults, backups>>

-----------------------------------------------------------------------------
(* Backup, with writeMu from beginning to end *)

\* The temporary file and VACUUM INTO, which reads one state of the database.
VacuumInto ==
    /\ Serving /\ writeMuFree /\ backups < MaxBackups
    /\ backups' = backups + 1
    /\ temporary' = [tables |-> tables, applied |-> applied, disk |-> "written"]
    /\ backup' = "sync"
    /\ UNCHANGED <<file, pc, next, destination, faults, crashes>>

SyncFile ==
    /\ backup = "sync"
    /\ temporary' = [temporary EXCEPT !.disk = "synced"]
    /\ backup' = "check"
    /\ UNCHANGED <<file, pc, next, destination, faults, crashes, backups>>

QuickCheckFile ==
    /\ backup = "check"
    /\ backup' = "publish"
    /\ UNCHANGED <<file, pc, next, temporary, destination, faults, crashes, backups>>

\* Mutant: the file is published before it is flushed.
PublishUnsynced ==
    /\ backup = "sync"
    /\ destination' = temporary
    /\ temporary' = Nothing
    /\ backup' = "idle"
    /\ UNCHANGED <<file, pc, next, faults, crashes, backups>>

\* The rename and the flush of the directory.
Publish ==
    /\ backup = "publish"
    /\ destination' = temporary
    /\ temporary' = Nothing
    /\ backup' = "idle"
    /\ UNCHANGED <<file, pc, next, faults, crashes, backups>>

\* A step fails: the deferred calls remove the file if it is still there, and
\* release the mutex.
BackupFails ==
    /\ backup # "idle"
    /\ faults < MaxFaults
    /\ faults' = faults + 1
    /\ destination' \in Destinations
    /\ temporary' = Nothing
    /\ backup' = "idle"
    /\ UNCHANGED <<file, pc, next, crashes, backups>>

-----------------------------------------------------------------------------
\* The file is new, or any earlier release left it with the migrations it had.
Init ==
    /\ \E n \in 0..4 :
        /\ tables = Shape(n)
        /\ applied = IF n = 0 THEN Nothing ELSE 1..n
        /\ accounts \in IF n = 0 THEN {FALSE} ELSE BOOLEAN
        /\ token \in IF n = 0 \/ accounts THEN {FALSE} ELSE BOOLEAN
    /\ pc = [p \in Initializer |-> IF p = Boot THEN "down" ELSE "none"]
    /\ next = [p \in Initializer |-> 1]
    /\ backup = "idle"
    /\ temporary = Nothing
    /\ destination = Nothing
    /\ faults = 0 /\ crashes = 0 /\ backups = 0

Initialize(p) == Begin(p) \/ Check(p) \/ Apply(p) \/ QuickCheck(p)

BackupStep == SyncFile \/ QuickCheckFile \/ Publish

Next ==
    \/ Open \/ EnsureBootstrap
    \/ \E p \in Initializer : Initialize(p) \/ StatementFails(p)
    \/ \E r \in Reset : ResetSystem(r) \/ DropAllTables(r)
    \/ CompleteSetup
    \/ VacuumInto \/ BackupStep \/ BackupFails
    \/ Crash

Spec == Init /\ [][Next]_vars

\* The process is started again after it stops, and goes on once it is.
FairSpec ==
    Spec /\ WF_vars(Open) /\ WF_vars(Initialize(Boot) \/ EnsureBootstrap)
    /\ WF_vars(BackupStep)

-----------------------------------------------------------------------------
(* Correctness *)

TypeOK ==
    /\ tables \subseteq Table
    /\ applied \in Record
    /\ accounts \in BOOLEAN /\ token \in BOOLEAN
    /\ pc \in [Initializer -> Call]
    /\ next \in [Initializer -> Migration]
    /\ backup \in {"idle", "sync", "check", "publish"}
    /\ temporary \in Snapshot \cup {Nothing}
    /\ destination \in Snapshot \cup {Nothing}
    /\ faults \in Nat /\ crashes \in Nat /\ backups \in Nat

\* What a database records of itself is there: initialize skips what is
\* recorded, so a record without its tables would never be made good.
Recorded(t, a) == a # Nothing => \A m \in a : Adds(m) \subseteq t

RecordedIsApplied == Recorded(tables, applied)

\* A reset has dropped tables.
WasReset == \E r \in Reset : pc[r] \notin {"none", "drop"}

\* A process that serves has applied every migration, whatever release the file
\* comes from and wherever earlier starts stopped, unless it was reset.
ServesLatestSchema ==
    Serving /\ ~WasReset => applied = Migration /\ tables = Table

\* The published backup is whole after any failure and any stop, and as good a
\* database as the one it was taken of.
BackupIsWhole ==
    destination # Nothing =>
        /\ destination.disk = "synced"
        /\ Recorded(destination.tables, destination.applied)

\* Unless it was reset the backend comes to serve after every stop: no stop and
\* no failure leaves a file that the next start cannot migrate.
StartsAgain == []<>(Serving \/ WasReset)

(***************************************************************************)
(* What the documentation says and the code does not do.                   *)
(***************************************************************************)
\* frontend AdvancedSettings.tsx:73, shown before a reset: "The system will
\* restart the onboarding process as if it were a fresh install."
ResetIsAFreshInstall ==
    \A r \in Reset : pc[r] \in {"done", "failed"} /\ faults + crashes = 0 =>
        applied = Migration /\ tables = Table

=============================================================================
