-------------------------- MODULE DatabaseProofs ---------------------------
(***************************************************************************)
(* Theorems about the control-plane database, for any number of resets,    *)
(* backups, failing statements and stops.                                  *)
(***************************************************************************)
EXTENDS Database, TLAPS

USE DEF Initializer, Migration, Record, Call, writeMuFree, Serving

-----------------------------------------------------------------------------
(* The inductive invariant *)

\* The file Backup writes is a database like the one it is taken of, and it is
\* flushed before it is checked and published.
TemporaryOK ==
    /\ backup # "idle" =>
        temporary \in Snapshot /\ Recorded(temporary.tables, temporary.applied)
    /\ backup \in {"check", "publish"} => temporary.disk = "synced"

\* A start has dealt with the migrations before the one it is at.
BootProgress ==
    ~WasReset =>
        /\ pc[Boot] \in {"check", "apply"} => applied # Nothing /\ 1..(next[Boot] - 1) \subseteq applied
        /\ pc[Boot] \in {"verify", "bootstrap", "serving"} => applied = Migration

IInv ==
    /\ TypeOK
    /\ RecordedIsApplied
    /\ TemporaryOK
    /\ BackupIsWhole
    /\ BootProgress

-----------------------------------------------------------------------------
(* What the migrations record *)

\* A migration brings tables of the schema.
LEMMA AddsTables == \A m \in Migration : Adds(m) \subseteq Table
    BY DEF Adds, Table

\* Applying a migration and recording it keeps the records true.
LEMMA ApplyKeepsRecords ==
    ASSUME NEW t, NEW a, NEW m \in Migration, Recorded(t, a), a # Nothing
    PROVE  Recorded(t \cup Adds(m), a \cup {m})
    BY DEF Recorded

\* Only a reset that has dropped the tables counts, and it counts for ever.
LEMMA ResetIsRemembered ==
    ASSUME TypeOK, WasReset, [Next]_vars
    PROVE  WasReset'
<1>1. PICK r \in Reset : pc[r] \notin {"none", "drop"}
    BY DEF WasReset
<1>2. r # Boot /\ r \in Initializer
    BY BootIsNoReset
<1>3. pc \in [Initializer -> Call]
    BY DEF TypeOK
<1> SUFFICES pc'[r] \notin {"none", "drop"}
    BY DEF WasReset
<1>4. CASE UNCHANGED vars
    BY <1>1, <1>4 DEF vars
<1>5. CASE Open \/ EnsureBootstrap
    BY <1>1, <1>2, <1>3, <1>5 DEF Open, EnsureBootstrap, Failed
<1>6. ASSUME NEW p \in Initializer, Initialize(p) \/ StatementFails(p)
      PROVE  pc'[r] \notin {"none", "drop"}
    <2>1. CASE Begin(p)
        BY <1>1, <1>3, <2>1 DEF Begin
    <2>2. CASE Check(p)
        BY <1>1, <1>3, <2>2 DEF Check, Failed, Advance
    <2>3. CASE Apply(p)
        BY <1>1, <1>3, <2>3 DEF Apply, Failed, Advance
    <2>4. CASE QuickCheck(p)
        BY <1>1, <1>3, <2>4 DEF QuickCheck
    <2>5. CASE StatementFails(p)
        BY <1>1, <1>3, <2>5 DEF StatementFails, Failed
    <2>6. QED
        BY <1>6, <2>1, <2>2, <2>3, <2>4, <2>5 DEF Initialize
<1>7. ASSUME NEW q \in Reset, ResetSystem(q) \/ DropAllTables(q)
      PROVE  pc'[r] \notin {"none", "drop"}
    BY <1>1, <1>3, <1>7 DEF ResetSystem, DropAllTables
<1>8. CASE CompleteSetup \/ VacuumInto \/ BackupStep \/ BackupFails
    BY <1>1, <1>8 DEF CompleteSetup, VacuumInto, BackupStep, SyncFile, QuickCheckFile,
                      Publish, BackupFails
<1>9. CASE Crash
    BY <1>1, <1>2, <1>9 DEF Crash
<1>10. QED
    BY <1>4, <1>5, <1>6, <1>7, <1>8, <1>9 DEF Next

-----------------------------------------------------------------------------
(* Each kind of step keeps the invariant *)

\* Init: a new file, or the file of an earlier release.
LEMMA InitIInv == Init => IInv
<1> SUFFICES ASSUME Init PROVE IInv
    OBVIOUS
<1>1. PICK n \in 0..4 : tables = Shape(n) /\ applied = IF n = 0 THEN Nothing ELSE 1..n
    BY DEF Init
<1>2. tables \subseteq Table
    BY <1>1, AddsTables DEF Shape
<1>3. TypeOK
    <2>1. applied \in Record
        BY <1>1
    <2>2. accounts \in BOOLEAN /\ token \in BOOLEAN
        BY DEF Init
    <2> QED
        BY <1>2, <2>1, <2>2 DEF Init, TypeOK
<1>4. RecordedIsApplied
    <2> SUFFICES ASSUME applied # Nothing, NEW m \in applied PROVE Adds(m) \subseteq tables
        BY DEF RecordedIsApplied, Recorded
    <2>1. m \in 1..n
        BY <1>1
    <2> QED
        BY <1>1, <2>1 DEF Shape
<1>5. TemporaryOK /\ BackupIsWhole /\ BootProgress
    BY DEF Init, TemporaryOK, BackupIsWhole, BootProgress
<1> QED
    BY <1>3, <1>4, <1>5 DEF IInv

\* Initializers do not touch the files of Backup, which keep what they are.
LEMMA CopyUnchanged ==
    ASSUME IInv, UNCHANGED copy
    PROVE  TemporaryOK' /\ BackupIsWhole'
    BY DEF IInv, copy, TemporaryOK, BackupIsWhole, Recorded, Snapshot

\* The steps of initialize, in the start and in a reset.
LEMMA InitializeIInv ==
    ASSUME NEW p \in Initializer, IInv, Initialize(p) \/ StatementFails(p)
    PROVE  IInv'
<1> USE DEF IInv
<1>1. [Next]_vars
    BY DEF Next
<1>2. WasReset => WasReset'
    BY <1>1, ResetIsRemembered
<1>3. UNCHANGED copy
    BY DEF Initialize, Begin, Check, Apply, QuickCheck, StatementFails
<1>4. TypeOK'
    <2>1. CASE Begin(p)
        BY <1>3, <2>1 DEF TypeOK, Begin, copy
    <2>2. CASE Check(p)
        BY <1>3, <2>2 DEF TypeOK, Check, copy, Failed, Advance, file
    <2>3. CASE Apply(p)
        <3>1. next[p] \in Migration
            BY DEF TypeOK
        <3>2. tables' \subseteq Table /\ applied' \in Record
            BY <2>3, <3>1, AddsTables DEF TypeOK, Apply, Applies
        <3>3. pc' \in [Initializer -> Call] /\ next' \in [Initializer -> Migration]
            BY <2>3 DEF TypeOK, Apply, Failed, Advance
        <3> QED
            BY <1>3, <2>3, <3>2, <3>3 DEF TypeOK, Apply, copy
    <2>4. CASE QuickCheck(p)
        BY <1>3, <2>4 DEF TypeOK, QuickCheck, copy, file
    <2>5. CASE StatementFails(p)
        BY <1>3, <2>5 DEF TypeOK, StatementFails, copy, file, Failed
    <2> QED
        BY <2>1, <2>2, <2>3, <2>4, <2>5 DEF Initialize
<1>5. RecordedIsApplied'
    <2>1. CASE Begin(p)
        BY <2>1 DEF Begin, RecordedIsApplied, Recorded
    <2>2. CASE Apply(p)
        <3>1. next[p] \in Migration
            BY DEF TypeOK
        <3>2. CASE Applies(next[p])
            <4>1. Recorded(tables, applied) /\ applied # Nothing
                BY <3>2 DEF RecordedIsApplied, Applies
            <4>2. tables' = tables \cup Adds(next[p]) /\ applied' = applied \cup {next[p]}
                BY <2>2, <3>2 DEF Apply
            <4>3. Recorded(tables \cup Adds(next[p]), applied \cup {next[p]})
                BY <3>1, <4>1, ApplyKeepsRecords
            <4> QED
                BY <4>2, <4>3 DEF RecordedIsApplied
        <3>3. CASE ~Applies(next[p])
            BY <2>2, <3>3 DEF Apply, RecordedIsApplied
        <3> QED
            BY <3>2, <3>3
    <2>3. CASE Check(p) \/ QuickCheck(p) \/ StatementFails(p)
        BY <2>3 DEF Check, QuickCheck, StatementFails, file, RecordedIsApplied
    <2> QED
        BY <2>1, <2>2, <2>3 DEF Initialize
<1>6. BootProgress'
    <2> SUFFICES ASSUME ~WasReset' PROVE
            /\ pc'[Boot] \in {"check", "apply"} =>
                  applied' # Nothing /\ 1..(next'[Boot] - 1) \subseteq applied'
            /\ pc'[Boot] \in {"verify", "bootstrap", "serving"} => applied' = Migration
        BY DEF BootProgress
    <2>1. ~WasReset
        BY <1>2
    <2>2. p = Boot
        <3> SUFFICES ASSUME p \in Reset PROVE FALSE
            OBVIOUS
        <3>1. pc[p] \notin {"none", "drop"}
            BY DEF Initialize, Begin, Check, Apply, QuickCheck, StatementFails
        <3> QED
            BY <2>1, <3>1 DEF WasReset
    <2>3. pc \in [Initializer -> Call] /\ next \in [Initializer -> Migration]
          /\ applied \in Record
        BY DEF TypeOK
    <2>4. CASE Begin(p)
        <3>1. pc'[Boot] = "check" /\ next'[Boot] = 1
            BY <2>2, <2>3, <2>4 DEF Begin
        <3>2. applied' # Nothing
            BY <2>4, NothingIsNoRecord DEF Begin
        <3> QED
            BY <3>1, <3>2
    <2>5. ASSUME Advance(p), applied' \in SUBSET Migration, next[p] \in applied',
                 1..(next[p] - 1) \subseteq applied', applied' # Nothing
          PROVE  /\ pc'[Boot] \in {"check", "apply"} =>
                       applied' # Nothing /\ 1..(next'[Boot] - 1) \subseteq applied'
                 /\ pc'[Boot] \in {"verify", "bootstrap", "serving"} => applied' = Migration
        <3>1. CASE next[p] = 4
            <4>1. pc'[Boot] = "verify"
                BY <2>2, <2>3, <2>5, <3>1 DEF Advance
            <4>2. 1..4 = 1..(next[p] - 1) \cup {next[p]}
                BY <3>1
            <4> QED
                BY <2>5, <4>1, <4>2
        <3>2. CASE next[p] # 4
            <4>1. pc'[Boot] = "check" /\ next'[Boot] = next[p] + 1
                BY <2>2, <2>3, <2>5, <3>2 DEF Advance
            <4>2. next[p] \in 1..4
                BY <2>3
            <4>3. 1..(next'[Boot] - 1) = 1..(next[p] - 1) \cup {next[p]}
                BY <4>1, <4>2
            <4> QED
                BY <2>5, <4>1, <4>3
        <3> QED
            BY <3>1, <3>2
    <2>6. CASE Check(p)
        <3>1. CASE applied = Nothing
            BY <2>2, <2>3, <2>6, <3>1 DEF Check, Failed
        <3>2. CASE applied # Nothing /\ next[p] \in applied
            BY <2>1, <2>2, <2>3, <2>5, <2>6, <3>2 DEF Check, BootProgress, file
        <3>3. CASE applied # Nothing /\ next[p] \notin applied
            BY <2>1, <2>2, <2>3, <2>6, <3>3 DEF Check, BootProgress, file
        <3> QED
            BY <3>1, <3>2, <3>3
    <2>7. CASE Apply(p)
        <3>1. CASE Applies(next[p])
            <4>1. applied # Nothing /\ 1..(next[p] - 1) \subseteq applied
                BY <2>1, <2>2, <2>7 DEF Apply, BootProgress
            <4>2. applied' = applied \cup {next[p]} /\ Advance(p)
                BY <2>7, <3>1 DEF Apply
            <4>3. applied' \in SUBSET Migration
                BY <2>3, <4>1, <4>2
            <4>4. applied' # Nothing
                BY <4>3, NothingIsNoRecord
            <4> QED
                BY <2>5, <4>1, <4>2, <4>3, <4>4
        <3>2. CASE ~Applies(next[p])
            BY <2>2, <2>3, <2>7, <3>2 DEF Apply, Failed
        <3> QED
            BY <3>1, <3>2
    <2>8. CASE QuickCheck(p)
        BY <2>1, <2>2, <2>3, <2>8 DEF QuickCheck, BootProgress, file
    <2>9. CASE StatementFails(p)
        BY <2>2, <2>3, <2>9 DEF StatementFails, Failed
    <2> QED
        BY <2>4, <2>6, <2>7, <2>8, <2>9 DEF Initialize
<1> QED
    BY <1>3, <1>4, <1>5, <1>6, CopyUnchanged

\* The start of the process, its bootstrap token, and the requests that do not
\* touch what initialize reads.
LEMMA ServeIInv ==
    ASSUME IInv, Open \/ EnsureBootstrap \/ CompleteSetup \/ \E r \in Reset : ResetSystem(r)
    PROVE  IInv'
<1> USE DEF IInv
<1>1. UNCHANGED <<copy, tables, applied, next>>
    BY DEF Open, EnsureBootstrap, CompleteSetup, ResetSystem, file
<1>2. TypeOK'
    <2>1. CASE Open
        BY <2>1 DEF Open, TypeOK, file, copy
    <2>2. CASE EnsureBootstrap
        BY <2>2 DEF EnsureBootstrap, TypeOK, Failed, copy
    <2>3. CASE CompleteSetup
        BY <2>3 DEF CompleteSetup, TypeOK, copy
    <2>4. CASE \E r \in Reset : ResetSystem(r)
        BY <2>4 DEF ResetSystem, TypeOK, file, copy
    <2> QED
        BY <2>1, <2>2, <2>3, <2>4
<1>3. RecordedIsApplied'
    BY <1>1 DEF RecordedIsApplied
<1>4. BootProgress'
    <2>1. WasReset => WasReset'
        BY ResetIsRemembered DEF Next
    <2>2. pc \in [Initializer -> Call]
        BY DEF TypeOK
    <2>3. pc'[Boot] \in {"check", "apply"} => pc[Boot] = pc'[Boot]
        BY <2>2, BootIsNoReset DEF Open, EnsureBootstrap, CompleteSetup, ResetSystem, Failed
    <2>4. pc'[Boot] \in {"verify", "bootstrap", "serving"} =>
              pc[Boot] \in {"verify", "bootstrap", "serving"}
        BY <2>2, BootIsNoReset DEF Open, EnsureBootstrap, CompleteSetup, ResetSystem, Failed
    <2> QED
        BY <1>1, <2>1, <2>3, <2>4 DEF BootProgress
<1> QED
    BY <1>1, <1>2, <1>3, <1>4, CopyUnchanged

\* The reset drops the records with the tables.
LEMMA DropIInv ==
    ASSUME IInv, NEW r \in Reset, DropAllTables(r)
    PROVE  IInv'
<1> USE DEF IInv
<1>1. UNCHANGED copy
    BY DEF DropAllTables
<1>2. TypeOK'
    <2>1. tables' \subseteq Table /\ applied' \in Record
        BY DEF DropAllTables, TypeOK, file
    <2>2. pc' \in [Initializer -> Call] /\ next' = next
        BY DEF DropAllTables, TypeOK
    <2>3. accounts' \in BOOLEAN /\ token' \in BOOLEAN
        <3>1. (accounts' = FALSE /\ token' = FALSE) \/ UNCHANGED file
            BY Zenon DEF DropAllTables
        <3>2. CASE UNCHANGED file
            BY <3>2 DEF TypeOK, file
        <3> QED
            BY <3>1, <3>2, Zenon
    <2>4. faults' \in Nat /\ crashes' = crashes
        BY DEF DropAllTables, TypeOK
    <2> QED
        BY <1>1, <2>1, <2>2, <2>3, <2>4 DEF TypeOK, copy
<1>3. RecordedIsApplied'
    BY DEF DropAllTables, RecordedIsApplied, Recorded, file
<1>4. BootProgress'
    <2>1. pc \in [Initializer -> Call]
        BY DEF TypeOK
    <2>2. CASE applied' = Nothing /\ pc' = [pc EXCEPT ![r] = "begin"]
        BY <2>1, <2>2 DEF BootProgress, WasReset
    <2>3. CASE UNCHANGED file /\ pc' = [pc EXCEPT ![r] = "none"]
        <3>1. pc[r] = "drop" /\ r # Boot
            BY BootIsNoReset DEF DropAllTables
        <3>2. WasReset => WasReset'
            BY ResetIsRemembered DEF Next
        <3>3. pc'[Boot] = pc[Boot] /\ next' = next
            BY <2>1, <2>3, <3>1 DEF DropAllTables
        <3> QED
            BY <2>3, <3>2, <3>3 DEF BootProgress, file
    <2> QED
        BY <2>2, <2>3 DEF DropAllTables
<1> QED
    BY <1>1, <1>2, <1>3, <1>4, CopyUnchanged

\* Whatever Backup leaves behind when it is cut short is whole.
LEMMA PublishedIsWhole ==
    ASSUME IInv, NEW d \in Destinations
    PROVE  /\ d \in Snapshot \cup {Nothing}
           /\ d # Nothing => d.disk = "synced" /\ Recorded(d.tables, d.applied)
    BY DEF IInv, TypeOK, TemporaryOK, BackupIsWhole, Destinations

\* A step of Backup changes nothing but the files of Backup.
LEMMA BackupIInv ==
    ASSUME IInv, VacuumInto \/ BackupStep \/ BackupFails
    PROVE  IInv'
<1> USE DEF IInv
<1>1. UNCHANGED <<file, pc, next, crashes>>
    BY DEF VacuumInto, BackupStep, SyncFile, QuickCheckFile, Publish, BackupFails
<1>2. RecordedIsApplied' /\ BootProgress'
    BY <1>1 DEF file, RecordedIsApplied, BootProgress, WasReset
<1>3. TypeOK' /\ TemporaryOK' /\ BackupIsWhole'
    <2>1. CASE VacuumInto
        <3>1. temporary' \in Snapshot /\ temporary'.disk = "written"
              /\ temporary'.tables = tables /\ temporary'.applied = applied
            BY <2>1 DEF VacuumInto, Snapshot, TypeOK
        <3>2. TypeOK'
            BY <1>1, <2>1, <3>1 DEF VacuumInto, TypeOK, file
        <3>3. Recorded(temporary'.tables, temporary'.applied)
            BY <3>1 DEF RecordedIsApplied
        <3>4. TemporaryOK'
            BY <2>1, <3>1, <3>3 DEF VacuumInto, TemporaryOK
        <3>5. BackupIsWhole'
            BY <2>1 DEF VacuumInto, BackupIsWhole
        <3> QED
            BY <3>2, <3>4, <3>5
    <2>2. CASE SyncFile
        <3>1. temporary \in Snapshot
            BY <2>2 DEF SyncFile, TemporaryOK
        <3>2. temporary' \in Snapshot /\ temporary'.disk = "synced"
              /\ temporary'.tables = temporary.tables /\ temporary'.applied = temporary.applied
            BY <2>2, <3>1 DEF SyncFile, Snapshot
        <3>3. TypeOK'
            BY <1>1, <2>2, <3>2 DEF SyncFile, TypeOK, file
        <3>4. Recorded(temporary'.tables, temporary'.applied)
            BY <2>2, <3>2 DEF SyncFile, TemporaryOK
        <3>5. TemporaryOK'
            BY <2>2, <3>2, <3>4 DEF SyncFile, TemporaryOK
        <3>6. BackupIsWhole'
            BY <2>2 DEF SyncFile, BackupIsWhole
        <3> QED
            BY <3>3, <3>5, <3>6
    <2>3. CASE QuickCheckFile
        BY <1>1, <2>3 DEF QuickCheckFile, TypeOK, file, TemporaryOK, BackupIsWhole
    <2>4. CASE Publish
        BY <1>1, <2>4 DEF Publish, TypeOK, file, TemporaryOK, BackupIsWhole
    <2>5. CASE BackupFails
        <3>1. temporary' = Nothing /\ backup' = "idle" /\ faults' \in Nat /\ backups' = backups
            BY <2>5 DEF BackupFails, TypeOK
        <3>2. destination' \in Snapshot \cup {Nothing} /\ BackupIsWhole'
            BY <2>5, PublishedIsWhole DEF BackupFails, BackupIsWhole
        <3>3. TypeOK'
            BY <1>1, <3>1, <3>2 DEF TypeOK, file
        <3>4. TemporaryOK'
            BY <3>1 DEF TemporaryOK
        <3> QED
            BY <3>2, <3>3, <3>4
    <2> QED
        BY <2>1, <2>2, <2>3, <2>4, <2>5 DEF BackupStep
<1> QED
    BY <1>2, <1>3

\* A stop tears only what was not flushed, which is never the published backup.
LEMMA CrashIInv ==
    ASSUME IInv, Crash
    PROVE  IInv'
<1> USE DEF IInv
<1>1. destination' \in Destinations
    BY PublishedIsWhole DEF Crash
<1>2. destination' \in Snapshot \cup {Nothing} /\ BackupIsWhole'
    BY <1>1, PublishedIsWhole DEF BackupIsWhole
<1>3. TypeOK'
    BY <1>2 DEF Crash, TypeOK, file
<1>4. RecordedIsApplied' /\ TemporaryOK'
    BY DEF Crash, file, RecordedIsApplied, TemporaryOK
<1>5. BootProgress'
    BY DEF Crash, BootProgress
<1> QED
    BY <1>2, <1>3, <1>4, <1>5

\* Every step of the specification.
LEMMA NextIInv == IInv /\ [Next]_vars => IInv'
<1> SUFFICES ASSUME IInv, [Next]_vars PROVE IInv'
    OBVIOUS
<1>1. CASE UNCHANGED vars
    BY <1>1 DEF vars, file, copy, IInv, TypeOK, RecordedIsApplied, TemporaryOK, BackupIsWhole,
                BootProgress, WasReset
<1>2. CASE Next
    BY <1>2, InitializeIInv, ServeIInv, DropIInv, BackupIInv, CrashIInv DEF Next
<1> QED
    BY <1>1, <1>2

-----------------------------------------------------------------------------
(* The theorems *)

\* The inductive invariant holds in every reachable state.
THEOREM Invariance == Spec => []IInv
    BY InitIInv, NextIInv, PTL DEF Spec

\* Type correctness: every variable stays in its set.
THEOREM TypeCorrect == Spec => []TypeOK
<1>1. IInv => TypeOK
    BY DEF IInv
<1> QED
    BY <1>1, Invariance, PTL

\* schema_migrations never records a migration whose tables and columns are not
\* in the database: not after a failed migration, a stop, or a reset.
THEOREM RecordsAreTrue == Spec => []RecordedIsApplied
<1>1. IInv => RecordedIsApplied
    BY DEF IInv
<1> QED
    BY <1>1, Invariance, PTL

\* The published backup is always a whole database.
THEOREM BackupsAreWhole == Spec => []BackupIsWhole
<1>1. IInv => BackupIsWhole
    BY DEF IInv
<1> QED
    BY <1>1, Invariance, PTL

\* A process that serves a database no reset has touched has every table and
\* column of the latest release.
THEOREM LatestSchemaIsServed == Spec => []ServesLatestSchema
<1>1. IInv => ServesLatestSchema
    <2> SUFFICES ASSUME IInv, Serving, ~WasReset PROVE applied = Migration /\ tables = Table
        BY DEF ServesLatestSchema
    <2>1. applied = Migration
        BY DEF IInv, BootProgress
    <2>2. \A m \in Migration : Adds(m) \subseteq tables
        BY <2>1, NothingIsNoRecord DEF IInv, RecordedIsApplied, Recorded
    <2>3. Adds(1) \cup Adds(2) \cup Adds(3) \cup Adds(4) = Table
        BY DEF Adds, Table
    <2>4. Table \subseteq tables
        BY <2>2, <2>3
    <2> QED
        BY <2>1, <2>4 DEF IInv, TypeOK
<1> QED
    BY <1>1, Invariance, PTL

=============================================================================
