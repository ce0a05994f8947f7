------------------------ MODULE AppsInstallerProofs ------------------------
(***************************************************************************)
(* Theorems about AppsInstaller, for every set of applications, operations *)
(* and options, and every bound on overlap, store failures and crashes.    *)
(***************************************************************************)
EXTENDS AppsInstaller, FiniteSetTheorems, TLAPS

USE DefaultIsOptions, RemovalsAreLevels, VersionsHaveServices, NothingIsNoValue,
    TornIsNoDocument, BoundsAreNaturals

-----------------------------------------------------------------------------
(* The inductive invariant *)

\* A request is known from its acceptance on, and its locals once they are set.
ExecutorHasItsLocals ==
    \A o \in Op :
        /\ pc[o] \in Running \cup {"create"} => request[o] # Nothing
        /\ pc[o] = "none" => request[o] = Nothing
        /\ pc[o] = "save" => loaded[o] # Nothing

\* The progress a row may show at each step.
ProgressAt(p) ==
    CASE p = "start" -> {0}
      [] p \in {"plan", "write", "reportApply", "down", "config", "data", "finish"} -> {20}
      [] p \in {"apply", "reportLaunch"} -> {60}
      [] p \in {"await", "complete"} -> {90}
      [] OTHER -> 0..100

ProgressMatchesExecutor ==
    \A o \in Op : operation[o] # Nothing =>
        /\ operation[o].progress \in ProgressAt(pc[o])
        /\ operation[o].status # "failed" =>
              (operation[o].progress = 100 <=> operation[o].status = "succeeded")

IInv ==
    /\ TypeOK
    /\ ForeignKeys
    /\ ExecutorHasItsLocals
    /\ OperationMatchesExecutor
    /\ ProgressMatchesExecutor

Steps == ApplySteps \cup RemoveSteps

LEMMA StartedAreContainers ==
    ASSUME NEW document \in Compose PROVE Started(document) \in SUBSET Container
<1>1. ServicesOf[document.version] \subseteq Service
    BY DEF Compose
<1>2. QED
    BY <1>1 DEF Started, Container

LEMMA InitIInv == Init => IInv
<1> SUFFICES ASSUME Init PROVE IInv
    OBVIOUS
<1>1. TypeOK
    <2>1. \A a \in App : instance[a] \in Instance \cup {Nothing}
        <3> SUFFICES ASSUME NEW a \in App, project[a] \in Compose
                     PROVE  [status |-> "installed", hash |-> project[a],
                             options |-> project[a].options, runtime |-> "running",
                             lastError |-> FALSE] \in Instance
            BY DEF Init
        <3>1. project[a].options \in Options
            BY DEF Compose
        <3> HIDE DEF Compose
        <3>2. QED
            BY <3>1 DEF Instance
    <2>2. \A a \in App : containers[a] \in SUBSET Container
        BY StartedAreContainers DEF Init
    <2>3. /\ instance \in [App -> Instance \cup {Nothing}]
          /\ containers \in [App -> SUBSET Container]
          /\ project \in [App -> Compose \cup {Nothing, Torn}]
        BY <2>1, <2>2 DEF Init
    <2>4. QED
        BY <2>3 DEF Init, TypeOK, PC
<1>2. ForeignKeys /\ ExecutorHasItsLocals /\ OperationMatchesExecutor /\ ProgressMatchesExecutor
    BY DEF Init, ForeignKeys, ExecutorHasItsLocals, OperationMatchesExecutor,
           ProgressMatchesExecutor, Running, ApplySteps, RemoveSteps
<1>3. QED
    BY <1>1, <1>2 DEF IInv

-----------------------------------------------------------------------------
(* Every step preserves it *)

\* The reports of progress, all at once.
LEMMA SyncIInv ==
    ASSUME NEW o \in Op, NEW from \in {"start", "reportApply", "reportLaunch", "complete", "finish"},
           NEW status \in {"running", "succeeded"}, NEW progress \in 0..100,
           NEW to \in Running \ {"save", "fail", "record"},
           status \in RowAllowedAt(to), progress \in ProgressAt(to),
           progress = 100 <=> status = "succeeded",
           IInv, Sync(o, from, status, progress, to)
    PROVE  IInv'
<1> USE DEF Sync, Writable, UpdateOperation, Goto, Refused, Fault, Fail, host
<1>0. /\ pc \in [Op -> PC] /\ to \in PC /\ "fail" \in PC
      /\ FailProgress[pc[o]] \in 0..100
    <2>1. pc \in [Op -> PC]
        BY DEF IInv, TypeOK
    <2>2. to \in PC /\ "fail" \in PC
        BY DEF PC, Running
    <2>3. \A p \in PC : FailProgress[p] \in 0..100
        BY DEF FailProgress
    <2>4. QED
        BY <2>1, <2>2, <2>3
<1>1. TypeOK'
    <2>1. operation' \in [Op -> Operation \cup {Nothing}]
        BY DEF IInv, TypeOK, Operation, Final
    <2>2. /\ pc' \in [Op -> PC]
          /\ failedAt' \in [Op -> 0..100]
          /\ faults' \in Nat
        BY <1>0 DEF IInv, TypeOK
    <2>3. QED
        BY <2>1, <2>2 DEF IInv, TypeOK
<1>2. ForeignKeys'
    BY <1>0 DEF IInv, TypeOK, ForeignKeys, AppOf
<1>3. ExecutorHasItsLocals'
    BY <1>0 DEF IInv, TypeOK, ExecutorHasItsLocals, Running, ApplySteps, RemoveSteps
<1>4. OperationMatchesExecutor'
    BY <1>0 DEF IInv, TypeOK, OperationMatchesExecutor, RowAllowedAt
<1>5. ProgressMatchesExecutor'
    BY <1>0 DEF IInv, TypeOK, ProgressMatchesExecutor, ProgressAt
<1>6. QED
    BY <1>1, <1>2, <1>3, <1>4, <1>5 DEF IInv

\* The calls to docker, the file system and the planner.
LEMMA PlanProjectIInv == ASSUME NEW o \in Op, IInv, PlanProject(o) PROVE IInv'
<1> USE DEF PlanProject, Goto, Fail, store, host
<1>0. /\ pc \in [Op -> PC] /\ FailProgress[pc[o]] \in 0..100
      /\ request[o] \in Request /\ AppOf(o) \in App
    BY DEF IInv, TypeOK, PC, Running, ApplySteps, RemoveSteps, FailProgress,
           ExecutorHasItsLocals, AppOf, Request
<1>1. TypeOK'
    BY <1>0, SMTT(30) DEF IInv, TypeOK, PC, Running, ApplySteps, RemoveSteps, Request, Compose
<1>2. ForeignKeys' /\ ExecutorHasItsLocals'
    BY <1>0 DEF IInv, TypeOK, ForeignKeys, ExecutorHasItsLocals, AppOf, Running,
                ApplySteps, RemoveSteps
<1>3. OperationMatchesExecutor' /\ ProgressMatchesExecutor'
    BY <1>0 DEF IInv, TypeOK, OperationMatchesExecutor, RowAllowedAt,
                ProgressMatchesExecutor, ProgressAt, Operation
<1>4. QED
    BY <1>1, <1>2, <1>3 DEF IInv

LEMMA WriteProjectIInv == ASSUME NEW o \in Op, IInv, WriteProject(o) PROVE IInv'
<1> USE DEF WriteProject, Goto, Fail, store, host
<1>0. /\ pc \in [Op -> PC] /\ FailProgress[pc[o]] \in 0..100
      /\ request[o] \in Request /\ AppOf(o) \in App
    BY DEF IInv, TypeOK, PC, Running, ApplySteps, RemoveSteps, FailProgress,
           ExecutorHasItsLocals, AppOf, Request
<1>1. TypeOK'
    BY <1>0 DEF IInv, TypeOK, PC, Running, ApplySteps, RemoveSteps
<1>2. ForeignKeys' /\ ExecutorHasItsLocals'
    BY <1>0 DEF IInv, TypeOK, ForeignKeys, ExecutorHasItsLocals, AppOf, Running,
                ApplySteps, RemoveSteps
<1>3. OperationMatchesExecutor' /\ ProgressMatchesExecutor'
    BY <1>0 DEF IInv, TypeOK, OperationMatchesExecutor, RowAllowedAt,
                ProgressMatchesExecutor, ProgressAt, Operation
<1>4. QED
    BY <1>1, <1>2, <1>3 DEF IInv

\* What docker compose leaves are containers.
LEMMA LeavesContainers ==
    ASSUME IInv, NEW a \in App
    PROVE  /\ containers[a] \in SUBSET Container
           /\ DownLeaves(a) \subseteq SUBSET Container
           /\ containers[a] \ Named(a) \in DownLeaves(a)
           /\ Readable(a) => /\ project[a] \in Compose
                             /\ Started(project[a]) \in SUBSET Container
                             /\ UpLeaves(a) \subseteq SUBSET Container
<1>1. containers[a] \in SUBSET Container /\ project[a] \in Compose \cup {Nothing, Torn}
    BY DEF IInv, TypeOK
<1>2. Readable(a) => project[a] \in Compose
    BY <1>1 DEF Readable
<1>3. DownLeaves(a) \subseteq SUBSET Container /\ containers[a] \ Named(a) \in DownLeaves(a)
    BY <1>1 DEF DownLeaves, Named
<1>4. QED
    BY <1>1, <1>2, <1>3, StartedAreContainers DEF UpLeaves

LEMMA ApplyIInv == ASSUME NEW o \in Op, IInv, Apply(o) PROVE IInv'
<1> USE DEF Apply, Goto, Fail, store, host
<1>0. /\ pc \in [Op -> PC] /\ FailProgress[pc[o]] \in 0..100
      /\ request[o] \in Request /\ AppOf(o) \in App
    BY DEF IInv, TypeOK, PC, Running, ApplySteps, RemoveSteps, FailProgress,
           ExecutorHasItsLocals, AppOf, Request
<1>a. /\ containers' \in [App -> SUBSET Container]
      /\ \/ pc' = [pc EXCEPT ![o] = "reportLaunch"] /\ UNCHANGED failedAt
         \/ /\ pc' = [pc EXCEPT ![o] = "fail"]
            /\ failedAt' = [failedAt EXCEPT ![o] = FailProgress[pc[o]]]
    <2>1. \/ UNCHANGED containers
          \/ \E left \in SUBSET Container :
                containers' = [containers EXCEPT ![AppOf(o)] = left]
        BY <1>0, LeavesContainers, ZenonT(60)
    <2>2. QED
        BY <2>1 DEF IInv, TypeOK
<1>1. TypeOK'
    <2>1. pc' \in [Op -> PC] /\ failedAt' \in [Op -> 0..100]
        BY <1>0, <1>a DEF IInv, TypeOK, PC, Running, ApplySteps
    <2>2. QED
        BY <1>a, <2>1 DEF IInv, TypeOK
<1>2. ForeignKeys' /\ ExecutorHasItsLocals'
    BY <1>0, <1>a DEF IInv, TypeOK, ForeignKeys, ExecutorHasItsLocals, AppOf, Running,
                ApplySteps, RemoveSteps
<1>3. OperationMatchesExecutor' /\ ProgressMatchesExecutor'
    <2>1. pc[o] = "apply" /\ UNCHANGED operation
        OBVIOUS
    <2> HIDE DEF Apply
    <2>2. QED
        BY <1>0, <1>a, <2>1 DEF IInv, TypeOK, OperationMatchesExecutor, RowAllowedAt,
                ProgressMatchesExecutor, ProgressAt, Operation
<1>4. QED
    BY <1>1, <1>2, <1>3 DEF IInv

LEMMA AwaitHealthyIInv == ASSUME NEW o \in Op, IInv, AwaitHealthy(o) PROVE IInv'
<1> USE DEF AwaitHealthy, Goto, Fail, store, host
<1>0. /\ pc \in [Op -> PC] /\ FailProgress[pc[o]] \in 0..100
      /\ request[o] \in Request /\ AppOf(o) \in App
    BY DEF IInv, TypeOK, PC, Running, ApplySteps, RemoveSteps, FailProgress,
           ExecutorHasItsLocals, AppOf, Request
<1>1. TypeOK'
    BY <1>0 DEF IInv, TypeOK, PC, Running, ApplySteps, RemoveSteps
<1>2. ForeignKeys' /\ ExecutorHasItsLocals'
    BY <1>0 DEF IInv, TypeOK, ForeignKeys, ExecutorHasItsLocals, AppOf, Running,
                ApplySteps, RemoveSteps
<1>3. OperationMatchesExecutor' /\ ProgressMatchesExecutor'
    BY <1>0 DEF IInv, TypeOK, OperationMatchesExecutor, RowAllowedAt,
                ProgressMatchesExecutor, ProgressAt, Operation
<1>4. QED
    BY <1>1, <1>2, <1>3 DEF IInv

LEMMA TearDownIInv == ASSUME NEW o \in Op, IInv, TearDown(o) PROVE IInv'
<1> USE DEF TearDown, Goto, Fail, store, host
<1>0. /\ pc \in [Op -> PC] /\ FailProgress[pc[o]] \in 0..100
      /\ request[o] \in Request /\ AppOf(o) \in App
    BY DEF IInv, TypeOK, PC, Running, ApplySteps, RemoveSteps, FailProgress,
           ExecutorHasItsLocals, AppOf, Request
<1>1. TypeOK'
    <2>1. \/ UNCHANGED containers
          \/ \E left \in SUBSET Container :
                containers' = [containers EXCEPT ![AppOf(o)] = left]
        BY <1>0, LeavesContainers, ZenonT(60)
    <2>2. containers' \in [App -> SUBSET Container]
        BY <2>1 DEF IInv, TypeOK
    <2>3. pc' \in [Op -> PC] /\ failedAt' \in [Op -> 0..100]
        BY <1>0 DEF IInv, TypeOK, PC, Running, ApplySteps, RemoveSteps
    <2>4. QED
        BY <2>2, <2>3 DEF IInv, TypeOK
<1>2. ForeignKeys' /\ ExecutorHasItsLocals'
    BY <1>0 DEF IInv, TypeOK, ForeignKeys, ExecutorHasItsLocals, AppOf, Running,
                ApplySteps, RemoveSteps
<1>3. OperationMatchesExecutor' /\ ProgressMatchesExecutor'
    BY <1>0 DEF IInv, TypeOK, OperationMatchesExecutor, RowAllowedAt,
                ProgressMatchesExecutor, ProgressAt, Operation
<1>4. QED
    BY <1>1, <1>2, <1>3 DEF IInv

LEMMA RemoveConfigIInv == ASSUME NEW o \in Op, IInv, RemoveConfig(o) PROVE IInv'
<1> USE DEF RemoveConfig, Goto, Fail, store, host
<1>0. /\ pc \in [Op -> PC] /\ FailProgress[pc[o]] \in 0..100
      /\ request[o] \in Request /\ AppOf(o) \in App
    BY DEF IInv, TypeOK, PC, Running, ApplySteps, RemoveSteps, FailProgress,
           ExecutorHasItsLocals, AppOf, Request
<1>1. TypeOK'
    BY <1>0 DEF IInv, TypeOK, PC, Running, ApplySteps, RemoveSteps
<1>2. ForeignKeys' /\ ExecutorHasItsLocals'
    BY <1>0 DEF IInv, TypeOK, ForeignKeys, ExecutorHasItsLocals, AppOf, Running,
                ApplySteps, RemoveSteps
<1>3. OperationMatchesExecutor' /\ ProgressMatchesExecutor'
    BY <1>0 DEF IInv, TypeOK, OperationMatchesExecutor, RowAllowedAt,
                ProgressMatchesExecutor, ProgressAt, Operation
<1>4. QED
    BY <1>1, <1>2, <1>3 DEF IInv

LEMMA RemoveDataIInv == ASSUME NEW o \in Op, IInv, RemoveData(o) PROVE IInv'
<1> USE DEF RemoveData, Goto, Fail, store, host
<1>0. /\ pc \in [Op -> PC] /\ FailProgress[pc[o]] \in 0..100
      /\ request[o] \in Request /\ AppOf(o) \in App
    BY DEF IInv, TypeOK, PC, Running, ApplySteps, RemoveSteps, FailProgress,
           ExecutorHasItsLocals, AppOf, Request
<1>1. TypeOK'
    BY <1>0 DEF IInv, TypeOK, PC, Running, ApplySteps, RemoveSteps
<1>2. ForeignKeys' /\ ExecutorHasItsLocals'
    BY <1>0 DEF IInv, TypeOK, ForeignKeys, ExecutorHasItsLocals, AppOf, Running,
                ApplySteps, RemoveSteps
<1>3. OperationMatchesExecutor' /\ ProgressMatchesExecutor'
    BY <1>0 DEF IInv, TypeOK, OperationMatchesExecutor, RowAllowedAt,
                ProgressMatchesExecutor, ProgressAt, Operation
<1>4. QED
    BY <1>1, <1>2, <1>3 DEF IInv

\* The ends of an executor: the instance row is written and the locals forgotten.
LEMMA InsertInstanceIInv == ASSUME NEW o \in Op, IInv, InsertInstance(o) PROVE IInv'
<1> USE DEF InsertInstance, Return, Goto, Refused, Fault, host, store
<1>0. /\ pc \in [Op -> PC] /\ request[o] \in Request /\ AppOf(o) \in App
      /\ pc[o] = "save" => loaded[o] \in Instance
    BY DEF IInv, TypeOK, PC, Running, ApplySteps, RemoveSteps,
           ExecutorHasItsLocals, AppOf, Request
<1>1. TypeOK'
    <2>0. order' \in [App -> {"kept", "mending", "broken"}]
        BY DEF IInv, TypeOK, Closes, Breaks
    <2>1. Installed(o, FALSE) \in Instance
        BY <1>0 DEF IInv, TypeOK, Installed, Instance, Request
    <2>2. instance' \in [App -> Instance \cup {Nothing}]
        BY <1>0, <2>1 DEF IInv, TypeOK, UpsertInstance
    <2>3. pc' = [pc EXCEPT ![o] = "done"] /\ "done" \in PC
        BY DEF PC
    <2>4. pc' \in [Op -> PC] /\ faults' \in Nat
        <3>1. faults' = faults \/ faults' = faults + 1
            OBVIOUS
        <3> HIDE DEF InsertInstance
        <3>2. QED
            BY <1>0, <2>3, <3>1 DEF IInv, TypeOK
    <2>5. /\ plan' \in [Op -> Compose \cup {Nothing}]
          /\ loaded' \in [Op -> Instance \cup {Nothing}]
        BY DEF IInv, TypeOK
    <2>6. QED
        BY <2>0, <2>2, <2>4, <2>5 DEF IInv, TypeOK
<1>2. ForeignKeys' /\ ExecutorHasItsLocals'
    BY <1>0 DEF IInv, TypeOK, ForeignKeys, ExecutorHasItsLocals, AppOf, Running,
                ApplySteps, RemoveSteps, UpsertInstance, Installed
<1>3. OperationMatchesExecutor' /\ ProgressMatchesExecutor'
    BY <1>0 DEF IInv, TypeOK, OperationMatchesExecutor, RowAllowedAt,
                ProgressMatchesExecutor, ProgressAt, Operation, Final
<1>4. QED
    BY <1>1, <1>2, <1>3 DEF IInv

LEMMA LoadInstanceIInv == ASSUME NEW o \in Op, IInv, LoadInstance(o) PROVE IInv'
<1> USE DEF LoadInstance, Return, Goto, Refused, Fault, host, store
<1>0. /\ pc \in [Op -> PC] /\ request[o] \in Request /\ AppOf(o) \in App
      /\ pc[o] = "save" => loaded[o] \in Instance
    BY DEF IInv, TypeOK, PC, Running, ApplySteps, RemoveSteps,
           ExecutorHasItsLocals, AppOf, Request
<1>1. TypeOK'
    <2>0. order' \in [App -> {"kept", "mending", "broken"}]
        BY DEF IInv, TypeOK, Closes, Breaks
    <2>1. loaded' \in [Op -> Instance \cup {Nothing}]
        BY <1>0 DEF IInv, TypeOK
    <2>2. "save" \in PC /\ "done" \in PC
        BY DEF PC, Running, ApplySteps
    <2>3. pc' \in [Op -> PC] /\ faults' \in Nat
        <3>1. \/ pc' = [pc EXCEPT ![o] = "save"] /\ UNCHANGED faults
              \/ pc' = [pc EXCEPT ![o] = "done"] /\ (UNCHANGED faults \/ faults' = faults + 1)
            OBVIOUS
        <3>2. QED
            BY <1>0, <2>2, <3>1 DEF IInv, TypeOK
    <2>4. plan' \in [Op -> Compose \cup {Nothing}]
        BY DEF IInv, TypeOK
    <2>5. QED
        BY <2>0, <2>1, <2>3, <2>4 DEF IInv, TypeOK
<1>2. ForeignKeys' /\ ExecutorHasItsLocals'
    BY <1>0 DEF IInv, TypeOK, ForeignKeys, ExecutorHasItsLocals, AppOf, Running,
                ApplySteps, RemoveSteps
<1>3. OperationMatchesExecutor' /\ ProgressMatchesExecutor'
    BY <1>0 DEF IInv, TypeOK, OperationMatchesExecutor, RowAllowedAt,
                ProgressMatchesExecutor, ProgressAt, Operation, Final
<1>4. QED
    BY <1>1, <1>2, <1>3 DEF IInv

LEMMA SaveInstanceIInv == ASSUME NEW o \in Op, IInv, SaveInstance(o) PROVE IInv'
<1> USE DEF SaveInstance, Return, Goto, Refused, Fault, host, store
<1>0. /\ pc \in [Op -> PC] /\ request[o] \in Request /\ AppOf(o) \in App
      /\ pc[o] = "save" => loaded[o] \in Instance
    BY DEF IInv, TypeOK, PC, Running, ApplySteps, RemoveSteps,
           ExecutorHasItsLocals, AppOf, Request
<1>1. TypeOK'
    <2>0. order' \in [App -> {"kept", "mending", "broken"}]
        BY DEF IInv, TypeOK, Closes, Breaks
    <2>1. Installed(o, loaded[o].lastError) \in Instance
        BY <1>0 DEF IInv, TypeOK, Installed, Instance, Request
    <2>2. instance' \in [App -> Instance \cup {Nothing}]
        BY <1>0, <2>1 DEF IInv, TypeOK, UpsertInstance
    <2>3. pc' = [pc EXCEPT ![o] = "done"] /\ "done" \in PC
        BY DEF PC
    <2>4. pc' \in [Op -> PC] /\ faults' \in Nat
        BY <1>0, <2>3 DEF IInv, TypeOK
    <2>5. /\ plan' \in [Op -> Compose \cup {Nothing}]
          /\ loaded' \in [Op -> Instance \cup {Nothing}]
        BY DEF IInv, TypeOK
    <2>6. QED
        BY <2>0, <2>2, <2>4, <2>5 DEF IInv, TypeOK
<1>2. ForeignKeys' /\ ExecutorHasItsLocals'
    BY <1>0 DEF IInv, TypeOK, ForeignKeys, ExecutorHasItsLocals, AppOf, Running,
                ApplySteps, RemoveSteps, UpsertInstance, Installed
<1>3. OperationMatchesExecutor' /\ ProgressMatchesExecutor'
    BY <1>0 DEF IInv, TypeOK, OperationMatchesExecutor, RowAllowedAt,
                ProgressMatchesExecutor, ProgressAt, Operation, Final
<1>4. QED
    BY <1>1, <1>2, <1>3 DEF IInv

LEMMA DeleteInstanceIInv == ASSUME NEW o \in Op, IInv, DeleteInstance(o) PROVE IInv'
<1> USE DEF DeleteInstance, Return, Goto, Refused, Fault, host, store
<1>0. /\ pc \in [Op -> PC] /\ request[o] \in Request /\ AppOf(o) \in App
      /\ pc[o] = "save" => loaded[o] \in Instance
    BY DEF IInv, TypeOK, PC, Running, ApplySteps, RemoveSteps,
           ExecutorHasItsLocals, AppOf, Request
<1>1. TypeOK'
    <2>0. order' \in [App -> {"kept", "mending", "broken"}]
        BY DEF IInv, TypeOK, Closes, Breaks
    <2>1. QED
        BY <1>0, <2>0 DEF IInv, TypeOK, PC
<1>2. ForeignKeys' /\ ExecutorHasItsLocals'
    BY <1>0 DEF IInv, TypeOK, ForeignKeys, ExecutorHasItsLocals, AppOf, Running,
                ApplySteps, RemoveSteps
<1>3. OperationMatchesExecutor' /\ ProgressMatchesExecutor'
    BY <1>0 DEF IInv, TypeOK, OperationMatchesExecutor, RowAllowedAt,
                ProgressMatchesExecutor, ProgressAt, Operation, Final
<1>4. QED
    BY <1>1, <1>2, <1>3 DEF IInv

LEMMA RecordFailureIInv == ASSUME NEW o \in Op, IInv, RecordFailure(o) PROVE IInv'
<1> USE DEF RecordFailure, Return, Goto, Refused, Fault, host, store
<1>0. /\ pc \in [Op -> PC] /\ request[o] \in Request /\ AppOf(o) \in App
      /\ pc[o] = "save" => loaded[o] \in Instance
    BY DEF IInv, TypeOK, PC, Running, ApplySteps, RemoveSteps,
           ExecutorHasItsLocals, AppOf, Request
<1>1. TypeOK'
    <2>0. order' \in [App -> {"kept", "mending", "broken"}]
        BY DEF IInv, TypeOK, Closes, Breaks
    <2>1. FailureRow \in Instance
        BY DEF FailureRow, Instance
    <2>2. instance' \in [App -> Instance \cup {Nothing}]
        BY <1>0, <2>1 DEF IInv, TypeOK, UpsertInstance
    <2>3. pc' = [pc EXCEPT ![o] = "done"] /\ "done" \in PC
        BY DEF PC
    <2>4. pc' \in [Op -> PC] /\ faults' \in Nat
        BY <1>0, <2>3 DEF IInv, TypeOK
    <2>5. /\ plan' \in [Op -> Compose \cup {Nothing}]
          /\ loaded' \in [Op -> Instance \cup {Nothing}]
        BY DEF IInv, TypeOK
    <2>6. QED
        BY <2>0, <2>2, <2>4, <2>5 DEF IInv, TypeOK
<1>2. ForeignKeys' /\ ExecutorHasItsLocals'
    BY <1>0 DEF IInv, TypeOK, ForeignKeys, ExecutorHasItsLocals, AppOf, Running,
                ApplySteps, RemoveSteps, UpsertInstance, FailureRow
<1>3. OperationMatchesExecutor' /\ ProgressMatchesExecutor'
    BY <1>0 DEF IInv, TypeOK, OperationMatchesExecutor, RowAllowedAt,
                ProgressMatchesExecutor, ProgressAt, Operation, Final
<1>4. QED
    BY <1>1, <1>2, <1>3 DEF IInv

LEMMA FailOperationIInv == ASSUME NEW o \in Op, IInv, FailOperation(o) PROVE IInv'
<1> USE DEF FailOperation, Writable, UpdateOperation, Goto, Refused, Fault, host, locals
<1>0. pc \in [Op -> PC] /\ failedAt[o] \in 0..100
    BY DEF IInv, TypeOK
<1>1. TypeOK'
    <2>1. operation' \in [Op -> Operation \cup {Nothing}]
        BY <1>0 DEF IInv, TypeOK, Operation, Final
    <2>2. pc' \in [Op -> PC] /\ faults' \in Nat
        BY <1>0 DEF IInv, TypeOK, PC, Running
    <2>3. QED
        BY <2>1, <2>2 DEF IInv, TypeOK
<1>2. ForeignKeys' /\ ExecutorHasItsLocals'
    BY <1>0 DEF IInv, TypeOK, ForeignKeys, ExecutorHasItsLocals, AppOf, Running,
                ApplySteps, RemoveSteps
<1>3. OperationMatchesExecutor' /\ ProgressMatchesExecutor'
    BY <1>0 DEF IInv, TypeOK, OperationMatchesExecutor, RowAllowedAt,
                ProgressMatchesExecutor, ProgressAt
<1>4. QED
    BY <1>1, <1>2, <1>3 DEF IInv

\* A request is accepted, and its row created or refused.
LEMMA AcceptIInv ==
    ASSUME NEW o \in Op, NEW r \in Request, IInv, Accept(o, r) PROVE IInv'
<1> USE DEF Accept, Goto, store, host
<1>0. /\ pc \in [Op -> PC] /\ "create" \in PC
      /\ operation[o] = Nothing
    BY DEF IInv, TypeOK, PC, OperationMatchesExecutor, RowAllowedAt
<1>1. TypeOK'
    <2>1. order' \in [App -> {"kept", "mending", "broken"}]
        BY DEF IInv, TypeOK, Joins
    <2>2. QED
        BY <1>0, <2>1 DEF IInv, TypeOK
<1>2. ForeignKeys' /\ ExecutorHasItsLocals'
    BY <1>0 DEF IInv, TypeOK, ForeignKeys, ExecutorHasItsLocals, AppOf, Running,
                ApplySteps, RemoveSteps
<1>3. OperationMatchesExecutor' /\ ProgressMatchesExecutor'
    BY <1>0 DEF IInv, TypeOK, OperationMatchesExecutor, RowAllowedAt,
                ProgressMatchesExecutor, ProgressAt
<1>4. QED
    BY <1>1, <1>2, <1>3 DEF IInv

\* A request that takes effect is accepted, whatever its kind.
LEMMA ReceiveIsAccept ==
    ASSUME NEW o \in Op, IInv, Receive(o)
    PROVE  \E r \in Request : Accept(o, r)
<1>1. PICK a \in App : \/ \E options \in Options : Install(o, a, options) \/ Edit(o, a, options)
                       \/ Update(o, a)
                       \/ \E levels \in Removals : Remove(o, a, levels)
    BY DEF Receive
<1>2. IsInstalled(a) => instance[a].options \in Options
    BY DEF IsInstalled, IInv, TypeOK, Instance
<1>3. CASE \E options \in Options : Install(o, a, options) \/ Edit(o, a, options)
    BY <1>3 DEF Install, Edit, Request, Kind
<1>4. CASE Update(o, a)
    BY <1>2, <1>4 DEF Update, Request, Kind
<1>5. CASE \E levels \in Removals : Remove(o, a, levels)
    BY <1>5 DEF Remove, Request, Kind
<1>6. QED
    BY <1>1, <1>3, <1>4, <1>5

LEMMA ReceiveIInv == ASSUME NEW o \in Op, IInv, Receive(o) PROVE IInv'
BY ReceiveIsAccept, AcceptIInv

LEMMA CreateOperationIInv == ASSUME NEW o \in Op, IInv, CreateOperation(o) PROVE IInv'
<1> USE DEF CreateOperation, UpdateOperation, Goto, Refused, Fault, host
<1>0. /\ pc \in [Op -> PC] /\ operation[o] = Nothing
      /\ request[o] \in Request /\ AppOf(o) \in App
    BY DEF IInv, TypeOK, PC, OperationMatchesExecutor, RowAllowedAt,
           ExecutorHasItsLocals, AppOf, Request
<1>1. TypeOK'
    <2>1. operation' \in [Op -> Operation \cup {Nothing}]
        BY <1>0 DEF IInv, TypeOK, Operation
    <2>2. pc' \in [Op -> PC] /\ faults' \in Nat /\ request' \in [Op -> Request \cup {Nothing}]
        BY <1>0 DEF IInv, TypeOK, PC, Running
    <2>3. order' \in [App -> {"kept", "mending", "broken"}]
        BY DEF IInv, TypeOK
    <2>4. QED
        BY <2>1, <2>2, <2>3 DEF IInv, TypeOK
<1>2. ForeignKeys' /\ ExecutorHasItsLocals'
    BY <1>0 DEF IInv, TypeOK, ForeignKeys, ExecutorHasItsLocals, AppOf, Running,
                ApplySteps, RemoveSteps
<1>3. OperationMatchesExecutor' /\ ProgressMatchesExecutor'
    BY <1>0 DEF IInv, TypeOK, OperationMatchesExecutor, RowAllowedAt,
                ProgressMatchesExecutor, ProgressAt
<1>4. QED
    BY <1>1, <1>2, <1>3 DEF IInv

\* The catalog and the end of the process.
LEMMA CatalogStepIInv == ASSUME IInv, CatalogStep PROVE IInv'
<1> USE DEF host, locals
<1>1. PICK a \in App : CatalogDelete(a) \/ \E v \in Version : CatalogUpsert(a, v)
    BY DEF CatalogStep
<1>2. CASE CatalogDelete(a)
    BY <1>2 DEF CatalogDelete, IInv, TypeOK, ForeignKeys, ExecutorHasItsLocals,
                OperationMatchesExecutor, ProgressMatchesExecutor, AppOf
<1>3. CASE \E v \in Version : CatalogUpsert(a, v)
    BY <1>3 DEF CatalogUpsert, IInv, TypeOK, ForeignKeys, ExecutorHasItsLocals,
                OperationMatchesExecutor, ProgressMatchesExecutor, AppOf
<1>4. QED
    BY <1>1, <1>2, <1>3

LEMMA InterruptedAreContainers ==
    ASSUME IInv, NEW a \in App PROVE Interrupted(a) \subseteq SUBSET Container
<1> DEFINE ups == IF Readable(a) /\ \E o \in Unfinished(a) : pc[o] = "apply"
                  THEN UpLeaves(a) ELSE {}
           downs == IF Readable(a) /\ \E o \in Unfinished(a) :
                                          pc[o] = "down" /\ "containers" \in request[o].levels
                    THEN DownLeaves(a) ELSE {}
<1>1. Interrupted(a) = {containers[a]} \cup ups \cup downs
    BY DEF Interrupted
<1>2. /\ containers[a] \in SUBSET Container
      /\ DownLeaves(a) \subseteq SUBSET Container
      /\ Readable(a) => UpLeaves(a) \subseteq SUBSET Container
    BY LeavesContainers
<1>3. ups \subseteq SUBSET Container /\ downs \subseteq SUBSET Container
    BY <1>2
<1> HIDE DEF ups, downs
<1>4. QED
    BY <1>1, <1>2, <1>3

LEMMA CrashIInv == ASSUME IInv, Crash PROVE IInv'
<1> USE DEF Crash, store
<1>1. TypeOK'
    <2>1. \A a \in App : containers'[a] \in SUBSET Container
        BY InterruptedAreContainers
    <2>2. containers' \in [App -> SUBSET Container]
        BY <2>1
    <2>3. order' \in [App -> {"kept", "mending", "broken"}]
        BY DEF IInv, TypeOK
    <2>4. pc' \in [Op -> PC] /\ request' \in [Op -> Request \cup {Nothing}]
        BY DEF IInv, TypeOK, PC
    <2>5. QED
        BY <2>2, <2>3, <2>4 DEF IInv, TypeOK
<1>2. ForeignKeys' /\ ExecutorHasItsLocals'
    BY DEF IInv, TypeOK, ForeignKeys, ExecutorHasItsLocals, AppOf, Running,
           ApplySteps, RemoveSteps, OperationMatchesExecutor, RowAllowedAt
<1>3. OperationMatchesExecutor' /\ ProgressMatchesExecutor'
    BY DEF IInv, TypeOK, OperationMatchesExecutor, RowAllowedAt,
           ProgressMatchesExecutor, ProgressAt, Operation, Final
<1>4. QED
    BY <1>1, <1>2, <1>3 DEF IInv

\* The reports of progress are instances of SyncIInv.
LEMMA ReportIInv ==
    ASSUME NEW o \in Op, IInv,
           \/ StartOperation(o) \/ ReportApplying(o) \/ ReportLaunching(o)
           \/ CompleteOperation(o) \/ FinishRemove(o)
    PROVE  IInv'
<1>1. \A to \in {"plan", "down", "apply", "await"} :
          "running" \in RowAllowedAt(to) /\ to \in Running \ {"save", "fail", "record"}
    BY DEF RowAllowedAt, Running, ApplySteps, RemoveSteps
<1>2. \A to \in {"insert", "load", "delete"} :
          /\ "succeeded" \in RowAllowedAt(to) /\ to \in Running \ {"save", "fail", "record"}
          /\ 100 \in ProgressAt(to)
    BY DEF RowAllowedAt, ProgressAt, Running, ApplySteps, RemoveSteps
<1>3. /\ 20 \in ProgressAt("plan") /\ 20 \in ProgressAt("down")
      /\ 60 \in ProgressAt("apply") /\ 90 \in ProgressAt("await")
    BY DEF ProgressAt
<1>4. CASE StartOperation(o)
    <2>1. PICK to \in {"plan", "down"} : Sync(o, "start", "running", 20, to)
        BY <1>4 DEF StartOperation
    <2>2. QED
        BY <2>1, <1>1, <1>3, SyncIInv
<1>5. CASE ReportApplying(o)
    BY <1>5, <1>1, <1>3, SyncIInv DEF ReportApplying
<1>6. CASE ReportLaunching(o)
    BY <1>6, <1>1, <1>3, SyncIInv DEF ReportLaunching
<1>7. CASE CompleteOperation(o)
    <2>1. PICK to \in {"insert", "load"} : Sync(o, "complete", "succeeded", 100, to)
        BY <1>7 DEF CompleteOperation
    <2>2. QED
        BY <2>1, <1>2, SyncIInv
<1>8. CASE FinishRemove(o)
    BY <1>8, <1>2, SyncIInv DEF FinishRemove
<1>9. QED
    BY <1>4, <1>5, <1>6, <1>7, <1>8

LEMMA StepIInv == ASSUME NEW o \in Op, IInv, Step(o) PROVE IInv'
BY ReportIInv, PlanProjectIInv, WriteProjectIInv, ApplyIInv, AwaitHealthyIInv,
   InsertInstanceIInv, LoadInstanceIInv, SaveInstanceIInv, TearDownIInv,
   RemoveConfigIInv, RemoveDataIInv, DeleteInstanceIInv, FailOperationIInv,
   RecordFailureIInv, CreateOperationIInv DEF Step, LocalStep, DockerStep

LEMMA NextIInv == IInv /\ [Next]_vars => IInv'
<1> SUFFICES ASSUME IInv, [Next]_vars PROVE IInv'
    OBVIOUS
<1>1. CASE \E o \in Op : Receive(o) \/ Step(o)
    BY <1>1, ReceiveIInv, StepIInv
<1>2. CASE CatalogStep
    BY <1>2, CatalogStepIInv
<1>3. CASE Crash
    BY <1>3, CrashIInv
<1>4. CASE UNCHANGED vars
    BY <1>4 DEF vars, store, host, locals, IInv, TypeOK, ForeignKeys,
                ExecutorHasItsLocals, OperationMatchesExecutor, ProgressMatchesExecutor, AppOf
<1>5. QED
    BY <1>1, <1>2, <1>3, <1>4 DEF Next

\* The inductive invariant holds in every reachable state.
THEOREM Invariance == Spec => []IInv
BY InitIInv, NextIInv, PTL DEF Spec

\* Every value keeps its type: the rows of both tables, the locals of the
\* executors and what is on the host.
THEOREM TypeCorrect == Spec => []TypeOK
<1>1. IInv => TypeOK
    BY DEF IInv
<1>2. QED
    BY <1>1, Invariance, PTL

\* No instance and no operation outlives the catalog row of its application.
THEOREM RowsAreListed == Spec => []ForeignKeys
<1>1. IInv => ForeignKeys
    BY DEF IInv
<1>2. QED
    BY <1>1, Invariance, PTL

\* Whatever interleaves, fails or stops, the row of an operation agrees with
\* its executor: it is final before the instance row is written and never
\* final while the executor still works for it.
THEOREM RowsMatchExecutors == Spec => []OperationMatchesExecutor
<1>1. IInv => OperationMatchesExecutor
    BY DEF IInv
<1>2. QED
    BY <1>1, Invariance, PTL

-----------------------------------------------------------------------------
(* What a step may do to the row of an operation *)

\* The row is created, reported on, failed, or left alone.
RowStep(o) ==
    \/ operation'[o] = operation[o]
    \/ /\ pc[o] = "create" /\ operation[o] = Nothing
       /\ operation'[o] = [status |-> "queued", progress |-> 0]
    \/ /\ operation[o] # Nothing /\ operation[o].status \notin Final
       /\ \/ pc[o] = "start" /\ operation'[o] = [status |-> "running", progress |-> 20]
          \/ pc[o] = "reportApply" /\ operation'[o] = [status |-> "running", progress |-> 60]
          \/ pc[o] = "reportLaunch" /\ operation'[o] = [status |-> "running", progress |-> 90]
          \/ /\ pc[o] \in {"complete", "finish"}
             /\ operation'[o] = [status |-> "succeeded", progress |-> 100]
          \/ pc[o] = "fail" /\ operation'[o] = [status |-> "failed", progress |-> failedAt[o]]

\* A step of one operation leaves the rows of the others alone.
LEMMA StepRow ==
    ASSUME NEW o \in Op, IInv, Receive(o) \/ Step(o)
    PROVE  /\ RowStep(o)
           /\ \A q \in Op \ {o} : operation'[q] = operation[q]
<1>0. operation \in [Op -> Operation \cup {Nothing}]
    BY DEF IInv, TypeOK
<1>1. CASE \/ StartOperation(o) \/ ReportApplying(o) \/ ReportLaunching(o)
           \/ CompleteOperation(o) \/ FinishRemove(o)
    BY <1>0, <1>1 DEF StartOperation, ReportApplying, ReportLaunching, CompleteOperation,
        FinishRemove, Sync, Writable, UpdateOperation, RowStep
<1>2. CASE FailOperation(o)
    BY <1>0, <1>2 DEF FailOperation, Writable, UpdateOperation, RowStep
<1>3. CASE CreateOperation(o)
    <2>1. operation[o] = Nothing
        BY <1>3 DEF CreateOperation, IInv, OperationMatchesExecutor, RowAllowedAt
    <2>2. QED
        BY <1>0, <1>3, <2>1 DEF CreateOperation, UpdateOperation, RowStep
<1>4. CASE Receive(o) \/ PlanProject(o) \/ WriteProject(o) \/ Apply(o) \/ AwaitHealthy(o)
           \/ InsertInstance(o) \/ LoadInstance(o) \/ SaveInstance(o) \/ TearDown(o)
           \/ RemoveConfig(o) \/ RemoveData(o) \/ DeleteInstance(o) \/ RecordFailure(o)
    <2>1. UNCHANGED operation
        BY <1>4 DEF Receive, Install, Update, Edit, Remove, Accept, PlanProject, WriteProject,
            Apply, AwaitHealthy, InsertInstance, LoadInstance, SaveInstance, TearDown,
            RemoveConfig, RemoveData, DeleteInstance, RecordFailure, store
    <2>2. QED
        BY <2>1 DEF RowStep
<1>5. QED
    BY <1>1, <1>2, <1>3, <1>4 DEF Step, LocalStep, DockerStep

LEMMA RowStepKeepsRow ==
    ASSUME NEW o \in Op, IInv, RowStep(o), operation'[o] = Nothing
    PROVE  operation'[o] = operation[o]
<1>1. failedAt[o] \in 0..100
    BY DEF IInv, TypeOK
<1>2. \A s \in {"queued", "running", "succeeded", "failed"} : \A n \in 0..100 :
          [status |-> s, progress |-> n] # Nothing
    BY DEF Operation, Final
<1>3. QED
    BY <1>1, <1>2 DEF RowStep

LEMMA NextRow ==
    ASSUME IInv, [Next]_vars, NEW o \in Op PROVE RowStep(o) \/ operation'[o] = Nothing
<1>1. CASE \E q \in Op : Receive(q) \/ Step(q)
    <2>1. PICK q \in Op : Receive(q) \/ Step(q)
        BY <1>1
    <2>2. CASE q = o
        BY <2>1, <2>2, StepRow
    <2>3. CASE q # o
        BY <2>1, <2>3, StepRow, ZenonT(30) DEF RowStep
    <2>4. QED
        BY <2>2, <2>3
<1>2. CASE CatalogStep
    <2>1. operation'[o] = Nothing \/ operation'[o] = operation[o]
        BY <1>2 DEF CatalogStep, CatalogDelete, CatalogUpsert
    <2>2. QED
        BY <2>1 DEF RowStep
<1>3. CASE Crash \/ UNCHANGED vars
    BY <1>3 DEF Crash, vars, store, RowStep
<1>4. QED
    BY <1>1, <1>2, <1>3 DEF Next

\* A final operation is never rewritten, whatever other executor, failure or
\* restart comes after it (the WHERE clause of UpdateOperation).
THEOREM FinalIsFinal == Spec => FinalOperationsAreKept
<1>1. IInv /\ [Next]_vars =>
        [\A o \in Op : operation[o] # Nothing /\ operation[o].status \in Final
                       => operation'[o] \in {operation[o], Nothing}]_vars
    <2> SUFFICES ASSUME IInv, [Next]_vars, NEW o \in Op,
                        operation[o] # Nothing, operation[o].status \in Final
                 PROVE  operation'[o] \in {operation[o], Nothing}
        OBVIOUS
    <2>1. RowStep(o) \/ operation'[o] = Nothing
        BY NextRow
    <2>2. pc[o] # "create"
        BY DEF IInv, OperationMatchesExecutor, RowAllowedAt
    <2>3. QED
        BY <2>1, <2>2 DEF RowStep
<1>2. QED
    BY <1>1, Invariance, PTL DEF Spec, FinalOperationsAreKept

\* Until it fails, an operation never reports less progress than before, and
\* reports 100 exactly when it succeeded.
THEOREM ProgressIsMonotone == Spec => ProgressNeverFalls
<1>1. IInv /\ IInv' /\ [Next]_vars =>
        [\A o \in Op :
          operation[o] # Nothing /\ operation'[o] # Nothing
          /\ operation'[o].status # "failed"
          => /\ operation'[o].progress >= operation[o].progress
             /\ operation'[o].progress = 100 <=> operation'[o].status = "succeeded"]_vars
    <2> SUFFICES ASSUME IInv, IInv', [Next]_vars, NEW o \in Op,
                        operation[o] # Nothing, operation'[o] # Nothing,
                        operation'[o].status # "failed"
                 PROVE  /\ operation'[o].progress >= operation[o].progress
                        /\ operation'[o].progress = 100 <=> operation'[o].status = "succeeded"
        OBVIOUS
    <2>1. operation'[o].progress = 100 <=> operation'[o].status = "succeeded"
        BY DEF IInv, ProgressMatchesExecutor
    <2>2. /\ operation[o].progress \in 0..100
          /\ operation[o].progress \in ProgressAt(pc[o])
        BY DEF IInv, ProgressMatchesExecutor, TypeOK, Operation
    <2>3. RowStep(o)
        BY NextRow
    <2>4. operation'[o].progress >= operation[o].progress
        BY <2>2, <2>3 DEF RowStep, ProgressAt
    <2>5. QED
        BY <2>1, <2>4
<1>2. QED
    BY <1>1, Invariance, PTL DEF Spec, ProgressNeverFalls

-----------------------------------------------------------------------------
(* The installer implements the status machine of operations.go *)

bar == [o \in Op |-> StatusOf(o)]

\* The status of an operation moves only with its row, except that a request
\* under way may be forgotten.
LEMMA StepLocals ==
    ASSUME NEW o \in Op, IInv, Receive(o) \/ Step(o)
    PROVE  /\ \A q \in Op \ {o} : request'[q] = request[q] /\ pc'[q] = pc[q]
           /\ ~ (pc[o] = "create" \/ pc[o] = "none") => request'[o] = request[o] /\ pc'[o] # "create"
           /\ pc[o] = "none" => pc'[o] = "create" /\ operation'[o] = operation[o]
           /\ pc[o] = "create" =>
                \/ operation'[o] = [status |-> "queued", progress |-> 0]
                \/ operation'[o] = operation[o] /\ request'[o] = Nothing
<1>0. pc \in [Op -> PC] /\ request \in [Op -> Request \cup {Nothing}]
      /\ operation \in [Op -> Operation \cup {Nothing}]
    BY DEF IInv, TypeOK
<1>1. CASE Receive(o)
    <2>1. \E r \in Request \cup {Nothing} :
             /\ pc[o] = "none" /\ request' = [request EXCEPT ![o] = r]
             /\ pc' = [pc EXCEPT ![o] = "create"] /\ UNCHANGED operation
        <3>1. PICK a \in App : \/ \E options \in Options : Install(o, a, options) \/ Edit(o, a, options)
                               \/ Update(o, a)
                               \/ \E levels \in Removals : Remove(o, a, levels)
            BY <1>1 DEF Receive
        <3>2. \E r : Accept(o, r)
            BY <3>1 DEF Install, Edit, Update, Remove
        <3>3. PICK r : Accept(o, r)
            BY <3>2
        <3>4. request'[o] = r /\ request' \in [Op -> Request \cup {Nothing}]
            <4>1. IInv'
                BY <1>1, ReceiveIInv
            <4>2. QED
                BY <1>0, <3>3, <4>1 DEF Accept, IInv, TypeOK
        <3>5. r \in Request \cup {Nothing}
            BY <3>4
        <3>6. QED
            BY <3>3, <3>5 DEF Accept, Goto, store
    <2>2. QED
        BY <1>0, <2>1
<1>2. CASE CreateOperation(o)
    BY <1>0, <1>2 DEF CreateOperation, UpdateOperation, Goto
<1>3. CASE \/ StartOperation(o) \/ ReportApplying(o) \/ ReportLaunching(o)
           \/ CompleteOperation(o) \/ FinishRemove(o)
    BY <1>0, <1>3 DEF StartOperation, ReportApplying, ReportLaunching, CompleteOperation,
        FinishRemove, Sync, Goto, Fail
<1>4. CASE \/ PlanProject(o) \/ WriteProject(o) \/ Apply(o) \/ AwaitHealthy(o)
           \/ TearDown(o) \/ RemoveConfig(o) \/ RemoveData(o)
    BY <1>0, <1>4 DEF PlanProject, WriteProject, Apply, AwaitHealthy, TearDown,
        RemoveConfig, RemoveData, Goto, Fail
<1>5. CASE \/ InsertInstance(o) \/ LoadInstance(o) \/ SaveInstance(o) \/ DeleteInstance(o)
           \/ FailOperation(o) \/ RecordFailure(o)
    BY <1>0, <1>5 DEF InsertInstance, LoadInstance, SaveInstance, DeleteInstance,
        FailOperation, RecordFailure, Return, Goto, locals
<1>6. QED
    BY <1>1, <1>2, <1>3, <1>4, <1>5 DEF Step, LocalStep, DockerStep

LEMMA StatusInRange == ASSUME IInv, NEW o \in Op PROVE StatusOf(o) \in Lifecycle!Status
BY DEF StatusOf, Lifecycle!Status, IInv, TypeOK, Operation, Final

LEMMA StepImplements ==
    ASSUME NEW o \in Op, IInv, Receive(o) \/ Step(o)
    PROVE  [Lifecycle!Next]_bar
<1>0. /\ operation \in [Op -> Operation \cup {Nothing}]
      /\ \A s \in {"queued", "running", "succeeded", "failed"} :
            \A p : [status |-> s, progress |-> p].status = s
    BY DEF IInv, TypeOK
<1>1. \A q \in Op \ {o} : bar'[q] = bar[q]
    BY StepRow, StepLocals DEF bar, StatusOf
<1>2. bar'[o] = StatusOf(o)' /\ bar[o] = StatusOf(o)
    BY DEF bar
<1>3. \/ bar'[o] = bar[o]
      \/ bar[o] = "none" /\ bar'[o] = "queued"
      \/ <<bar[o], bar'[o]>> \in Lifecycle!transitions
    <2>1. CASE pc[o] = "none"
        <3>1. operation[o] = Nothing /\ request[o] = Nothing
            BY <2>1 DEF IInv, OperationMatchesExecutor, RowAllowedAt, ExecutorHasItsLocals
        <3>2. QED
            BY <1>2, <2>1, <3>1, StepLocals DEF StatusOf
    <2>2. CASE pc[o] = "create"
        <3>1. operation[o] = Nothing
            BY <2>2 DEF IInv, OperationMatchesExecutor, RowAllowedAt
        <3>2. [status |-> "queued", progress |-> 0] \in Operation
            BY DEF Operation
        <3>3. QED
            BY <1>2, <2>2, <3>1, <3>2, StepLocals DEF StatusOf
    <2>3. CASE pc[o] \notin {"none", "create"}
        <3>1. request'[o] = request[o] /\ pc'[o] # "create"
            BY <2>3, StepLocals
        <3>2. CASE operation'[o] = operation[o]
            BY <1>2, <2>3, <3>1, <3>2 DEF StatusOf
        <3>3. CASE operation[o] # Nothing /\ operation'[o] # Nothing
                   /\ operation'[o] # operation[o]
            <4>1. RowStep(o)
                BY StepRow
            <4>2. operation[o].status \in {"queued", "running"}
                  /\ operation[o].status \in RowAllowedAt(pc[o])
                BY <2>3, <3>3, <4>1 DEF RowStep, IInv, OperationMatchesExecutor, TypeOK,
                    Operation, Final
            <4>3. <<operation[o].status, operation'[o].status>> \in Lifecycle!transitions
                  \/ operation[o].status = operation'[o].status
                BY <2>3, <3>3, <4>1, <4>2 DEF RowStep, RowAllowedAt, Lifecycle!transitions, Final
            <4>4. QED
                BY <1>2, <3>3, <4>3 DEF StatusOf
        <3>4. CASE operation[o] = Nothing /\ operation'[o] # operation[o]
            BY <2>3, <3>4, StepRow DEF RowStep
        <3>5. operation'[o] = Nothing => operation'[o] = operation[o]
            BY StepRow, RowStepKeepsRow
        <3>6. QED
            BY <3>2, <3>3, <3>4, <3>5
    <2>4. QED
        BY <2>1, <2>2, <2>3
<1>4. QED
    <2>1. bar \in [Op -> Lifecycle!Status] /\ bar' = [bar EXCEPT ![o] = bar'[o]]
        BY <1>1, StatusInRange DEF bar
    <2>2. CASE bar'[o] = bar[o]
        BY <2>1, <2>2
    <2>3. CASE bar[o] = "none" /\ bar'[o] = "queued"
        BY <2>1, <2>3 DEF Lifecycle!Next, Lifecycle!Create, bar
    <2>4. CASE <<bar[o], bar'[o]>> \in Lifecycle!transitions
        BY <2>1, <2>4 DEF Lifecycle!Next, Lifecycle!Move, Lifecycle!transitions, Lifecycle!Status, bar
    <2>5. QED
        BY <1>3, <2>2, <2>3, <2>4

LEMMA CatalogImplements == ASSUME IInv, CatalogStep PROVE [Lifecycle!Next]_bar
<1>1. PICK a \in App : CatalogDelete(a) \/ \E v \in Version : CatalogUpsert(a, v)
    BY DEF CatalogStep
<1>2. CASE CatalogDelete(a)
    <2> DEFINE gone == {o \in Op : operation[o] # Nothing /\ AppOf(o) = a}
    <2>1. \A o \in gone : bar'[o] = "gone" /\ bar[o] # "none"
        <3> SUFFICES ASSUME NEW o \in gone PROVE bar'[o] = "gone" /\ bar[o] # "none"
            OBVIOUS
        <3>1. request[o] # Nothing /\ pc[o] # "create"
            BY DEF IInv, ForeignKeys, OperationMatchesExecutor, RowAllowedAt
        <3>2. operation'[o] = Nothing /\ request'[o] = request[o] /\ pc'[o] = pc[o]
            BY <1>2, <3>1 DEF CatalogDelete, locals
        <3>3. operation[o].status # "none"
            BY DEF IInv, TypeOK, Operation, Final
        <3>4. QED
            BY <3>1, <3>2, <3>3 DEF bar, StatusOf
    <2>2. \A o \in Op \ gone : bar'[o] = bar[o]
        <3> SUFFICES ASSUME NEW o \in Op \ gone PROVE bar'[o] = bar[o]
            OBVIOUS
        <3>1. operation'[o] = operation[o] /\ request'[o] = request[o] /\ pc'[o] = pc[o]
            BY <1>2 DEF CatalogDelete, locals
        <3>2. QED
            BY <3>1 DEF bar, StatusOf
    <2>3. gone \in SUBSET {o \in Op : bar[o] # "none"}
        BY <2>1
    <2>4. bar' = [o \in Op |-> IF o \in gone THEN "gone" ELSE bar[o]]
        BY <2>1, <2>2 DEF bar
    <2> HIDE DEF gone
    <2>5. QED
        BY <2>3, <2>4 DEF Lifecycle!Next, Lifecycle!Drop, bar
<1>3. CASE \E v \in Version : CatalogUpsert(a, v)
    BY <1>3 DEF CatalogUpsert, locals, bar, StatusOf
<1>4. QED
    BY <1>1, <1>2, <1>3

LEMMA CrashImplements == ASSUME IInv, Crash PROVE UNCHANGED bar
<1> SUFFICES ASSUME NEW o \in Op PROVE StatusOf(o)' = StatusOf(o)
    BY DEF bar
<1>1. operation' = operation /\ pc'[o] # "create"
      /\ request'[o] = IF pc[o] = "create" THEN Nothing ELSE request[o]
    BY DEF Crash, store
<1>2. pc[o] = "create" => operation[o] = Nothing
    BY DEF IInv, OperationMatchesExecutor, RowAllowedAt
<1>3. QED
    BY <1>1, <1>2 DEF StatusOf

\* The installer, with every interleaving, store failure, crash and catalog
\* change, implements the status machine that operations.go documents but that
\* no code path consults.
THEOREM Refinement == Spec => ImplementsLifecycle
<1>1. Init => Lifecycle!Init
    BY DEF Init, Lifecycle!Init, StatusOf
<1>2. IInv /\ [Next]_vars => [Lifecycle!Next]_bar
    <2> SUFFICES ASSUME IInv, [Next]_vars PROVE [Lifecycle!Next]_bar
        OBVIOUS
    <2>1. CASE \E o \in Op : Receive(o) \/ Step(o)
        BY <2>1, StepImplements
    <2>2. CASE CatalogStep
        BY <2>2, CatalogImplements
    <2>3. CASE Crash
        BY <2>3, CrashImplements
    <2>4. CASE UNCHANGED vars
        BY <2>4 DEF vars, store, locals, bar, StatusOf
    <2>5. QED
        BY <2>1, <2>2, <2>3, <2>4 DEF Next
<1>3. QED
    BY <1>1, <1>2, Invariance, PTL DEF Spec, ImplementsLifecycle, Lifecycle!Spec, bar

-----------------------------------------------------------------------------
(***************************************************************************)
(* The row and the host, while the order of the requests is kept           *)
(***************************************************************************)

Busy(o) == pc[o] \in Running \cup {"create"}

\* Two requests of an application under way have broken its order.
Apart ==
    \A o, q \in Op : o # q /\ Busy(o) /\ Busy(q) /\ AppOf(o) = AppOf(q)
                     => order[AppOf(o)] = "broken"

\* The steps after the project file was written, after docker compose up and after
\* docker compose down.
Written == {"reportApply", "apply", "reportLaunch", "await", "complete", "insert", "load", "save"}
Launched == {"reportLaunch", "await", "complete", "insert", "load", "save"}
TornDown == {"config", "data", "finish", "delete"}

\* What an executor that is alone has done to the host is still there while it
\* works on.
HostFollows(o) ==
    order[AppOf(o)] # "broken" =>
        /\ pc[o] \in Written => project[AppOf(o)] = plan[o]
        /\ pc[o] \in Launched => containers[AppOf(o)] = Started(plan[o])
        /\ /\ pc[o] \in TornDown /\ "containers" \in request[o].levels
           /\ IsInstalled(AppOf(o)) /\ order[AppOf(o)] = "kept"
           => containers[AppOf(o)] = {}

\* The steps of an executor that has not touched the host yet.
Before == {"create", "start", "plan", "write", "down"}

Agrees(a) ==
    IsInstalled(a) => instance[a].hash = project[a] /\ containers[a] = Started(instance[a].hash)

\* The row describes the host, except between the first change of the host and
\* the statement that rewrites the row.
RowAgrees ==
    \A a \in App :
        /\ order[a] = "kept"
        /\ \A o \in Op : Busy(o) /\ AppOf(o) = a => pc[o] \in Before
        => Agrees(a)

OrderInv == Apart /\ (\A o \in Op : HostFollows(o)) /\ RowAgrees

\* A step of an executor changes nothing of another executor or application.
LEMMA StepFrame ==
    ASSUME NEW o \in Op, IInv, Step(o)
    PROVE  /\ Busy(o)
           /\ \A q \in Op \ {o} : plan'[q] = plan[q]
           /\ \A b \in App \ {AppOf(o)} : /\ instance'[b] = instance[b]
                                          /\ order'[b] = order[b]
                                          /\ project'[b] = project[b]
                                          /\ containers'[b] = containers[b]
<1>1. CASE \/ StartOperation(o) \/ ReportApplying(o) \/ ReportLaunching(o)
           \/ CompleteOperation(o) \/ FinishRemove(o)
    BY <1>1 DEF StartOperation, ReportApplying, ReportLaunching, CompleteOperation,
        FinishRemove, Sync, Busy, Running, ApplySteps, RemoveSteps, host
<1>2. CASE \/ CreateOperation(o) \/ FailOperation(o) \/ LoadInstance(o)
    BY <1>2 DEF CreateOperation, FailOperation, LoadInstance, Return, Breaks, IInv, TypeOK,
        Busy, Running, ApplySteps, RemoveSteps, host, locals, store
<1>3. CASE \/ InsertInstance(o) \/ SaveInstance(o) \/ DeleteInstance(o) \/ RecordFailure(o)
    <2>1. Busy(o)
        BY <1>3 DEF InsertInstance, SaveInstance, DeleteInstance, RecordFailure, Busy, Running,
            ApplySteps, RemoveSteps
    <2>2. UNCHANGED <<project, containers>> /\ \A q \in Op \ {o} : plan'[q] = plan[q]
        BY <1>3 DEF InsertInstance, SaveInstance, DeleteInstance, RecordFailure, Return, host,
            IInv, TypeOK
    <2>3. ASSUME NEW b \in App \ {AppOf(o)} PROVE instance'[b] = instance[b] /\ order'[b] = order[b]
        <3> USE DEF IInv, TypeOK
        <3>1. CASE InsertInstance(o)
            BY <3>1 DEF InsertInstance, UpsertInstance, Closes, Breaks
        <3>2. CASE SaveInstance(o)
            BY <3>2 DEF SaveInstance, UpsertInstance, Closes, Breaks
        <3>3. CASE DeleteInstance(o)
            BY <3>3 DEF DeleteInstance, Closes, Breaks
        <3>4. CASE RecordFailure(o)
            BY <3>4 DEF RecordFailure, UpsertInstance, Closes, Breaks
        <3> QED
            BY <1>3, <3>1, <3>2, <3>3, <3>4
    <2> QED
        BY <2>1, <2>2, <2>3
<1>4. CASE PlanProject(o) \/ AwaitHealthy(o) \/ RemoveData(o)
    BY <1>4 DEF PlanProject, AwaitHealthy, RemoveData, IInv, TypeOK, Busy, Running,
        ApplySteps, RemoveSteps, host, store
<1>5. CASE WriteProject(o) \/ RemoveConfig(o)
    BY <1>5 DEF WriteProject, RemoveConfig, IInv, TypeOK, Busy, Running, ApplySteps,
        RemoveSteps, store
<1>6. CASE Apply(o)
    BY <1>6 DEF Apply, IInv, TypeOK, Busy, Running, ApplySteps, store
<1>7. CASE TearDown(o)
    BY <1>7 DEF TearDown, IInv, TypeOK, Busy, Running, RemoveSteps, store
<1>8. QED
    BY <1>1, <1>2, <1>3, <1>4, <1>5, <1>6, <1>7 DEF Step, LocalStep, DockerStep

\* An executor keeps its request until it is done.
LEMMA StepKeepsRequest ==
    ASSUME NEW o \in Op, IInv, Step(o)
    PROVE  IF Busy(o)' THEN AppOf(o)' = AppOf(o) ELSE pc'[o] = "done"
<1>0. pc \in [Op -> PC] /\ pc' \in [Op -> PC] /\ Busy(o)
    BY StepIInv, StepFrame DEF IInv, TypeOK
<1>1. CASE pc[o] = "create"
    <2>1. CreateOperation(o)
        BY <1>1 DEF Step, LocalStep, DockerStep, StartOperation,
            PlanProject, WriteProject, ReportApplying, ReportLaunching, AwaitHealthy,
            CompleteOperation, InsertInstance, LoadInstance, SaveInstance, RemoveConfig,
            RemoveData, FinishRemove, DeleteInstance, FailOperation, RecordFailure,
            Apply, TearDown, Sync
    <2>2. QED
        BY <1>0, <2>1 DEF CreateOperation, Goto, AppOf, Busy, Running, ApplySteps, RemoveSteps
<1>2. CASE pc[o] # "create"
    <2>1. request'[o] = request[o] /\ pc'[o] # "create"
        BY <1>0, <1>2, StepLocals DEF Busy, Running, ApplySteps, RemoveSteps
    <2>2. pc'[o] # "none"
        <3>1. IInv' /\ request[o] # Nothing
            BY <1>0, StepIInv DEF IInv, ExecutorHasItsLocals, Busy
        <3>2. QED
            BY <2>1, <3>1 DEF IInv, ExecutorHasItsLocals
    <2>3. QED
        BY <1>0, <2>1, <2>2 DEF AppOf, Busy, PC
<1>3. QED
    BY <1>1, <1>2

\* An executor neither mends an order nor changes it before it returns.
LEMMA StepOrder ==
    ASSUME NEW o \in Op, IInv, Step(o)
    PROVE  /\ order'[AppOf(o)] # "broken" => order[AppOf(o)] # "broken"
           /\ pc'[o] # "done" => order' = order
<1>0. /\ pc \in [Op -> PC] /\ order \in [App -> {"kept", "mending", "broken"}]
      /\ AppOf(o) \in App
    BY StepFrame DEF IInv, TypeOK, ExecutorHasItsLocals, Busy, AppOf, Request
<1>1. CASE \/ StartOperation(o) \/ ReportApplying(o) \/ ReportLaunching(o)
           \/ CompleteOperation(o) \/ FinishRemove(o) \/ FailOperation(o)
           \/ PlanProject(o) \/ WriteProject(o) \/ Apply(o) \/ AwaitHealthy(o)
           \/ TearDown(o) \/ RemoveConfig(o) \/ RemoveData(o)
    BY <1>1 DEF StartOperation, ReportApplying, ReportLaunching, CompleteOperation,
        FinishRemove, Sync, FailOperation, PlanProject, WriteProject, Apply, AwaitHealthy,
        TearDown, RemoveConfig, RemoveData
<1>2. CASE CreateOperation(o)
    BY <1>0, <1>2 DEF CreateOperation, Goto
<1>3. CASE \/ InsertInstance(o) \/ SaveInstance(o) \/ DeleteInstance(o) \/ RecordFailure(o)
           \/ LoadInstance(o)
    BY <1>0, <1>3 DEF InsertInstance, SaveInstance, DeleteInstance, RecordFailure,
        LoadInstance, Return, Goto, Closes, Breaks
<1>4. QED
    BY <1>1, <1>2, <1>3 DEF Step, LocalStep, DockerStep

\* docker compose down leaves nothing of an application whose row describes it.
LEMMA DownLeavesNothing ==
    ASSUME NEW a \in App, IsInstalled(a), Agrees(a)
    PROVE  containers[a] \ Named(a) = {}
BY DEF Agrees, Named, Started

\* An executor that is alone keeps up with the host, step by step.
LEMMA StepHost ==
    ASSUME NEW o \in Op, IInv, HostFollows(o), Step(o),
           order[AppOf(o)] = "kept" /\ pc[o] \in Before => Agrees(AppOf(o))
    PROVE  HostFollows(o)'
<1>0. /\ pc \in [Op -> PC] /\ plan \in [Op -> Compose \cup {Nothing}]
      /\ project \in [App -> Compose \cup {Nothing, Torn}]
      /\ containers \in [App -> SUBSET Container]
      /\ AppOf(o) \in App
    BY StepFrame DEF IInv, TypeOK, ExecutorHasItsLocals, Busy, AppOf, Request
<1>1. SUFFICES ASSUME order'[AppOf(o)] # "broken", pc'[o] \notin {"done", "start"},
                      AppOf(o)' = AppOf(o)
               PROVE  HostFollows(o)'
    <2>1. CASE pc'[o] \in {"done", "start"}
        BY <2>1 DEF HostFollows, Written, Launched, TornDown
    <2>2. CASE pc'[o] \notin {"done", "start"}
        <3>1. AppOf(o)' = AppOf(o)
            BY <2>2, StepKeepsRequest DEF Busy
        <3>2. QED
            BY <1>1, <2>2, <3>1 DEF HostFollows
    <2>3. QED
        BY <2>1, <2>2
<1>2. order[AppOf(o)] # "broken" /\ order' = order
    BY <1>1, StepOrder
<1> USE DEF HostFollows, Written, Launched, TornDown
<1>3. CASE \/ StartOperation(o) \/ ReportApplying(o) \/ ReportLaunching(o)
           \/ CompleteOperation(o) \/ FinishRemove(o)
    BY <1>0, <1>1, <1>2, <1>3 DEF StartOperation, ReportApplying, ReportLaunching,
        CompleteOperation, FinishRemove, Sync, Goto, Fail, host, IsInstalled
<1>4. CASE CreateOperation(o) \/ FailOperation(o) \/ LoadInstance(o)
    BY <1>0, <1>1, <1>2, <1>4 DEF CreateOperation, FailOperation, LoadInstance, Return, Goto,
        host, locals, store
<1>5. CASE InsertInstance(o) \/ SaveInstance(o) \/ DeleteInstance(o) \/ RecordFailure(o)
    BY <1>0, <1>1, <1>5 DEF InsertInstance, SaveInstance, DeleteInstance, RecordFailure, Return, Goto
<1>6. CASE PlanProject(o) \/ WriteProject(o)
    BY <1>0, <1>1, <1>2, <1>6 DEF PlanProject, WriteProject, Goto, Fail, host, store
<1>7. CASE Apply(o) \/ AwaitHealthy(o)
    BY <1>0, <1>1, <1>2, <1>7 DEF Apply, AwaitHealthy, Goto, Fail, host, store
<1>8. CASE TearDown(o)
    <2>1. pc'[o] \notin Written \cup Launched
        BY <1>0, <1>8 DEF TearDown, Goto, Fail
    <2>2. CASE pc'[o] = "config" /\ "containers" \in request'[o].levels
               /\ IsInstalled(AppOf(o))' /\ order'[AppOf(o)] = "kept"
        <3>1. /\ pc[o] \in Before /\ order[AppOf(o)] = "kept" /\ IsInstalled(AppOf(o))
              /\ containers'[AppOf(o)] = containers[AppOf(o)] \ Named(AppOf(o))
            <4>1. /\ UNCHANGED <<instance, request>> /\ pc[o] = "down"
                  /\ pc' = [pc EXCEPT ![o] = "config"]
                  /\ "containers" \in request[o].levels
                BY <1>0, <1>8, <2>2 DEF TearDown, Goto, Fail, store
            <4>2. containers' = [containers EXCEPT ![AppOf(o)] = @ \ Named(AppOf(o))]
                BY <1>0, <1>8, <2>2, <4>1 DEF TearDown, Goto, Fail
            <4>3. QED
                BY <1>0, <1>1, <1>2, <2>2, <4>1, <4>2 DEF IsInstalled, Before
        <3>2. QED
            BY <1>0, <1>1, <2>1, <3>1, DownLeavesNothing
    <2>3. pc'[o] \in {"config", "fail"}
        BY <1>0, <1>8 DEF TearDown, Goto, Fail
    <2>4. QED
        BY <1>1, <2>1, <2>2, <2>3
<1>9. CASE RemoveConfig(o) \/ RemoveData(o)
    BY <1>0, <1>1, <1>2, <1>9 DEF RemoveConfig, RemoveData, Goto, Fail, host, store, IsInstalled
<1>10. QED
    BY <1>3, <1>4, <1>5, <1>6, <1>7, <1>8, <1>9 DEF Step, LocalStep, DockerStep

\* A step that leaves the host untouched or ends its executor leaves a row that
\* describes the host, as long as its last statement is carried out.
LEMMA StepAgrees ==
    ASSUME NEW o \in Op, NEW a \in App, a = AppOf(o), IInv, HostFollows(o), Step(o),
           order'[a] = "kept", order[a] = "kept" /\ pc[o] \in Before => Agrees(a),
           pc'[o] \in Before \cup {"done"}
    PROVE  Agrees(a)'
<1>0. /\ pc \in [Op -> PC]
      /\ instance \in [App -> Instance \cup {Nothing}]
      /\ order \in [App -> {"kept", "mending", "broken"}]
      /\ instance[a] # Nothing => catalog[a] # Nothing
      /\ order[a] # "broken"
    BY StepOrder DEF IInv, TypeOK, ForeignKeys
<1>1. CASE CreateOperation(o) \/ StartOperation(o) \/ PlanProject(o)
    <2>1. /\ pc[o] \in Before /\ UNCHANGED <<instance, project, containers>>
          /\ order[a] = "kept"
        BY <1>0, <1>1 DEF CreateOperation, StartOperation, PlanProject, Sync, Before, host, store
    <2>2. QED
        BY <2>1 DEF Agrees, IsInstalled
<1>2. CASE InsertInstance(o) \/ SaveInstance(o)
    <2>1. /\ project[a] = plan[o] /\ containers[a] = Started(plan[o])
          /\ UNCHANGED <<project, containers>>
        BY <1>0, <1>2 DEF InsertInstance, SaveInstance, HostFollows, Written, Launched, host
    <2>2. \E b : UpsertInstance(a, Installed(o, b))
        BY <1>0, <1>2 DEF InsertInstance, SaveInstance, Breaks
    <2>3. instance'[a] = Nothing \/ instance'[a].hash = plan[o]
        BY <1>0, <2>2 DEF UpsertInstance, Installed
    <2>4. QED
        BY <2>1, <2>3 DEF Agrees, IsInstalled
<1>3. CASE LoadInstance(o) \/ DeleteInstance(o)
    <2>1. pc'[o] # "save"
        BY DEF Before
    <2>2. instance'[a] = Nothing
        BY <1>0, <1>3, <2>1 DEF LoadInstance, DeleteInstance, Goto, Breaks, store
    <2>3. QED
        BY <2>2 DEF Agrees, IsInstalled
<1>4. CASE RecordFailure(o)
    <2>1. UpsertInstance(a, FailureRow)
        BY <1>0, <1>4 DEF RecordFailure, Breaks
    <2>2. instance'[a] = Nothing \/ instance'[a].status = "error"
        BY <1>0, <2>1 DEF UpsertInstance, FailureRow
    <2>3. QED
        BY <2>2 DEF Agrees, IsInstalled
<1>5. CASE \/ WriteProject(o) \/ ReportApplying(o) \/ ReportLaunching(o) \/ AwaitHealthy(o)
           \/ CompleteOperation(o) \/ RemoveConfig(o) \/ RemoveData(o) \/ FinishRemove(o)
           \/ FailOperation(o) \/ Apply(o) \/ TearDown(o)
    BY <1>0, <1>5 DEF WriteProject, ReportApplying, ReportLaunching, AwaitHealthy,
        CompleteOperation, RemoveConfig, RemoveData, FinishRemove, FailOperation, Apply,
        TearDown, Sync, Goto, Fail, Before
<1>6. QED
    BY <1>1, <1>2, <1>3, <1>4, <1>5 DEF Step, LocalStep, DockerStep

\* A request that comes in keeps apart from the others, or breaks the order.
LEMMA ReceiveOrder ==
    ASSUME NEW o \in Op, IInv, OrderInv, Receive(o) PROVE OrderInv'
<1>0. /\ pc \in [Op -> PC] /\ request \in [Op -> Request \cup {Nothing}]
      /\ order \in [App -> {"kept", "mending", "broken"}]
    BY DEF IInv, TypeOK
<1>1. PICK r \in Request : Accept(o, r)
    BY ReceiveIsAccept
<1>2. /\ pc[o] = "none" /\ pc'[o] = "create" /\ request'[o] = r /\ r.app \in App
      /\ \A q \in Op \ {o} : pc'[q] = pc[q] /\ request'[q] = request[q]
      /\ \A a \in App \ {r.app} : order'[a] = order[a]
      /\ UNCHANGED <<instance, project, containers, plan>>
    BY <1>0, <1>1 DEF Accept, Goto, Joins, host, store, Request
<1>3. ASSUME NEW q \in Op, Busy(q), AppOf(q) = r.app PROVE order'[r.app] = "broken"
    <2>1. q \in Unfinished(r.app)
        BY <1>3 DEF Unfinished, Busy, IInv, ExecutorHasItsLocals
    <2>2. Joins(r.app) /\ Unfinished(r.app) # {}
        BY <1>1, <2>1 DEF Accept
    <2>3. QED
        BY <1>0, <1>2, <2>2 DEF Joins
<1>4. \A q \in Op \ {o} : (Busy(q)' <=> Busy(q)) /\ AppOf(q)' = AppOf(q)
    BY <1>2 DEF Busy, AppOf
<1>5. \A q \in Op : Busy(q) => AppOf(q) \in App
    BY <1>0 DEF IInv, ExecutorHasItsLocals, Busy, AppOf, Request
<1>6. AppOf(o)' = r.app /\ ~Busy(o)
    BY <1>2 DEF AppOf, Busy, Running, ApplySteps, RemoveSteps
<1>7. Apart'
    <2> SUFFICES ASSUME NEW p \in Op, NEW q \in Op, p # q, Busy(p)', Busy(q)',
                        AppOf(p)' = AppOf(q)'
                 PROVE  order'[AppOf(p)'] = "broken"
        BY DEF Apart
    <2>1. CASE AppOf(p)' = r.app
        BY <1>3, <1>4, <2>1
    <2>2. CASE AppOf(p)' # r.app
        BY <1>2, <1>4, <1>5, <1>6, <2>2 DEF OrderInv, Apart
    <2>3. QED
        BY <2>1, <2>2
<1>8. ASSUME NEW q \in Op PROVE HostFollows(q)'
    <2>1. CASE q = o \/ ~Busy(q)
        BY <1>2, <2>1 DEF HostFollows, Written, Launched, TornDown, Busy, Running,
            ApplySteps, RemoveSteps
    <2>2. CASE q # o /\ Busy(q) /\ AppOf(q) = r.app
        BY <1>3, <1>4, <2>2 DEF HostFollows
    <2>3. CASE q # o /\ Busy(q) /\ AppOf(q) # r.app
        <3>1. order'[AppOf(q)] = order[AppOf(q)] /\ AppOf(q)' = AppOf(q)
            BY <1>2, <1>4, <1>5, <2>3
        <3>2. HostFollows(q)
            BY DEF OrderInv
        <3>3. QED
            BY <1>2, <2>3, <3>1, <3>2 DEF HostFollows, IsInstalled
    <2>4. QED
        BY <2>1, <2>2, <2>3
<1>9. ASSUME NEW a \in App, order'[a] = "kept",
             (\A q \in Op : Busy(q) /\ AppOf(q) = a => pc[q] \in Before)'
      PROVE  Agrees(a)'
    <2>1. order[a] = "kept"
        BY <1>0, <1>1, <1>2, <1>9 DEF Accept, Joins
    <2>2. \A q \in Op : Busy(q) /\ AppOf(q) = a => pc[q] \in Before
        BY <1>2, <1>4, <1>6, <1>9
    <2>3. Agrees(a)
        BY <2>1, <2>2 DEF OrderInv, RowAgrees
    <2>4. QED
        BY <1>2, <2>3 DEF Agrees, IsInstalled
<1>10. QED
    BY <1>7, <1>8, <1>9 DEF OrderInv, RowAgrees

\* A step of an executor keeps what is said of its application, and of the others.
LEMMA StepKeepsOrder ==
    ASSUME NEW o \in Op, IInv, OrderInv, Step(o) PROVE OrderInv'
<1>0. /\ pc \in [Op -> PC] /\ request \in [Op -> Request \cup {Nothing}]
      /\ order \in [App -> {"kept", "mending", "broken"}]
    BY DEF IInv, TypeOK
<1>1. /\ Busy(o) /\ AppOf(o) \in App
      /\ \A q \in Op \ {o} : pc'[q] = pc[q] /\ request'[q] = request[q] /\ plan'[q] = plan[q]
      /\ \A b \in App \ {AppOf(o)} : /\ instance'[b] = instance[b] /\ order'[b] = order[b]
                                     /\ project'[b] = project[b]
                                     /\ containers'[b] = containers[b]
    BY StepLocals, StepFrame DEF IInv, TypeOK, ExecutorHasItsLocals, Busy, AppOf, Request
<1>2. order'[AppOf(o)] # "broken" => order[AppOf(o)] # "broken"
    BY StepOrder
<1>3. Busy(o)' => AppOf(o)' = AppOf(o)
    BY StepKeepsRequest
<1>4. \A q \in Op : Busy(q) => AppOf(q) \in App
    BY <1>0 DEF IInv, ExecutorHasItsLocals, Busy, AppOf, Request
<1>5. \A q \in Op \ {o} : (Busy(q)' <=> Busy(q)) /\ AppOf(q)' = AppOf(q)
    BY <1>1 DEF Busy, AppOf
<1>6. ASSUME NEW q \in Op \ {o}, Busy(q), AppOf(q) = AppOf(o)
      PROVE  order[AppOf(o)] = "broken" /\ order'[AppOf(o)] = "broken"
    BY <1>1, <1>2, <1>6 DEF OrderInv, Apart
<1>7. order[AppOf(o)] = "kept" /\ pc[o] \in Before => Agrees(AppOf(o))
    <2>1. SUFFICES ASSUME order[AppOf(o)] = "kept", pc[o] \in Before PROVE Agrees(AppOf(o))
        OBVIOUS
    <2>2. \A q \in Op : Busy(q) /\ AppOf(q) = AppOf(o) => pc[q] \in Before
        BY <1>6, <2>1
    <2>3. QED
        BY <1>1, <2>1, <2>2 DEF OrderInv, RowAgrees
<1>8. Apart'
    <2> SUFFICES ASSUME NEW p \in Op, NEW q \in Op, p # q, Busy(p)', Busy(q)',
                        AppOf(p)' = AppOf(q)'
                 PROVE  order'[AppOf(p)'] = "broken"
        BY DEF Apart
    <2>1. Busy(p) /\ Busy(q) /\ AppOf(p)' = AppOf(p) /\ AppOf(q)' = AppOf(q)
        BY <1>1, <1>3, <1>5
    <2>2. order[AppOf(p)] = "broken"
        BY <2>1 DEF OrderInv, Apart
    <2>3. QED
        BY <1>1, <1>2, <1>4, <2>1, <2>2
<1>9. ASSUME NEW q \in Op PROVE HostFollows(q)'
    <2>1. CASE q = o
        BY <1>7, <2>1, StepHost DEF OrderInv
    <2>2. CASE q # o /\ ~Busy(q)
        BY <1>1, <2>2 DEF HostFollows, Busy, Written, Launched, TornDown, Running,
            ApplySteps, RemoveSteps
    <2>3. CASE q # o /\ Busy(q) /\ AppOf(q) = AppOf(o)
        BY <1>5, <1>6, <2>3 DEF HostFollows
    <2>4. CASE q # o /\ Busy(q) /\ AppOf(q) # AppOf(o)
        <3>1. /\ order'[AppOf(q)] = order[AppOf(q)] /\ AppOf(q)' = AppOf(q)
              /\ instance'[AppOf(q)] = instance[AppOf(q)]
              /\ project'[AppOf(q)] = project[AppOf(q)]
              /\ containers'[AppOf(q)] = containers[AppOf(q)]
            BY <1>1, <1>4, <1>5, <2>4
        <3>2. HostFollows(q)
            BY DEF OrderInv
        <3>3. QED
            BY <1>1, <2>4, <3>1, <3>2 DEF HostFollows, IsInstalled
    <2>5. QED
        BY <2>1, <2>2, <2>3, <2>4
<1>10. ASSUME NEW a \in App, order'[a] = "kept",
              (\A q \in Op : Busy(q) /\ AppOf(q) = a => pc[q] \in Before)'
       PROVE  Agrees(a)'
    <2>1. CASE AppOf(o) # a
        <3>1. \A q \in Op : Busy(q) /\ AppOf(q) = a => pc[q] \in Before
            BY <1>1, <1>5, <1>10, <2>1
        <3>2. Agrees(a)
            BY <1>1, <1>10, <2>1, <3>1 DEF OrderInv, RowAgrees
        <3>3. QED
            BY <1>1, <2>1, <3>2 DEF Agrees, IsInstalled
    <2>2. CASE AppOf(o) = a
        <3>1. pc'[o] \in Before \cup {"done"}
            BY <1>3, <1>10, <2>2, StepKeepsRequest
        <3>2. QED
            BY <1>7, <1>10, <2>2, <3>1, StepAgrees DEF OrderInv
    <2>3. QED
        BY <2>1, <2>2
<1>11. QED
    BY <1>8, <1>9, <1>10 DEF OrderInv, RowAgrees

\* A stop touches the containers only of applications whose order it breaks.
LEMMA CrashKeepsOrder == ASSUME IInv, OrderInv, Crash PROVE OrderInv'
<1>0. pc \in [Op -> PC]
    BY DEF IInv, TypeOK
<1>1. \A q \in Op : pc'[q] \in {"none", "done"} /\ ~Busy(q)'
    BY DEF Crash, Busy, Running, ApplySteps, RemoveSteps
<1>2. ASSUME NEW a \in App, order'[a] = "kept" PROVE Agrees(a)'
    <2>1. Unfinished(a) = {} /\ order[a] = "kept"
        BY <1>2 DEF Crash
    <2>2. \A q \in Op : Busy(q) /\ AppOf(q) = a => pc[q] \in Before
        BY <2>1 DEF Unfinished, Busy, IInv, ExecutorHasItsLocals
    <2>3. Agrees(a)
        BY <2>1, <2>2 DEF OrderInv, RowAgrees
    <2>4. Interrupted(a) = {containers[a]}
        BY <2>1 DEF Interrupted
    <2>5. containers'[a] = containers[a] /\ UNCHANGED <<instance, project>>
        BY <2>4 DEF Crash, store
    <2>6. QED
        BY <2>3, <2>5 DEF Agrees, IsInstalled
<1>3. QED
    BY <1>1, <1>2 DEF OrderInv, Apart, HostFollows, RowAgrees, Written, Launched, TornDown

LEMMA OrderStep == IInv /\ OrderInv /\ [Next]_vars => OrderInv'
<1> SUFFICES ASSUME IInv, OrderInv, [Next]_vars PROVE OrderInv'
    OBVIOUS
<1>1. CASE \E o \in Op : Receive(o) \/ Step(o)
    BY <1>1, ReceiveOrder, StepKeepsOrder
<1>2. CASE CatalogStep
    <2>1. PICK a \in App : CatalogDelete(a) \/ \E v \in Version : CatalogUpsert(a, v)
        BY <1>2 DEF CatalogStep
    <2>2. /\ UNCHANGED <<pc, request, plan, project, containers, order>>
          /\ \A b \in App : instance'[b] = instance[b] \/ ~IsInstalled(b)'
        BY <2>1 DEF CatalogUpsert, CatalogDelete, host, locals, IsInstalled, IInv, TypeOK
    <2>3. \A o \in Op : (Busy(o)' <=> Busy(o)) /\ AppOf(o)' = AppOf(o)
        BY <2>2 DEF Busy, AppOf
    <2>4. \A o \in Op : Busy(o) => AppOf(o) \in App
        BY DEF IInv, TypeOK, ExecutorHasItsLocals, Busy, AppOf, Request
    <2>5. Apart'
        BY <2>2, <2>3 DEF OrderInv, Apart
    <2>6. ASSUME NEW o \in Op PROVE HostFollows(o)'
        <3>1. CASE Busy(o)
            BY <2>2, <2>3, <2>4, <3>1 DEF OrderInv, HostFollows, IsInstalled
        <3>2. CASE ~Busy(o)
            BY <2>2, <3>2 DEF HostFollows, Busy, Written, Launched, TornDown, Running,
                ApplySteps, RemoveSteps
        <3>3. QED
            BY <3>1, <3>2
    <2>7. RowAgrees'
        BY <2>2, <2>3 DEF OrderInv, RowAgrees, Agrees, IsInstalled
    <2>8. QED
        BY <2>5, <2>6, <2>7 DEF OrderInv
<1>3. CASE Crash
    BY <1>3, CrashKeepsOrder
<1>4. CASE UNCHANGED vars
    BY <1>4 DEF vars, OrderInv, Apart, RowAgrees, Agrees, IsInstalled, Busy, AppOf,
        HostFollows, host, store, locals
<1>5. QED
    BY <1>1, <1>2, <1>3, <1>4 DEF Next

LEMMA OrderHolds == Spec => []OrderInv
<1>1. Init => OrderInv
    <2> SUFFICES ASSUME Init PROVE OrderInv
        OBVIOUS
    <2>1. Apart /\ \A o \in Op : HostFollows(o)
        BY DEF Init, Apart, Busy, HostFollows, Written, Launched, TornDown, Running,
            ApplySteps, RemoveSteps
    <2>2. ASSUME NEW a \in App, IsInstalled(a)
          PROVE  instance[a].hash = project[a] /\ containers[a] = Started(instance[a].hash)
        <3>1. project[a] # Nothing
            BY <2>2 DEF Init, IsInstalled
        <3>2. instance[a].hash = project[a] /\ containers[a] = Started(project[a])
            BY <3>1 DEF Init
        <3>3. QED
            BY <3>2
    <2>3. QED
        BY <2>1, <2>2 DEF OrderInv, RowAgrees, Agrees
<1>2. QED
    BY <1>1, OrderStep, Invariance, PTL DEF Spec

\* A remove of an installed application that confirmed the containers deletes the
\* instance row only once no container is left: whatever docker, the file system
\* or a statement refused before, whatever the catalog does and wherever the
\* backend stops, as long as the order of its requests is kept.
THEOREM RemovalsAreComplete == Spec => RemovalLeavesNoContainers
<1>1. IInv /\ OrderInv /\ [Next]_vars =>
        [\A o \in Op : pc[o] = "delete" /\ pc'[o] = "done"
                       /\ "containers" \in request[o].levels
                       /\ IsInstalled(AppOf(o)) /\ order[AppOf(o)] = "kept"
                       => containers'[AppOf(o)] = {}]_vars
    <2> SUFFICES ASSUME IInv, OrderInv, [Next]_vars, NEW o \in Op,
                        pc[o] = "delete", pc'[o] = "done", "containers" \in request[o].levels,
                        IsInstalled(AppOf(o)), order[AppOf(o)] = "kept"
                 PROVE  containers'[AppOf(o)] = {}
        OBVIOUS
    <2>0. pc \in [Op -> PC] /\ Busy(o) /\ AppOf(o) \in App
        BY DEF IInv, TypeOK, Busy, Running, RemoveSteps, ExecutorHasItsLocals, AppOf, Request
    <2>1. containers[AppOf(o)] = {}
        BY DEF OrderInv, HostFollows, TornDown
    <2>2. ASSUME NEW q \in Op, Receive(q) \/ Step(q)
          PROVE  UNCHANGED containers
        <3>1. q = o
            BY <2>2, StepLocals
        <3>2. CASE Receive(q)
            BY <3>1, <3>2, ReceiveIsAccept DEF Accept
        <3>3. CASE Step(q)
            BY <3>1, <3>3 DEF Step, LocalStep, DockerStep, CreateOperation, StartOperation,
                PlanProject, WriteProject, ReportApplying, ReportLaunching, AwaitHealthy,
                CompleteOperation, InsertInstance, LoadInstance, SaveInstance, RemoveConfig,
                RemoveData, FinishRemove, DeleteInstance, FailOperation, RecordFailure,
                Apply, TearDown, Sync, host
        <3>4. QED
            BY <2>2, <3>2, <3>3
    <2>3. CASE CatalogStep \/ UNCHANGED vars
        BY <2>1, <2>3 DEF CatalogStep, CatalogUpsert, CatalogDelete, vars, host
    <2>4. CASE Crash
        <3>1. \A q \in Unfinished(AppOf(o)) : q = o
            BY <2>0 DEF OrderInv, Apart, Unfinished, Busy
        <3>2. Interrupted(AppOf(o)) = {containers[AppOf(o)]}
            BY <3>1 DEF Interrupted
        <3>3. QED
            BY <2>0, <2>1, <2>4, <3>2 DEF Crash
    <2>5. QED
        BY <2>1, <2>2, <2>3, <2>4 DEF Next
<1>2. QED
    BY <1>1, Invariance, OrderHolds, PTL DEF Spec, RemovalLeavesNoContainers

\* The row of an installed application that nothing works on describes the project
\* file and the containers, whatever docker, the file system, the store and the
\* catalog do and wherever the backend stops, as long as the order of its requests
\* is kept; and the first request that runs alone to its end mends a broken one.
THEOREM RowsDescribeTheHost == Spec => []HashMatchesHost
<1>1. IInv /\ OrderInv => HashMatchesHost
    BY DEF IInv, ExecutorHasItsLocals, OrderInv, RowAgrees, HashMatchesHost, Agrees,
        Unfinished, Busy
<1>2. QED
    BY <1>1, Invariance, OrderHolds, PTL

=============================================================================
