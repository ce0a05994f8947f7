--------------------------- MODULE AppsInstaller ---------------------------
(***************************************************************************)
(* The application installer of the backend: internal/apps/install.go over *)
(* the SQLite store of internal/platform/database/apps_store.go.           *)
(*                                                                         *)
(* A request (install, update, edit, remove) reads the instance row, adds  *)
(* an operation row in state "queued" and starts one goroutine, here the   *)
(* EXECUTOR of that operation.  Every store call and every docker compose  *)
(* call of an executor is one action, so executors of different operations *)
(* interleave between any two calls, as goroutines do.                     *)
(*                                                                         *)
(* Abstractions.  A rendered compose document is the pair of the options   *)
(* and of the manifest version it is rendered from; its SHA-256 is the     *)
(* pair itself.  A container is its service and the document it was        *)
(* created from.  compose_hash and installed_version are always written    *)
(* together and are the one field "hash".  Messages, timestamps and the    *)
(* images level of a remove (whose errors are only logged and whose effect *)
(* no other step reads) are left out.  The event publisher is nil in the   *)
(* program's composition root (internal/app/composer.go:105), so publish   *)
(* changes nothing and is not part of the state.                           *)
(***************************************************************************)
EXTENDS Integers, FiniteSets

CONSTANTS
    App,            \* application identifiers
    Op,             \* operation identifiers, each used by at most one request
    Options,        \* values of InstallOptions
    DefaultOptions, \* the zero InstallOptions{}
    Version,        \* manifest versions the catalog may publish
    Service,        \* names of compose services
    ServicesOf,     \* the services of a manifest version
    Removals,       \* the sets of levels a remove request may confirm
    Nothing,        \* no row, no file
    Torn,           \* a project file whose writing was cut short
    MaxInFlight,    \* bound: unfinished requests of one application at a time
    MaxFaults,      \* bound: store statements that fail
    MaxCrashes      \* bound: stops of the backend process

Level == {"containers", "images", "config", "data"}
Kind == {"install", "update", "edit", "remove"}
Final == {"succeeded", "failed"}
Compose == [options: Options, version: Version]
Container == [service: Service, compose: Compose]
Instance == [status: {"installed", "error"},
             hash: Compose \cup {Nothing},
             options: Options,
             runtime: {"", "running", "stopped", "degraded"},
             lastError: BOOLEAN]
Operation == [status: {"queued", "running"} \cup Final, progress: 0..100]
Request == [app: App, kind: Kind, options: Options, levels: SUBSET Level]

ASSUME DefaultIsOptions == DefaultOptions \in Options
ASSUME RemovalsAreLevels == Removals \subseteq SUBSET Level
ASSUME VersionsHaveServices == ServicesOf \in [Version -> (SUBSET Service) \ {{}}]
ASSUME NothingIsNoValue ==
    Nothing \notin Version \cup Compose \cup Instance \cup Operation \cup Request
ASSUME TornIsNoDocument == Torn \notin Compose \cup {Nothing}
ASSUME BoundsAreNaturals ==
    MaxInFlight \in Nat /\ MaxFaults \in Nat /\ MaxCrashes \in Nat

VARIABLES
    catalog,    \* store_apps: the manifest version of each listed application
    instance,   \* app_instances, one row per application
    operation,  \* app_operations
    request,    \* what each request asked for; Nothing again if it was refused
    pc,         \* where its handler or its executor goroutine is
    plan,       \* local of the executor: the compose document it rendered
    loaded,     \* local of the executor: the instance row it read back
    failedAt,   \* the progress its failOperation call reports
    project,    \* <projectRoot>/<app>/docker-compose.yaml
    containers, \* the containers of the compose project of each application
    order,      \* whether the requests of an application keep apart (history variable)
    faults, crashes

store == <<catalog, instance, operation>>
host == <<project, containers>>
locals == <<request, plan, loaded, failedAt>>
vars == <<store, host, locals, pc, order, faults, crashes>>

-----------------------------------------------------------------------------
(* Executors *)

ApplySteps == {"plan", "write", "reportApply", "apply", "reportLaunch", "await",
               "complete", "insert", "load", "save"}
RemoveSteps == {"down", "config", "data", "finish", "delete"}
Running == {"start"} \cup ApplySteps \cup RemoveSteps \cup {"fail", "record"}
PC == {"none", "create", "done"} \cup Running

AppOf(o) == request[o].app
Unfinished(a) ==
    {o \in Op : pc[o] \in Running \cup {"create"} /\ request[o] # Nothing /\ AppOf(o) = a}

\* The progress each failing step passes to failOperation.
FailProgress ==
    [p \in PC |-> CASE p \in {"start", "plan", "write"} -> 20
                    [] p = "reportLaunch" -> 90
                    [] p \in {"complete", "finish"} -> 100
                    [] OTHER -> 60]

Goto(o, p) == pc' = [pc EXCEPT ![o] = p]

\* A statement of the store fails: busy database, full disk, cancelled context.
Fault == faults < MaxFaults /\ faults' = faults + 1

\* A statement is refused by what the tables hold, or fails.
Refused(cause) == \/ cause /\ UNCHANGED faults
                  \/ Fault

\* Every error of a step before completion enters failOperation.
Fail(o) == Goto(o, "fail") /\ failedAt' = [failedAt EXCEPT ![o] = FailProgress[pc[o]]]

\* UpdateOperation: ... WHERE id = ? AND status NOT IN ('succeeded', 'failed').
Writable(o) == operation[o] # Nothing /\ operation[o].status \notin Final

UpdateOperation(o, status, progress) ==
    operation' = [operation EXCEPT ![o] = [status |-> status, progress |-> progress]]

\* Mutant: connections opened without the foreign_keys pragma.
UpsertUnchecked(a, row) == instance' = [instance EXCEPT ![a] = row]

\* UpsertInstance: the foreign key on store_apps refuses an unlisted application.
UpsertInstance(a, row) ==
    instance' = IF catalog[a] = Nothing THEN instance
                ELSE [instance EXCEPT ![a] = row]

\* syncOperation in the middle of the pipeline: store the progress or give up.
Sync(o, from, status, progress, to) ==
    /\ pc[o] = from
    /\ \/ /\ Writable(o)
          /\ UpdateOperation(o, status, progress)
          /\ Goto(o, to)
          /\ UNCHANGED <<failedAt, faults>>
       \/ /\ Refused(~Writable(o))
          /\ Fail(o)
          /\ UNCHANGED operation
    /\ UNCHANGED <<catalog, instance, request, plan, loaded, host, order, crashes>>

-----------------------------------------------------------------------------
(* Order: what the requests of one application did to each other           *)
(*                                                                         *)
(* It is "kept" while they come one after the other and each carries out    *)
(* its last statement; "broken" from the moment two overlap, such a        *)
(* statement fails (which is only logged) or the backend stops under one;  *)
(* and "mending" while the first request that is alone again is under way. *)

\* A request comes in.
Joins(a) ==
    order' = [order EXCEPT ![a] = IF Unfinished(a) # {} THEN "broken"
                                  ELSE IF @ = "broken" THEN "mending" ELSE @]

\* An executor returns, its last statement carried out.
Closes(a) == order' = [order EXCEPT ![a] = IF @ = "broken" THEN "broken" ELSE "kept"]

\* An executor returns without it.
Breaks(a) == order' = [order EXCEPT ![a] = "broken"]

-----------------------------------------------------------------------------
(* Requests: the part of Install, Update, Edit and Remove that reads the row *)

IsInstalled(a) == instance[a] # Nothing /\ instance[a].status = "installed"

Accept(o, r) ==
    /\ pc[o] = "none"
    /\ Cardinality(Unfinished(r.app)) < MaxInFlight
    /\ request' = [request EXCEPT ![o] = r]
    /\ Goto(o, "create")
    /\ Joins(r.app)
    /\ UNCHANGED <<store, host, plan, loaded, failedAt, faults, crashes>>

\* No code path stores an "installing" row, so only "installed" refuses.
Install(o, a, options) ==
    /\ ~IsInstalled(a)
    /\ Accept(o, [app |-> a, kind |-> "install", options |-> options, levels |-> {}])

\* Update keeps the options of the row it read.
Update(o, a) ==
    /\ IsInstalled(a)
    /\ Accept(o, [app |-> a, kind |-> "update", options |-> instance[a].options,
                  levels |-> {}])

Edit(o, a, options) ==
    /\ IsInstalled(a)
    /\ Accept(o, [app |-> a, kind |-> "edit", options |-> options, levels |-> {}])

Remove(o, a, levels) ==
    /\ levels # {}
    /\ instance[a] # Nothing
    /\ Accept(o, [app |-> a, kind |-> "remove", options |-> DefaultOptions,
                  levels |-> levels])

\* The row is inserted and the executor started, or the request ends in an error.
CreateOperation(o) ==
    /\ pc[o] = "create"
    /\ \/ /\ catalog[AppOf(o)] # Nothing
          /\ UpdateOperation(o, "queued", 0)
          /\ Goto(o, "start")
          /\ UNCHANGED <<request, order, faults>>
       \/ /\ Refused(catalog[AppOf(o)] = Nothing)
          /\ Goto(o, "done")
          /\ order' = [order EXCEPT ![AppOf(o)] = IF @ = "kept" THEN "kept" ELSE "broken"]
          /\ request' = [request EXCEPT ![o] = Nothing]
          /\ UNCHANGED operation
    /\ UNCHANGED <<catalog, instance, plan, loaded, failedAt, host, crashes>>

-----------------------------------------------------------------------------
(* executeInstall and executeApply: plan, write, apply, await, persist *)

\* Mutant: the first report forgets the status.
StartStillQueued(o) ==
    Sync(o, "start", "queued", 20, IF request[o].kind = "remove" THEN "down" ELSE "plan")

StartOperation(o) ==
    Sync(o, "start", "running", 20, IF request[o].kind = "remove" THEN "down" ELSE "plan")

\* Planning needs the manifest; it also fails on options the manifest refuses.
PlanProject(o) ==
    /\ pc[o] = "plan"
    /\ \/ /\ catalog[AppOf(o)] # Nothing
          /\ plan' = [plan EXCEPT ![o] = [options |-> request[o].options,
                                          version |-> catalog[AppOf(o)]]]
          /\ Goto(o, "write")
          /\ UNCHANGED failedAt
       \/ Fail(o) /\ UNCHANGED plan
    /\ UNCHANGED <<store, request, loaded, host, order, faults, crashes>>

\* A failing write may have truncated the file, or written it whole.
WriteProject(o) ==
    /\ pc[o] = "write"
    /\ \/ /\ project' = [project EXCEPT ![AppOf(o)] = plan[o]]
          /\ Goto(o, "reportApply")
          /\ UNCHANGED failedAt
       \/ /\ \E left \in {project[AppOf(o)], Torn, plan[o]} :
                project' = [project EXCEPT ![AppOf(o)] = left]
          /\ Fail(o)
    /\ UNCHANGED <<store, request, plan, loaded, containers, order, faults, crashes>>

ReportApplying(o) == Sync(o, "reportApply", "running", 60, "apply")

\* docker compose reads the file as it is now, and refuses one cut short.
Readable(a) == project[a] \notin {Nothing, Torn}

\* The containers docker compose up creates from a document, and those of the
\* services that the file of an application names.
Started(document) ==
    {[service |-> s, compose |-> document] : s \in ServicesOf[document.version]}
Named(a) == {c \in containers[a] : c.service \in ServicesOf[project[a].version]}

\* What a docker compose up that does not succeed leaves: it replaces and removes
\* the containers one by one.  The same of a docker compose down.
UpLeaves(a) ==
    {left \in SUBSET (containers[a] \cup Started(project[a])) :
        \A c, d \in left : c.service = d.service => c = d}
DownLeaves(a) == {containers[a] \ gone : gone \in SUBSET Named(a)}

\* Mutant: the exit code of docker compose up is ignored.
ApplyUnchecked(o) ==
    /\ pc[o] = "apply"
    /\ Readable(AppOf(o))
    /\ \E left \in UpLeaves(AppOf(o)) : containers' = [containers EXCEPT ![AppOf(o)] = left]
    /\ Goto(o, "reportLaunch")
    /\ UNCHANGED <<store, locals, project, order, faults, crashes>>

\* Mutant: docker compose up without --remove-orphans.
ApplyKeepingOrphans(o) ==
    /\ pc[o] = "apply"
    /\ Readable(AppOf(o))
    /\ containers' = [containers EXCEPT ![AppOf(o)] =
                          (@ \ Named(AppOf(o))) \cup Started(project[AppOf(o)])]
    /\ Goto(o, "reportLaunch")
    /\ UNCHANGED <<store, locals, project, order, faults, crashes>>

\* docker compose up --remove-orphans leaves the containers of the document and
\* no other.
Apply(o) ==
    /\ pc[o] = "apply"
    /\ \/ /\ Readable(AppOf(o))
          /\ containers' = [containers EXCEPT ![AppOf(o)] = Started(project[AppOf(o)])]
          /\ Goto(o, "reportLaunch")
          /\ UNCHANGED failedAt
       \/ /\ Readable(AppOf(o))
          /\ \E left \in UpLeaves(AppOf(o)) :
                containers' = [containers EXCEPT ![AppOf(o)] = left]
          /\ Fail(o)
       \/ ~Readable(AppOf(o)) /\ Fail(o) /\ UNCHANGED containers
    /\ UNCHANGED <<store, request, plan, loaded, project, order, faults, crashes>>

\* Mutant: success is declared before the health wait.
ReportSuccessEarly(o) == Sync(o, "reportLaunch", "succeeded", 100, "await")

ReportLaunching(o) == Sync(o, "reportLaunch", "running", 90, "await")

\* docker compose ps must list at least one service, and all of them healthy.
AwaitHealthy(o) ==
    /\ pc[o] = "await"
    /\ \/ /\ Readable(AppOf(o)) /\ containers[AppOf(o)] # {}
          /\ Goto(o, "complete")
          /\ UNCHANGED failedAt
       \/ Fail(o)
    /\ UNCHANGED <<store, request, plan, loaded, host, order, faults, crashes>>

CompleteOperation(o) ==
    Sync(o, "complete", "succeeded", 100,
         IF request[o].kind = "install" THEN "insert" ELSE "load")

\* The goroutine returns: its locals are gone.
Return(o) ==
    /\ Goto(o, "done")
    /\ plan' = [plan EXCEPT ![o] = Nothing]
    /\ loaded' = [loaded EXCEPT ![o] = Nothing]

Installed(o, lastError) ==
    [status |-> "installed", hash |-> plan[o], options |-> request[o].options,
     runtime |-> "running", lastError |-> lastError]

\* executeInstall ends with a fresh row; a failed statement is only logged.
InsertInstance(o) ==
    /\ pc[o] = "insert"
    /\ \/ UpsertInstance(AppOf(o), Installed(o, FALSE)) /\ Closes(AppOf(o)) /\ UNCHANGED faults
       \/ Fault /\ Breaks(AppOf(o)) /\ UNCHANGED instance
    /\ Return(o)
    /\ UNCHANGED <<catalog, operation, request, failedAt, host, crashes>>

\* executeApply reads the row back, changes it and writes it whole.
LoadInstance(o) ==
    /\ pc[o] = "load"
    /\ \/ /\ instance[AppOf(o)] # Nothing
          /\ loaded' = [loaded EXCEPT ![o] = instance[AppOf(o)]]
          /\ Goto(o, "save")
          /\ UNCHANGED <<plan, order, faults>>
       \/ /\ Refused(instance[AppOf(o)] = Nothing)
          /\ Return(o)
          /\ Breaks(AppOf(o))
    /\ UNCHANGED <<store, request, failedAt, host, crashes>>

SaveInstance(o) ==
    /\ pc[o] = "save"
    /\ \/ /\ UpsertInstance(AppOf(o), Installed(o, loaded[o].lastError))
          /\ Closes(AppOf(o))
          /\ UNCHANGED faults
       \/ Fault /\ Breaks(AppOf(o)) /\ UNCHANGED instance
    /\ Return(o)
    /\ UNCHANGED <<catalog, operation, request, failedAt, host, crashes>>

-----------------------------------------------------------------------------
(* executeRemove: down, config, data, complete, delete *)

\* Mutant: a failing docker compose down does not stop the remove.
TearDownUnchecked(o) ==
    /\ pc[o] = "down"
    /\ \/ UNCHANGED containers
       \/ /\ "containers" \in request[o].levels /\ Readable(AppOf(o))
          /\ containers' = [containers EXCEPT ![AppOf(o)] = @ \ Named(AppOf(o))]
    /\ Goto(o, "config")
    /\ UNCHANGED <<store, locals, project, order, faults, crashes>>

\* docker compose down, without --remove-orphans, takes away the containers of the
\* services the file names now; those of an earlier document's services stay.
TearDown(o) ==
    /\ pc[o] = "down"
    /\ \/ /\ "containers" \notin request[o].levels
          /\ Goto(o, "config")
          /\ UNCHANGED <<containers, failedAt>>
       \/ /\ "containers" \in request[o].levels
          /\ \/ /\ Readable(AppOf(o))
                /\ containers' = [containers EXCEPT ![AppOf(o)] = @ \ Named(AppOf(o))]
                /\ Goto(o, "config")
                /\ UNCHANGED failedAt
             \/ /\ Readable(AppOf(o))
                /\ \E left \in DownLeaves(AppOf(o)) :
                      containers' = [containers EXCEPT ![AppOf(o)] = left]
                /\ Fail(o)
             \/ ~Readable(AppOf(o)) /\ Fail(o) /\ UNCHANGED containers
    /\ UNCHANGED <<store, request, plan, loaded, project, order, faults, crashes>>

\* A failing os.RemoveAll may have removed the file before it failed.
RemoveConfig(o) ==
    /\ pc[o] = "config"
    /\ \/ /\ "config" \in request[o].levels
          /\ project' = [project EXCEPT ![AppOf(o)] = Nothing]
          /\ \/ Goto(o, "data") /\ UNCHANGED failedAt
             \/ Fail(o)
       \/ "config" \in request[o].levels /\ Fail(o) /\ UNCHANGED project
       \/ /\ "config" \notin request[o].levels
          /\ Goto(o, "data")
          /\ UNCHANGED <<project, failedAt>>
    /\ UNCHANGED <<store, request, plan, loaded, containers, order, faults, crashes>>

RemoveData(o) ==
    /\ pc[o] = "data"
    /\ \/ Goto(o, "finish") /\ UNCHANGED failedAt
       \/ "data" \in request[o].levels /\ Fail(o)
    /\ UNCHANGED <<store, request, plan, loaded, host, order, faults, crashes>>

FinishRemove(o) == Sync(o, "finish", "succeeded", 100, "delete")

DeleteInstance(o) ==
    /\ pc[o] = "delete"
    /\ \/ /\ instance' = [instance EXCEPT ![AppOf(o)] = Nothing]
          /\ Closes(AppOf(o))
          /\ UNCHANGED faults
       \/ Fault /\ Breaks(AppOf(o)) /\ UNCHANGED instance
    /\ Return(o)
    /\ UNCHANGED <<catalog, operation, request, failedAt, host, crashes>>

-----------------------------------------------------------------------------
(* failOperation: two statements, each of which may fail and is only logged *)

\* Mutant: only the instance row learns of the failure.
FailSilently(o) ==
    /\ pc[o] = "fail"
    /\ Goto(o, "record")
    /\ UNCHANGED <<store, locals, host, order, faults, crashes>>

FailOperation(o) ==
    /\ pc[o] = "fail"
    /\ \/ /\ Writable(o)
          /\ UpdateOperation(o, "failed", failedAt[o])
          /\ UNCHANGED faults
       \/ /\ Refused(~Writable(o))
          /\ UNCHANGED operation
    /\ Goto(o, "record")
    /\ UNCHANGED <<catalog, instance, locals, host, order, crashes>>

\* Mutant: the failure keeps the status of an install under way.
FailureRowInstalling == [status |-> "installing", hash |-> Nothing,
                         options |-> DefaultOptions, runtime |-> "", lastError |-> TRUE]

\* The failure row carries no hash, no options and no version.
FailureRow == [status |-> "error", hash |-> Nothing, options |-> DefaultOptions,
               runtime |-> "", lastError |-> TRUE]

RecordFailure(o) ==
    /\ pc[o] = "record"
    /\ \/ UpsertInstance(AppOf(o), FailureRow) /\ Closes(AppOf(o)) /\ UNCHANGED faults
       \/ Fault /\ Breaks(AppOf(o)) /\ UNCHANGED instance
    /\ Return(o)
    /\ UNCHANGED <<catalog, operation, request, failedAt, host, crashes>>

-----------------------------------------------------------------------------
(* The surroundings: the catalog sync and the end of the process *)

\* A sync stores another version of the manifest.
CatalogUpsert(a, v) ==
    /\ catalog[a] # v
    /\ catalog' = [catalog EXCEPT ![a] = v]
    /\ UNCHANGED <<instance, operation, host, locals, pc, order, faults, crashes>>

\* A sync deletes the store_apps row: ON DELETE CASCADE takes the instance
\* and the operations with it, and nothing stops the containers.
CatalogDelete(a) ==
    /\ catalog[a] # Nothing
    /\ catalog' = [catalog EXCEPT ![a] = Nothing]
    /\ instance' = [instance EXCEPT ![a] = Nothing]
    /\ operation' = [o \in Op |-> IF request[o] # Nothing /\ AppOf(o) = a
                                  THEN Nothing ELSE operation[o]]
    /\ UNCHANGED <<host, locals, pc, order, faults, crashes>>

\* What docker compose, killed or left to itself, makes of an application.
Interrupted(a) ==
    {containers[a]}
    \cup (IF Readable(a) /\ \E o \in Unfinished(a) : pc[o] = "apply" THEN UpLeaves(a) ELSE {})
    \cup (IF Readable(a) /\ \E o \in Unfinished(a) :
                                  pc[o] = "down" /\ "containers" \in request[o].levels
          THEN DownLeaves(a) ELSE {})

\* The process stops, gracefully or not: no goroutine is waited for and nothing
\* resumes one.
Crash ==
    /\ crashes < MaxCrashes
    /\ crashes' = crashes + 1
    /\ pc' = [o \in Op |-> IF pc[o] = "none" THEN "none" ELSE "done"]
    /\ request' = [o \in Op |-> IF pc[o] = "create" THEN Nothing ELSE request[o]]
    /\ plan' = [o \in Op |-> Nothing]
    /\ loaded' = [o \in Op |-> Nothing]
    /\ order' = [a \in App |-> IF Unfinished(a) = {} THEN order[a] ELSE "broken"]
    /\ containers' \in [App -> UNION {Interrupted(a) : a \in App}]
    /\ \A a \in App : containers'[a] \in Interrupted(a)
    /\ UNCHANGED <<store, failedAt, project, faults>>

-----------------------------------------------------------------------------
\* The backend starts with an application that is not installed, or installed as
\* its last request left it.
Init ==
    /\ catalog \in [App -> Version]
    /\ project \in [App -> Compose \cup {Nothing}]
    /\ containers = [a \in App |-> IF project[a] = Nothing THEN {} ELSE Started(project[a])]
    /\ instance = [a \in App |->
          IF project[a] = Nothing THEN Nothing
          ELSE [status |-> "installed", hash |-> project[a], options |-> project[a].options,
                runtime |-> "running", lastError |-> FALSE]]
    /\ operation = [o \in Op |-> Nothing]
    /\ request = [o \in Op |-> Nothing]
    /\ pc = [o \in Op |-> "none"]
    /\ plan = [o \in Op |-> Nothing]
    /\ loaded = [o \in Op |-> Nothing]
    /\ failedAt = [o \in Op |-> 0]
    /\ order = [a \in App |-> "kept"]
    /\ faults = 0
    /\ crashes = 0

Receive(o) ==
    \E a \in App :
        \/ \E options \in Options : Install(o, a, options) \/ Edit(o, a, options)
        \/ Update(o, a)
        \/ \E levels \in Removals : Remove(o, a, levels)

\* The steps that end on their own; docker compose up and down are awaited
\* without a time limit (runCommand ignores the runner's timeout).
LocalStep(o) ==
    \/ CreateOperation(o) \/ StartOperation(o) \/ PlanProject(o) \/ WriteProject(o)
    \/ ReportApplying(o) \/ ReportLaunching(o) \/ AwaitHealthy(o) \/ CompleteOperation(o)
    \/ InsertInstance(o) \/ LoadInstance(o) \/ SaveInstance(o)
    \/ RemoveConfig(o) \/ RemoveData(o) \/ FinishRemove(o) \/ DeleteInstance(o)
    \/ FailOperation(o) \/ RecordFailure(o)

DockerStep(o) == Apply(o) \/ TearDown(o)

Step(o) == LocalStep(o) \/ DockerStep(o)

CatalogStep ==
    \E a \in App : CatalogDelete(a) \/ \E v \in Version : CatalogUpsert(a, v)

Next == \/ \E o \in Op : Receive(o) \/ Step(o)
        \/ CatalogStep
        \/ Crash

Spec == Init /\ [][Next]_vars

\* Goroutines are scheduled, and docker answers.
FairSpec == Spec /\ \A o \in Op : WF_vars(Step(o))

-----------------------------------------------------------------------------
(* Correctness *)

TypeOK ==
    /\ catalog \in [App -> Version \cup {Nothing}]
    /\ instance \in [App -> Instance \cup {Nothing}]
    /\ operation \in [Op -> Operation \cup {Nothing}]
    /\ request \in [Op -> Request \cup {Nothing}]
    /\ pc \in [Op -> PC]
    /\ plan \in [Op -> Compose \cup {Nothing}]
    /\ loaded \in [Op -> Instance \cup {Nothing}]
    /\ failedAt \in [Op -> 0..100]
    /\ project \in [App -> Compose \cup {Nothing, Torn}]
    /\ containers \in [App -> SUBSET Container]
    /\ order \in [App -> {"kept", "mending", "broken"}]
    /\ faults \in Nat
    /\ crashes \in Nat

\* The row of an operation says what its executor is doing: the executor never
\* works before the row exists, never on after it declared a failure, and
\* changes the instance row only once the operation is final.  Only the catalog
\* can take the row away under it, and only a failing store leaves a dead
\* operation unfinished.
RowAllowedAt(p) ==
    CASE p \in {"none", "create"} -> {}
      [] p = "start" -> {"queued"}
      [] p \in {"plan", "write", "reportApply", "apply", "reportLaunch", "await",
                "complete", "down", "config", "data", "finish"} -> {"running"}
      [] p \in {"insert", "load", "save", "delete"} -> {"succeeded"}
      [] p = "fail" -> {"queued", "running"}
      [] p = "record" -> {"queued", "running", "failed"}
      [] OTHER -> {"queued", "running", "succeeded", "failed"}

OperationMatchesExecutor ==
    \A o \in Op : operation[o] # Nothing => operation[o].status \in RowAllowedAt(pc[o])

\* A final operation is never rewritten: its row stays as it is until the
\* catalog deletes it (UpdateOperation's WHERE clause, operations.go:49).
FinalOperationsAreKept ==
    [][\A o \in Op : operation[o] # Nothing /\ operation[o].status \in Final
                     => operation'[o] \in {operation[o], Nothing}]_vars

\* Until it fails, an operation only reports more progress than before, and an
\* operation at 100 is a success (install.go:212-222, the step constants).  The
\* failure of a health wait does report less: 60 after 90.
ProgressNeverFalls ==
    [][\A o \in Op :
          operation[o] # Nothing /\ operation'[o] # Nothing
          /\ operation'[o].status # "failed"
          => /\ operation'[o].progress >= operation[o].progress
             /\ operation'[o].progress = 100 <=> operation'[o].status = "succeeded"]_vars

\* Both tables refer to store_apps and are emptied with it
\* (003_apps.sql: REFERENCES store_apps(id) ON DELETE CASCADE).
ForeignKeys ==
    /\ \A a \in App : instance[a] # Nothing => catalog[a] # Nothing
    /\ \A o \in Op : operation[o] # Nothing =>
                        request[o] # Nothing /\ catalog[AppOf(o)] # Nothing

\* The status machine of operations.go, for every operation at once.
StatusOf(o) ==
    IF operation[o] # Nothing THEN operation[o].status
    ELSE IF request[o] = Nothing \/ pc[o] = "create" THEN "none" ELSE "gone"
Lifecycle == INSTANCE OperationLifecycle WITH status <- [o \in Op |-> StatusOf(o)]
ImplementsLifecycle == Lifecycle!Spec

\* The executor of every accepted request returns, whatever requests overlap with
\* it, and unless a statement of the store failed or the backend was stopped its
\* operation has ended by then: it succeeded, failed, or left with its application.
OperationsSettle ==
    \A o \in Op : pc[o] = "create" ~>
        /\ pc[o] = "done"
        /\ \/ operation[o] = Nothing \/ operation[o].status \in Final
           \/ faults + crashes > 0

\* The row of an installed application describes the host: compose_hash is the
\* document that the project file holds, and the containers are those of that
\* document and no others (docs/docker-architecture.md:188, "effective compose
\* fingerprint").  So it is between any two requests, whatever docker, the file
\* system or a statement refused, as long as the order is kept: with two requests
\* at a time, a last statement that failed, or a stop, the row and the host part,
\* until the next request that runs alone to its end.
HashMatchesHost ==
    \A a \in App :
        IsInstalled(a) /\ Unfinished(a) = {} /\ order[a] = "kept"
        => instance[a].hash = project[a] /\ containers[a] = Started(instance[a].hash)

\* A remove of an installed application that confirmed the containers deletes the
\* row only when no container is left, those of services that earlier versions
\* had included (compose_runner.go:62, "stops and removes the compose project's
\* containers"), in the order above.  Where the row is an error a failed update
\* may have rewritten the file under the containers, and they stay.
RemovalLeavesNoContainers ==
    [][\A o \in Op : pc[o] = "delete" /\ pc'[o] = "done"
                     /\ "containers" \in request[o].levels
                     /\ IsInstalled(AppOf(o)) /\ order[AppOf(o)] = "kept"
                     => containers'[AppOf(o)] = {}]_vars

(***************************************************************************)
(* What the documentation says and the code does not do.                   *)
(***************************************************************************)
\* docs/docker-architecture.md:247-250: ports and mounts "are only changed when
\* the user explicitly edits them".
SettingsChangeOnlyByEdit ==
    [][\A a \in App :
          instance[a] # Nothing /\ instance'[a] # Nothing
          /\ instance'[a].options # instance[a].options
          => \E o \in Op : pc[o] \in {"insert", "save"} /\ AppOf(o) = a
                           /\ request[o].kind \in {"install", "edit"}]_vars

=============================================================================
