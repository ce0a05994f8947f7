# Glass Stack: TLA+ models

Glass Stack is a home-server console: a Go backend (`backend/`) that serves a
React frontend (`frontend/`), installs applications as docker compose projects,
and keeps its state in one SQLite database. This directory holds TLA+ models of
the parts of the backend where requests, goroutines, containers and failures
meet, and of the parts of the frontend where the user, requests, late answers,
timers and reloads do; the TLC configurations that check them; and TLAPS proofs
about fifteen of them.

    tlc -workers 2 -config MCAppsInstaller_concurrent.cfg MCAppsInstaller
    tlapm AppsInstallerProofs.tla

`PROJECT.json` lists the components, runs, mutants, findings, hazards, theorems,
and for every modelling definition the source lines it stands for.

## The system

| component | state | operations | interacts with |
|---|---|---|---|
| application installer (`internal/apps`, `apps_store.go`) | `app_instances`, `app_operations`, `<data>/apps/<id>/docker-compose.yaml`, one goroutine per operation | Install, Update, Edit, Remove, Operation | catalog (manifests), docker compose, reconciler (same rows), event broker (publisher) |
| catalog (`internal/store`, `catalog_store.go`) | `store_apps`, `store_sync_state` | Run/Sync, CreateReview, EditReview, List, Manifest | GitHub; the cascade of `store_apps` empties the installer's tables |
| reconciler (`apps/reconciler.go`) | position in its loop, the open stream | Run, Resync | engine events and container list in, `runtime_status` and `last_error` out |
| event broker (`internal/events`) and its SSE handlers | history, subscribers' channels, next id | Publish, SubscribeAfter, Close | metrics publish; SSE handlers forward; the browser reconnects with a cursor |
| identity (`internal/auth`, `auth_store.go`) | users, sessions, challenges, TOTP, recovery codes, invitations, bootstrap token, audit | setup, login, MFA, unlock, invitations, user administration | every authenticated route |
| database (`platform/database`) | schema, migrations applied, backups | Open, initialize, Write, Backup, reset | everything |
| container engine (`internal/containers`, `internal/docker`) | the cached engine client | list, inspect, lifecycle, logs, stats, events | docker daemon |
| host metrics (`internal/host`, `http/handlers/events.go`) | time of the sample under way, last sample forwarded | Run, publishSample, EventStream (batching) | broker in between, the dashboard's charts |
| HTTP server, rate limit (`internal/http`) | listeners, per-address windows | Start, shutdown, allow | everything |
| preferences, wallpapers (`internal/settings`, `platform/wallpaper`) | preference rows with a revision, media files | update, upload, search | frontend preferences |
| review sign-in (`store/oauth.go`, `discussions.go`) | one device session in memory, its poller | start, poll, cancel, publish | GitHub; the pages of the store and of the settings |
| frontend: session and lock (`AuthGate`, `AuthOverlay`, `useAuthFlow`) | cached session query, lock store, panels, timers | login, unlock, lock, switch, sign out | identity |
| frontend: onboarding, invitation and security pages | the shared onboarding store, enrollments, recovery codes on the screen | the stages, invite, accept, create and delete users | identity |
| frontend: operation tracking (`useInstallOperations`, `InstallOperationsStream`) | one operation per application, timer, cursor | install, update, edit, remove, lookup | installer, broker |
| frontend: preferences (`PreferencesSync`, `ProfilePage`) | stores, remembered revision, timer | load, save, conflict | `UpdatePreferences` |
| frontend: store pages, tiles, reviews, charts | cached pages of the listing, the saved order, the kept connection, lists of events | search, scroll, drag, publish, follow | catalog, installer, review sign-in, metrics |

The behaviours that are hard here: nothing reserves an application between a
request's check and its operation; executors are goroutines that call the store
and docker one statement at a time; the catalog deletes rows under them; a sync,
a review and a reconciliation each write back what they read earlier; the
process may stop anywhere and resumes nothing; the browser reconnects to a
broker that forgets; and every page goes on while its requests are under way, so
that an answer meets a page, a store or a server other than it was asked for.
The complete list, at its source lines, is under `hazards` in `PROJECT.json`.

What makes each component correct, in a sentence:

* installer: an operation moves along its status machine and always ends; the
  instance row describes the host while requests keep apart and end; nobody's
  settings are lost.
* catalog: the saved commit is never ahead of the rows; only what left the
  repository is deleted (the code keeps this up to one batch of applications);
  the manifest is the one described.
* reconciler: an idle reconciler has written the truth; it never touches the
  desired state.
* broker: publishing never blocks; the replay is what the cursor missed, in
  order and once to a stream.
* identity: there is always an administrator; a code, token or challenge counts
  once; a changed password or role ends what the old one opened.
* database: what it records of itself is there; a start succeeds wherever the
  last one stopped; a backup is whole.
* metrics: what a chart shows is whole samples, in order, an interval apart.
* session: the pages show the account the server knows; a lock the user asked
  for stays until new credentials, a visit of `/onboarding` or an end of setup
  or reset aside.
* onboarding, invitations: recovery codes, shown once, are not lost by the page.
* tracking: what runs is shown as running, and what has ended is not.
* preferences: no save takes back what another one saved; saving comes to rest.
* store pages: the cards are what the server lists for what is on the screen; a
  review is published under the account shown; a tile lands where it is dropped.

## Modules

| module | models | variables |
|---|---|---|
| `OperationLifecycle` | the table `transitions` of `apps/operations.go`, for all operations at once; the abstract specification | `status` |
| `AppsInstaller` | requests and executors of the installer over the store, the project files and the containers | `catalog`, `instance`, `operation`, `request`, `pc`, `plan`, `loaded`, `failedAt`, `project`, `containers`, `order` |
| `MCAppsInstaller` | its values for TLC, for three runs | |
| `AppsInstallerProofs` | its theorems | |
| `EventBroker` | `Broker`, `OperationEventStream` and the reconnecting client | `nextEventID`, `history`, `channel`, `lastEventID`, `received` |
| `EventBrokerProofs` | its theorems | |
| `CatalogSync`, `MCCatalogSync`, `CatalogSyncProofs` | `Sync` and `refreshReviews`; values for TLC; theorems | `repo`, `discussion`, `catalog`, `savedCommit`, `instances`, `job`, `order` |
| `Database` | `Open`, `initialize` and the migrations, the factory reset, `Backup` | `tables`, `applied`, `accounts`, `token`, `pc`, `next`, `backup`, `temporary`, `destination` |
| `DatabaseProofs` | its theorems | |
| `Identity`, `MCIdentity`, `IdentityProofs` | accounts, sessions, challenges, invitations, setup; values for TLC; theorems | `account`, `recovery`, `session`, `challenge`, `invitation`, `bootstrap`, `now`, `pc`, `local`, `overlapped` |
| `Reconciler` | `Run` and `Resync` beside docker and the executors | `host`, `row`, `phase`, `resync`, `pending`, `unseen` |
| `MetricsStream` | the sampler, `EventStream` and the charts' lists, over `EventBroker` | `times`, the broker's four, `handler`, `stream`, `lists`, `gap` |
| `Session` | the session query, the gate, the panels over it, sign-out, a visit of `/onboarding` | `cookie`, `ui`, `panels`, `shown`, `out`, `owed` |
| `Onboarding` | the setup's five stages and their shared store | `setupStatus`, `path`, `state`, `safety`, `validating`, `totp`, `completing`, `finishing` |
| `Enrollment` | the invitation page and the security settings | `accounts`, `invitation`, `challenges`, `unsaved`, `invited`, `accepting`, `settings`, `newUser`, `creating`, `inviting`, `users`, `deletion`, `beginning` |
| `InstallTracking` | the store of operations and its stream | `operations`, `timer`, `requests`, `lookups`, `served`, `log`, `received`, `connected`, `listed`, `breaks`, `overtaken` |
| `Preferences` | the stores, `PreferencesSync`, `ProfilePage`, the row | `server`, `stores`, `cache`, `get`, `sync`, `flight`, `images` |
| `StoreListing` | search, filters and infinite query of the store | `catalog`, `view`, `pages`, `fetch` |
| `Reviews` | device flows, the review form, the connections page | `deployment`, `reviewSession`, `pollers`, `form`, `connection`, `publishing`, `posts`, `linking` |
| `InstalledApps` | the dashboard's tiles | `installed`, `order`, `drag`, `over` |
| `Lists` | `Array.prototype.filter`, for the two before | |
| `AgreementProofs` | theorems about `Reconciler`, `Preferences`, `InstallTracking` and `MCAgreement` | |
| `BrowserProofs` | theorems about `Onboarding`, `Enrollment`, `Session`, `InstalledApps` and `StoreListing` | |
| `PagesProofs` | theorems about `Reviews`, `MetricsStream` and `MCPages` | |
| `MCPages` | five of the frontend's parts, the metrics and the broker, for TLC | `scene` |
| `MCAgreement` | `Preferences` and `Reconciler`, for TLC | `scene` |
| `MCControlPlane` | `Database`, `Session` and `InstallTracking`, for TLC | `scene` |

### AppsInstaller

`pc[o]` is the next call of the executor of operation `o`; one action is one
statement of the store or one command of docker, with the error path it takes.
`Install`, `Update`, `Edit` and `Remove` are the read of the instance row with
its refusals, `CreateOperation` the insert and the `go` statement: two actions,
because another request may come between. `executeInstall` and `executeApply`
share `StartOperation` .. `CompleteOperation` and part at the end
(`InsertInstance` against `LoadInstance`, `SaveInstance`). `failOperation` is
`FailOperation` then `RecordFailure`, each of which may fail and is only logged.
`UpdateOperation` keeps the WHERE clause that refuses final rows (`Writable`),
`UpsertInstance` and `CreateOperation` the foreign key, `CatalogDelete` the
cascade. `Crash` stops every goroutine; a compose command under way may still
finish, or be cut short anywhere.

A container is its service and the document it was created from, and each
manifest version names services of its own. `Apply` is `up --remove-orphans`:
it leaves the containers of the document and no others. `TearDown` is `down`
without that flag: it takes away the containers of the services that the file
names now, and those of an earlier document's services stay. Each of them may
fail half way (`UpLeaves`, `DownLeaves`). A failing `os.WriteFile` may leave a
torn file, with which no compose command works (`Readable`), and a failing
`os.RemoveAll` may have removed it.

`order` is a history variable, per application. It is "kept" while requests come
one after the other and each carries out its last statement. It is "broken" from
the moment two overlap, such a statement fails (which is only logged) or the
backend stops under one; "mending" while the first request that is alone again
is under way; and kept again when that one is through. `HashMatchesHost` and
`RemovalLeavesNoContainers` speak of applications whose order is kept, whatever
docker, the file system and the store refuse meanwhile: the code does not hold
them otherwise, and nothing in it reserves an application.

A compose document is the pair of the options and the manifest version it is
rendered from, and its hash is the pair: two documents are told apart by nothing
else. The publisher is nil in the composition root (`app/composer.go:110`), so
`publish` has no effect. The images level of a remove only logs its errors and
is left out, as are messages and times.

### EventBroker

`Publish` and `SubscribeAfter` hold the mutex throughout and are one action
each. `Forward` is a round of `OperationEventStream`'s loop together with the
client's receipt; `Disconnect` loses what is queued. A stream keeps its cursor
over a lost connection (`installOperationsStream.ts`), in a local variable; a
request that fails or is refused throws, and `InstallOperationsStream.tsx` begins
another stream without one (`StartOver`), which is sent the remembered events
again. `received`, a history variable, is what the present stream has received:
`DeliveryInOrder` is about one stream. (The store of operations takes events
twice; that is `InstallTracking`.)

### CatalogSync

`job[w]` is a worker's next call with its local variables. The branch is the
sequence `repo`; a commit is its position. `Download` takes the branch as it is
then, which may be newer than the commit `StartSync` read. Manifests are valid
or invalid; the row's summary, detail, version and hash are computed from one
manifest and are `content`. `Abort` is any error, timeout or restart. `Survivors`
is what the exclusive batches of `DeleteMissing` leave: all that is to be kept up
to one batch, nothing beyond. `order` is a history variable: "broken" when two
syncs overlap or one deletes beyond a batch, and kept again once one went through
alone; `SavedCommitIsCovered` and `CatalogConverges` speak of a kept order.

### Reconciler

`phase` is where `Run` is, `pending` the events on the stream. A resync is four
kinds of steps (`ListInstances`, `ListContainers`, one `UpdateInstanceRuntime`
per row), not a transaction. A host is one of four situations per application,
which `RuntimeIn` reduces to the three runtimes by the prefix rule of
`reconcileRuntime`. `unseen` is a history variable: whether a listing of the
host made since the stream opened covers the row.

### Database

An initializer is the start of the process or a request to `POST
/api/v1/admin/reset`; `pc[p]` is its next call and `next[p]` the migration it is
at. The schema is told apart by what each migration brings: `Adds`, `Needs` and
`Rejects` are read off the four files, whose `CREATE TABLE IF NOT EXISTS` may be
repeated and whose `ALTER TABLE ... ADD COLUMN` may not. A transaction is one
action (`Apply`, `DropAllTables`), and the check that precedes it another,
because `writeMu` is not held in between: two resets may both find a migration
missing. A reset runs in the process that goes on serving, and after it nobody
makes a bootstrap token before the next start (`EnsureBootstrap` is called in
the composition root only). `Backup` holds `writeMu` throughout but the readers,
and a stop, come between its steps: a file that was written and not flushed is
torn by a stop (power may fail), which is what the order "flush, check, rename,
flush the directory" is there for. The pragma that `DropAllTables` sets has no
effect inside a transaction, and its drops succeed either way; media files stay.
`Backup` is called by tests only.

### Identity

A request is a handler of `auth/service.go`, made once; `pc[r]` is its next
statement of the store and `local[r]` what it was given and has read. What a
request makes (an account, a session, a challenge, an invitation) has the
request's name, since ids and tokens are random; `Founder` names what the
database holds at first. Each action is one statement or one transaction, with
the condition of its WHERE clause or of its second count (`UpdateTOTPCounter`,
`Consume`, `StoreInvitation`, `CreateFirstAdmin`) and the foreign keys
(`CreateSession`, `CreateAuthChallenge`, `StoreNewInvitation`); the cascade of a
deleted account is in `StoreDeleteUser`. A code of an authenticator is the
counter it is computed from, `now` the counter of the clock, and `ValidCode` the
window of `validateTOTP`. `CompleteSetup` reads the clock after the password
work, the others when they begin (`EnrollmentTime`). Expiry, wrong passwords,
taken user names and failing statements are one: the handler ends with an error
(`Abort`). `overlapped` is a history variable. `Verified` and the record of a
session keep the challenge and the code that opened it, which the code does not
store, so that the properties can speak of them. `SetUserStatus` and
`ReplaceTOTP` have no callers, nor do the password reset tokens; the audit and
CSRF tokens are left out.

### MetricsStream

`Tick` is one reading of the host, which takes up to `MaxDelay`, and
`PublishSample` one family's event: all events of a sample carry its time. The
broker is `EventBroker`, instantiated for one client and its `Publish`,
`Subscribe` and `Disconnect` used as they are, so what a full channel drops and
a history forgets is the broker's. `EventStream` forwards the events whose
sample is an interval after the last one forwarded (`lastBatch`, `currentBatch`,
`forwardBatch`), and a new connection begins a new handler. The browser keeps a
list per interval (the query key of `useEvents`) and merges what arrives. `gap`
is a history variable: an event of this interval was dropped or fell out of the
history, or out of the part of it that fits a channel; it also covers a history
of size 0, which `NewBroker` allows and where a reconnection replays nothing.
Following the code, a list's first and last sample may be partial (a
history cut inside a sample; a connection that ends inside one), a reconnection
may forward a sample before the interval is over, and `reconnectAttempt` is
reset by every connection, so the wait is always 250 ms and is no state here.

### Session

The browser's `cookie` names the account the server's session is of. `ui` holds
the page, the lock store and the cached session query as `AuthGate` uses it
(data and error side by side after a failed refetch, one fetch at a time). A
panel (`panels`) is a mounted `PasswordPanel` with its `useAuthFlow`: one that
the user has left still finishes its request and runs its timer. `OpenOnboarding` is the
address or the back button leading to `/onboarding`: `OnboardingShell` resets the
persisted lock store as it mounts and, when the setup query answers, sends the
browser home (`LeaveOnboarding`). `owed` is a history variable: a lock the user
asked for and no credentials accepted since.
The code's own exceptions are in the properties: a visit of `/onboarding` takes
an asked-for lock off without credentials (`OnboardingShell.tsx:69`); the late
answer of an abandoned panel unlocks and switches the account; a login that overtakes the first fetch
of the session leaves the earlier answer until the next fetch; a 401 kept beside
old data sends a fresh login back to `/login`, where the timer then unlocks an
empty page. The query cache is not cleared between accounts, and
`autoLockMinutes` is kept but nothing locks by itself. Two more steps of the code
clear the lock and are left out, since each comes after or before such a visit:
the end of the setup (`SecurityPage.tsx:36`) and the cleared storage of a system
reset (`AdvancedSettings.tsx:30-32`).

### Onboarding

One action per handler of a stage and one per answer. All stages write the
shared store (`state`) from their answers, whichever is on the screen by then.
What the models showed of the code beside its property: a refused code is sent
again for ever by the effect that submits six digits; every refusal of
`completeSetup` reads "O código informado não é válido."; a user name changed
after the enrollment is refused until a reload; a password changed in the
timeline and not confirmed is sent; a refetch after a reconnection sends the
browser home without its codes; a lost answer loses them.

### Enrollment

Two browsers, the administrator's in settings and the invited one, against the
challenges and accounts of `auth/service.go`. `beginning` are the challenges
asked for and not answered, so that a second press, another role or another user
name fall in between. `unsaved` is a history variable: pages whose codes exist
and were not put aside. In the code a user name edited while a challenge is
asked for leaves an enrollment of another name, refused until a reload; a
challenge is consumed by an account whose name is taken; the role may change
after the enrollment; a lost answer leaves a used invitation and no codes.

### InstallTracking

`operations` is the persisted store, one operation per application; `timer` what
the effect's timer will drop; `requests` and `lookups` calls under way. The
server is `AppsInstaller` seen from outside: operations of one application may
overlap and each ends. `Published` is whether the installer has a publisher: the
composition root passes nil (`composer.go:110`), which is the run `stuck`, and
the passing run asks what the client would do with one. `overtaken` is a history
variable: an answer or lookup that arrives after the event of its operation's
end leaves the application busy in the code. A double click sends two requests;
a refused reconnection forgets its cursor; a failed lookup drops whatever
operation is there.

### Preferences

`stores` are the browser's, `cache` and `get` the preferences query, `sync` the
refs of `PreferencesSync`, `flight` documents under way, served and answered one
by one. `Elsewhere` is another browser of the account. Exceptions found in the
code: a `PreferencesSync` mounted during an older request may overwrite the
name; after a conflict its `revision` is not renewed, so that later saves
conflict until it is mounted again; an answer drops the timer of an edit made
meanwhile; a failing `getWallpaper` at load overwrites the saved wallpaper by
the default.

### StoreListing, InstalledApps, Reviews

`StoreListing` has the debounced text, one cached infinite query per filter, and
answers written under the filter asked for. With fewer featured applications
than its index `FeaturedApplications` returns before its last hooks, and the
route shows its error boundary (`Rendering`); a search without matches removes
the search field; a next page that fails replaces the list.

`InstalledApps` has the order, which is never pruned, and `splice`. A drop index
counts the tiles shown and is used on the order, so the property speaks of drops
when nothing is hidden; a cancelled drag leaves `dragKey`.

A refetch of several pages is one step, read from one catalog, where the code
asks for them in sequence: a catalog that changes in between is in the exception
`CardsAreTheResults` makes for one that has changed since the pages were asked.

`Reviews` has the server's one session, the pollers of abandoned flows, the form
and the connections page, for a server with or without a token of its own and for
either provider (`deployment`). A poller ends with the first answer to its code,
"authorization_pending" being one that fails; with a token the session is
authenticated, under the empty name when the lookup of the user fails. A
publication is asked for, served and answered in three steps; `Author` is whose
review it becomes: of the session's own token for GitHub, else of the server's
under the name of the Google session or of the GlassStack user. The page polls whichever provider's session is current; "Cancel" in
the settings leaves the server's flow running; "Disconnect all" leaves its
session, which the store page then saves again; with a saved connection and a
login pending the page shows the one and publishes as the other. A session
without a name publishes as its token's account, or as the GlassStack user, with
no name on the page. These are the exceptions of `PublishedAsShown`.

### MCPages, MCAgreement and MCControlPlane

The parts share no state, so a product of them would show nothing that each
alone does not. `scene` says which part a behaviour is of; the others stay at
one of their initial states, and their state spaces add up instead of
multiplying. One run then checks them all. In `MCAgreement` and
`MCControlPlane` a part that rests has no step its fairness asks for.

### Composition

The installer, the catalog and the reconciler share two tables. Each module
models the others by the writes they make to its part (`CatalogUpsert` and
`CatalogDelete` in `AppsInstaller`, `AddInstance` in `CatalogSync`, `Execute` in
`Reconciler`).

## What the runs show

Runs that pass:

| run | instance | shows |
|---|---|---|
| `concurrent` | 1 application, 2 requests that may overlap, 1 version, 1 failing statement, 1 stop, fair executors | types, foreign keys, the row matches the executor, the status machine is implemented, every executor ends and, without a fault or a stop, leaves its row final |
| `serial` | 1 application, 2 requests one after the other, 2 versions with a service each, 2 kinds of remove, 1 failing statement, 1 stop, refused and half-done docker calls, torn files | the row's hash, the file and the containers agree and a removal leaves no containers, while the order is kept and after it is mended |
| `sync` | 2 applications, batches of 1, 2 valid and 1 invalid manifest, 2 commits, 1 interruption, fair ticks; 2 syncers that may overlap, or 1 and a reviewer | saved commit covered, instances survive rewrites by all of them, the catalog converges, from the order's being kept or mended |
| `schema` | 3 scenes: any earlier release, 2 resets, 1 backup, 1 failing statement, 2 stops, a backend that is started again; 2 users and 2 panels; 2 applications, 2 requests, 1 break, with a publisher | recorded migrations are there, the latest schema is served, the backup is whole, every stop is recovered from; pages are of the live session, a requested lock holds; a running operation stays in the store, every operation is followed to its end |
| `accounts` | 2 requests side by side, a new database or 2 accounts with their sessions and challenges and an invitation, 2 roles, 1 recovery code, 1 clock step, restarts | logins and accounts are had once for one secret, nothing is left of a deleted account, administrators are verified and one remains |
| `pages` | 7 scenes, see below | cards are the results, tiles move by drops, reviews are published as shown, recovery codes stay at hand in the setup and after it, charts show whole samples in order at their pace; the broker never blocks, delivers in order to each stream, and a client that reconnects to the process it left loses nothing the history still holds |
| `agreement` | 2 scenes: 2 edits, 1 failure, reload or other browser; 2 applications with nested prefixes, 3 host changes, 3 rewrites, 1 fault | no silent overwrite, saving comes to rest; a listed row is accurate once the stream is empty, the desired state is untouched |

Bounds. Applications do not interact in the installer except through the
catalog, so one suffices; two operations make every pairwise overlap. In `serial`
the application begins installed or not, so two operations in sequence make
"installed, failed change, remove", and one of two breaks the order that the
other mends; two versions let the catalog change between the plan and the next
operation, and have different services, so that containers of the first are
orphans of the second; `concurrent`, whose
properties do not look at what a document says, has one, and its options, edits
and catalog deletions still make documents differ. One fault and one stop hit
every statement in turn. Channels of 2 below a history of 3 below 5 events make
both trims and the drop happen (scene `broker`: 2 clients, 1 restart, streams
that start over). In the
scene `metrics` a sample has 2 families and comes every 2 units, its reading up
to 1 late; intervals of 2 and 4, 3 samples, 2 broken connections, restarts of
the stream or changed intervals. `NewBroker(64, 8)` holds two samples of four in
its history; `Remembered = 4` holds two of two, `QueueSize = 4` is smaller than
what is published, and `Limit = 5` cuts a list inside a sample. The scene
`session` of `schema` has 2 users, one with a second factor, and 2 panels, so that one is
left while its answer is on the way; `listing` 3 applications, pages of 1 and
one change of the catalog or failure, so that a page is asked for, answered and
superseded; `tiles` 3 applications, with no other bound; `reviews` 2 accounts, 2
device flows and 1 upset, either provider, with the server's token or without; `onboarding` 2 user names, 2 codes and 1 mishap;
`enrollment` 2 accounts, 2 challenges and 1 slip: each property there is about a
request and the one thing that happens while it is under way. Two commits let a
push fall inside a sync; two applications make "one row written, one not", and
batches of one make an archive of one valid manifest fit a batch and one of two
not. Two
resets with a stop and a failure meet in every order with the four migrations;
two stops stop a start that resumes one. In `accounts` every property is about a
pair of handlers, or one handler and what was there before: two requests meet in
every order at every statement, over all founders that differ for them, and one
clock step with the codes around it makes one current, one of the step before
and one of the step after. The roles operator and viewer are told apart by
nothing in this part. The constants that begin with `Max` are guards of the
actions they bound (`MaxDelay` bounds a reading): `MaxInFlight`, `MaxFaults`,
`MaxCrashes`, `MaxEvents`, `MaxRestarts`, `MaxCommits`, `MaxChanges`,
`MaxRewrites`, `MaxBackups`, `MaxTime`, `MaxPanels`, `MaxFlows`, `MaxUpsets`,
`MaxCodes`, `MaxMishaps`, `MaxChallenges`, `MaxSlips`, `MaxEdits`,
`MaxOperations`, `MaxBreaks`, `MaxSamples`, `MaxTroubles`. The run `sync` begins
with the applications' manifests in one order and the first of the valid ones,
since no step compares two of them, and in its scene with a reviewer every
manifest is the first. `CHECK_DEADLOCK FALSE` is set where
requests, events or changes are used up and the system then rests. Symmetry is
used in `accounts`, which checks no liveness.

Runs that end in a counterexample, each of a sentence of the documentation, of a
type or of the interface (quoted under `findings`):

| run | the sentence | what the code does |
|---|---|---|
| `batches` | a sync deletes the applications that no longer exist in the repository | with more applications than a batch (a hundred) it deletes every row, and with them the instances |
| `lost_settings` | settings change only by an edit | a failed update writes empty options |
| `reset` | a reset is like a fresh install | four tables stay, migration 003 fails on them, and so does every later start |
| `stuck` | an installation's progress survives and ends in success or failure | without a publisher the browser never learns of the end |
| `invited` | an accepted invitation is answered with an array of recovery codes | for a role without a second factor the array is null, and the page throws after the account was made (`SecuritySettings.tsx:212` reads the same answer) |

Other disagreements met on the way. The models make these steps too, the texts
of the last two aside; no run is spent on them.

* A second update is refused while one is queued or running
  (`docs/docker-architecture.md:261`, `operations.go:39` for installs) and
  removal is serialized against other operations (line 269), but `Install` tests
  a status no code stores (`install.go:125`), `loadInstalled` (`install.go:392`)
  does not look at operations and `Remove` (`install.go:375`) asks only for a
  row: `concurrent` has such operations run side by side.
* The final active administrator cannot be demoted (`Identity, Authentication
  and User State.md:86`), but the count (`service.go:862`, `911`) and the write
  (`870`, `924`) are two statements: two administrators who remove or demote
  each other at once leave none. `AdministratorsHold` therefore excepts
  histories with `overlapped`; without that disjunct TLC finds the two requests.
* Password changes revoke affected sessions (the same document, line 67): a
  login that has verified the old password (`service.go:512`), or holds its
  pending challenge, opens a session after the change.
* Every mutation has a terminal state and recovers (`Quality Attributes.md:24`),
  but nothing resumes or closes an operation whose process stopped
  (`install.go:149` starts a goroutine and records nothing else): after `Crash`
  its row stays unfinished. This is why `OperationsSettle` asks for a final row
  only without faults and stops.
* Consumers reconnect with a cursor (`Quality Attributes.md:27`); ids begin
  again with the process, and a cursor from before a restart hides the new
  events (`broker.go:102`). `ReconnectResumes` is stated for a client that
  returns to the process it left.
* A resync every 30 seconds is a safety net (`reconciler.go:106`); the ticker is
  read only between streams (`reconciler.go:124`), so a change between a resync
  and the opening of the stream waits for the next event. `AccurateWhenQuiet`
  speaks of the rows listed since the stream opened.
* Removing containers must be confirmed (the comment at `install.go:51`), but
  any level is enough (`install.go:369`).
* Slow subscribers lose old samples (`broker.go:14`); the `select` at
  `broker.go:62` drops the newest.
* A sync that began earlier may end later: two that overlap (`service.go:273`,
  the ticker and `POST /store/sync`) may leave the older archive's rows with the
  newer commit saved, and no later sync writes them before the next push.
* Removing the containers is "stops and removes the compose project's containers"
  (`compose_runner.go:62`); after a failed update has rewritten the file, `down`
  leaves those of services the new file does not name, and the instance row goes.
  `RemovalLeavesNoContainers` therefore speaks of instances that are installed.
* "Backend polls the provider every N seconds until the user authorizes"
  (`docs/reviews-architecture.md:59`); "authorization_pending", GitHub's answer
  until then, is an error without a token and so taken for a failure
  (`oauth.go:427`, `337`), which ends the poller: the user must have entered the
  code before the first question.
* The lock store is persisted (`lock.ts:42`), so a reload keeps the screen
  locked, but opening `/onboarding` resets it (`OnboardingShell.tsx:69`) before
  the server's answer sends the browser home.
* A posted review (`service.go:254`, `585`) writes rows back from a list that
  does not read `compose_yaml`, and empties it: `Manifest` fails until a
  sync meets a new commit.
* A sync deletes what left the repository; an application whose manifest is
  invalid is deleted too (`service.go:322`).
* `refreshReviews` (`service.go:569`) writes back the row it read, and so
  inserts again an application a sync deleted in between.
* A failed instance keeps its last message (`store-architecture.md:93`); a
  resync erases it (`reconciler.go:73`).
* Revision conflicts cause a refetch (`Identity, Authentication and User
  State.md:100`), but `PreferencesSync` does not take the revision it fetched,
  so its later saves conflict until it is mounted again.
* "Password policy and hashing errors are clear" (US-004): the last stage of the
  setup shows one sentence about a wrong code for every refusal.
* "No apps found." (`StoreListing.tsx:131`) is never shown: line 78 returns
  first.

Each property of a passing run has a mutant: a plausible mistake in a mapped
definition (they are the operators commented "Mutant:") under which TLC finds
the property violated.

### Fairness

`Identity` has no liveness property and no fairness. `AppsInstaller!FairSpec` is
weak fairness of each executor's steps: goroutines are scheduled, and docker
answers. The second is an assumption: `runCommand` ignores the runner's timeout.
`CatalogSync!FairSpec` is weak fairness of a sync's steps and of starting one
while the branch differs from the saved commit: `Run` ticks for ever, and GitHub
answers "not modified" only to the newest commit. `Database!FairSpec` is weak
fairness of starting the process when it is down (a service manager's, an
assumption about the installation), of the start's own steps, and of a backup's,
which holds the lock the start needs. `PreferencesFairness` is weak fairness of
the answers to requests and of the timer of half a second; `TrackingFairness` of
the server's half (operations end, which is `OperationsSettle` of
`AppsInstaller`; requests and lookups are answered), of the timer of 1.2 s, of
the next event of an open stream and of the reconnection, which
`InstallOperationsStream` retries. `Session`, `Onboarding`, `Enrollment`,
`Reviews`, `StoreListing`, `InstalledApps` and `MetricsStream` have no liveness
property and no fairness (`AcceptedOpens`, of the run `invited`, is an action
property). No fairness is assumed of what users do, of resets, faults, stops,
host changes or broken connections.

## What is proved

`AppsInstallerProofs` (tlapm, SMT, Zenon and LS4), for every set of
applications, operations, options, versions and removals, and every bound, from
the assumptions named in `AppsInstaller` (the empty options are options,
removals are levels, `Nothing` is no value):

* `Invariance`: the inductive invariant `IInv`. `TypeOK`, `ForeignKeys` and
  `OperationMatchesExecutor` are not inductive alone: a step also needs to know
  that an executor that left "idle" has a request and holds its loaded row
  before it saves (`ExecutorHasItsLocals`), and which progress a row shows at
  each call (`ProgressMatchesExecutor`).
* `TypeCorrect`, `RowsAreListed`, `RowsMatchExecutors`: its conjuncts.
* `FinalIsFinal`, `ProgressIsMonotone`: action properties from it, one case per
  action that writes operations.
* `Refinement`: `Spec => Lifecycle!Spec` with the mapping `StatusOf`. The status
  table is consulted by no code, so this is a fact about the order of the
  reports and the WHERE clause.
* `RemovalsAreComplete` (`RemovalLeavesNoContainers`) and `RowsDescribeTheHost`
  (`HashMatchesHost`), with any overlap of requests, failing statement, docker or
  file system, change of the catalog and stop. The two properties speak of an
  application whose history `order` is kept: no two of its requests overlapped
  and none ended half-way, or one that ran alone to its end has mended it since.
  That is their subject and not a bound: the code refuses no overlapping
  request, and an executor that finds another one's file or containers leaves a
  row that describes neither. The invariant beside `IInv` is `OrderInv`:
  executors of one application that overlap have broken its order (`Apart`);
  what one that is alone has done to the project file and the containers is
  still there at its later calls (`HostFollows`, which for `down` needs that the
  containers are those of the current file's services); and the row describes
  the host outside the calls between the first change of the host and the
  statement that rewrites the row (`RowAgrees`).

`EventBrokerProofs`, for every number of clients, buffer and history size:

* `Invariance`: `TypeOK`, `HistoryIsNewest`, for each open channel `QueueOK` (at
  most `Buffer` events, their ids increasing, at most the last id, and newer
  than all the present stream received) and for each client `CursorOK` (its
  cursor covers what its stream received from this run of the backend). Order
  alone is not inductive: a replay is in order because the history is, and new
  because of the cursor. A client that starts over, as after a failed or refused
  reconnection, has lost its cursor and begins another stream (`StartOver`):
  what the one before received comes again, and the theorem claims nothing
  across the two.
* `TypeCorrect`, `SubscribingNeverBlocks`, `HistoryHasNoGap`, `OrderedDelivery`.
* `ReconnectionResumes`: the action property `ReconnectResumes`, from what
  `replay` returns (`ReplayProperties`): the history is consecutive, so what it
  holds after a cursor is an end of it.

`DatabaseProofs`, for every number of resets, backups, failing statements and
stops, from `Nothing` being no set of migrations and the start no reset:

* `Invariance`: `TypeOK`, `RecordedIsApplied`, `TemporaryOK` (the file of a
  backup under way is a database like its original, flushed once it is being
  checked), `BackupIsWhole`, and `BootProgress`: a start has dealt with the
  migrations before the one it is at. The last is what makes
  `ServesLatestSchema` inductive, and it needs that nobody but a reset takes
  records away, which `ResetIsRemembered` turns into a fact about the past.
* `TypeCorrect`, `RecordsAreTrue`, `BackupsAreWhole`, `LatestSchemaIsServed`.

`AgreementProofs`, about the parts that keep one side in agreement with the
other. `Reconciler`, for any set of applications and any number of changes,
rewrites, failures and lost streams:

* `Invariance`: `TypeOK`, `AccurateWhenQuiet` and what makes it inductive. A row
  is accurate once listed because the resync writes what it saw, and what it saw
  is what there is as long as no event is pending (`WritesWhatItSaw`); a row
  that the resync did not list is either unseen or not installed
  (`ListsInstalled`); and nothing counts as seen without a stream
  (`SeenInStream`).
* `TypeCorrect`, `QuietIsAccurate`, `DesiredStateIsKept`.

`Preferences`, for any names, looks and wallpapers and any number of edits and
events, from the assumption that the marks "no record", "asked for" and
"refused" are no records (`NotARecord`):

* `PreferencesInvariance`. That nobody overwrites another is a fact about
  documents that were built some time ago from a cache that was older still, so
  the invariant speaks of everything in hand: a record with the server's
  revision is the server's (`RecordsAgree`), and a document with that revision
  repeats what it does not change (`DocumentsAgree`). The second is inductive
  for `ProfilePage`, which takes all of its document from one record, and not
  for `PreferencesSync`, whose revision is its own and whose name is the
  cache's. `NamesAgree` is what it needs: as long as it has the server's
  revision, or a document of its own under way will bring it (`Follows`), no
  record in hand has another name, however old it is. `SyncRuns` says when its
  timer and revision mean something. The exception of the property (`late`) is
  the one case in which `NamesAgree` fails.
* `NamesAndStoresSurvive`, the action property `NoSilentOverwrite`.

`InstallTracking`, for any finite set of applications and any number of requests
and breaks, with a publisher or without, from `NoOperation` being no operation:

* `TrackingInvariance`: the timer's applications are finished now, whatever it
  was armed for (`TimerFollows`), what the store, an answer, an event or a
  lookup names has been served (`OperationsAreServed`), and an identifier is
  left for every request that waits (`RoomForRequests`, which the type of an
  identifier needs).
* `RunningStays`, the action property `RunningOperationsStay`: the timer, the
  reload, the poll and the events are shown to leave what is busy, so that a
  failed lookup is the only step left.

* `TrackingTypeCorrect` (`TrackingTypeOK`).

`AgreementIsTyped` (`AgreementTypeOK`): the types of the two parts of
`MCAgreement`.

`CatalogSyncProofs`, for any number of workers, commits, interruptions and
faults:

* `Invariance`: `TypeOK`, `SyncJobOK` (a sync works on the snapshot of a commit
  not older than the one it read, and upserts manifests that parse) and
  `RefreshJobOK` (a refresh rewrites rows it has listed).
* `TypeCorrect`; `InstancesAreKept` (`InstancesSurvive`), for any size of a batch:
  an instance row goes only with an application of which some commit holds no
  valid manifest,
  or in a `DeleteMissing` whose batches exclude each other, which is the
  exception that the run `batches` shows.
* `SavedCommitIsHeld` (`SavedCommitIsCovered`), for any number of syncs and any
  size of a batch until a review is posted, by `Coverage`: while the history `order` is not broken, no two
  syncs are under way (`Apart`), and the one that is has written the rows it has
  done with and covers its commit when it comes to save it. Two that overlap may
  write the older archive last (`service.go:273`), and one that deletes beyond a
  batch takes rows it has just written; from there on the property waits for a
  sync that goes through alone.

`IdentityProofs`, for any number of requests, accounts and recovery codes, from
the assumptions named in `Identity` (names, codes of the two kinds and `Nothing`
are told apart; there is a role "admin"; the clock counts from 0):

* `Invariance`: the inductive invariant in five parts. `HandlerInv` is `TypeOK`
  with what a handler carries to each of its statements (`HandlersCarry`).
  `AccountInv` is `NothingOutlivesItsAccount` and what keeps it: a handler that
  has found an account never meets another of that name (`NamesAreNotReused`),
  what it found of the second factor stays true while the account exists
  (`FindingsHold`), and a session without a second factor is of an account
  without one (`WeakSessions`). `SecretInv`: a token or code that opened a
  session, or is about to, is spent in the tables (`TokensAreSpent`,
  `CodesAreSpent`: the challenge is used, the counter of the account is past the
  code's, or the recovery code is gone) and is no other session's. In
  `InvitationInv` an account's invitation is used. In `AdminInv`, while no two
  handlers that take an administrator away overlap, one decides at a time
  (`OneDecides`) and it has counted another administrator
  (`RemovalsAreCounted`).
* `TypeCorrect`; `SecretsAreUsedOnce`, `NothingIsLeft` and `AdministratorsStay`,
  for the three properties of the run `accounts`.

`BrowserProofs`:

* `OnboardingInvariance` and `SetupCodesStay` (`CodesStayAtHand`), for any user
  names, passwords, codes and mishaps. The property needs that no stage after
  the server's answer is reached, and no page goes home, before the setup is
  done on the server (`SetupDone`).
* `EnrollmentInvariance` and `EnrolledCodesStay` (`EnrolledCodesStayAtHand`),
  for any accounts, challenges and slips. Between the server's making an
  administrator and the answer, the codes are nowhere on a page:
  `CodesAreSomewhere` counts the answer under way, and `PagesWait` says that the
  page that will hear it is still open.
* `SessionInvariance`, `PagesFollowTheSession` (`PagesAreOfTheSession`) and
  `LocksHold` (`RequestedLockHolds`), for any users, pages and panels.
  `QueryInv` says which cookie the fetch under way was sent with and when the cached answer
  may be another session's; `OverlayInv` that nothing but the answer to a panel
  that was left, or a visit of `/onboarding`, can take an owed lock away, for
  which it needs that no other panel has a request or a timer once the lock is
  asked for.
* `EnrollmentIsTyped`: the types of the invitation page and of the settings. No
  page names a challenge that has not come, and there is room for every one
  asked for (`ChallengesFit`).
* `TilesInvariance` and `TilesMoveOnlyByDrop` (`TilesMoveByDrop`), for any finite
  set of applications. The invariant: each application has one place in the
  order, and what is installed or dragged has one. The rest is about sequences:
  what `filter` keeps is in its order, each once, and what `splice` puts in is
  at its index, with nothing else moved past another.
* `ListingInvariance` and `CardsShowResults` (`CardsAreTheResults`), for any
  finite set of applications, any texts and filters, and any size of page.
  Every page kept is the slice of the results at its place, unless the catalog
  has changed since (`PagesHold`). A next page is only asked for where there
  is one (`AwaitsNext`), so those before it are full and its slice begins where
  theirs end. `SearchSettles` relates the text on the screen to the one
  asked for. The cards are the pages put in a row (`flattenPages`), and slices
  in a row are a beginning of the list.

What a recursive definition computes is reached here by an induction on a set of
numbers (`NatSetInduction`, from the well-foundedness of the natural numbers),
which needs no theorem with an operator as a parameter: `Filtered` and the `FlattenSeq`
of `flattenPages` are recursive functions, and the lemmas about them hold for
sequences of any length. `SelectSeq` has no meaning to the provers, which is why
`Lists` defines the filter.

`PagesProofs`:

* `ReviewsInvariance` and `ReviewsAreTheirAuthors` (`PublishedAsShown`), for any
  reviewers, device flows and upsets, either provider, and a server with or
  without a token. The server's session has a name only with the account of its
  token, and may have neither or no name (`ServerSession`). A session the form
  takes for current (`TakenForCurrent`) is the server's (`PageIsCurrent`), since
  no poller is left that could answer for it again (`AnswerIsLast`), and it stays
  so until the publication is served (`PublicationIsCurrent`).
* `MetricsInvariance` and `SamplesAreShownWhole` (`SnapshotsHold`), for any
  number of families, samples and lost connections, any period, delay and
  intervals, and any size of channel, history and list. The broker's lemmas are
  cited from `EventBrokerProofs` under the substitution that `MetricsStream`
  makes. Whole lists (`Whole`) are inductive only with where the handler stands:
  without a gap the channel holds the newest events, the handler has seen the
  one before them, and it has forwarded it or stopped at the end of a sample
  (`NothingLost`). The pace comes from `SamplesInOrder`, the times of the
  samples, which tell them apart because a reading is done before the next tick.
* `PagesAreTyped` (`PagesTypeOK`): the types of all seven parts of `MCPages`, from
  the inductive invariants of this module, of `BrowserProofs` and of
  `EventBrokerProofs`; for the metrics with `MetricsBounded`, that a list is cut
  to its limit whenever it grows, and for `Enrollment` with `ChallengesFit`.

Only model-checked:

* liveness (`OperationsSettle`, `CatalogConverges`, `DatabaseStartsAgain`,
  `SyncSettles`,
  `OperationsAreFollowed`) and the fairness it rests on, which are out of the
  provers' reach;
* the five sentences that the code refutes, which end in a counterexample.

Every other property that a run checks is stated by a theorem, `ControlTypeOK` by
three: `TypeCorrect` of `DatabaseProofs`, `TrackingTypeCorrect`, and
`SessionInvariance`, of whose invariant `SessionTypeOK` is a part.

## Plan

Done, in this order: `AppsInstaller` over `OperationLifecycle` with proofs;
`EventBroker` with proofs; `CatalogSync`; `Reconciler`; `Database` with proofs;
`Identity`; the frontend (`Session`, `Onboarding`, `Enrollment`,
`InstallTracking`, `Preferences`, `StoreListing`, `Reviews`, `InstalledApps`);
`MetricsStream` over `EventBroker`; the proofs of `Reconciler` and
`CatalogSync`; those of `Identity`, of the installer whose order is kept, of a reconnection,
of `Onboarding`, `Enrollment`, `Session`, `Reviews` and `MetricsStream`; those
of `Preferences`, `InstallTracking`, `InstalledApps` and `StoreListing`, and the
types of what `MCPages` and `MCAgreement` compose.

Left:

1. `EngineConnection` (the cached client and its invalidation), `RateLimit` (the
   fixed window), `ServerLifecycle` (start and shutdown), the media files behind
   wallpapers and avatars.
2. Theorems about those; a refinement that relates the server's half of
   `InstallTracking` to `AppsInstaller`, which so far only its comments do.

## Not modelled

System collectors, configuration, secrets, logging, the password blocklist and
HTTP encoding and routing keep no state that another part relies on; the
application handlers decode a request and call the installer, and that call is
the request of `AppsInstaller`. The frontend's presentation (charts, windows,
icons, styles, text) renders what the modelled state holds, and its flags of
unsaved edits are set and cleared by the page that owns them. The container
engine's connection, the rate limit and the server's life are in the plan. Of
modelled components these are left out: editing a review in the browser, the
second provider of a review sign-in, the parsing of manifests and discussions,
the Unsplash search, and the texts that a compose document, an event or an error
is made of. Timing is abstract but for `MetricsStream`: a timeout may happen at
any point at which it could.
