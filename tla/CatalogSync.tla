---------------------------- MODULE CatalogSync ----------------------------
(***************************************************************************)
(* The application catalog: Sync and refreshReviews of                     *)
(* internal/store/service.go over store_apps and store_sync_state          *)
(* (internal/platform/database/catalog_store.go).                          *)
(*                                                                         *)
(* A SYNCER is one caller of Sync at a time: the loop of Run, or a request *)
(* to POST /store/sync.  A REVIEWER is one request that posts or edits a   *)
(* review.  Every HTTP call and every statement of the store is one        *)
(* action; nothing in the code makes two workers wait for each other.      *)
(*                                                                         *)
(* Abstractions.  A commit is its position on the branch, so a newer one   *)
(* is greater.  A row's summary, detail, version and content hash are all  *)
(* computed from one manifest and are the field "content".  Assets and the *)
(* counters of SyncSummary are left out: no step reads them.               *)
(***************************************************************************)
EXTENDS Integers, FiniteSets, Sequences

CONSTANTS
    App,
    Valid,       \* manifests that ParseManifest accepts
    Invalid,     \* manifests that it refuses, or whose id is not the directory's
    Nothing,     \* no row, no directory apps/<id>, no manifest text
    Syncer, Reviewer,
    Idle,        \* a worker that is doing nothing
    Batch,       \* DeleteMissing's batch size (100)
    MaxCommits,  \* bound: commits on the branch
    MaxFaults    \* bound: workers cut short by an error, a timeout or a restart

Worker == Syncer \cup Reviewer
Snapshot == [App -> Valid \cup Invalid \cup {Nothing}]
Row == [content: Valid, compose: Valid \cup {Nothing}, reviewed: BOOLEAN]
Catalog == [App -> Row \cup {Nothing}]
SyncJob == [step: {"download", "reviews", "upsert", "delete", "save"}, commit: Nat \ {0},
            snapshot: Snapshot, fetched: SUBSET App, todo: SUBSET App]
RefreshJob == [step: {"fetch", "list", "rewrite"}, fetched: SUBSET App,
               listed: [App -> Valid \cup {Nothing}], todo: SUBSET App]

ASSUME WorkersDiffer == Syncer \cap Reviewer = {}
ASSUME ManifestsAreDisjoint == Valid \cap Invalid = {} /\ Nothing \notin Valid \cup Invalid
ASSUME NothingIsNoRow == Nothing \notin Row
ASSUME IdleIsNoJob == Idle \notin SyncJob \cup RefreshJob
ASSUME BatchIsPositive == Batch \in Nat \ {0}
ASSUME BoundsAreNatural == MaxCommits \in Nat /\ MaxFaults \in Nat

VARIABLES
    repo,         \* the branch of the store repository, one snapshot per commit
    discussion,   \* applications with a review on GitHub
    catalog,      \* store_apps
    savedCommit,  \* store_sync_state.commit_sha; 0 before the first sync
    instances,    \* applications with a row in app_instances
    job,          \* what each worker is doing, with its local variables
    faults,
    order         \* whether the syncs keep apart and within a batch (history variable)

vars == <<repo, discussion, catalog, savedCommit, instances, job, faults, order>>

Newest == Len(repo)
Parsed(snapshot) == {a \in App : snapshot[a] \in Valid}

Become(w, j) == job' = [job EXCEPT ![w] = j]
At(w, step) == job[w] # Idle /\ job[w].step = step

\* The order is "kept" until two syncs overlap or DeleteMissing is given more than
\* a batch; it is "broken" then, "mending" once a sync begins alone, and kept
\* again when such a sync is through.  No step of the program reads it.
Alone(w) == \A u \in Syncer \ {w} : job[u] = Idle
BeyondBatch(w) == Cardinality(Parsed(job[w].snapshot)) > Batch
Joins(w) ==
    order' = IF ~ Alone(w) THEN "broken" ELSE IF order = "kept" THEN "kept" ELSE "mending"
Closes == order' = IF order = "broken" THEN "broken" ELSE "kept"

-----------------------------------------------------------------------------
(* Sync *)

\* Mutant: the commit is saved when the sync starts.
StartSyncSaving(w) ==
    /\ job[w] = Idle
    /\ Become(w, [step |-> "download", commit |-> Newest,
                  snapshot |-> [a \in App |-> Nothing], fetched |-> {}, todo |-> {}])
    /\ savedCommit' = Newest
    /\ Joins(w)
    /\ UNCHANGED <<repo, discussion, catalog, instances, faults>>

\* SyncState and LatestCommit.  The saved commit is sent as an ETag: the server
\* may answer "not modified" only to the newest commit, and then nothing happens.
StartSync(w) ==
    /\ job[w] = Idle
    /\ Become(w, [step |-> "download", commit |-> Newest,
                  snapshot |-> [a \in App |-> Nothing], fetched |-> {}, todo |-> {}])
    /\ Joins(w)
    /\ UNCHANGED <<repo, discussion, catalog, savedCommit, instances, faults>>

\* DownloadTarball and ExtractApps: the branch as it is now, which may be newer
\* than the commit; an archive without a manifest is an error.
Download(w) ==
    /\ At(w, "download")
    /\ IF \A a \in App : repo[Newest][a] = Nothing
       THEN Become(w, Idle)
       ELSE Become(w, [job[w] EXCEPT !.step = "reviews", !.snapshot = repo[Newest]])
    /\ UNCHANGED <<repo, discussion, catalog, savedCommit, instances, faults, order>>

\* Mutant: manifests that do not parse are taken too.
FetchReviewsUnparsed(w) ==
    /\ At(w, "reviews")
    /\ Become(w, [job[w] EXCEPT !.step = "upsert", !.fetched = discussion,
                                !.todo = {a \in App : job[w].snapshot[a] # Nothing}])
    /\ UNCHANGED <<repo, discussion, catalog, savedCommit, instances, faults, order>>

\* A failing FetchReviews is only logged: the sync goes on without reviews.
\* Manifests that do not parse are skipped.
FetchReviews(w) ==
    /\ At(w, "reviews")
    /\ LET todo == Parsed(job[w].snapshot) IN
          \E fetched \in {discussion, {}} :
              Become(w, [job[w] EXCEPT !.step = IF todo = {} THEN "delete" ELSE "upsert",
                                       !.fetched = IF todo = {} THEN {} ELSE fetched,
                                       !.todo = todo])
    /\ UNCHANGED <<repo, discussion, catalog, savedCommit, instances, faults, order>>

\* Mutant: INSERT OR REPLACE, which deletes the row first and cascades.
UpsertReplacing(w, a) ==
    /\ At(w, "upsert")
    /\ a \in job[w].todo
    /\ catalog' = [catalog EXCEPT ![a] = [content |-> job[w].snapshot[a],
                                          compose |-> job[w].snapshot[a],
                                          reviewed |-> a \in job[w].fetched]]
    /\ instances' = instances \ {a}
    /\ Become(w, [job[w] EXCEPT !.todo = @ \ {a},
                                !.step = IF job[w].todo = {a} THEN "delete" ELSE "upsert",
                                !.fetched = IF job[w].todo = {a} THEN {} ELSE @])
    /\ UNCHANGED <<repo, discussion, savedCommit, faults, order>>

\* One round of the loop over the manifests, a map: any order.
UpsertApp(w, a) ==
    /\ At(w, "upsert")
    /\ a \in job[w].todo
    /\ catalog' = [catalog EXCEPT ![a] = [content |-> job[w].snapshot[a],
                                          compose |-> job[w].snapshot[a],
                                          reviewed |-> a \in job[w].fetched]]
    /\ Become(w, [job[w] EXCEPT !.todo = @ \ {a},
                                !.step = IF job[w].todo = {a} THEN "delete" ELSE "upsert",
                                !.fetched = IF job[w].todo = {a} THEN {} ELSE @])
    /\ UNCHANGED <<repo, discussion, savedCommit, instances, faults, order>>

\* DeleteMissing runs DELETE ... WHERE id NOT IN (batch) for each batch of the
\* ids to keep, in one transaction: a row survives when every batch holds it.
Survivors(keep) == IF Cardinality(keep) > Batch THEN {} ELSE keep

\* ON DELETE CASCADE takes the instances with their applications.
DeleteMissing(w) ==
    /\ At(w, "delete")
    /\ LET kept == Survivors(Parsed(job[w].snapshot)) IN
        /\ catalog' = [a \in App |-> IF a \in kept THEN catalog[a] ELSE Nothing]
        /\ instances' = instances \cap kept
    /\ Become(w, [job[w] EXCEPT !.step = "save", !.snapshot = [a \in App |-> Nothing]])
    /\ order' = IF BeyondBatch(w) THEN "broken" ELSE order
    /\ UNCHANGED <<repo, discussion, savedCommit, faults>>

\* Mutant: the branch is asked again for its commit.
SaveNewestCommit(w) ==
    /\ At(w, "save")
    /\ savedCommit' = Newest
    /\ Become(w, Idle)
    /\ Closes
    /\ UNCHANGED <<repo, discussion, catalog, instances, faults>>

SaveSyncState(w) ==
    /\ At(w, "save")
    /\ savedCommit' = job[w].commit
    /\ Become(w, Idle)
    /\ Closes
    /\ UNCHANGED <<repo, discussion, catalog, instances, faults>>

-----------------------------------------------------------------------------
(* CreateReview and EditReview: post to GitHub, then refreshReviews *)

PostReview(w, a) ==
    /\ job[w] = Idle
    /\ discussion' = discussion \cup {a}
    /\ Become(w, [step |-> "fetch", fetched |-> {}, listed |-> [b \in App |-> Nothing],
                  todo |-> {}])
    /\ UNCHANGED <<repo, catalog, savedCommit, instances, faults, order>>

\* A failing fetch ends the refresh without an error.
RefreshFetch(w) ==
    /\ At(w, "fetch")
    /\ Become(w, [job[w] EXCEPT !.step = "list", !.fetched = discussion]) \/ Become(w, Idle)
    /\ UNCHANGED <<repo, discussion, catalog, savedCommit, instances, faults, order>>

\* List reads everything but compose_yaml; rows without reviews are skipped.
\* What is listed of the rest is not used.
RefreshList(w) ==
    /\ At(w, "list")
    /\ LET todo == {a \in App : catalog[a] # Nothing
                                /\ (a \in job[w].fetched \/ catalog[a].reviewed)}
       IN  Become(w, IF todo = {} THEN Idle
                     ELSE [job[w] EXCEPT
                              !.step = "rewrite", !.todo = todo,
                              !.listed = [a \in App |-> IF a \in todo THEN catalog[a].content
                                                        ELSE Nothing]])
    /\ UNCHANGED <<repo, discussion, catalog, savedCommit, instances, faults, order>>

\* Upsert writes the row whole, with the empty Compose of the record List made.
\* The rows go in the order of their ids, which no other step knows.
RefreshRewrite(w, a) ==
    /\ At(w, "rewrite")
    /\ a \in job[w].todo
    /\ catalog' = [catalog EXCEPT ![a] = [content |-> job[w].listed[a],
                                          compose |-> Nothing,
                                          reviewed |-> a \in job[w].fetched]]
    /\ Become(w, IF job[w].todo = {a} THEN Idle
                 ELSE [job[w] EXCEPT !.todo = @ \ {a}, !.listed[a] = Nothing])
    /\ UNCHANGED <<repo, discussion, savedCommit, instances, faults, order>>

-----------------------------------------------------------------------------
(* The surroundings *)

\* An HTTP call or a statement fails, the ten minutes of Run are over, the
\* client goes away, or the process restarts: the worker ends where it is.
Abort(w) ==
    /\ job[w] # Idle
    /\ faults < MaxFaults
    /\ faults' = faults + 1
    /\ Become(w, Idle)
    /\ UNCHANGED <<repo, discussion, catalog, savedCommit, instances, order>>

\* Somebody pushes to the branch.
Push(snapshot) ==
    /\ Len(repo) < MaxCommits
    /\ repo' = Append(repo, snapshot)
    /\ UNCHANGED <<discussion, catalog, savedCommit, instances, job, faults, order>>

\* The installer adds an instance row (AppsInstaller).
AddInstance(a) ==
    /\ catalog[a] # Nothing
    /\ instances' = instances \cup {a}
    /\ UNCHANGED <<repo, discussion, catalog, savedCommit, job, faults, order>>

-----------------------------------------------------------------------------
Init ==
    /\ repo \in {<<snapshot>> : snapshot \in Snapshot}
    /\ discussion = {}
    /\ catalog = [a \in App |-> Nothing]
    /\ savedCommit = 0
    /\ instances = {}
    /\ job = [w \in Worker |-> Idle]
    /\ faults = 0
    /\ order = "kept"

SyncStep(w) ==
    \/ Download(w) \/ FetchReviews(w)
    \/ \E a \in App : UpsertApp(w, a)
    \/ DeleteMissing(w) \/ SaveSyncState(w)

RefreshStep(w) ==
    RefreshFetch(w) \/ RefreshList(w) \/ \E a \in App : RefreshRewrite(w, a)

Next ==
    \/ \E w \in Syncer : StartSync(w) \/ SyncStep(w)
    \/ \E w \in Reviewer : RefreshStep(w) \/ \E a \in App : PostReview(w, a)
    \/ \E w \in Worker : Abort(w)
    \/ \E snapshot \in Snapshot : Push(snapshot)
    \/ \E a \in App : AddInstance(a)

Spec == Init /\ [][Next]_vars

\* Run syncs at every tick, and the server tells a changed branch from the
\* saved commit; a sync that began goes on.
Fairness ==
    \A w \in Syncer : /\ WF_vars(savedCommit # Newest /\ StartSync(w))
                      /\ WF_vars(SyncStep(w))

FairSpec == Spec /\ Fairness

-----------------------------------------------------------------------------
(* Correctness *)

TypeOK ==
    /\ repo \in Seq(Snapshot)
    /\ discussion \in SUBSET App
    /\ catalog \in Catalog
    /\ savedCommit \in 0..Len(repo)
    /\ instances \in SUBSET App
    /\ \A w \in Syncer : job[w] \in SyncJob \cup {Idle}
    /\ \A w \in Reviewer : job[w] \in RefreshJob \cup {Idle}
    /\ faults \in Nat
    /\ order \in {"kept", "mending", "broken"}

\* What the row of an application should hold at a commit.
ContentAt(commit, a) == IF repo[commit][a] \in Valid THEN repo[commit][a] ELSE Nothing

\* The commit that the next sync compares the branch with is never newer than
\* what the catalog holds, whatever interrupted the syncs before: a row that
\* were older would stay so until the next push.  After syncs that overlapped, or
\* deleted beyond a batch, this holds again once one sync went through alone; and
\* it holds until a review is posted: its refresh writes back the rows it listed.
SavedCommitIsCovered ==
    savedCommit # 0 /\ discussion = {} /\ order = "kept" =>
        \A a \in App : \E k \in savedCommit..Len(repo) :
            ContentAt(k, a) = IF catalog[a] = Nothing THEN Nothing ELSE catalog[a].content

\* However syncs and reviews overlap and are interrupted, the instance row of an
\* installed application is only deleted when a commit holds no valid manifest of
\* it, or by a sync of an archive with more than a batch of applications: the
\* cascade that empties app_instances is never set off by a rewrite of store_apps.
InstancesSurvive ==
    [][\A a \in instances \ instances' :
          \/ \E k \in 1..Len(repo) : repo[k][a] \notin Valid
          \/ \E w \in Syncer : At(w, "delete") /\ BeyondBatch(w) /\ job'[w] # job[w]]_vars

\* Once the branch stays as it is, the catalog becomes what it holds, unless it
\* holds no manifest at all: then the sync refuses it and the old rows stay; or
\* a review has been posted, whose refresh may write an older row back; or the
\* last syncs overlapped or deleted beyond a batch.
CatalogConverges ==
    <>[](repo[Newest] # [a \in App |-> Nothing] /\ discussion = {} /\ order = "kept" =>
            \A a \in App : IF catalog[a] = Nothing THEN ContentAt(Newest, a) = Nothing
                           ELSE catalog[a].content = ContentAt(Newest, a))

\* What docs/store-architecture.md:75 says of a sync, "Delete apps from DB that no
\* longer exist in the repo": a row goes only when a commit holds no valid manifest
\* of its application.  DELETE ... NOT IN (batch) for each of two batches deletes
\* every row (catalog_store.go:98-119).
OnlyMissingAppsAreDeleted ==
    [][\A a \in App : catalog[a] # Nothing /\ catalog'[a] = Nothing =>
          \E k \in 1..Len(repo) : repo[k][a] \notin Valid]_vars

=============================================================================
