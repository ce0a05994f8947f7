------------------------- MODULE CatalogSyncProofs -------------------------
(***************************************************************************)
(* Theorems about the application catalog, for every number of             *)
(* applications, commits, interruptions and workers, and every size of a   *)
(* batch of DeleteMissing.                                                 *)
(***************************************************************************)
EXTENDS CatalogSync, TLAPS

-----------------------------------------------------------------------------
(* The inductive invariant *)

\* A sync works on one commit's archive, which is not older than the commit it
\* read, and upserts the manifests that parse.
SyncJobOK(w) ==
    job[w] # Idle =>
        /\ job[w].commit <= Len(repo)
        /\ job[w].step \in {"reviews", "upsert", "delete"} =>
              \E k \in job[w].commit..Len(repo) : job[w].snapshot = repo[k]
        /\ job[w].step = "upsert" => job[w].todo \subseteq Parsed(job[w].snapshot)

\* A refresh rewrites rows it has listed.
RefreshJobOK(w) ==
    job[w] # Idle /\ job[w].step = "rewrite" => \A a \in job[w].todo : job[w].listed[a] \in Valid

IInv ==
    /\ TypeOK
    /\ job \in [Worker -> SyncJob \cup RefreshJob \cup {Idle}]
    /\ Len(repo) > 0
    /\ \A w \in Syncer : SyncJobOK(w)
    /\ \A w \in Reviewer : RefreshJobOK(w)

-----------------------------------------------------------------------------
LEMMA IdleIsNone == Idle \notin SyncJob /\ Idle \notin RefreshJob
    BY IdleIsNoJob

LEMMA InitIInv == Init => IInv
<1> SUFFICES ASSUME Init PROVE IInv
    OBVIOUS
<1>1. PICK snapshot \in Snapshot : repo = <<snapshot>>
    BY DEF Init
<1> QED
    BY <1>1 DEF Init, IInv, TypeOK, Catalog, Worker, SyncJobOK, RefreshJobOK

\* A step of worker w that changes the rows and its own job as their types say.
LEMMA WorkerStep ==
    ASSUME IInv, NEW w \in Worker, NEW j,
           job' = [job EXCEPT ![w] = j], UNCHANGED repo,
           catalog' \in Catalog, discussion' \in SUBSET App, instances' \in SUBSET App,
           savedCommit' \in 0..Len(repo), faults' \in Nat,
           order' \in {"kept", "mending", "broken"},
           w \in Syncer => (j = Idle \/ j \in SyncJob) /\ SyncJobOK(w)',
           w \in Reviewer => (j = Idle \/ j \in RefreshJob) /\ RefreshJobOK(w)'
    PROVE  IInv'
<1> USE DEF IInv
<1>1. \A u \in Worker : u # w => job'[u] = job[u]
    BY DEF TypeOK
<1> QED
    BY <1>1 DEF TypeOK, SyncJobOK, RefreshJobOK, Worker

\* The steps of a sync.
LEMMA SyncIInv ==
    ASSUME IInv, NEW w \in Syncer, StartSync(w) \/ SyncStep(w)
    PROVE  IInv'
<1> USE IdleIsNone DEF IInv, Become, At
<1>1. w \in Worker /\ w \notin Reviewer
    BY WorkersDiffer DEF Worker
<1>2. repo \in Seq(Snapshot) /\ Newest \in Nat \ {0} /\ repo[Newest] \in Snapshot
    BY DEF TypeOK, Newest
<1>3. job[w] # Idle => job[w] \in SyncJob /\ SyncJobOK(w)
    BY DEF TypeOK
<1>4. CASE StartSync(w)
    <2> DEFINE j == [step |-> "download", commit |-> Newest,
                     snapshot |-> [a \in App |-> Nothing], fetched |-> {}, todo |-> {}]
    <2>1. j \in SyncJob
        BY <1>2 DEF SyncJob, Snapshot
    <2>2. job' = [job EXCEPT ![w] = j] /\ job'[w] = j
        BY <1>1, <1>4 DEF StartSync
    <2>3. SyncJobOK(w)'
        BY <1>2, <1>4, <2>2 DEF SyncJobOK, StartSync, Newest
    <2> HIDE DEF j
    <2> QED
        BY <1>1, <1>4, <2>1, <2>2, <2>3, WorkerStep DEF StartSync, TypeOK, Joins
<1>5. CASE Download(w)
    <2>1. CASE \A a \in App : repo[Newest][a] = Nothing
        <3>1. job' = [job EXCEPT ![w] = Idle] /\ job'[w] = Idle
            BY <1>1, <1>5, <2>1 DEF Download
        <3>2. SyncJobOK(w)'
            BY <3>1 DEF SyncJobOK
        <3> QED
            BY <1>1, <1>5, <3>1, <3>2, WorkerStep DEF Download, TypeOK
    <2>2. CASE ~\A a \in App : repo[Newest][a] = Nothing
        <3> DEFINE j == [job[w] EXCEPT !.step = "reviews", !.snapshot = repo[Newest]]
        <3>1. job[w] # Idle /\ job[w].commit \in 1..Newest
            BY <1>3, <1>5 DEF Download, SyncJobOK, Newest, SyncJob
        <3>2. j \in SyncJob /\ j.step = "reviews" /\ j.snapshot = repo[Newest]
              /\ j.commit = job[w].commit
            BY <1>2, <1>3, <3>1 DEF SyncJob
        <3>3. job' = [job EXCEPT ![w] = j] /\ job'[w] = j
            BY <1>1, <1>5, <2>2 DEF Download
        <3> HIDE DEF j
        <3>4. SyncJobOK(w)'
            BY <1>2, <1>5, <3>1, <3>2, <3>3 DEF SyncJobOK, Download, Newest
        <3> QED
            BY <1>1, <1>5, <3>2, <3>3, <3>4, WorkerStep DEF Download, TypeOK
    <2> QED
        BY <2>1, <2>2
<1>6. CASE FetchReviews(w)
    <2> DEFINE todo == Parsed(job[w].snapshot)
               j(fetched) == [job[w] EXCEPT !.step = IF todo = {} THEN "delete" ELSE "upsert",
                                            !.fetched = IF todo = {} THEN {} ELSE fetched,
                                            !.todo = todo]
    <2>1. PICK fetched \in {discussion, {}} : job' = [job EXCEPT ![w] = j(fetched)]
        BY <1>6 DEF FetchReviews
    <2>2. job[w] # Idle /\ job[w].step = "reviews" /\ todo \in SUBSET App
        BY <1>6 DEF FetchReviews, Parsed
    <2>3. /\ j(fetched) \in SyncJob /\ j(fetched).step \in {"delete", "upsert"}
          /\ j(fetched).commit = job[w].commit /\ j(fetched).snapshot = job[w].snapshot
          /\ j(fetched).todo = todo
        BY <1>3, <2>2 DEF SyncJob, TypeOK
    <2>4. job'[w] = j(fetched)
        BY <1>1, <2>1
    <2> HIDE DEF j
    <2>5. SyncJobOK(w)'
        BY <1>3, <1>6, <2>2, <2>3, <2>4 DEF SyncJobOK, FetchReviews, Parsed
    <2> QED
        BY <1>1, <1>6, <2>1, <2>3, <2>5, WorkerStep DEF FetchReviews, TypeOK
<1>7. ASSUME NEW a \in App, UpsertApp(w, a)
      PROVE  IInv'
    <2> DEFINE last == job[w].todo = {a}
               j == [job[w] EXCEPT !.todo = job[w].todo \ {a},
                                   !.step = IF last THEN "delete" ELSE "upsert",
                                   !.fetched = IF last THEN {} ELSE job[w].fetched]
               row == [content |-> job[w].snapshot[a], compose |-> job[w].snapshot[a],
                       reviewed |-> a \in job[w].fetched]
    <2>1. job[w] # Idle /\ job[w].step = "upsert" /\ a \in job[w].todo
        BY <1>7 DEF UpsertApp
    <2>2. job' = [job EXCEPT ![w] = j] /\ catalog' = [catalog EXCEPT ![a] = row]
        BY <1>7 DEF UpsertApp
    <2>3. /\ j \in SyncJob /\ j.step \in {"delete", "upsert"} /\ j.commit = job[w].commit
          /\ j.snapshot = job[w].snapshot /\ j.todo = job[w].todo \ {a}
        BY <1>3, <2>1 DEF SyncJob
    <2>4. row \in Row
        BY <1>3, <2>1 DEF SyncJobOK, Parsed, Row
    <2>5. catalog' \in Catalog
        BY <2>2, <2>4 DEF TypeOK, Catalog
    <2>6. job'[w] = j
        BY <1>1, <2>2
    <2> HIDE DEF j
    <2>7. SyncJobOK(w)'
        BY <1>3, <1>7, <2>1, <2>3, <2>6 DEF SyncJobOK, UpsertApp, Parsed
    <2>8. /\ UNCHANGED repo /\ discussion' \in SUBSET App /\ instances' \in SUBSET App
          /\ savedCommit' \in 0..Len(repo) /\ faults' \in Nat
          /\ order' \in {"kept", "mending", "broken"}
        BY <1>7 DEF UpsertApp, TypeOK
    <2>9. job' = [job EXCEPT ![w] = j]
        BY <2>2
    <2> QED
        BY <1>1, <2>3, <2>5, <2>7, <2>8, <2>9, WorkerStep
<1>8. CASE DeleteMissing(w)
    <2> DEFINE j == [job[w] EXCEPT !.step = "save", !.snapshot = [a \in App |-> Nothing]]
               kept == Survivors(Parsed(job[w].snapshot))
    <2>1. job' = [job EXCEPT ![w] = j] /\ job[w] # Idle
        BY <1>8 DEF DeleteMissing
    <2>2. j \in SyncJob /\ j.step = "save" /\ j.commit = job[w].commit
        BY <1>3, <2>1 DEF SyncJob, Snapshot
    <2>3. catalog' \in Catalog
        BY <1>8 DEF DeleteMissing, TypeOK, Catalog
    <2>4. job'[w] = j
        BY <1>1, <2>1
    <2> HIDE DEF j
    <2>5. SyncJobOK(w)'
        BY <1>3, <1>8, <2>1, <2>2, <2>4 DEF SyncJobOK, DeleteMissing
    <2>6. instances' \in SUBSET App
        BY <1>8 DEF DeleteMissing, TypeOK
    <2> QED
        BY <1>1, <1>8, <2>1, <2>2, <2>3, <2>5, <2>6, WorkerStep DEF DeleteMissing, TypeOK
<1>9. CASE SaveSyncState(w)
    <2>1. job' = [job EXCEPT ![w] = Idle] /\ job'[w] = Idle
        BY <1>1, <1>9 DEF SaveSyncState
    <2>2. savedCommit' \in 0..Len(repo)
        BY <1>3, <1>9 DEF SaveSyncState, SyncJobOK, SyncJob
    <2>3. SyncJobOK(w)'
        BY <2>1 DEF SyncJobOK
    <2> QED
        BY <1>1, <1>9, <2>1, <2>2, <2>3, WorkerStep DEF SaveSyncState, TypeOK, Closes
<1> QED
    BY <1>4, <1>5, <1>6, <1>7, <1>8, <1>9 DEF SyncStep

\* The steps of a review.
LEMMA ReviewIInv ==
    ASSUME IInv, NEW w \in Reviewer, RefreshStep(w) \/ \E a \in App : PostReview(w, a)
    PROVE  IInv'
<1> USE IdleIsNone DEF IInv, Become, At
<1>1. w \in Worker /\ w \notin Syncer
    BY WorkersDiffer DEF Worker
<1>2. job[w] # Idle => job[w] \in RefreshJob /\ RefreshJobOK(w)
    BY DEF TypeOK
<1>3. ASSUME NEW a \in App, PostReview(w, a)
      PROVE  IInv'
    <2> DEFINE j == [step |-> "fetch", fetched |-> {}, listed |-> [b \in App |-> Nothing],
                     todo |-> {}]
    <2>1. j \in RefreshJob /\ j.step = "fetch"
        BY DEF RefreshJob
    <2>2. job' = [job EXCEPT ![w] = j] /\ job'[w] = j
        BY <1>1, <1>3 DEF PostReview
    <2> HIDE DEF j
    <2>3. RefreshJobOK(w)'
        BY <2>1, <2>2 DEF RefreshJobOK
    <2>4. /\ UNCHANGED repo /\ catalog' \in Catalog /\ discussion' \in SUBSET App
          /\ instances' \in SUBSET App /\ savedCommit' \in 0..Len(repo) /\ faults' \in Nat
          /\ order' \in {"kept", "mending", "broken"}
        BY <1>3 DEF PostReview, TypeOK
    <2> QED
        BY <1>1, <2>1, <2>2, <2>3, <2>4, WorkerStep
<1>4. ASSUME job' = [job EXCEPT ![w] = Idle],
             UNCHANGED <<repo, discussion, savedCommit, instances, faults, order>>,
             catalog' \in Catalog
      PROVE  IInv'
    <2>1. RefreshJobOK(w)'
        BY <1>1, <1>4 DEF RefreshJobOK
    <2> QED
        BY <1>1, <1>4, <2>1, WorkerStep DEF TypeOK
<1>5. CASE RefreshFetch(w)
    <2> DEFINE j == [job[w] EXCEPT !.step = "list", !.fetched = discussion]
    <2>1. CASE job' = [job EXCEPT ![w] = Idle]
        BY <1>4, <1>5, <2>1 DEF RefreshFetch, TypeOK
    <2>2. CASE job' = [job EXCEPT ![w] = j]
        <3>1. j \in RefreshJob /\ j.step = "list"
            BY <1>2, <1>5 DEF RefreshFetch, RefreshJob, TypeOK
        <3>2. job'[w] = j
            BY <1>1, <2>2
        <3> HIDE DEF j
        <3>3. RefreshJobOK(w)'
            BY <3>1, <3>2 DEF RefreshJobOK
        <3> QED
            BY <1>1, <1>5, <2>2, <3>1, <3>3, WorkerStep DEF RefreshFetch, TypeOK
    <2> QED
        BY <1>5, <2>1, <2>2 DEF RefreshFetch
<1>6. CASE RefreshList(w)
    <2> DEFINE todo == {a \in App : catalog[a] # Nothing
                                    /\ (a \in job[w].fetched \/ catalog[a].reviewed)}
               listed == [a \in App |-> IF a \in todo THEN catalog[a].content ELSE Nothing]
               j == [job[w] EXCEPT !.step = "rewrite", !.todo = todo, !.listed = listed]
    <2>1. CASE todo = {}
        BY <1>4, <1>6, <2>1 DEF RefreshList, TypeOK
    <2>2. CASE todo # {}
        <3>1. job' = [job EXCEPT ![w] = j] /\ job[w] # Idle
            BY <1>6, <2>2 DEF RefreshList
        <3>2. \A a \in todo : listed[a] \in Valid
            BY DEF TypeOK, Catalog, Row
        <3>3. listed \in [App -> Valid \cup {Nothing}]
            BY <3>2
        <3> HIDE DEF listed
        <3>4. j \in RefreshJob /\ j.todo = todo /\ j.listed = listed
            BY <1>2, <3>1, <3>3 DEF RefreshJob
        <3>5. job'[w] = j
            BY <1>1, <3>1
        <3> HIDE DEF j, todo
        <3>6. RefreshJobOK(w)'
            BY <3>2, <3>4, <3>5 DEF RefreshJobOK
        <3> QED
            BY <1>1, <1>6, <3>1, <3>4, <3>6, WorkerStep DEF RefreshList, TypeOK
    <2> QED
        BY <2>1, <2>2
<1>7. ASSUME NEW a \in App, RefreshRewrite(w, a)
      PROVE  IInv'
    <2> DEFINE row == [content |-> job[w].listed[a], compose |-> Nothing,
                       reviewed |-> a \in job[w].fetched]
    <2>1. job[w] # Idle /\ job[w].step = "rewrite" /\ a \in job[w].todo
        BY <1>7 DEF RefreshRewrite
    <2>2. row \in Row
        BY <1>2, <2>1 DEF RefreshJobOK, Row
    <2>3. catalog' \in Catalog
        BY <1>7, <2>2 DEF RefreshRewrite, TypeOK, Catalog
    <2>4. CASE job[w].todo = {a}
        BY <1>4, <1>7, <2>3, <2>4 DEF RefreshRewrite
    <2>5. CASE job[w].todo # {a}
        <3> DEFINE listed == [job[w].listed EXCEPT ![a] = Nothing]
                   j == [job[w] EXCEPT !.todo = job[w].todo \ {a}, !.listed = listed]
        <3>1. job' = [job EXCEPT ![w] = j]
            BY <1>7, <2>5 DEF RefreshRewrite
        <3>2. /\ listed \in [App -> Valid \cup {Nothing}]
              /\ \A b \in job[w].todo \ {a} : listed[b] = job[w].listed[b]
            BY <1>2, <2>1 DEF RefreshJob
        <3> HIDE DEF listed
        <3>3. j \in RefreshJob /\ j.todo = job[w].todo \ {a} /\ j.listed = listed
            BY <1>2, <2>1, <3>2 DEF RefreshJob
        <3>4. job'[w] = j
            BY <1>1, <3>1
        <3> HIDE DEF j
        <3>5. RefreshJobOK(w)'
            BY <1>2, <2>1, <3>2, <3>3, <3>4 DEF RefreshJobOK
        <3> QED
            BY <1>1, <1>7, <2>3, <3>1, <3>3, <3>5, WorkerStep DEF RefreshRewrite, TypeOK
    <2> QED
        BY <2>4, <2>5
<1> QED
    BY <1>3, <1>5, <1>6, <1>7 DEF RefreshStep

LEMMA NextIInv ==
    ASSUME IInv, [Next]_vars
    PROVE  IInv'
<1>1. CASE UNCHANGED vars
    BY <1>1 DEF vars, IInv, TypeOK, SyncJobOK, RefreshJobOK
<1>2. ASSUME NEW w \in Worker, Abort(w)
      PROVE  IInv'
    <2>1. job' = [job EXCEPT ![w] = Idle] /\ job'[w] = Idle
        BY <1>2 DEF Abort, Become, IInv
    <2>2. SyncJobOK(w)' /\ RefreshJobOK(w)'
        BY <2>1 DEF SyncJobOK, RefreshJobOK
    <2>3. /\ UNCHANGED repo /\ catalog' \in Catalog /\ discussion' \in SUBSET App
          /\ instances' \in SUBSET App /\ savedCommit' \in 0..Len(repo) /\ faults' \in Nat
          /\ order' \in {"kept", "mending", "broken"}
        BY <1>2 DEF Abort, IInv, TypeOK
    <2> QED
        BY <2>1, <2>2, <2>3, WorkerStep
<1>3. ASSUME NEW snapshot \in Snapshot, Push(snapshot)
      PROVE  IInv'
    <2>1. /\ repo' \in Seq(Snapshot) /\ Len(repo') = Len(repo) + 1
          /\ \A k \in 1..Len(repo) : repo'[k] = repo[k]
        BY <1>3 DEF Push, IInv, TypeOK
    <2>2. \A w \in Syncer : job[w] # Idle => job[w].commit \in Nat \ {0}
        BY DEF IInv, TypeOK, SyncJob
    <2>3. Len(repo) \in Nat
        BY DEF IInv, TypeOK
    <2>4. ASSUME NEW w \in Syncer PROVE SyncJobOK(w)'
        BY <1>3, <2>1, <2>2, <2>3 DEF Push, IInv, SyncJobOK
    <2> QED
        BY <1>3, <2>1, <2>3, <2>4 DEF Push, IInv, TypeOK, RefreshJobOK
<1>4. ASSUME NEW a \in App, AddInstance(a)
      PROVE  IInv'
    BY <1>4 DEF AddInstance, IInv, TypeOK, SyncJobOK, RefreshJobOK
<1> QED
    BY <1>1, <1>2, <1>3, <1>4, SyncIInv, ReviewIInv DEF Next

-----------------------------------------------------------------------------
(* The theorems *)

\* The invariant holds in every reachable state.
THEOREM Invariance == Spec => []IInv
    BY InitIInv, NextIInv, PTL DEF Spec

\* The tables and the workers' local variables (service.go) have their types.
THEOREM TypeCorrect == Spec => []TypeOK
    BY Invariance, PTL DEF IInv

\* A step that deletes an instance is that of a sync whose archive lacks a valid
\* manifest of its application, or holds more than a batch.
LEMMA InstanceIsKept ==
    ASSUME IInv, [Next]_vars, NEW a \in instances \ instances'
    PROVE  \/ \E k \in 1..Len(repo) : repo[k][a] \notin Valid
           \/ \E w \in Syncer : At(w, "delete") /\ BeyondBatch(w) /\ job'[w] # job[w]
<1>1. PICK w \in Syncer : DeleteMissing(w)
    BY DEF Next, SyncStep, RefreshStep, vars, StartSync, Download, FetchReviews, UpsertApp,
           SaveSyncState, PostReview, RefreshFetch, RefreshList, RefreshRewrite, Abort, Push,
           AddInstance
<1>2. a \in App /\ a \notin Survivors(Parsed(job[w].snapshot))
    BY <1>1 DEF DeleteMissing, IInv, TypeOK
<1>3. /\ job[w] # Idle /\ job[w].step = "delete" /\ job[w].commit \in Nat \ {0}
      /\ job[w] \in SyncJob /\ SyncJobOK(w)
    BY <1>1 DEF DeleteMissing, At, IInv, TypeOK, SyncJob
<1>4. CASE BeyondBatch(w)
    <2>1. job'[w].step = "save"
        BY <1>1, <1>3 DEF DeleteMissing, Become, IInv, SyncJob, Worker
    <2> QED
        BY <1>3, <1>4, <2>1 DEF At
<1>5. CASE ~ BeyondBatch(w)
    <2>1. PICK k \in job[w].commit..Len(repo) : job[w].snapshot = repo[k]
        BY <1>3 DEF SyncJobOK
    <2>2. a \notin Parsed(repo[k])
        BY <1>2, <1>5, <2>1 DEF Survivors, BeyondBatch
    <2> QED
        BY <1>2, <1>3, <2>1, <2>2 DEF Parsed, IInv, TypeOK
<1> QED
    BY <1>4, <1>5

\* No rewrite of store_apps takes the instance row of an installed application
\* along, and DeleteMissing (catalog_store.go) only that of one without a valid
\* manifest in some commit, or all of them in exclusive batches; however many
\* syncs and reviews overlap and wherever they are cut short.
THEOREM InstancesAreKept == Spec => InstancesSurvive
<1>1. IInv /\ [Next]_vars =>
        [\A a \in instances \ instances' :
            \/ \E k \in 1..Len(repo) : repo[k][a] \notin Valid
            \/ \E w \in Syncer : At(w, "delete") /\ BeyondBatch(w) /\ job'[w] # job[w]]_vars
    BY InstanceIsKept
<1> QED
    BY <1>1, Invariance, PTL DEF Spec, InstancesSurvive

-----------------------------------------------------------------------------
(* The saved commit *)

Content(a) == IF catalog[a] = Nothing THEN Nothing ELSE catalog[a].content

\* Every row is that of a commit which is not older than c.
CoveredSince(c) == \A a \in App : \E k \in c..Len(repo) : ContentAt(k, a) = Content(a)

\* A sync has written the rows it has done with, and covers its commit when it
\* saves it.
JobCovered(w) ==
    job[w] # Idle =>
        /\ savedCommit <= job[w].commit
        /\ job[w].step \in {"upsert", "delete"} =>
              \A a \in Parsed(job[w].snapshot) :
                  \/ job[w].step = "upsert" /\ a \in job[w].todo
                  \/ Content(a) = job[w].snapshot[a]
        /\ job[w].step = "save" => CoveredSince(job[w].commit)

\* While the order is not broken no two syncs are under way.
Apart == \A u, w \in Syncer : job[u] # Idle /\ job[w] # Idle => u = w

\* While no review has been posted.
Coverage ==
    discussion = {} =>
        /\ \A w \in Reviewer : job[w] = Idle
        /\ order = "kept" /\ savedCommit # 0 => CoveredSince(savedCommit)
        /\ order # "broken" => Apart /\ \A w \in Syncer : JobCovered(w)

LEMMA InitCoverage == Init => Coverage
    BY DEF Init, Coverage, JobCovered, Worker, Apart

\* The steps of a sync.  One that leaves the order unbroken is taken alone.
LEMMA SyncCoverage ==
    ASSUME IInv, Coverage, NEW w \in Syncer, StartSync(w) \/ SyncStep(w)
    PROVE  Coverage'
<1> SUFFICES ASSUME discussion = {} PROVE Coverage'
    BY DEF Coverage, StartSync, SyncStep, Download, FetchReviews, UpsertApp, DeleteMissing,
           SaveSyncState
<1>1. w \in Worker /\ w \notin Reviewer
    BY WorkersDiffer DEF Worker
<1>a. \A u \in Worker \ {w} : job'[u] = job[u]
    BY <1>1 DEF StartSync, SyncStep, Download, FetchReviews, UpsertApp, DeleteMissing,
           SaveSyncState, Become, IInv
<1>b. \A u \in Reviewer : job'[u] = Idle
    BY <1>1, <1>a DEF Coverage, Worker
<1> SUFFICES ASSUME order' # "broken" PROVE Coverage'
    BY <1>b DEF Coverage
<1>c. SyncStep(w) => order # "broken" /\ job[w] # Idle
    BY DEF SyncStep, Download, FetchReviews, UpsertApp, DeleteMissing, SaveSyncState, Closes, At
<1>d. \A u \in Syncer \ {w} : job'[u] = Idle
    <2>1. StartSync(w) => Alone(w)
        BY DEF StartSync, Joins
    <2> QED
        BY <1>a, <1>c, <2>1 DEF Alone, Coverage, Apart, Worker
<1>e. ASSUME JobCovered(w)', order' = "kept" /\ savedCommit' # 0 => CoveredSince(savedCommit)'
      PROVE  Coverage'
    BY <1>b, <1>d, <1>e DEF Coverage, Apart, JobCovered
<1>2. Newest \in Nat /\ Newest = Len(repo) /\ savedCommit \in 0..Newest /\ repo \in Seq(Snapshot)
    BY DEF IInv, TypeOK, Newest
<1>3. SyncStep(w) =>
        job[w] \in SyncJob /\ SyncJobOK(w) /\ JobCovered(w) /\ job[w].commit \in Nat \ {0}
    BY <1>c DEF IInv, TypeOK, Coverage, SyncJob
<1>4. order = "kept" /\ savedCommit # 0 => CoveredSince(savedCommit)
    BY DEF Coverage
<1>5. ASSUME NEW j, job' = [job EXCEPT ![w] = j] PROVE job'[w] = j
    BY <1>1, <1>5 DEF IInv
<1>f. ASSUME UNCHANGED <<repo, catalog, savedCommit>>, order' = "kept" => order = "kept",
             JobCovered(w)'
      PROVE  Coverage'
    <2>1. CoveredSince(savedCommit)' <=> CoveredSince(savedCommit)
        BY <1>f DEF CoveredSince, ContentAt, Content
    <2> QED
        BY <1>e, <1>f, <1>4, <2>1
<1>6. CASE StartSync(w)
    <2> DEFINE j == [step |-> "download", commit |-> Newest,
                     snapshot |-> [a \in App |-> Nothing], fetched |-> {}, todo |-> {}]
    <2>1. job' = [job EXCEPT ![w] = j] /\ j.step = "download" /\ j.commit = Newest
        BY <1>6 DEF StartSync, Become
    <2> HIDE DEF j
    <2>2. JobCovered(w)'
        BY <1>2, <1>5, <1>6, <2>1 DEF JobCovered, StartSync
    <2> QED
        BY <1>6, <1>f, <2>2 DEF StartSync, Joins
<1>7. CASE Download(w)
    <2>0. SyncStep(w)
        BY <1>7 DEF SyncStep
    <2>1. CASE job' = [job EXCEPT ![w] = Idle]
        <3>1. JobCovered(w)'
            BY <1>5, <2>1 DEF JobCovered
        <3> QED
            BY <1>7, <1>f, <3>1 DEF Download
    <2> DEFINE j == [job[w] EXCEPT !.step = "reviews", !.snapshot = repo[Newest]]
    <2>2. CASE job' = [job EXCEPT ![w] = j]
        <3>1. j.step = "reviews" /\ j.commit = job[w].commit
            BY <1>3, <2>0 DEF SyncJob
        <3> HIDE DEF j
        <3>2. JobCovered(w)'
            BY <1>3, <1>c, <1>5, <1>7, <2>0, <2>2, <3>1 DEF JobCovered, Download
        <3> QED
            BY <1>7, <1>f, <3>2 DEF Download
    <2> QED
        BY <1>7, <2>1, <2>2 DEF Download, Become
<1>8. CASE FetchReviews(w)
    <2>0. SyncStep(w)
        BY <1>8 DEF SyncStep
    <2> DEFINE todo == Parsed(job[w].snapshot)
               j(fetched) == [job[w] EXCEPT !.step = IF todo = {} THEN "delete" ELSE "upsert",
                                            !.fetched = IF todo = {} THEN {} ELSE fetched,
                                            !.todo = todo]
    <2>1. PICK fetched \in {discussion, {}} : job' = [job EXCEPT ![w] = j(fetched)]
        BY <1>8 DEF FetchReviews, Become
    <2>2. job[w] # Idle
        BY <1>c, <2>0
    <2>3. /\ j(fetched).step = IF todo = {} THEN "delete" ELSE "upsert"
          /\ j(fetched).commit = job[w].commit /\ j(fetched).snapshot = job[w].snapshot
          /\ j(fetched).todo = todo
        BY <1>3, <2>0 DEF SyncJob
    <2>4. job'[w] = j(fetched)
        BY <1>5, <2>1
    <2> HIDE DEF j
    <2>5. JobCovered(w)'
        BY <1>3, <1>8, <2>0, <2>2, <2>3, <2>4 DEF JobCovered, FetchReviews, Parsed
    <2> QED
        BY <1>8, <1>f, <2>5 DEF FetchReviews
<1>9. ASSUME NEW a \in App, UpsertApp(w, a)
      PROVE  Coverage'
    <2>0. SyncStep(w)
        BY <1>9 DEF SyncStep
    <2> DEFINE last == job[w].todo = {a}
               j == [job[w] EXCEPT !.todo = job[w].todo \ {a},
                                   !.step = IF last THEN "delete" ELSE "upsert",
                                   !.fetched = IF last THEN {} ELSE job[w].fetched]
               row == [content |-> job[w].snapshot[a], compose |-> job[w].snapshot[a],
                       reviewed |-> a \in job[w].fetched]
    <2>1. job[w] # Idle /\ job[w].step = "upsert" /\ a \in job[w].todo
        BY <1>9 DEF UpsertApp, At
    <2>2. job' = [job EXCEPT ![w] = j] /\ catalog' = [catalog EXCEPT ![a] = row]
        BY <1>9 DEF UpsertApp, Become
    <2>3. /\ j.step = IF last THEN "delete" ELSE "upsert"
          /\ j.commit = job[w].commit /\ j.snapshot = job[w].snapshot
          /\ j.todo = job[w].todo \ {a}
        BY <1>3, <2>0, <2>1 DEF SyncJob
    <2>4. /\ catalog'[a] # Nothing /\ catalog'[a].content = job[w].snapshot[a]
          /\ \A b \in App \ {a} : catalog'[b] = catalog[b]
        <3>1. row \in Row
            BY <1>3, <2>0, <2>1 DEF SyncJobOK, Parsed, Row
        <3> QED
            BY <2>2, <3>1, NothingIsNoRow DEF IInv, TypeOK, Catalog
    <2>5. Content(a)' = job[w].snapshot[a] /\ \A b \in App \ {a} : Content(b)' = Content(b)
        BY <2>4 DEF Content
    <2>6. job'[w] = j
        BY <1>5, <2>2
    <2> HIDE DEF j, row
    <2>7. UNCHANGED <<repo, savedCommit, order>>
        BY <1>9 DEF UpsertApp
    <2>8. JobCovered(w)'
        <3>1. \A b \in Parsed(job[w].snapshot) : b \in App
            BY DEF Parsed
        <3> QED
            BY <1>3, <2>0, <2>1, <2>3, <2>5, <2>6, <2>7, <3>1 DEF JobCovered
    <2>9. order = "kept" /\ savedCommit # 0 => CoveredSince(savedCommit)'
        <3>1. PICK k \in job[w].commit..Len(repo) : job[w].snapshot = repo[k]
            BY <1>3, <2>0, <2>1 DEF SyncJobOK
        <3>2. ContentAt(k, a) = job[w].snapshot[a]
            BY <1>3, <2>0, <2>1, <3>1 DEF SyncJobOK, ContentAt, Parsed
        <3>3. k \in savedCommit..Len(repo)
            BY <1>2, <1>3, <2>0, <2>1, <3>1 DEF JobCovered
        <3>4. ContentAt(k, a)' = Content(a)'
            BY <2>5, <2>7, <3>2 DEF ContentAt
        <3>5. ASSUME order = "kept", savedCommit # 0, NEW b \in App \ {a}
              PROVE  \E i \in savedCommit..Len(repo) : ContentAt(i, b)' = Content(b)'
            BY <1>4, <2>5, <2>7, <3>5 DEF CoveredSince, ContentAt
        <3> QED
            BY <2>7, <3>3, <3>4, <3>5 DEF CoveredSince
    <2> QED
        BY <1>e, <2>7, <2>8, <2>9
<1>10. CASE DeleteMissing(w)
    <2>0. SyncStep(w) /\ ~ BeyondBatch(w) /\ UNCHANGED order
        BY <1>10 DEF SyncStep, DeleteMissing
    <2> DEFINE j == [job[w] EXCEPT !.step = "save", !.snapshot = [a \in App |-> Nothing]]
               kept == Parsed(job[w].snapshot)
    <2>1. job[w] # Idle /\ job[w].step = "delete"
        BY <1>10 DEF DeleteMissing, At
    <2>2. /\ job' = [job EXCEPT ![w] = j]
          /\ catalog' = [a \in App |-> IF a \in kept THEN catalog[a] ELSE Nothing]
          /\ UNCHANGED <<repo, savedCommit>>
        <3>1. Survivors(kept) = kept
            BY <2>0 DEF Survivors, BeyondBatch
        <3> QED
            BY <1>10, <3>1 DEF DeleteMissing, Become
    <2>3. j.step = "save" /\ j.commit = job[w].commit
        BY <1>3, <2>0, <2>1 DEF SyncJob
    <2>4. job'[w] = j
        BY <1>5, <2>2
    <2>5. PICK k \in job[w].commit..Len(repo) : job[w].snapshot = repo[k]
        BY <1>3, <2>0, <2>1 DEF SyncJobOK
    <2>6. ASSUME NEW a \in App PROVE ContentAt(k, a)' = Content(a)'
        BY <1>3, <2>0, <2>1, <2>2, <2>5 DEF ContentAt, Content, JobCovered, Parsed
    <2> HIDE DEF j
    <2>7. CoveredSince(job[w].commit)'
        <3>1. \A c : c = job[w].commit => \A a \in App : \E i \in c..Len(repo') : ContentAt(i, a)' = Content(a)'
            BY <2>2, <2>5, <2>6
        <3>2. CoveredSince(job[w].commit)' = \A a \in App : \E i \in job'[w].commit..Len(repo') : ContentAt(i, a)' = Content(a)'
            BY DEF CoveredSince
        <3> QED
            BY <2>3, <2>4, <3>1, <3>2
    <2>8. JobCovered(w)'
        BY <1>3, <2>0, <2>1, <2>2, <2>3, <2>4, <2>7 DEF JobCovered
    <2>9. order = "kept" /\ savedCommit # 0 => CoveredSince(savedCommit)'
        <3>1. k \in savedCommit..Len(repo)
            BY <1>2, <1>3, <2>0, <2>1, <2>5 DEF JobCovered
        <3> QED
            BY <2>2, <2>6, <3>1 DEF CoveredSince
    <2> QED
        BY <1>e, <2>0, <2>2, <2>8, <2>9
<1>11. CASE SaveSyncState(w)
    <2>0. SyncStep(w)
        BY <1>11 DEF SyncStep
    <2>1. /\ job[w] # Idle /\ CoveredSince(job[w].commit)
          /\ job' = [job EXCEPT ![w] = Idle] /\ savedCommit' = job[w].commit
          /\ UNCHANGED <<repo, catalog>>
        BY <1>3, <1>11, <2>0 DEF SaveSyncState, At, Become, JobCovered
    <2>2. JobCovered(w)'
        BY <1>5, <2>1 DEF JobCovered
    <2>3. CoveredSince(savedCommit)'
        BY <2>1 DEF CoveredSince, ContentAt, Content
    <2> QED
        BY <1>e, <2>2, <2>3
<1> QED
    BY <1>6, <1>7, <1>8, <1>9, <1>10, <1>11 DEF SyncStep

LEMMA NextCoverage ==
    ASSUME IInv, Coverage, [Next]_vars
    PROVE  Coverage'
<1>1. CASE UNCHANGED vars
    BY <1>1 DEF vars, Coverage, JobCovered, CoveredSince, ContentAt, Content, Apart
<1>2. ASSUME NEW w \in Reviewer, RefreshStep(w) \/ \E a \in App : PostReview(w, a)
      PROVE  Coverage'
    <2>1. discussion' # {} \/ (discussion' = discussion /\ job[w] # Idle)
        BY <1>2 DEF RefreshStep, PostReview, RefreshFetch, RefreshList, RefreshRewrite, At
    <2> QED
        BY <2>1 DEF Coverage
<1>3. ASSUME NEW w \in Worker, Abort(w)
      PROVE  Coverage'
    <2>1. job' = [job EXCEPT ![w] = Idle] /\ job'[w] = Idle
        BY <1>3 DEF Abort, Become, IInv
    <2>2. UNCHANGED <<repo, discussion, catalog, savedCommit, order>>
        BY <1>3 DEF Abort
    <2>3. \A u \in Worker : job'[u] \in {Idle, job[u]}
        BY <2>1 DEF IInv
    <2>4. \A c : CoveredSince(c)' = CoveredSince(c)
        BY <2>2 DEF CoveredSince, ContentAt, Content
    <2>5. ASSUME NEW u \in Syncer, JobCovered(u) PROVE JobCovered(u)'
        BY <2>2, <2>3, <2>4, <2>5 DEF JobCovered, Worker, Content
    <2> QED
        BY <2>2, <2>3, <2>4, <2>5 DEF Coverage, Apart, Worker
<1>4. ASSUME NEW snapshot \in Snapshot, Push(snapshot)
      PROVE  Coverage'
    <2>1. /\ Len(repo) \in Nat /\ Len(repo') = Len(repo) + 1
          /\ \A k \in 1..Len(repo) : repo'[k] = repo[k]
        BY <1>4 DEF Push, IInv, TypeOK
    <2>2. UNCHANGED <<discussion, catalog, savedCommit, job, order>>
        BY <1>4 DEF Push
    <2>3. ASSUME NEW c \in Nat \ {0}, CoveredSince(c)
          PROVE  \A a \in App : \E k \in c..Len(repo') : ContentAt(k, a)' = Content(a)'
        BY <2>1, <2>2, <2>3 DEF CoveredSince, ContentAt, Content
    <2>4. savedCommit # 0 /\ CoveredSince(savedCommit) => CoveredSince(savedCommit)'
        <3>1. savedCommit \in Nat
            BY DEF IInv, TypeOK
        <3> QED
            BY <2>2, <2>3, <3>1 DEF CoveredSince
    <2>5. ASSUME NEW w \in Syncer, JobCovered(w) PROVE JobCovered(w)'
        <3>1. job[w] # Idle => job[w].commit \in Nat \ {0}
            BY DEF IInv, TypeOK, SyncJob
        <3>2. job[w] # Idle /\ CoveredSince(job[w].commit) => CoveredSince(job[w].commit)'
            BY <2>2, <2>3, <3>1 DEF CoveredSince
        <3> QED
            BY <2>2, <2>5, <3>2 DEF JobCovered, Content
    <2> QED
        BY <2>2, <2>4, <2>5 DEF Coverage, Apart
<1>5. ASSUME NEW a \in App, AddInstance(a)
      PROVE  Coverage'
    BY <1>5 DEF AddInstance, Coverage, JobCovered, CoveredSince, ContentAt, Content, Apart
<1> QED
    BY <1>1, <1>2, <1>3, <1>4, <1>5, SyncCoverage DEF Next

\* The commit that Sync saves (SaveSyncState, service.go) is never ahead of the
\* rows, wherever syncs are cut short and whenever somebody pushes, from one sync
\* that went through alone until two overlap or one deletes beyond a batch.
THEOREM SavedCommitIsHeld == Spec => []SavedCommitIsCovered
<1>1. IInv /\ Coverage /\ [Next]_vars => Coverage'
    BY NextCoverage
<1>2. Coverage => SavedCommitIsCovered
    BY DEF Coverage, CoveredSince, Content, SavedCommitIsCovered
<1> QED
    BY <1>1, <1>2, InitCoverage, Invariance, PTL DEF Spec

=============================================================================
