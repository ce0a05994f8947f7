--------------------------- MODULE MCCatalogSync ---------------------------
(***************************************************************************)
(* Values for TLC.  Applications and the manifests of Valid are            *)
(* interchangeable, and no application looks at another's manifest: the    *)
(* branch begins as one snapshot of each kind, with the first manifest.    *)
(*                                                                         *)
(* A behaviour is one scene: two syncers whose syncs may overlap, or one   *)
(* syncer with somebody who reviews, where every manifest is the first.    *)
(***************************************************************************)
EXTENDS CatalogSync

CONSTANTS a1, a2, m1, m2, bad, s1, s2

VARIABLE scene

FirstSnapshot ==
    {s \in Snapshot : /\ m2 \notin {s[a1], s[a2]}
                      /\ s[a1] = bad => s[a2] \in {bad, Nothing}
                      /\ s[a1] = Nothing => s[a2] = Nothing}

MCInit ==
    /\ Init /\ repo[1] \in FirstSnapshot
    /\ scene \in {"overlapping", "reviewed"}

MCNext ==
    /\ Next /\ UNCHANGED scene
    /\ IF scene = "overlapping" THEN \A w \in Reviewer : job'[w] = Idle
       ELSE job'[s2] = Idle /\ \A a \in App : repo'[Len(repo')][a] # m2

MCFairness ==
    \A w \in Syncer :
        /\ WF_<<vars, scene>>((scene = "reviewed" => w = s1) /\ savedCommit # Newest /\ StartSync(w)
                             /\ UNCHANGED scene)
        /\ WF_<<vars, scene>>(SyncStep(w) /\ UNCHANGED scene)

MCSpec == MCInit /\ [][MCNext]_<<vars, scene>> /\ MCFairness

=============================================================================
