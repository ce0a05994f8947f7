SPECIFICATION MCSpec
CONSTANTS
    App = {a1, a2}
    Valid = {m1, m2}
    Invalid = {bad}
    Nothing = Nothing
    Syncer = {s1, s2}
    Reviewer = {r1}
    Idle = Idle
    Batch = 1
    MaxCommits = 2
    MaxFaults = 1
    a1 = a1
    a2 = a2
    m1 = m1
    m2 = m2
    bad = bad
    s1 = s1
    s2 = s2
    r1 = r1
CHECK_DEADLOCK FALSE
INVARIANTS
    TypeOK
    SavedCommitIsCovered
PROPERTIES
    InstancesSurvive
    CatalogConverges
