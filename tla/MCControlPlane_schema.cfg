SPECIFICATION ControlSpec
CONSTANTS
    Boot = Boot
    Reset = {r1, r2}
    Nothing = Nothing
    MaxFaults = 1
    MaxCrashes = 2
    MaxBackups = 1
    u1 = u1
    u2 = u2
    User = {u1, u2}
    WithMFA = {u1}
    home = home
    Page = {home, profile}
    Home = home
    Nobody = Nobody
    Expired = Expired
    MaxPanels = 2
    AppId = {a, b}
    NoOperation = NoOperation
    Published = TRUE
    MaxOperations = 2
    MaxBreaks = 1
CHECK_DEADLOCK FALSE
INVARIANTS
    ControlTypeOK
    RecordedIsApplied
    ServesLatestSchema
    BackupIsWhole
    PagesAreOfTheSession
PROPERTIES
    DatabaseStartsAgain
    RequestedLockHolds
    RunningOperationsStay
    OperationsAreFollowed
