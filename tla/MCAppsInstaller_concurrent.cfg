SPECIFICATION FairSpec
CONSTANTS
    o1 = o1
    o2 = o2
    custom = custom
    plain = plain
    v1 = v1
    v2 = v2
    web = web
    db = db
    Nothing = Nothing
    Torn = Torn
    App = {a1}
    Op <- MCOps
    Options = {plain}
    DefaultOptions = plain
    Version = {v1}
    Service = {db}
    ServicesOf <- MCServicesOf
    Removals <- MCRemovals
    MaxInFlight = 2
    MaxFaults = 1
    MaxCrashes = 1
CHECK_DEADLOCK FALSE
INVARIANTS
    TypeOK
    ForeignKeys
    OperationMatchesExecutor
PROPERTIES
    ImplementsLifecycle
    OperationsSettle
