SPECIFICATION Spec
CONSTANTS
    o1 = o1
    o2 = o2
    custom = custom
    plain = plain
    v1 = v1
    v2 = v2
    web = web
    db = db
    Nothing = Nothing
    Torn = Torn
    App = {a1}
    Op <- MCOps
    Options <- MCOptions
    DefaultOptions = plain
    Version = {v1}
    Service = {db}
    ServicesOf <- MCServicesOf
    Removals <- MCRemovals
    MaxInFlight = 1
    MaxFaults = 0
    MaxCrashes = 0
CHECK_DEADLOCK FALSE
PROPERTIES
    SettingsChangeOnlyByEdit
