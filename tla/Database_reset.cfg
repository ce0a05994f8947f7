SPECIFICATION Spec
CONSTANTS
    Boot = Boot
    Reset = {r1}
    Nothing = Nothing
    MaxFaults = 0
    MaxCrashes = 0
    MaxBackups = 0
CHECK_DEADLOCK FALSE
INVARIANTS
    ResetIsAFreshInstall
