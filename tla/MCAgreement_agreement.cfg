SPECIFICATION AgreementSpec
CONSTANTS
    Look = {plain, fancy}
    Preset = {dark}
    Stored = {photo}
    dark = dark
    Default = dark
    Name = {ana, bia}
    NoRecord = NoRecord
    Asked = Asked
    Refused = Refused
    MaxEdits = 2
    MaxEvents = 1
    a1 = a1
    a2 = a2
    App = {a1, a2}
    Prefixed <- MCNested
    Nothing = Nothing
    MaxChanges = 3
    MaxRewrites = 3
    MaxFaults = 1
CHECK_DEADLOCK FALSE
INVARIANTS
    AgreementTypeOK
    AccurateWhenQuiet
PROPERTIES
    NoSilentOverwrite
    SyncSettles
    DesiredStateIsTheInstallers
