CONSTANTS
    Founder = {f1, f2}
    Request = {r1, r2}
    Role = {"admin", "viewer"}
    RecoveryCode = {c1}
    Nothing = Nothing
    MaxTime = 1
SPECIFICATION Spec
SYMMETRY Symmetry
CHECK_DEADLOCK FALSE
INVARIANTS
    TypeOK
    SecretsCountOnce
    NothingOutlivesItsAccount
    AdministratorsHold
