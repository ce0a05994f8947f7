SPECIFICATION EnrollmentSpec
CONSTANTS
    Account = {me, ana}
    Me = me
    NoAccount = NoAccount
    MaxChallenges = 1
    MaxSlips = 0
CHECK_DEADLOCK FALSE
PROPERTIES
    AcceptedOpens
