CONSTANTS
    User = {u1, u2}
    NoUser = NoUser
    MaxApps = 3
    MaxTaps = 1
    MaxChanges = 2
    MaxFaults = 1
SPECIFICATION FairSpec
CHECK_DEADLOCK FALSE
INVARIANTS
    Inv
    GateChecked
    LoginShown
    ReadingHasUser
    NotAskedAgain
PROPERTY
    Served
