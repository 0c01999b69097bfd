CONSTANTS
    Name = {n1}
    Gender = {g1}
    Number <- MCNumber
    Blank = Blank
    NoProfile = NoProfile
    MaxConf = 8
    MaxNest = 2
SPECIFICATION Spec
CONSTRAINT ShortAfterOk
INVARIANTS
    NoRangeError
    Inv
PROPERTIES
    SavedAsShown
    TargetIsNumber
    ProfileKept
