CONSTANTS
    Name = {n1, n2}
    Gender = {g1, g2}
    Number <- MCNumber
    Blank = Blank
    NoProfile = NoProfile
    MaxConf = 8
    MaxNest = 1
SPECIFICATION Spec
CONSTRAINT UpToOk
PROPERTY RegistersThisInfo
