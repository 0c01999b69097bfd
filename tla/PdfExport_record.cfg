CONSTANTS
    Start <- MCStart
    MaxLast = 32
    MaxPages = 2
SPECIFICATION Spec
CONSTRAINT Few
INVARIANTS
    Inv
    NoGrowError
PROPERTY WeeksShown
