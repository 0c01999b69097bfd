CONSTANTS
    User = {u1}
    Write = {1, 2, 3, 4}
    MaxPending = 4
    MaxFaults = 0
    MaxWaits = 0
SPECIFICATION Spec
CONSTRAINT IssuedInOrder
CHECK_DEADLOCK FALSE
INVARIANT ErrorMeansRefused
