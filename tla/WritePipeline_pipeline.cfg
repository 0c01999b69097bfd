CONSTANTS
    User = {u1, u2}
    Write = {1, 2, 3, 4}
    MaxPending = 3
    MaxFaults = 2
    MaxWaits = 1
SPECIFICATION FairSpec
CONSTRAINT Together
CHECK_DEADLOCK FALSE
INVARIANTS
    Inv
    NoWriteLost
    AnswersTrue
    WaitsTruthful
    NewestCommittedLast
PROPERTY WritesDrain
