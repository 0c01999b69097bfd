CONSTANTS
    Doc = {d1}
    Get = {g1}
    Watcher = {w1}
    MaxVersion = 1
    MaxFaults = 2
SPECIFICATION FairSpec
CHECK_DEADLOCK FALSE
INVARIANTS
    Inv
    TargetsWatched
    FreshWhenSynced
    AnsweredOnce
PROPERTIES
    GetAnswered
    GetReturns
