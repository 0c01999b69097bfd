CONSTANTS
    c1 = c1
    c2 = c2
    d1 = d1
    d2 = d2
    Account = {a1}
    Device = {d1, d2}
    Call = {c1, c2, c3}
    DeviceOf <- MCTwoDevices
    Horizon = 2
    Day <- MCDay
    Typed <- MCTyped
    NoReading = NoReading
    NoUser = NoUser
    Nothing = Nothing
    MaxAnomalies = 2
SPECIFICATION Spec
VIEW MCView
SYMMETRY MCSymmetry
CONSTRAINT FewTroubles
INVARIANTS
    Inv
    OneRecordPerDay
PROPERTY HistoryKept
