CONSTANTS
    c1 = c1
    c2 = c2
    d1 = d1
    d2 = d2
    Account = {a1, a2}
    Device = {d1}
    Call = {c1, c3}
    DeviceOf <- MCOneDevice
    Horizon = 2
    Day <- MCDay
    Typed <- MCTypedTwo
    NoReading = NoReading
    NoUser = NoUser
    Nothing = Nothing
    MaxAnomalies = 1
SPECIFICATION Spec
VIEW MCView
SYMMETRY MCSymmetry
CONSTRAINT FewFields
PROPERTIES
    TodayOnly
    OwnRecordOnly
