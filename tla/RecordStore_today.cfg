CONSTANTS
    c1 = c1
    c2 = c2
    d1 = d1
    d2 = d2
    Account = {a1}
    Device = {d1}
    Call = {c1, c2}
    DeviceOf <- MCOneDevice
    Horizon = 2
    Day <- MCDay
    Typed <- MCTypedTwo
    NoReading = NoReading
    NoUser = NoUser
    Nothing = Nothing
    MaxAnomalies = 2
SPECIFICATION Spec
VIEW MCView
CONSTRAINT FewAnomalies
PROPERTY SetsToday
