SPECIFICATION ParamsSpec
CONSTANTS
    c1 = c1
    c2 = c2
    c3 = c3
    Setters = {c1, c2, c3}
    Devices = {d1, d2}
    Filtered = {d2}
    Keys = {"accel", "repeat"}
    Values = {1, 2}
    Requests <- MCRequests
    OwnSettings <- MCOwnSettings
    MaxSets = 1
INVARIANTS
    OneSetAtATime
    LastSetInForce
PROPERTIES
    EverySetReturns
CHECK_DEADLOCK FALSE
