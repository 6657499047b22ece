CONSTANTS
    c1 = c1
    c2 = c2
    i1 = i1
    i2 = i2
    Clients = {c1, c2}
    Speaks <- MCSpeaks
    MaxWrites <- MCMaxWrites
    MaxFaults = 0
    Inverters = {i1, i2}
    Fleets <- MCFleets
    Requests <- MCRequests
    PerPanelW <- MCPerPanelW
    MinPanelLimitW = 20
    MaxPanelLimitW = 500
    RawFull = 10000
    NotImplemented = 65535
    NotWritten = NotWritten
    NoWrite = NoWrite
SPECIFICATION Spec
CHECK_DEADLOCK FALSE
INVARIANT
    CacheAuthoritative
