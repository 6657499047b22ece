CONSTANTS
    c1 = c1
    c2 = c2
    i1 = i1
    i2 = i2
    Clients = {c1, c2}
    Speaks <- MCSpeaks
    MaxWrites <- MCMaxWrites
    MaxFaults = 1
    Inverters = {i1, i2}
    Fleets <- MCFleets
    Requests <- MCRequests
    PerPanelW <- MCPerPanelW
    MinPanelLimitW = 20
    MaxPanelLimitW = 500
    RawFull = 10000
    NotImplemented = 65535
    NotWritten = NotWritten
    NoWrite = NoWrite
    Capped = {i1}
    Watts = {0, 100, 200}
    MinCapW = 20
    MaxCapW = 500
    Tolerance = 2
    ReadQueueCap = 1
    DownCap = 3
    MaxMoves = 2
    Nobody = Nobody
SPECIFICATION PartsSpec
CHECK_DEADLOCK FALSE
INVARIANTS
    LeaseCovered
PROPERTIES
    LeaseSpec
    CapConverges
