CONSTANTS
    Requests = {r1, r2}
    Casts = {c1, c2}
    MaxInverters = 2
    NoRequest = NoRequest
    MaxPorts = 2
    MaxModemReopens = 1
    MaxFrames = 2
    MaxChunks = 1
    Nobody = Nobody
    Units = {u1}
    Broadcast = Broadcast
    ResponseTTL = 2
    DroppingTimeout = 1
    MaxParts = 3
    MaxQueries = 3
    Nothing = Nothing
    Silence = 3
    Interval = 2
    Cooldown = 2
    MaxRecoverBackoff = 7
    MaxConns = 3
    OutboundCap = 1
    PubCap = 1
    MaxMade = 1
    NoConn = NoConn
SPECIFICATION PartsSpec
CHECK_DEADLOCK FALSE
INVARIANTS
    TypeOK
    MutualExclusion
    PreemptedWithinOneSend
    PauseAccounting
    AbortReachesRunningOp
    RadioShared
    RepliesAttributed
    WatchdogPaced
    LinkSound
PROPERTIES
    RequestsAnswered
    PollerNotStarved
