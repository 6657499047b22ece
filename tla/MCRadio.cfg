CONSTANTS
    s1 = s1
    s2 = s2
    Serials <- TwoSerials
    Pans = {"A", "B"}
    Channels = {11, 12}
    RekeyChannels = {0}
    ScanChannels <- MCScanChannels
    ForeignNets <- MCForeignNets
    Kinds = {"scan", "sweep", "add", "replace", "rekey", "channel", "remove", "delete"}
    CommitRounds = 2
    MaxOps = 1
    MaxFaults = 1
    NoNet = NoNet
    NoAsk = NoAsk
    Inv = {s1}
    OnlineWindow = 2
    OfflineDebounce = 2
    ReseenGap = 2
    CoalesceWindow = 2
    SweepEvery = 1
    MaxLate = 1
    Never = Never
SPECIFICATION PartsSpec
CHECK_DEADLOCK FALSE
INVARIANTS
    NoOpEndsParked
    DoneMeansMoved
PROPERTIES
    PersistFollowsAdoption
    OpEnds
    OfflineMeansRearm
    SilenceIsLogged
