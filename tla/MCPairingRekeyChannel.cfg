CONSTANTS
    s1 = s1
    s2 = s2
    Serials <- OneSerial
    Pans = {"A", "B"}
    Channels = {11, 12}
    RekeyChannels = {12}
    ScanChannels <- MCScanChannels
    ForeignNets <- MCForeignNets
    Kinds = {"rekey"}
    CommitRounds = 3
    MaxOps = 1
    MaxFaults = 0
    NoNet = NoNet
    NoAsk = NoAsk
SPECIFICATION Spec
CHECK_DEADLOCK FALSE
INVARIANTS
    RestartKeepsNet
