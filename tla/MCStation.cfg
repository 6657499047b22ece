CONSTANTS
    s1 = s1
    s2 = s2
    Serials <- OneSerial
    Pans = {"A", "B"}
    Channels = {11, 12}
    RekeyChannels = {0}
    ScanChannels <- MCScanChannels
    ForeignNets <- MCForeignNets
    Kinds = {"scan", "replace", "rekey", "channel"}
    CommitRounds = 1
    MaxOps = 2
    MaxFaults = 1
    NoNet = NoNet
    NoAsk = NoAsk
    e1 = e1
    e2 = e2
    Meters = {e1, e2}
    Wrap = 3
    Rated = 1
    SafetyFactor = 1
    MaxProduced = 3
    MaxTime = 1
    MaxBad = 1
    NoRow = NoRow
    Samples <- MCSamples
    MaxWrites = 1
    Unset = Unset
    UidOrder <- MCUidOrder
    Readings <- MCReadings
    FirstFleets <- MCFirstFleets
    UnitIds = {1, 2, 3}
    Asks <- MCAsks
    RatedW = 0
    MaxChanges = 1
    MaxWriteOps = 1
    NoBanks = NoBanks
    NoLoad = NoLoad
    NoEntry = NoEntry
    h1 = h1
    h2 = h2
    Handlers = {h1, h2}
    Pairer = Pairer
    Main = Main
    Macs = {"A", "B"}
    Firmware = "F"
    Parameters = {"n"}
    MaxInodes = 6
    MaxSets = 3
    MaxMishaps = 1
SPECIFICATION PartsSpec
CHECK_DEADLOCK FALSE
SYMMETRY StationSymmetry
INVARIANTS
    RadioHome
    RestartKeepsNet
    EnergyAccounted
    WriteReadsBack
    FrameRecognised
    BanksAgree
    NoStrayWrite
    SettingsSound
