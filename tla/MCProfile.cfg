CONSTANTS
    Codes <- MCCodes
    Rules <- MCRules
    DefaultRange <- MCDefaultRange
    Writeable <- MCCodes
    NoRange = NoRange
    Handlers = {h1, h2}
    Uids = {u1, u2}
    Bases <- MCBases
    Overlays <- MCOverlays
    NoBase = NoBase
    NoOverlay = NoOverlay
    NoJob = NoJob
    MaxConcurrent = 1
    f1 = f1
    p1 = p1
    Fleet = {f1}
    Setters = {p1}
    Legs = {1, 2}
    ChanCap = 1
    Absent = Absent
    Shown = {i1}
    Browsers = {b1}
    OnlineWindow = 1
    QueueCap = 1
    MaxEnvelopes = 3
    Unknown = Unknown
    Inverters = {"e1", "e2"}
    Family <- MCFamily
    Caster = "DS3"
    Selects = {"g1"}
    BaseValues = {1, 2}
    OverlayValues = {3}
    Foreign = 9
    NoValue = 0
    MaxRequests = 1
SPECIFICATION PartsSpec
CHECK_DEADLOCK FALSE
SYMMETRY Symmetry
INVARIANTS
    TypeOK
    DesiredCoherent
    EnvelopeKept
    StoredIsReconciled
    OneUncancelledJob
    FleetRowIsLast
    SilentOnlyIfCancelled
    NoJobStarves
    ClosedOnce
    SubscriberCurrent
    DashboardCurrent
    PushSettles
