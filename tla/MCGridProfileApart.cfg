CONSTANTS
    Codes <- MCCodes
    Rules <- MCRules
    DefaultRange <- MCDefaultRange
    Writeable <- MCCodes
    NoRange = NoRange
    Handlers = {h1}
    Uids = {u1}
    Bases <- MCBases
    Overlays <- MCOverlaysApart
    NoBase = NoBase
    NoOverlay = NoOverlay
    NoJob = NoJob
    MaxConcurrent = 1
SPECIFICATION Spec
CHECK_DEADLOCK FALSE
SYMMETRY Symmetry
INVARIANTS
    OverlayNeverWidensBase
