CONSTANTS
    Codes <- MCCodes
    Rules <- MCRules
    DefaultRange <- MCDefaultRange
    Writeable <- MCCodes
    NoRange = NoRange
    Handlers = {h1, h2}
    Uids = {u1}
    Bases <- MCBases
    Overlays <- MCOverlays
    NoBase = NoBase
    NoOverlay = NoOverlay
    NoJob = NoJob
    MaxConcurrent = 2
SPECIFICATION Spec
CHECK_DEADLOCK FALSE
SYMMETRY Symmetry
INVARIANTS
    NeverRaces
