SPECIFICATION Spec
CONSTANTS
    Ids = {d1, d2}
    Conns = {c1}
    All = All
    Targets = {{c1}, {All}}
    Fences = {f1}
    MaxSessions = 2
    MaxPerConnection = 1
    MaxActive = 1
    Monitors = 1
    MaxOwners = 2
    MaxShutdowns = 0
    MaxPanics = 0
INVARIANTS
    FenceQuiet
    ClosedLeavesNothing
    ResourcesHeld
PROPERTIES
    OpenMissesNoFence
SYMMETRY IdSymmetry
CHECK_DEADLOCK FALSE
