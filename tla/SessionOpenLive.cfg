SPECIFICATION FairSpec
CONSTANTS
    Ids = {d1}
    Conns = {c1}
    All = All
    Targets = {{c1}, {All}}
    Fences = {f1}
    MaxSessions = 2
    MaxPerConnection = 2
    MaxActive = 1
    Monitors = 0
    MaxOwners = 2
    MaxShutdowns = 1
    MaxPanics = 1
INVARIANTS
    ShutdownLeavesNothing
PROPERTIES
    NoWaitCircle
CHECK_DEADLOCK FALSE
