SPECIFICATION FairSpec
CONSTANTS
    Refreshers = {r1}
    Pooled = FALSE
    Shapes = {"script", "cursor", "bound"}
    MaxExecutions = 2
    MaxRefreshes = 0
    MaxActions = 1
    MaxStops = 2
    MaxCloses = 1
INVARIANTS
    AcceptedStopUndoes
    NothingLeft
PROPERTIES
    CleanupSparesUser
    NoCleanupAfterClose
    CloseCompletes
CHECK_DEADLOCK FALSE
