SPECIFICATION Spec
CONSTANTS
    Refreshers = {r1}
    Pooled = TRUE
    Shapes = {"script", "cursor", "bound"}
    MaxExecutions = 2
    MaxRefreshes = 1
    MaxActions = 1
    MaxStops = 1
    MaxCloses = 0
INVARIANTS
    IdleIsTrue
    StatusTellsCommit
CHECK_DEADLOCK FALSE
