SPECIFICATION Spec
CONSTANTS
    Refreshers = {r1}
    Pooled = FALSE
    Shapes = {"script"}
    MaxExecutions = 2
    MaxRefreshes = 0
    MaxActions = 1
    MaxStops = 0
    MaxCloses = 0
INVARIANTS
    InsideIsInside
CHECK_DEADLOCK FALSE
