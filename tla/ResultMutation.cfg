SPECIFICATION Spec
CONSTANTS
    Tabs = {a}
    Analyses = {1, 3}
    Applies = {2}
    Statements = 1
    MaxSaves = 0
    Overruns = FALSE
    None = None
INVARIANTS
    SocketHandedOnClean
    CancelsForStopped
PROPERTIES
    LedgerKept
CHECK_DEADLOCK FALSE
