CONSTANTS
    Tabs = {a, b}
    MaxRequests = 2
    MaxSpawns = 1
    None = None
SPECIFICATION FairSpec
INVARIANTS
    BrowseInv
    StoppedNotDelivered
    CancelsForStopped
PROPERTIES
    BrowseSettles
CHECK_DEADLOCK FALSE
