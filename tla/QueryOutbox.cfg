SPECIFICATION FairSpec
CONSTANTS
    Window = 2
    ByteBudget = 2
    BatchSizes = {1, 2}
    MaxExecutions = 2
    MaxEvents = 3
INVARIANTS
    BytesBounded
    SettledSlot
    NoLostWakeup
    DocumentFollows
PROPERTIES
    OnlyClosedAfterClose
    ImplementsStream
    Settles
CHECK_DEADLOCK FALSE
