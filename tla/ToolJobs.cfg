CONSTANTS
    Attempts = {a1}
    Conns = {c1, c2}
    Global = Global
    Nobody = Nobody
    Kinds = {"Backup", "Restore"}
    MaxActive = 1
    MaxPermits = 1
    MaxChanges = 1
SPECIFICATION FairSpec
INVARIANTS
    JobsInv
    FenceNotStuck
    EndTold
    JobFenceQuiet
    RestoreExclusive
PROPERTIES
    EndStays
    CancelEnds
CHECK_DEADLOCK FALSE
