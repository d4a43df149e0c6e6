SPECIFICATION FairSpec
CONSTANTS
    Tabs = {a}
    Analyses = {1}
    Applies = {2}
    Statements = 1
    MaxSaves = 1
    Overruns = TRUE
    None = None
INVARIANTS
    MutationInv
PROPERTIES
    EverythingSettles
CHECK_DEADLOCK FALSE
