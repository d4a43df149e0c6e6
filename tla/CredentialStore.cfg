CONSTANTS
    Records = {a, b}
    Forms = {f}
    Passwords = {p, q}
    None = None
    Keys = {k1, k2, k3}
    NoKey = NoKey
    Readers = {r1}
    Absent = Absent
    Cipher = Cipher
    MaxFaults = 3
    OpenSpansModeChange = FALSE
SPECIFICATION FairSpec
INVARIANTS
    StoreInv
    CacheFresh
PROPERTIES
    VaultKept
    RecoverySettles
