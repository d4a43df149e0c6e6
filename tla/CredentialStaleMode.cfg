CONSTANTS
    Records = {a, b}
    Forms = {f}
    Passwords = {p, q}
    None = None
    Keys = {k1, k2, k3}
    NoKey = NoKey
    Readers = {r1}
    Absent = Absent
    Cipher = Cipher
    MaxFaults = 1
    OpenSpansModeChange = TRUE
SPECIFICATION Spec
INVARIANT CacheFresh
