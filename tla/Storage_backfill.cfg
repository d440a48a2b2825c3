SPECIFICATION Spec
CONSTANTS
    Att = {a1, a2}
    Raw = raw
    Size = 2
    ViewSize = 1
    Elsewhere = 2
    EgressLimit = 3
    MaxOps = 2
    MaxCrashes = 1
SYMMETRY Symmetry
INVARIANTS EncryptedOnce
CHECK_DEADLOCK FALSE
