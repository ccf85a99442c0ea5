\* The store has room for every key: two calls, with the same key or two.
SPECIFICATION Spec
CONSTANTS
    Clients = {c1, c2}
    Keys = {k1, k2}
    Bodies = {b1, b2}
    MaxEntries = 2
    MaxRetries = 1
    None = None
SYMMETRY Symmetry
INVARIANTS
    AtMostOnce
    OwnVerdict
    ClaimIsHeld
CHECK_DEADLOCK FALSE
