SPECIFICATION Spec
CONSTANTS
    k1 = k1
    k2 = k2
    h1 = h1
    h2 = h2
    p1 = p1
    p2 = p2
    Keys = {k1, k2}
    Hellos = {h1, h2}
    Payloads = {p1, p2}
    MaxSessions = 2
    MaxFrames = 2
    MaxDamage = 1
INVARIANTS Agreement DeliversPrefix
SYMMETRY Symmetry
CHECK_DEADLOCK FALSE
