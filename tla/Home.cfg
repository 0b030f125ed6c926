\* Three processes and three calls of one stem, with one name to spare.
SPECIFICATION HomeSpec
CONSTANTS
    p1 = p1
    p2 = p2
    p3 = p3
    c1 = c1
    c2 = c2
    c3 = c3
    None = None
    Processes = {p1, p2, p3}
    Calls = {c1, c2, c3}
    MaxAttempts = 1
    Stem <- MCStem
    ProcessOf <- MCProcessOf
SYMMETRY MCSymmetry
INVARIANT
    OneFileEach
PROPERTIES
    KeyOnDisk
    StartsWithKey
    CrowdedOutOnly
    KeepsBook
\* Every process and call comes to its end.
CHECK_DEADLOCK FALSE
