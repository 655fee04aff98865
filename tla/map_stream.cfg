SPECIFICATION Spec
CONSTANTS
    Spot = {s1}
    Location = {l1, l2}
    Capacity = 2
    Conn = {c1, c2}
    FilterKey = {k1, k2}
    NoKey = NoKey
    Retention = 1
    MaxHold = 1
    MaxRevision = 3
    MaxChanges = 1
    Horizon = 2
SYMMETRY Symmetry
INVARIANTS PageShowsStore OneFilter
