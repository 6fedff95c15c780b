SPECIFICATION Spec
CONSTANTS
    Conns = {k1, k2}
    Users = {u1}
    Limiters = {l1, l2, l3}
    Limits = {0, 2}
    NodeLimits = {0, 1}
    ConnLimit = 2
    Chunks = 2
    MaxChanges = 2
    None = None
SYMMETRY Symmetry
CHECK_DEADLOCK FALSE
INVARIANTS PlacesMatch OneBucket LimitedInForce StreamKept
