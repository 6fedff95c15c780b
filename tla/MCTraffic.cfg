SPECIFICATION MCSpec
CONSTANTS
    Users = {u1, u2}
    MaxConns = 2
    Retries = 1
    MaxBytes = 2
    MaxEdits = 1
    MaxFaults = 1
    None = None
    First = u1
INVARIANTS
    NeverOverbooked
    NothingLost
PROPERTIES
    AllBooked
