SPECIFICATION Spec
CONSTANTS
    Conns = {k1, k2}
    Users = {u1}
    IPs = {a1, a2}
    Maps = {m1, m2}
    Kinds = {"tcp", "udp"}
    Configs <- Tight
    MaxBusy = 3
    MaxClock = 0
    MaxEntry = 2
    Absent = Absent
    NoMap = NoMap
SYMMETRY Symmetry
INVARIANTS
    TypeOK
    CountInRange
