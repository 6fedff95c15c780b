SPECIFICATION FairSpec
CONSTANTS
    Conns = {k1, k2, k3}
    Users = {u1}
    IPs = {a1, a2, a3}
    Maps = {m1}
    Kinds = {"tcp", "udp"}
    Configs <- Both
    MaxBusy = 1
    MaxClock = 1
    MaxEntry = 6
    Absent = Absent
    NoMap = NoMap
INVARIANTS
    CountCoversLive LiveIpOnRecord IpsWithinLimit RecordsWithinLimit
PROPERTIES
    IsQuota IpsGivenBack
