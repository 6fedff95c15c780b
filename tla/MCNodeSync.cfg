SPECIFICATION SyncFairSpec
CHECK_DEADLOCK FALSE
CONSTANTS
    Nodes = {n1, n2}
    Uuids = {u1, u2}
    Speeds = {0, 1, 2}
    Named = FALSE
    Faults = {"node", "users", "cert", "addNode", "addUsers", "delUsers"}
    MaxFaults = 2
    MaxEdits = 2
    None = None
INVARIANTS
    RunsInfo
    NobodyWithoutLimiter
    ServesUserList
PROPERTIES
    Converges
