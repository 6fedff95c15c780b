SPECIFICATION Spec
CONSTANTS
    Tags = {"t1", "t2"}
    CoreNames = {"x", "s"}
    TypeOf <- MCTypeOf
    Setups <- MCSetups
    Infos <- MCInfos
    Configs <- MCConfigs
    Users = {u1, u2}
    MaxChanges = 2
    Faults = 2
    None = None
CHECK_DEADLOCK FALSE
INVARIANTS ServesAsAsked NoStrayListener
