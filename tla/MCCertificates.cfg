SPECIFICATION FairSpec
CONSTANTS
    Tags = {1, 2}
    Files = {"f", "{}"}
    UserFiles = {"u"}
    Modes <- MCModes
    Layouts <- MCLayouts
    MaxPairs = 6
    MaxChanges = 1
    Faults = 1
    Crashes = 1
CHECK_DEADLOCK FALSE
INVARIANTS PairMatches
PROPERTIES DueIsRenewed
