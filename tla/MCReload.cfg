SPECIFICATION FairSpec
CONSTANTS
    Reloads = {r1, r2}
    Contents <- MCContents
    First <- MCFirst
    Slices = {s1, s2, s3}
    Boxes = {b1, b2, b3}
    MaxEdits = 2
    Faults = 1
    None = None
CHECK_DEADLOCK FALSE
INVARIANTS PanicsHaveCause QuietServesDisk NothingLeftBehind
PROPERTIES Settles
