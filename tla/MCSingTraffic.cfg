SPECIFICATION MCSpec
CONSTANTS
    k1 = k1
    Conns = {k1, k2}
    NumUsers = 2
    Report = Report
    MaxBytes = 2
    None = None
CHECK_DEADLOCK FALSE
INVARIANTS Accounted
PROPERTIES AllReported
