SPECIFICATION FairSpec
CONSTANTS
    Callers = {c1, c2}
    Timers = {t1, t2, t3}
    Firsts = {TRUE, FALSE}
    Fallible = TRUE
    MaxStarts = 2
    Nobody = Nobody
    NoTimer = NoTimer
INVARIANTS
    TypeOK
    ExecuteAlone
    RunningIsAlive
    ChainsBounded
PROPERTIES
    RunsAgain
    ClosedDiesOut
    CallsReturn
