SPECIFICATION TasksFairSpec
CHECK_DEADLOCK FALSE
CONSTANTS
    Main = Main
    Body = Body
    MTimers = {m1, m2}
    RTimers = {r1, r2, r3}
    Pulls = {1,2}
    Pushes = {1}
    MaxChanges = 1
    Nobody = Nobody
    NoTimer = NoTimer
PROPERTIES
    MonitorRunsPeriodically
