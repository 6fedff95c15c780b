SPECIFICATION TasksFairSpec
CONSTANTS
    Main = Main
    Body = Body
    MTimers = {m1, m2}
    RTimers = {r1, r2, r3}
    Pulls = {1}
    Pushes = {0, 1, 2}
    MaxChanges = 1
    Nobody = Nobody
    NoTimer = NoTimer
INVARIANTS
    CloseStopsReport
PROPERTIES
    ReportKeepsRunning
    CloseReturns
    ClosedMonitorDiesOut
