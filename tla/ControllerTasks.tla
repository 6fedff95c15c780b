--------------------------- MODULE ControllerTasks ---------------------------
(***************************************************************************)
(* How node/controller.go and node/task.go use two instances of Task: the  *)
(* monitor (nodeInfoMonitorPeriodic, Execute = nodeInfoMonitor) and the    *)
(* report (userReportPeriodic, Execute = reportUserTrafficTask).           *)
(*                                                                         *)
(* Main is the goroutine of Controller.Start and Controller.Close.  Body   *)
(* is the call of nodeInfoMonitor that is in progress: Execute never runs  *)
(* beside itself, so one name is enough for the goroutines that run it.    *)
(* It is a caller of the report's Task and, while it holds the monitor's   *)
(* mutex, of its own.                                                      *)
(***************************************************************************)
EXTENDS Naturals, FiniteSets

CONSTANTS
    Main, Body,     \* the two callers
    MTimers,        \* timers of the monitor
    RTimers,        \* timers of the report
    Pulls, Pushes,  \* values of PullInterval and PushInterval (0: not set)
    MaxChanges,     \* bound of the model: number of node changes
    Nobody, NoTimer

ASSUME ControllerTasksAssumption ==
    /\ Main # Body
    /\ {Main, Body} \cap (MTimers \cup RTimers) = {}
    /\ Nobody \notin {Main, Body} \cup MTimers \cup RTimers
    /\ NoTimer \notin MTimers \cup RTimers
    /\ Pulls \subseteq Nat /\ Pushes \subseteq Nat
    /\ MaxChanges \in Nat

VARIABLES
    mRunning, mOwner, mTimer, mPc, mFirst, mStarts,  \* the monitor's Task
    rRunning, rOwner, rTimer, rPc, rFirst, rStarts,  \* the report's Task
    mainAt,     \* what Main does next, or has been doing
    bodyAt,     \* what the monitor's Execute does next
    info,       \* the intervals of the node configuration in hand
    mInterval,  \* nodeInfoMonitorPeriodic.Interval
    rInterval,  \* userReportPeriodic.Interval
    changes,    \* number of node changes handled
    late        \* history: a callback has run the monitor after it was closed

M == INSTANCE Task WITH
        Callers <- {Main, Body}, Timers <- MTimers, Firsts <- {FALSE},
        Fallible <- FALSE, MaxStarts <- MaxChanges + 1,
        running <- mRunning, owner <- mOwner, timer <- mTimer,
        pc <- mPc, first <- mFirst, starts <- mStarts

R == INSTANCE Task WITH
        Callers <- {Main, Body}, Timers <- RTimers, Firsts <- {FALSE},
        Fallible <- FALSE, MaxStarts <- MaxChanges + 1,
        running <- rRunning, owner <- rOwner, timer <- rTimer,
        pc <- rPc, first <- rFirst, starts <- rStarts

control == <<mainAt, bodyAt, info, mInterval, rInterval, changes>>
mvars == <<mRunning, mOwner, mTimer, mPc, mFirst, mStarts>>
rvars == <<rRunning, rOwner, rTimer, rPc, rFirst, rStarts>>
tasksVars == <<mvars, rvars, control, late>>

TasksInit ==
    /\ M!Init
    /\ R!Init
    /\ mainAt = "startMonitor"
    /\ bodyAt = "fetch"
    /\ info \in [pull : Pulls, push : Pushes]
    /\ mInterval = info.pull
    /\ rInterval = info.push
    /\ changes = 0
    /\ late = FALSE

\* A caller is in its own code, not inside a call of Start or Close.
Ready(c) == mPc[c] = "idle" /\ rPc[c] = "idle"

MainCalls(here, next, Call) ==
    /\ mainAt = here
    /\ Ready(Main)
    /\ Call
    /\ mainAt' = next
    /\ UNCHANGED <<bodyAt, info, mInterval, rInterval, changes, late>>

\* startTasks, and later Controller.Close (a reload or the end of the program).
MainStartsMonitor ==
    MainCalls("startMonitor", "startReport", M!CallStart(Main, FALSE) /\ UNCHANGED rvars)
MainStartsReport ==
    MainCalls("startReport", "serving", R!CallStart(Main, FALSE) /\ UNCHANGED mvars)
\* Mutant: Controller.Close forgets the monitor.
MainForgetsMonitor ==
    MainCalls("serving", "closeReport", UNCHANGED <<mvars, rvars>>)

\* Mutant: Controller.Close does not wait for the monitor's Close to return.
MainDoesNotWait ==
    /\ mainAt = "closeReport"
    /\ R!CallClose(Main)
    /\ mainAt' = "closed"
    /\ UNCHANGED <<mvars, bodyAt, info, mInterval, rInterval, changes, late>>

MainClosesMonitor ==
    MainCalls("serving", "closeReport", M!CallClose(Main) /\ UNCHANGED rvars)
MainClosesReport ==
    MainCalls("closeReport", "closed", R!CallClose(Main) /\ UNCHANGED mvars)

MonitorRuns == \E g \in M!Goroutines : M!Executing(g)

\* nodeInfoMonitor up to "Check interval": a request fails, nothing changed,
\* only the users changed, or the change could not be applied.
BodyChangesNothing ==
    /\ MonitorRuns
    /\ bodyAt = "fetch"
    /\ bodyAt' = "return"
    /\ UNCHANGED <<mvars, rvars, mainAt, info, mInterval, rInterval, changes, late>>

\* A new node configuration has been applied: its intervals are looked at.
BodyTakesNode ==
    /\ MonitorRuns
    /\ bodyAt = "fetch"
    /\ changes < MaxChanges
    /\ changes' = changes + 1
    /\ info' \in [pull : Pulls, push : Pushes]
    /\ bodyAt' = "checkPull"
    /\ UNCHANGED <<mvars, rvars, mainAt, mInterval, rInterval, late>>

\* The monitor closes itself: it holds the mutex that Close will wait for.
BodyChecksPull ==
    /\ bodyAt = "checkPull"
    /\ IF mInterval # info.pull /\ info.pull # 0
       THEN /\ mInterval' = info.pull
            /\ M!CallClose(Body)
            /\ bodyAt' = "restartMonitor"
       ELSE /\ bodyAt' = "checkPush"
            /\ UNCHANGED <<mvars, mInterval>>
    /\ UNCHANGED <<rvars, mainAt, info, rInterval, changes, late>>

\* The interval compared is PushInterval, the one stored is PullInterval.
BodyChecksPush ==
    /\ bodyAt = "checkPush"
    /\ Ready(Body)
    /\ IF rInterval # info.push /\ info.push # 0
       THEN /\ rInterval' = info.pull
            /\ R!CallClose(Body)
            /\ bodyAt' = "restartReport"
       ELSE /\ bodyAt' = "return"
            /\ UNCHANGED <<rvars, rInterval>>
    /\ UNCHANGED <<mvars, mainAt, info, mInterval, changes, late>>

\* Mutant: the tasks are closed for the new interval and not started again.
BodyForgetsRestart ==
    /\ bodyAt \in {"restartMonitor", "restartReport"}
    /\ Ready(Body)
    /\ bodyAt' = IF bodyAt = "restartMonitor" THEN "checkPush" ELSE "return"
    /\ UNCHANGED <<mvars, rvars, mainAt, info, mInterval, rInterval, changes, late>>

\* Once Close has returned, Start(false) of the same task.
BodyRestarts ==
    /\ bodyAt \in {"restartMonitor", "restartReport"}
    /\ Ready(Body)
    /\ IF bodyAt = "restartMonitor"
       THEN M!CallStart(Body, FALSE) /\ bodyAt' = "checkPush" /\ UNCHANGED rvars
       ELSE R!CallStart(Body, FALSE) /\ bodyAt' = "return" /\ UNCHANGED mvars
    /\ UNCHANGED <<mainAt, info, mInterval, rInterval, changes, late>>

BodyReturns ==
    /\ bodyAt = "return"
    /\ Ready(Body)
    /\ \E g \in M!Goroutines : M!ExecuteReturns(g)
    /\ bodyAt' = "fetch"
    /\ UNCHANGED <<rvars, mainAt, info, mInterval, rInterval, changes, late>>

\* History: the mutex is taken, and Execute called, though the monitor was closed.
Remember == late' = (late \/ (~mRunning /\ ~MonitorRuns /\ MonitorRuns'))

\* What the two Tasks do by themselves.  The monitor's Execute is the body above.
MCall(c) == M!CallerStep(c) /\ Remember /\ UNCHANGED <<rvars, control>>
RCall(c) == R!CallerStep(c) /\ UNCHANGED <<mvars, control, late>>
MCallback == \E t \in MTimers : M!LockedStep(t) /\ Remember /\ UNCHANGED <<rvars, control>>
RCallback ==
    \E t \in RTimers : (R!LockedStep(t) \/ R!BodyStep(t)) /\ UNCHANGED <<mvars, control, late>>
MFires == \E t \in MTimers : M!TimerFires(t) /\ UNCHANGED <<rvars, control, late>>
RFires == \E t \in RTimers : R!TimerFires(t) /\ UNCHANGED <<mvars, control, late>>

MainStarts == MainStartsMonitor \/ MainStartsReport
MainCloses == MainClosesMonitor \/ MainClosesReport
BodyStep ==
    \/ BodyChangesNothing \/ BodyTakesNode \/ BodyChecksPull
    \/ BodyChecksPush \/ BodyRestarts \/ BodyReturns

\* Main has closed both tasks and every goroutine has ended.
Ended ==
    /\ mainAt = "closed"
    /\ M!InFlight = {} /\ R!InFlight = {}
    /\ Ready(Main) /\ Ready(Body)
    /\ UNCHANGED tasksVars

TasksNext ==
    \/ MainStarts \/ MainCloses \/ BodyStep \/ Ended
    \/ \E c \in {Main, Body} : MCall(c) \/ RCall(c)
    \/ MCallback \/ RCallback \/ MFires \/ RFires

(***************************************************************************)
(* As in Task, but of the callbacks of a task only some need make progress *)
(* (weaker than what the code has).  Controller.Start goes on by itself    *)
(* and Controller.Close is finished once begun, but nothing makes the      *)
(* program begin it.                                                       *)
(***************************************************************************)
TasksFairness ==
    /\ WF_tasksVars(MainStarts) /\ WF_tasksVars(MainClosesReport) /\ WF_tasksVars(BodyStep)
    /\ \A c \in {Main, Body} : SF_tasksVars(MCall(c)) /\ SF_tasksVars(RCall(c))
    /\ WF_tasksVars(MCallback) /\ WF_tasksVars(RCallback) /\ WF_tasksVars(MFires) /\ WF_tasksVars(RFires)

TasksSpec == TasksInit /\ [][TasksNext]_tasksVars
TasksFairSpec == TasksSpec /\ TasksFairness

-----------------------------------------------------------------------------
\* The types, and the monitor's calls: whatever the node configuration sets, the
\* monitor's interval is one of PullInterval's, and Start and Close of the tasks
\* are called, and have returned, while the monitor holds its own mutex.
TasksTypeOK ==
    /\ M!TypeOK
    /\ R!TypeOK
    /\ mainAt \in {"startMonitor", "startReport", "serving", "closeReport", "closed"}
    /\ bodyAt \in {"fetch", "checkPull", "restartMonitor", "checkPush", "restartReport", "return"}
    /\ info \in [pull : Pulls, push : Pushes]
    /\ mInterval \in Pulls
    /\ rInterval \in Pulls \cup Pushes
    /\ changes \in 0..MaxChanges
    /\ late \in BOOLEAN
    /\ bodyAt # "fetch" \/ ~Ready(Body) => MonitorRuns

\* Controller.Close leaves no report running: the monitor is closed first, and
\* that waits for a run in progress, so no restart of the report is left to come.
\* The exception, by name: late, a callback of the monitor that had passed its
\* test (task.go:28) runs it after all, and may start the report again.
CloseStopsReport ==
    mainAt = "closed" /\ Ready(Main) /\ rRunning => late

\* While the controller is not being closed, traffic is reported again and
\* again, whatever restarts of the report race with its own timers.
ReportKeepsRunning ==
    <>[](mainAt = "serving") => []<>(\E g \in R!Goroutines : R!Executing(g))

\* Controller.Close comes to an end: it waits for a monitor in progress, which
\* may itself be waiting for the report.
CloseReturns ==
    mainAt = "closeReport" ~> (mainAt = "closed" /\ Ready(Main))

\* task.go:8 "Task is a task that runs periodically": while the controller is
\* not being closed, the node monitor runs again and again.
MonitorRunsPeriodically ==
    <>[](mainAt = "serving") => []<>(MonitorRuns) /\ []<>(~MonitorRuns)

\* After Controller.Close the monitor dies out: at most a callback that had
\* passed its test runs once more, and it arms no timer.  (That last run may
\* restart the report, which then runs on: nothing closes it again.)
ClosedMonitorDiesOut ==
    <>[](mainAt = "closed") => <>[](M!InFlight = {})
=============================================================================
