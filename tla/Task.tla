-------------------------------- MODULE Task --------------------------------
(***************************************************************************)
(* common/task/task.go: a function that the program runs periodically.     *)
(*                                                                         *)
(* A Task keeps a mutex (access), the flag running and the pointer timer.  *)
(* Every read and write of running and timer is made under the mutex, so a *)
(* critical section that does not call Execute is one atomic step, taken   *)
(* when the mutex is free.  Execute is called with the mutex HELD and      *)
(* takes time: from ExecuteBegin to ExecuteReturns owner is the goroutine  *)
(* that runs it.  Goroutines are the callers of Start and Close and one    *)
(* callback per timer of time.AfterFunc; a Timers element stands for the   *)
(* timer and for the goroutine it starts when it fires.                    *)
(***************************************************************************)
EXTENDS Naturals, FiniteSets

CONSTANTS
    Callers,    \* goroutines that call Start and Close
    Timers,     \* timers made by time.AfterFunc
    Firsts,     \* the arguments "first" the program passes to Start
    Fallible,   \* TRUE iff Execute may return an error
    MaxStarts,  \* bound of the model: number of calls of Start
    Nobody,     \* the mutex is not held
    NoTimer     \* the nil timer pointer

ASSUME TaskAssumption ==
    /\ Callers \cap Timers = {}
    /\ Nobody \notin Callers \cup Timers
    /\ NoTimer \notin Timers
    /\ Firsts \subseteq BOOLEAN
    /\ Fallible \in BOOLEAN
    /\ MaxStarts \in Nat

VARIABLES
    running,  \* Task.running
    owner,    \* the goroutine that holds Task.access while Execute runs
    timer,    \* Task.timer: the last timer armed, even after it has fired
    pc,       \* where each goroutine is
    first,    \* the argument of checkedExecute: true in a timer callback
    starts    \* number of calls of Start so far

vars == <<running, owner, timer, pc, first, starts>>

Goroutines == Callers \cup Timers

CallerPC == {"idle", "start", "check", "enter", "execute", "failed", "close"}
TimerPC  == {"free", "armed", "check", "enter", "execute"}

Init ==
    /\ running = FALSE
    /\ owner = Nobody
    /\ timer = NoTimer
    /\ pc = [g \in Goroutines |-> IF g \in Callers THEN "idle" ELSE "free"]
    /\ first = [g \in Goroutines |-> TRUE]
    /\ starts = 0

Goto(g, l) == pc' = [pc EXCEPT ![g] = l]

\* Where goroutine g is once its call, or its callback, has returned.
Done(g) == IF g \in Callers THEN "idle" ELSE "free"

\* The tail of checkedExecute: nothing if the task was closed meanwhile, else
\* t.timer = time.AfterFunc(...), whatever t.timer pointed to before.
ArmAndReturn(g) ==
    \/ /\ ~running
       /\ Goto(g, Done(g))
       /\ UNCHANGED timer
    \/ /\ running
       /\ \E t \in Timers :
            /\ pc[t] = "free"
            /\ timer' = t
            /\ pc' = [pc EXCEPT ![g] = Done(g), ![t] = "armed"]

CallStart(c, f) ==
    /\ pc[c] = "idle"
    /\ starts < MaxStarts
    /\ starts' = starts + 1
    /\ first' = [first EXCEPT ![c] = f]
    /\ Goto(c, "start")
    /\ UNCHANGED <<running, owner, timer>>

\* The first critical section of Start.
StartLocked(c) ==
    /\ pc[c] = "start"
    /\ owner = Nobody
    /\ running' = TRUE
    /\ Goto(c, IF running THEN "idle" ELSE "check")
    /\ UNCHANGED <<owner, timer, first, starts>>

\* hasClosed: the mutex is taken for the test alone, and released after it.
HasClosed(g) ==
    /\ pc[g] = "check"
    /\ owner = Nobody
    /\ Goto(g, IF running THEN "enter" ELSE Done(g))
    /\ UNCHANGED <<running, owner, timer, first, starts>>

\* Mutant: Execute is called after the mutex has been released.
ExecuteBeginUnlocked(g) ==
    /\ pc[g] = "enter"
    /\ first[g]
    /\ owner' = g
    /\ Goto(g, "execute")
    /\ UNCHANGED <<running, timer, first, starts>>

\* Mutant: the next run is armed before Execute, and once more after it.
ExecuteBeginArms(g) ==
    /\ pc[g] = "enter"
    /\ owner = Nobody
    /\ first[g]
    /\ owner' = g
    /\ \E t \in Timers :
         pc[t] = "free" /\ timer' = t /\ pc' = [pc EXCEPT ![g] = "execute", ![t] = "armed"]
    /\ UNCHANGED <<running, first, starts>>

\* The mutex is taken again, and Execute is called without a new test.
ExecuteBegin(g) ==
    /\ pc[g] = "enter"
    /\ owner = Nobody
    /\ first[g]
    /\ owner' = g
    /\ Goto(g, "execute")
    /\ UNCHANGED <<running, timer, first, starts>>

\* Mutant: with first = false, checkedExecute returns.
SkipFirstReturns(g) ==
    /\ pc[g] = "enter"
    /\ owner = Nobody
    /\ ~first[g]
    /\ Goto(g, Done(g))
    /\ UNCHANGED <<running, owner, timer, first, starts>>

\* With first = false, checkedExecute only arms the timer.
SkipFirst(g) ==
    /\ pc[g] = "enter"
    /\ owner = Nobody
    /\ ~first[g]
    /\ ArmAndReturn(g)
    /\ UNCHANGED <<running, owner, first, starts>>

\* Mutant: the return for a task closed meanwhile leaves the mutex locked.
ExecuteReturnsLocked(g) ==
    /\ pc[g] = "execute"
    /\ owner' = IF running THEN Nobody ELSE owner
    /\ ArmAndReturn(g)
    /\ UNCHANGED <<running, first, starts>>

ExecuteReturns(g) ==
    /\ pc[g] = "execute"
    /\ owner' = Nobody
    /\ ArmAndReturn(g)
    /\ UNCHANGED <<running, first, starts>>

\* Mutant: a failed callback goes on as a failed Start does.
ExecuteFailsAsStart(g) ==
    /\ Fallible
    /\ pc[g] = "execute"
    /\ owner' = Nobody
    /\ running' = FALSE
    /\ Goto(g, "failed")
    /\ UNCHANGED <<timer, first, starts>>

\* Mutant: the flag is not reset when Execute fails.
ExecuteFailsRunning(g) ==
    /\ Fallible
    /\ pc[g] = "execute"
    /\ owner' = Nobody
    /\ Goto(g, IF g \in Callers THEN "failed" ELSE "free")
    /\ UNCHANGED <<running, timer, first, starts>>

\* Mutant: the mutex stays locked when Execute fails.
ExecuteFailsLocked(g) ==
    /\ Fallible
    /\ pc[g] = "execute"
    /\ running' = FALSE
    /\ Goto(g, IF g \in Callers THEN "failed" ELSE "free")
    /\ UNCHANGED <<owner, timer, first, starts>>

\* Execute returned an error: the task stops; Start will lock once more.
ExecuteFails(g) ==
    /\ Fallible
    /\ pc[g] = "execute"
    /\ owner' = Nobody
    /\ running' = FALSE
    /\ Goto(g, IF g \in Callers THEN "failed" ELSE "free")
    /\ UNCHANGED <<timer, first, starts>>

\* The last critical section of a Start whose Execute failed.
StartFailed(c) ==
    /\ pc[c] = "failed"
    /\ owner = Nobody
    /\ running' = FALSE
    /\ Goto(c, "idle")
    /\ UNCHANGED <<owner, timer, first, starts>>

CallClose(c) ==
    /\ pc[c] = "idle"
    /\ Goto(c, "close")
    /\ UNCHANGED <<running, owner, timer, first, starts>>

\* Close stops the timer it knows of; a callback that has started goes on.
CloseLocked(c) ==
    /\ pc[c] = "close"
    /\ owner = Nobody
    /\ running' = FALSE
    /\ timer' = NoTimer
    /\ pc' = [g \in Goroutines |->
                IF g = c THEN "idle"
                ELSE IF g = timer /\ pc[g] = "armed" THEN "free" ELSE pc[g]]
    /\ UNCHANGED <<owner, first, starts>>

TimerFires(t) ==
    /\ pc[t] = "armed"
    /\ Goto(t, "check")
    /\ UNCHANGED <<running, owner, timer, first, starts>>

\* What a goroutine does by itself, once called or fired.
LockedStep(g) == HasClosed(g) \/ ExecuteBegin(g) \/ SkipFirst(g)
CallerStep(c) == StartLocked(c) \/ StartFailed(c) \/ CloseLocked(c) \/ LockedStep(c)
BodyStep(g)   == ExecuteReturns(g) \/ ExecuteFails(g)

Next ==
    \/ \E c \in Callers : CallClose(c) \/ CallerStep(c)
    \/ \E c \in Callers, f \in Firsts : CallStart(c, f)
    \/ \E t \in Timers : TimerFires(t) \/ LockedStep(t)
    \/ \E g \in Goroutines : BodyStep(g)

(***************************************************************************)
(* Timers fire, Execute returns (its requests time out) and sync.Mutex     *)
(* hands itself to a waiter after 1 ms of starvation: every waiter gets    *)
(* it, which is strong fairness of the steps that lock.                    *)
(***************************************************************************)
Fairness ==
    /\ \A c \in Callers : SF_vars(CallerStep(c))
    /\ \A t \in Timers : SF_vars(LockedStep(t)) /\ WF_vars(TimerFires(t))
    /\ \A g \in Goroutines : WF_vars(BodyStep(g))

Spec == Init /\ [][Next]_vars
FairSpec == Spec /\ Fairness

-----------------------------------------------------------------------------
\* The types, and which goroutine can be where: only a Start can have failed,
\* and a timer's callback always executes (checkedExecute(true)).
TypeOK ==
    /\ running \in BOOLEAN
    /\ owner \in Goroutines \cup {Nobody}
    /\ timer \in Timers \cup {NoTimer}
    /\ pc \in [Goroutines -> CallerPC \cup TimerPC]
    /\ \A c \in Callers : pc[c] \in CallerPC
    /\ \A t \in Timers : pc[t] \in TimerPC
    /\ first \in [Goroutines -> BOOLEAN]
    /\ \A t \in Timers : first[t]
    /\ starts \in 0..MaxStarts

Executing(g) == pc[g] = "execute"

\* Execute never runs concurrently with itself, however callers and leftover
\* timers interleave: nodeInfoMonitor and reportUserTrafficTask rely on it,
\* they use no lock of their own against themselves.
ExecuteAlone ==
    \A g, h \in Goroutines : Executing(g) /\ Executing(h) => g = h

\* The goroutines that will run Execute or arm a timer, if left alone.
InFlight == {g \in Goroutines : pc[g] \in {"armed", "check", "enter", "execute"}}

\* A task that says it is running has somebody who will run it again: the
\* flag never stays true with no timer armed and nobody on the way to arm one,
\* which would make Start return early for ever on a task that never runs.
RunningIsAlive == running => InFlight # {}

\* Each call of Start feeds at most one chain of timers and callbacks.
ChainsBounded == Cardinality(InFlight) <= starts

\* A task that is running is executed again, or is closed or fails.
RunsAgain == running ~> (~running \/ \E g \in Goroutines : Executing(g))

\* A task that stays closed dies out: every timer and callback of it, the
\* leftover ones included, ends without arming another.
ClosedDiesOut == <>[](~running) => <>[](InFlight = {})

\* Close and Start return: their callers are never left waiting for the mutex.
CallsReturn == \A c \in Callers : [](pc[c] # "idle" => <>(pc[c] = "idle"))
=============================================================================
