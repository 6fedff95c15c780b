---------------------------- MODULE MonitorProofs ----------------------------
(***************************************************************************)
(* Theorems about the monitor of a controller: about Task, which runs it   *)
(* periodically, for every set of callers and timers, and about NodeSync,  *)
(* which is what it runs, for every set of nodes, users and limits and for *)
(* any number of changes and failures.  NodeSync has one monitor at a time *)
(* because Execute runs alone (ExecuteRunsAlone).                          *)
(***************************************************************************)
EXTENDS Task, NodeSync, TLAPS, FiniteSetTheorems

\* The mutex is held exactly by the goroutine that is inside Execute.
OwnerExecutes == \A g \in Goroutines : Executing(g) <=> owner = g

\* A type-correct state in which the mutex and the flag mean what they say.
IInv == TypeOK /\ OwnerExecutes /\ RunningIsAlive

\* The initial state satisfies the inductive invariant.
LEMMA InitIInv == Init => IInv
  <1> SUFFICES ASSUME Init PROVE IInv OBVIOUS
  <1> USE TaskAssumption DEF Init, Goroutines
  <1>1. TypeOK
    <2>1. \A t \in Timers : first[t] BY Zenon
    <2>2. pc \in [Goroutines -> CallerPC \cup TimerPC] BY DEF CallerPC, TimerPC
    <2>3. /\ \A c \in Callers : pc[c] \in CallerPC
          /\ \A t \in Timers : pc[t] \in TimerPC
      BY DEF CallerPC, TimerPC
    <2>4. first \in [Goroutines -> BOOLEAN] OBVIOUS
    <2>5. /\ running \in BOOLEAN
          /\ owner \in Goroutines \cup {Nobody}
          /\ timer \in Timers \cup {NoTimer}
      OBVIOUS
    <2>6. starts \in 0..MaxStarts OBVIOUS
    <2> QED BY <2>1, <2>2, <2>3, <2>4, <2>5, <2>6, Zenon DEF TypeOK
  <1>2. OwnerExecutes BY DEF OwnerExecutes, Executing
  <1>3. RunningIsAlive BY DEF RunningIsAlive
  <1> QED BY <1>1, <1>2, <1>3 DEF IInv

\* The tail of checkedExecute by goroutine g, which gives the mutex back.
LEMMA ArmKeepsIInv ==
    ASSUME IInv, NEW g \in Goroutines, ArmAndReturn(g),
           pc[g] \in {"enter", "execute"}, owner \in {Nobody, g}, owner' = Nobody,
           UNCHANGED <<running, first, starts>>
    PROVE  IInv'
  <1> USE TaskAssumption DEF Goroutines, IInv, TypeOK, CallerPC, TimerPC
  <1>1. CASE ~running /\ Goto(g, Done(g)) /\ UNCHANGED timer
    <2>1. TypeOK' BY <1>1 DEF Goto, Done
    <2>2. OwnerExecutes'
      BY <1>1 DEF Goto, Done, OwnerExecutes, Executing
    <2>3. RunningIsAlive' BY <1>1 DEF RunningIsAlive
    <2> QED BY <2>1, <2>2, <2>3
  <1>2. CASE \E t \in Timers :
               /\ running
               /\ pc[t] = "free"
               /\ timer' = t
               /\ pc' = [pc EXCEPT ![g] = Done(g), ![t] = "armed"]
    <2> PICK t \in Timers :
               /\ running
               /\ pc[t] = "free"
               /\ timer' = t
               /\ pc' = [pc EXCEPT ![g] = Done(g), ![t] = "armed"]
      BY <1>2
    <2>1. TypeOK' BY DEF Done
    <2>2. OwnerExecutes' BY DEF Done, OwnerExecutes, Executing
    <2>3. t \in InFlight' BY DEF InFlight
    <2>4. RunningIsAlive' BY <2>3 DEF RunningIsAlive
    <2> QED BY <2>1, <2>2, <2>4
  <1> QED BY <1>1, <1>2 DEF ArmAndReturn

\* Every step of the specification preserves the inductive invariant.
LEMMA NextIInv == IInv /\ [Next]_vars => IInv'
  <1> SUFFICES ASSUME IInv, [Next]_vars PROVE IInv' OBVIOUS
  <1> USE TaskAssumption DEF Goroutines, IInv, TypeOK, CallerPC, TimerPC, Goto,
          OwnerExecutes, Executing
  <1>1. ASSUME NEW c \in Callers, NEW f \in Firsts, CallStart(c, f) PROVE IInv'
    <2>1. InFlight' = InFlight BY <1>1 DEF CallStart, InFlight
    <2> QED BY <1>1, <2>1 DEF CallStart, RunningIsAlive
  <1>2. ASSUME NEW c \in Callers, StartLocked(c) PROVE IInv'
    <2>1. CASE running
      <3>1. InFlight' = InFlight BY <1>2, <2>1 DEF StartLocked, InFlight
      <3> QED BY <1>2, <2>1, <3>1 DEF StartLocked, RunningIsAlive
    <2>2. CASE ~running
      <3>1. c \in InFlight' BY <1>2, <2>2 DEF StartLocked, InFlight
      <3> QED BY <1>2, <2>2, <3>1 DEF StartLocked, RunningIsAlive
    <2> QED BY <2>1, <2>2
  <1>3. ASSUME NEW g \in Goroutines, HasClosed(g) PROVE IInv'
    <2>1. CASE running
      <3>1. InFlight' = InFlight BY <1>3, <2>1 DEF HasClosed, InFlight
      <3> QED BY <1>3, <2>1, <3>1 DEF HasClosed, RunningIsAlive
    <2>2. CASE ~running
      BY <1>3, <2>2 DEF HasClosed, RunningIsAlive, Done
    <2> QED BY <2>1, <2>2
  <1>4. ASSUME NEW g \in Goroutines, ExecuteBegin(g) PROVE IInv'
    <2>1. InFlight' = InFlight BY <1>4 DEF ExecuteBegin, InFlight
    <2> QED BY <1>4, <2>1 DEF ExecuteBegin, RunningIsAlive
  <1>5. ASSUME NEW g \in Goroutines, SkipFirst(g) PROVE IInv'
    BY <1>5, ArmKeepsIInv DEF SkipFirst
  <1>6. ASSUME NEW g \in Goroutines, ExecuteReturns(g) PROVE IInv'
    BY <1>6, ArmKeepsIInv DEF ExecuteReturns
  <1>7. ASSUME NEW g \in Goroutines, ExecuteFails(g) PROVE IInv'
    BY <1>7 DEF ExecuteFails, RunningIsAlive
  <1>8. ASSUME NEW c \in Callers, StartFailed(c) PROVE IInv'
    BY <1>8 DEF StartFailed, RunningIsAlive
  <1>9. ASSUME NEW c \in Callers, CallClose(c) PROVE IInv'
    <2>1. InFlight' = InFlight BY <1>9 DEF CallClose, InFlight
    <2> QED BY <1>9, <2>1 DEF CallClose, RunningIsAlive
  <1>10. ASSUME NEW c \in Callers, CloseLocked(c) PROVE IInv'
    BY <1>10 DEF CloseLocked, RunningIsAlive
  <1>11. ASSUME NEW t \in Timers, TimerFires(t) PROVE IInv'
    <2>1. InFlight' = InFlight BY <1>11 DEF TimerFires, InFlight
    <2> QED BY <1>11, <2>1 DEF TimerFires, RunningIsAlive
  <1>12. CASE UNCHANGED vars
    <2>1. InFlight' = InFlight BY <1>12 DEF vars, InFlight
    <2> QED BY <1>12, <2>1 DEF vars, RunningIsAlive
  <1> QED
    BY <1>1, <1>2, <1>3, <1>4, <1>5, <1>6, <1>7, <1>8, <1>9, <1>10, <1>11, <1>12
    DEF Next, CallerStep, LockedStep, BodyStep

\* No state of a run escapes the inductive invariant.
LEMMA SpecIInv == Spec => []IInv
  BY InitIInv, NextIInv, PTL DEF Spec

\* The variables keep their types, for every number of callers and timers.
THEOREM TypeCorrect == Spec => []TypeOK
  <1>1. IInv => TypeOK BY DEF IInv
  <1> QED BY <1>1, SpecIInv, PTL

\* Execute never runs concurrently with itself, whatever its callers do.
THEOREM ExecuteRunsAlone == Spec => []ExecuteAlone
  <1>1. IInv => ExecuteAlone
    BY DEF IInv, OwnerExecutes, ExecuteAlone
  <1> QED BY <1>1, SpecIInv, PTL

\* A task whose flag says it runs always has somebody to run it again.
THEOREM RunningTaskIsAlive == Spec => []RunningIsAlive
  <1>1. IInv => RunningIsAlive BY DEF IInv
  <1> QED BY <1>1, SpecIInv, PTL

-----------------------------------------------------------------------------
\* The goroutines that a call of Start has paid for.
Claimed == {g \in Goroutines : pc[g] \in {"start", "armed", "check", "enter", "execute"}}

ChainsInv == IsFiniteSet(Claimed) /\ Cardinality(Claimed) <= starts

\* A step that starts nothing new keeps the bound.
LEMMA FewerClaimed ==
    ASSUME TypeOK, ChainsInv, Claimed' \subseteq Claimed, starts' = starts
    PROVE  ChainsInv'
  <1>1. IsFiniteSet(Claimed') /\ Cardinality(Claimed') <= Cardinality(Claimed)
    BY FS_Subset DEF ChainsInv
  <1>2. Cardinality(Claimed) \in Nat /\ Cardinality(Claimed') \in Nat /\ starts \in Nat
    BY <1>1, FS_CardinalityType, TaskAssumption DEF ChainsInv, TypeOK
  <1> QED BY <1>1, <1>2 DEF ChainsInv

\* A goroutine that arms a timer hands its place to it.
LEMMA ArmKeepsChains ==
    ASSUME TypeOK, ChainsInv, NEW g \in Goroutines, ArmAndReturn(g),
           pc[g] \in {"enter", "execute"}, starts' = starts
    PROVE  ChainsInv'
  <1> USE TaskAssumption DEF Goroutines, TypeOK
  <1>1. CASE Goto(g, Done(g))
    <2>1. Claimed' \subseteq Claimed BY <1>1 DEF Goto, Done, Claimed
    <2> QED BY <2>1, FewerClaimed
  <1>2. CASE \E t \in Timers : pc[t] = "free" /\ pc' = [pc EXCEPT ![g] = Done(g), ![t] = "armed"]
    <2> PICK t \in Timers : pc[t] = "free" /\ pc' = [pc EXCEPT ![g] = Done(g), ![t] = "armed"]
      BY <1>2
    <2> DEFINE Rest == Claimed \ {g}
    <2>1. g \in Claimed /\ t \notin Rest BY DEF Claimed
    <2>2. Claimed' = Rest \cup {t} BY DEF Claimed, Done
    <2>3. IsFiniteSet(Rest) /\ Cardinality(Rest) = Cardinality(Claimed) - 1
      BY <2>1, FS_RemoveElement DEF ChainsInv
    <2>4. IsFiniteSet(Rest \cup {t}) /\ Cardinality(Rest \cup {t}) = Cardinality(Rest) + 1
      BY <2>1, <2>3, FS_AddElement
    <2>5. Cardinality(Claimed) \in Nat /\ Cardinality(Rest) \in Nat
      BY <2>3, FS_CardinalityType DEF ChainsInv
    <2>6. Cardinality(Claimed') = Cardinality(Claimed) BY <2>2, <2>3, <2>4, <2>5
    <2> QED BY <2>2, <2>4, <2>6 DEF ChainsInv
  <1> QED BY <1>1, <1>2 DEF ArmAndReturn

\* A call of Start adds one goroutine and counts one start.
LEMMA CallStartKeepsChains ==
    ASSUME TypeOK, ChainsInv, NEW c \in Callers, NEW f \in Firsts, CallStart(c, f)
    PROVE  ChainsInv'
  <1> USE TaskAssumption DEF Goroutines, TypeOK, CallStart, Goto
  <1>1. c \notin Claimed BY DEF Claimed
  <1>2. Claimed' = Claimed \cup {c} BY DEF Claimed
  <1>3. IsFiniteSet(Claimed') /\ Cardinality(Claimed') = Cardinality(Claimed) + 1
    BY <1>1, <1>2, FS_AddElement DEF ChainsInv
  <1>4. Cardinality(Claimed) \in Nat BY FS_CardinalityType DEF ChainsInv
  <1>5. starts \in Nat /\ starts' = starts + 1 OBVIOUS
  <1> QED BY <1>3, <1>4, <1>5 DEF ChainsInv

\* Every step keeps the number of chains within the number of starts.
LEMMA NextChains == TypeOK /\ ChainsInv /\ [Next]_vars => ChainsInv'
  <1> SUFFICES ASSUME TypeOK, ChainsInv, [Next]_vars PROVE ChainsInv' OBVIOUS
  <1> USE TaskAssumption DEF Goto, Done
  <1>1. ASSUME NEW c \in Callers, NEW f \in Firsts, CallStart(c, f) PROVE ChainsInv'
    BY <1>1, CallStartKeepsChains
  <1>2. ASSUME NEW g \in Goroutines, SkipFirst(g) \/ ExecuteReturns(g) PROVE ChainsInv'
    BY <1>2, ArmKeepsChains DEF SkipFirst, ExecuteReturns
  <1>3. ASSUME NEW g \in Goroutines,
               \/ HasClosed(g) \/ ExecuteBegin(g) \/ ExecuteFails(g)
               \/ g \in Callers /\ (StartLocked(g) \/ StartFailed(g) \/ CallClose(g))
               \/ g \in Timers /\ TimerFires(g)
        PROVE  ChainsInv'
    <2>1. Claimed' \subseteq Claimed
      BY <1>3 DEF Claimed, TypeOK, Goroutines, HasClosed, ExecuteBegin, ExecuteFails,
                  StartLocked, StartFailed, CallClose, TimerFires
    <2>2. starts' = starts
      BY <1>3 DEF HasClosed, ExecuteBegin, ExecuteFails, StartLocked, StartFailed,
                  CallClose, TimerFires
    <2> QED BY <2>1, <2>2, FewerClaimed
  <1>4. ASSUME NEW c \in Callers, CloseLocked(c) PROVE ChainsInv'
    <2>1. Claimed' \subseteq Claimed BY <1>4 DEF Claimed, TypeOK, CloseLocked
    <2> QED BY <1>4, <2>1, FewerClaimed DEF CloseLocked
  <1>5. CASE UNCHANGED vars
    <2>1. Claimed' \subseteq Claimed BY <1>5 DEF Claimed, vars
    <2> QED BY <1>5, <2>1, FewerClaimed DEF vars
  <1> QED
    BY <1>1, <1>2, <1>3, <1>4, <1>5
    DEF Next, CallerStep, LockedStep, BodyStep, Goroutines

\* However callers and callbacks interleave, a task never has more timers and
\* callbacks at work than it has had calls of Start.
THEOREM ChainsAreBounded == Spec => []ChainsBounded
  <1>1. Init => ChainsInv
    <2> SUFFICES ASSUME Init PROVE ChainsInv OBVIOUS
    <2>1. Claimed = {} BY DEF Init, Claimed, Goroutines
    <2> QED BY <2>1, FS_EmptySet DEF ChainsInv, Init
  <1>2. TypeOK /\ ChainsInv => ChainsBounded
    <2> SUFFICES ASSUME TypeOK, ChainsInv PROVE ChainsBounded OBVIOUS
    <2>1. InFlight \subseteq Claimed BY DEF InFlight, Claimed
    <2>2. IsFiniteSet(InFlight) /\ Cardinality(InFlight) <= Cardinality(Claimed)
      BY <2>1, FS_Subset DEF ChainsInv
    <2>3. Cardinality(Claimed) \in Nat /\ Cardinality(InFlight) \in Nat /\ starts \in Nat
      BY <2>2, FS_CardinalityType, TaskAssumption DEF ChainsInv, TypeOK
    <2> QED BY <2>2, <2>3 DEF ChainsInv, ChainsBounded
  <1> QED BY <1>1, <1>2, NextChains, TypeCorrect, PTL DEF Spec

-----------------------------------------------------------------------------
(* The body of the monitor: NodeSync *)

\* Between DelNode and AddNode the core has nothing under the tag.
Between == {"delLimiter", "addLimiter", "prepare", "addNode"}
Changing == Between \cup {"delNode"}

\* Where the monitor is tells what the core runs and what is registered.
SyncInv ==
    /\ panelNode \in Nodes
    /\ newN \in Nodes \cup {None}
    /\ at \in Changing => newN \in Nodes
    /\ at = "stopped" => inbound = None /\ served = {}
    /\ at \in Between => inbound = None /\ served = {} /\ info = newN
    /\ at \notin {"stopped", "addLimiter"} /\ closing = "no" => registered
    /\ at = "addNode" => rules = newN
    /\ at \notin Between /\ inbound # None => inbound = info /\ rules = info

\* The initial state satisfies the inductive invariant.
LEMMA InitSyncInv == SyncInit => SyncInv
  BY DEF SyncInit, SyncInv, Between, Changing

\* Every step of the controller and of the panel preserves it.
LEMMA NextSyncInv == SyncInv /\ [SyncNext]_syncVars => SyncInv'
  <1> SUFFICES ASSUME SyncInv, [SyncNext]_syncVars PROVE SyncInv' OBVIOUS
  <1> USE NodeSyncAssumption
      DEF SyncInv, Between, Changing, outside, client, core, limiter, trouble, Continue, Return, Fails, Fault
  <1>1. CASE EditNode BY <1>1 DEF EditNode
  <1>2. CASE EditUsers BY <1>2 DEF EditUsers
  <1>3. CASE Start BY <1>3 DEF Start
  <1>4. CASE FetchNode BY <1>4 DEF FetchNode, MonitorBegins
  <1>5. CASE FetchUsers BY <1>5 DEF FetchUsers, UserAnswers
  <1>6. CASE DelNode
    <2>1. CASE inbound = None BY <1>6, <2>1 DEF DelNode
    <2>2. CASE inbound # None BY <1>6, <2>2 DEF DelNode
    <2> QED BY <2>1, <2>2
  <1>7. CASE DeleteLimiter BY <1>7 DEF DeleteLimiter
  <1>8. CASE AddLimiter BY <1>8 DEF AddLimiter
  <1>9. CASE Prepare BY <1>9 DEF Prepare
  <1>10. CASE AddNode BY <1>10 DEF AddNode
  <1>11. CASE AddAllUsers BY <1>11 DEF AddAllUsers, CoreAddsUsers
  <1>12. CASE NodeChanged BY <1>12 DEF NodeChanged
  <1>13. CASE CheckUsers BY <1>13 DEF CheckUsers
  <1>14. CASE DelUsers BY <1>14 DEF DelUsers
  <1>15. CASE AddUsers BY <1>15 DEF AddUsers, CoreAddsUsers
  <1>16. CASE UpdateUser BY <1>16 DEF UpdateUser
  <1>17. CASE UNCHANGED syncVars BY <1>17 DEF syncVars
  <1>18. CASE CloseDeletesLimiter BY <1>18 DEF CloseDeletesLimiter
  <1>19. CASE CloseStopsMonitor BY <1>19 DEF CloseStopsMonitor
  <1> QED
    BY <1>1, <1>2, <1>3, <1>4, <1>5, <1>6, <1>7, <1>8, <1>9, <1>10, <1>11, <1>12,
       <1>13, <1>14, <1>15, <1>16, <1>17, <1>18, <1>19 DEF SyncNext, Body

\* No state of a run escapes the inductive invariant.
LEMMA SpecSyncInv == SyncSpec => []SyncInv
  BY InitSyncInv, NextSyncInv, PTL DEF SyncSpec

\* Whatever calls fail and however the panel changes, a core that runs a node
\* runs the one the controller encodes users for, under its rules.
THEOREM CoreRunsInfo == SyncSpec => []RunsInfo
  <1>1. SyncInv => RunsInfo BY DEF SyncInv, RunsInfo, Between
  <1> QED BY <1>1, SpecSyncInv, PTL

\* Until Controller.Close begins there is never a user in the core while no limiter is
\* registered for him.
THEOREM NobodyIsUnlimited == SyncSpec => []NobodyWithoutLimiter
  <1>1. SyncInv => NobodyWithoutLimiter BY DEF SyncInv, NobodyWithoutLimiter, Between
  <1> QED BY <1>1, SpecSyncInv, PTL

\* Lists have users, users and limits; nothing else comes out of them.
LEMMA ListTypes ==
    ASSUME NEW L, L \in Lists
    PROVE  /\ L \subseteq Uuids \X Speeds /\ Limited(L) \subseteq Uuids \X Speeds
           /\ Ids(L) \subseteq Uuids
           /\ \A N : Ids(L \ N) \subseteq Uuids /\ Limited(L \ N) \subseteq Uuids \X Speeds
  BY DEF Lists, Limited, Ids

\* The types, and in progress on a node or a list there is one.  Whatever fails, the
\* monitor never goes on with an answer it has not got.
THEOREM SyncTypeCorrect == SyncSpec => []SyncTypeOK
  <1>1. SyncInit => SyncTypeOK
    <2> SUFFICES ASSUME SyncInit PROVE SyncTypeOK OBVIOUS
    <2> USE NodeSyncAssumption DEF SyncInit
    <2>1. failed = {} /\ lost = {} /\ closing = "no" /\ served = {} /\ limits = {} /\ registered \in BOOLEAN OBVIOUS
    <2>2. faults \in 0..MaxFaults /\ edits \in 0..MaxEdits OBVIOUS
    <2>3. userList \in Lists /\ newU \in Lists \cup {None} BY DEF Lists
    <2>4. /\ panelNode \in Nodes /\ panelUsers \in Lists
          /\ nodeEtag = None /\ userEtag = None /\ info = None /\ inbound = None
          /\ rules = None /\ newN = None /\ at = "stopped"
      OBVIOUS
    <2> HIDE DEF SyncInit
    <2> QED BY <2>1, <2>2, <2>3, <2>4 DEF SyncTypeOK
  <1>2. SyncTypeOK /\ [SyncNext]_syncVars => SyncTypeOK'
    <2> SUFFICES ASSUME SyncTypeOK, [SyncNext]_syncVars PROVE SyncTypeOK' OBVIOUS
    <2> USE NodeSyncAssumption
        DEF SyncTypeOK, outside, client, core, limiter, trouble, Continue, Return, Fails
    <2>0. \A f : Fault(f) => faults' \in 0..MaxFaults /\ failed' \subseteq Faults
      BY DEF Fault
    <2>1. CASE EditNode BY <2>1 DEF EditNode
    <2>2. CASE EditUsers BY <2>2 DEF EditUsers
    <2>3. CASE Start
      <3>1. Limited(panelUsers) \subseteq Uuids \X Speeds /\ Ids(panelUsers) \subseteq Uuids
        BY ListTypes
      <3> QED BY <2>3, <3>1 DEF Start
    <2>4. CASE FetchNode BY <2>0, <2>4 DEF FetchNode, MonitorBegins
    <2>5. CASE FetchUsers
      <3>1. UserAnswers \subseteq Lists \cup {None} BY DEF UserAnswers, Lists
      <3>2. newU' \in Lists \cup {None} BY <2>5, <3>1 DEF FetchUsers
      <3>3. lost' \subseteq {"node", "users"} BY <2>5 DEF FetchUsers
      <3> QED BY <2>0, <2>5, <3>2, <3>3 DEF FetchUsers
    <2>6. CASE DelNode
      <3>1. CASE inbound = None BY <2>6, <3>1 DEF DelNode
      <3>2. CASE inbound # None BY <2>6, <3>2 DEF DelNode
      <3> QED BY <3>1, <3>2
    <2>7. CASE DeleteLimiter BY <2>7 DEF DeleteLimiter
    <2>8. CASE AddLimiter
      <3>1. Limited(userList) \subseteq Uuids \X Speeds BY ListTypes
      <3> QED BY <2>8, <3>1 DEF AddLimiter
    <2>9. CASE Prepare BY <2>0, <2>9 DEF Prepare
    <2>10. CASE AddNode BY <2>0, <2>10 DEF AddNode
    <2>11. ASSUME NEW L, Ids(L) \subseteq Uuids,
                  CoreAddsUsers(L, "return") \/ CoreAddsUsers(L, "updateUser")
           PROVE  served' \subseteq Uuids
      BY <2>11 DEF CoreAddsUsers
    <2>12. CASE AddAllUsers
      <3>1. served' \subseteq Uuids BY <2>11, <2>12, ListTypes DEF AddAllUsers
      <3> QED BY <2>0, <2>12, <3>1 DEF AddAllUsers, CoreAddsUsers
    <2>13. CASE NodeChanged BY <2>13 DEF NodeChanged
    <2>14. CASE CheckUsers
      <3>1. CASE newU \in {None, {}} BY <2>14, <3>1 DEF CheckUsers
      <3>2. CASE newU \notin {None, {}} BY <2>14, <3>2 DEF CheckUsers
      <3> QED BY <3>1, <3>2
    <2>15. CASE DelUsers BY <2>0, <2>15 DEF DelUsers
    <2>16. CASE AddUsers
      <3>1. newU \in Lists BY <2>16 DEF AddUsers
      <3>2. Ids(Added) \subseteq Uuids BY <3>1, ListTypes DEF Added
      <3>3. served' \subseteq Uuids BY <2>11, <2>16, <3>2 DEF AddUsers
      <3> QED BY <2>0, <2>16, <3>3 DEF AddUsers, CoreAddsUsers
    <2>17. CASE UpdateUser
      <3>1. newU \in Lists BY <2>17 DEF UpdateUser
      <3>2. Limited(Added) \subseteq Uuids \X Speeds BY <3>1, ListTypes DEF Added
      <3> QED BY <2>17, <3>1, <3>2 DEF UpdateUser
    <2>18. CASE UNCHANGED syncVars BY <2>18 DEF syncVars
    <2>19. CASE CloseDeletesLimiter BY <2>19 DEF CloseDeletesLimiter
    <2>20. CASE CloseStopsMonitor BY <2>20 DEF CloseStopsMonitor
    <2> QED
      BY <2>1, <2>2, <2>3, <2>4, <2>5, <2>6, <2>7, <2>8, <2>9, <2>10, <2>12, <2>13,
         <2>14, <2>15, <2>16, <2>17, <2>18, <2>19, <2>20 DEF SyncNext, Body
  <1> QED BY <1>1, <1>2, PTL DEF SyncSpec

-----------------------------------------------------------------------------
\* The difference that compareUserList finds, applied to the users of the old
\* list, gives those of the new one, and adds nobody who is still there.
LEMMA DiffOfUsers ==
    ASSUME NEW L, NEW N, L \in Lists, N \in Lists
    PROVE  /\ (Ids(L) \ Ids(L \ N)) \cup Ids(N \ L) = Ids(N)
           /\ Ids(N \ L) \cap (Ids(L) \ Ids(L \ N)) = {}
           /\ Ids(L \ N) \subseteq Ids(L)
  BY DEF Lists, Ids

\* The same of the limits, which Limiter.UpdateUser deletes, then stores.
LEMMA DiffOfLimits ==
    ASSUME NEW L, NEW N, L \in Lists, N \in Lists
    PROVE  {x \in Limited(L) : x[1] \notin Ids(L \ N) \cup Ids(Limited(N \ L))}
                \cup Limited(N \ L) = Limited(N)
  BY DEF Lists, Ids, Limited

-----------------------------------------------------------------------------
(***************************************************************************)
(* The users served and limited are those of Controller.userList, if the   *)
(* limiter is rebuilt with the node, until a call of the core fails.       *)
(***************************************************************************)
Matches == inbound # None => served = Ids(userList) /\ limits = Limited(userList)

\* Each step of the diff is half of it done.
UsersKept ==
    /\ at \in {"idle", "fetchUsers", "checkUsers", "delUsers", "delNode", "return"} => Matches
    /\ at = "addUsers" /\ inbound # None =>
         served = Ids(userList) \ Ids(Deleted) /\ limits = Limited(userList)
    /\ at = "updateUser" /\ inbound # None =>
         served = Ids(newU) /\ limits = Limited(userList)
    /\ at \in {"prepare", "addNode", "addAllUsers"} => limits = Limited(userList)
    /\ at = "addAllUsers" => served = {}

OnlyRequestsFailed == failed \subseteq {"node", "users", "cert"}

UsersInv ==
    /\ panelUsers \in Lists
    /\ at # "stopped" => userList \in Lists
    /\ newU # None => newU \in Lists
    /\ at \in {"delUsers", "addUsers", "updateUser"} => newU \in Lists
    /\ OnlyRequestsFailed => UsersKept

\* Every step that leaves the node alone, or replaces it, keeps the users.
LEMMA NodeStepKeepsUsers ==
    ASSUME ~Named, SyncInv, UsersInv,
           \/ EditNode \/ EditUsers \/ Start \/ FetchNode \/ FetchUsers \/ DelNode
           \/ DeleteLimiter \/ AddLimiter \/ Prepare \/ AddNode \/ NodeChanged
           \/ CloseDeletesLimiter \/ CloseStopsMonitor \/ UNCHANGED syncVars
    PROVE  UsersInv'
  <1> USE NodeSyncAssumption
      DEF OnlyRequestsFailed, UsersInv, UsersKept, Matches, Deleted, outside, client, core, limiter,
          trouble, Continue, Return, Fails, Fault
  <1>1. CASE EditNode BY <1>1 DEF EditNode
  <1>2. CASE EditUsers BY <1>2 DEF EditUsers
  <1>3. CASE Start BY <1>3 DEF Start
  <1>4. CASE FetchNode BY <1>4 DEF FetchNode, MonitorBegins
  <1>5. CASE FetchUsers
    <2>1. UserAnswers \subseteq Lists \cup {None} BY DEF UserAnswers, Lists
    <2> QED BY <1>5, <2>1 DEF FetchUsers
  <1>6. CASE DelNode
    <2>1. userList' \in Lists BY <1>6 DEF DelNode
    <2>2. CASE inbound = None BY <1>6, <2>1, <2>2 DEF DelNode
    <2>3. CASE inbound # None BY <1>6, <2>1, <2>3 DEF DelNode
    <2> QED BY <2>2, <2>3
  <1>7. CASE DeleteLimiter BY <1>7 DEF DeleteLimiter
  <1>8. CASE AddLimiter BY <1>8 DEF AddLimiter
  <1>9. CASE Prepare BY <1>9 DEF Prepare, SyncInv, Between
  <1>10. CASE AddNode BY <1>10 DEF AddNode, SyncInv, Between
  <1>11. CASE NodeChanged BY <1>11 DEF NodeChanged
  <1>12. CASE UNCHANGED syncVars BY <1>12 DEF syncVars
  <1>13. CASE CloseDeletesLimiter BY <1>13 DEF CloseDeletesLimiter
  <1>14. CASE CloseStopsMonitor BY <1>14 DEF CloseStopsMonitor
  <1> QED
    BY <1>1, <1>2, <1>3, <1>4, <1>5, <1>6, <1>7, <1>8, <1>9, <1>10, <1>11, <1>12, <1>13,
       <1>14

\* Every step that gives users to the core, or takes them, keeps the users.
LEMMA UserStepKeepsUsers ==
    ASSUME ~Named, SyncInv, UsersInv,
           AddAllUsers \/ CheckUsers \/ DelUsers \/ AddUsers \/ UpdateUser
    PROVE  UsersInv'
  <1> USE DEF OnlyRequestsFailed, UsersInv, UsersKept, Matches, outside, client, core, limiter,
              trouble, Continue, Return, Fails, Fault
  <1>1. CASE AddAllUsers
    <2>1. OnlyRequestsFailed' => OnlyRequestsFailed
      BY <1>1 DEF AddAllUsers, CoreAddsUsers
    <2>2. OnlyRequestsFailed => Ids(userList) \cap served = {} BY <1>1 DEF AddAllUsers
    <2> QED BY <1>1, <2>1, <2>2 DEF AddAllUsers, CoreAddsUsers
  <1>2. CASE CheckUsers
    <2>1. Deleted = {} => Ids(userList) \ Ids(Deleted) = Ids(userList) BY DEF Ids
    <2>2. CASE newU \in {None, {}} BY <1>2, <2>2 DEF CheckUsers
    <2>3. CASE newU \notin {None, {}}
      <3>1. UNCHANGED <<userList, newU, inbound, served, limits, panelUsers>> /\ newU \in Lists
        BY <1>2, <2>3 DEF CheckUsers
      <3>2. Deleted = {} /\ Added = {} => userList = newU BY <3>1 DEF Deleted, Added, Lists
      <3>3. CASE Deleted # {} BY <1>2, <2>3, <3>1, <3>3 DEF CheckUsers
      <3>4. CASE Deleted = {} /\ Added # {}
        <4>1. Deleted' = Deleted BY <3>1 DEF Deleted
        <4> QED BY <1>2, <2>1, <2>3, <3>1, <3>4, <4>1 DEF CheckUsers
      <3>5. CASE Deleted = {} /\ Added = {}
        BY <1>2, <2>3, <3>1, <3>2, <3>5 DEF CheckUsers
      <3> QED BY <3>3, <3>4, <3>5
    <2> QED BY <2>2, <2>3
  <1>3. CASE DelUsers
    <2>1. /\ Ids(Deleted) \subseteq Ids(userList)
          /\ Added = {} => Ids(userList) \ Ids(Deleted) = Ids(newU)
      <3>1. Ids({}) = {} BY DEF Ids
      <3> QED BY <1>3, <3>1, DiffOfUsers DEF DelUsers, Deleted, Added
    <2> QED BY <1>3, <2>1 DEF DelUsers, Deleted, Added
  <1>4. CASE AddUsers
    <2>1. /\ Ids(Added) \cap (Ids(userList) \ Ids(Deleted)) = {}
          /\ (Ids(userList) \ Ids(Deleted)) \cup Ids(Added) = Ids(newU)
      BY <1>4, DiffOfUsers DEF AddUsers, Deleted, Added
    <2> QED BY <1>4, <2>1 DEF AddUsers, CoreAddsUsers, Deleted, Added
  <1>5. CASE UpdateUser
    <2>1. userList \in Lists /\ newU \in Lists BY <1>5 DEF UpdateUser
    <2>2. OnlyRequestsFailed /\ inbound # None => limits' = Limited(newU)
      BY <1>5, <2>1, DiffOfLimits DEF UpdateUser, Deleted, Added
    <2> QED BY <1>5, <2>1, <2>2 DEF UpdateUser
  <1> QED BY <1>1, <1>2, <1>3, <1>4, <1>5

\* With a limiter that is rebuilt with the node, and whatever requests fail in
\* whatever order with the changes on the panel, the core lets in exactly the
\* users of Controller.userList, each under his own limit, whenever the monitor
\* rests.
THEOREM UserListIsServed ==
    ASSUME ~Named PROVE SyncSpec => []ServesUserList
  <1>1. SyncInit => UsersInv
    BY DEF SyncInit, UsersInv, UsersKept, OnlyRequestsFailed, Matches
  <1>2. SyncInv /\ UsersInv /\ [SyncNext]_syncVars => UsersInv'
    BY NodeStepKeepsUsers, UserStepKeepsUsers DEF SyncNext, Body
  <1>3. UsersInv => ServesUserList
    BY DEF UsersInv, UsersKept, OnlyRequestsFailed, Matches, ServesUserList
  <1> QED BY <1>1, <1>2, <1>3, SpecSyncInv, PTL DEF SyncSpec
=============================================================================
