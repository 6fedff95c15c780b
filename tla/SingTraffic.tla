------------------------------ MODULE SingTraffic ------------------------------
(***************************************************************************)
(* How the sing-box core counts traffic: the counters of a node that its   *)
(* hook keeps (core/sing/hook.go), the map of counters by user             *)
(* (common/counter), and the report that reads and clears them             *)
(* (core/sing/user.go) beside running connections.                         *)
(*                                                                         *)
(* One direction stands for both.  What is on its way to the panel, and a  *)
(* list that is replaced under the report, are in Traffic: here the list   *)
(* stays, as AddUsers and DelUsers of this core leave the counters alone.  *)
(* The map's lock is only ever read-locked (nobody calls Delete), and a    *)
(* write of the map takes no lock at all.                                  *)
(***************************************************************************)
EXTENDS Naturals, FiniteSets, FiniteSetsExt

CONSTANTS
    Conns,      \* goroutines of connections, each serves one after another
    NumUsers,   \* length of userList
    Report,     \* the goroutine of the report
    MaxBytes,   \* bound of the model: traffic of all users
    None        \* nil

ASSUME SingTrafficAssumption ==
    /\ NumUsers \in Nat /\ MaxBytes \in Nat
    /\ Report \notin Conns /\ None \notin Conns \cup {Report}

Users == 1..NumUsers      \* a user is his place in the list
Goroutines == Conns \cup {Report}

\* A TrafficCounter is named after the connection that makes it, and a TrafficStorage
\* after its TrafficCounter, its user and the goroutine that makes it: nobody makes
\* a second one, as both stay in their maps for ever.
Storages == Conns \X Users \X Goroutines

VARIABLES
    up,         \* the process runs
    counter,    \* HookServer.counter of the node's tag: a TrafficCounter or None
    counters,   \* the map of each TrafficCounter: of each user, who made his storage
    value,      \* the storages
    at,         \* where each goroutine is
    user, table, by,    \* its locals: user, TrafficCounter, maker of the storage;
                        \* a connection's goroutine serves the same user again
    i, got,     \* the report: its index, the traffic read
    carried, reported,  \* history: traffic of each user so far
    under       \* history: users of whom traffic has been given up

maps == <<counter, counters>>
locals == <<at, user, table, by>>
walk == <<i, got>>
vars == <<up, maps, value, locals, walk, carried, reported, under>>

Nothing == [u \in Users |-> 0]
Entry(c, u) == counters[c][u]
Storage(g) == <<table[g], user[g], by[g]>>

NoMaps == [c \in Conns |-> [u \in Users |-> None]]
NoTraffic == [s \in Storages |-> 0]
Resting == [g \in Goroutines |-> "idle"]
Nil == [g \in Goroutines |-> None]

Init ==
    /\ up = TRUE
    /\ counter = None /\ counters = NoMaps /\ value = NoTraffic
    /\ at = Resting /\ table = Nil /\ by = Nil
    /\ \E f \in [Conns -> Users] :
         user = [g \in Goroutines |-> IF g = Report THEN None ELSE f[g]]
    /\ i = 0 /\ got = 0
    /\ carried = Nothing /\ reported = Nothing
    /\ under = {}

Goto(g, l) == at' = [at EXCEPT ![g] = l]

\* g holds the storage of its user that m has made.
Holds(g, m, l) == by' = [by EXCEPT ![g] = m] /\ Goto(g, l)
Leaves(g, l) ==
    /\ Goto(g, l)
    /\ table' = [table EXCEPT ![g] = None]
    /\ by' = [by EXCEPT ![g] = None]

-----------------------------------------------------------------------------
(* GetCounter *)

\* After the lookup the read lock is given back.
Finds(g, present) ==
    /\ up /\ at[g] = "find"
    /\ LET m == Entry(table[g], user[g]) IN
         IF m # None THEN Holds(g, m, present) ELSE Goto(g, "put") /\ UNCHANGED by
    /\ UNCHANGED <<up, maps, value, user, table, walk, carried, reported, under>>

\* c.counters[id] = cts.  If another has put one there in between, that one is
\* no longer read, and connections that hold it are not counted.
Puts(g, present) ==
    /\ up /\ at[g] = "put"
    /\ counters' = [counters EXCEPT ![table[g]][user[g]] = g]
    /\ under' = IF Entry(table[g], user[g]) = None THEN under ELSE under \cup {user[g]}
    /\ Holds(g, g, present)
    /\ UNCHANGED <<up, counter, value, user, table, walk, carried, reported>>

\* The runtime ends a process that writes a map while others use it, with all it has
\* in memory.
UsesMap(g) == at[g] \in {"find", "put", "look"}
MapOverlaps(g) ==
    /\ up /\ at[g] = "put"
    /\ \E h \in Goroutines \ {g} : UsesMap(h) /\ table[h] = table[g]
    /\ up' = FALSE
    /\ counter' = None /\ counters' = NoMaps /\ value' = NoTraffic
    /\ at' = Resting /\ table' = Nil /\ by' = Nil
    /\ user' = [user EXCEPT ![Report] = None]
    /\ i' = 0 /\ got' = 0
    /\ under' = Users
    /\ UNCHANGED <<carried, reported>>

-----------------------------------------------------------------------------
(* Connections: the end of RoutedConnection and RoutedPacketConnection *)

\* h.counter.Load(m.Inbound)
Connects(k) ==
    /\ up /\ at[k] = "idle"
    /\ IF counter = None THEN Goto(k, "store") /\ UNCHANGED table
                         ELSE Goto(k, "find") /\ table' = [table EXCEPT ![k] = counter]
    /\ UNCHANGED <<up, maps, value, user, by, walk, carried, reported, under>>

\* Whose connections are not counted, or will not be, when a TrafficCounter is replaced.
Replaced(c) ==
    {u \in Users : Entry(c, u) # None} \cup {user[k] : k \in {j \in Conns : table[j] = c}}

\* h.counter.Store: another connection may have stored one since the Load.
Stores(k) ==
    /\ up /\ at[k] = "store"
    /\ counter' = k
    /\ under' = IF counter = None THEN under ELSE under \cup Replaced(counter)
    /\ table' = [table EXCEPT ![k] = k]
    /\ Goto(k, "find")
    /\ UNCHANGED <<up, counters, value, user, by, walk, carried, reported>>

Sum(f) == MapThenSumSet(LAMBDA u : f[u], Users)
CarriesOne(k) ==
    /\ up /\ at[k] = "live"
    /\ Sum(carried) < MaxBytes
    /\ carried' = [carried EXCEPT ![user[k]] = @ + 1]
    /\ UNCHANGED <<up, maps, locals, walk, reported>>

\* ReadBuffer, WriteBuffer, packets, and the count functions: the counter is added to.
Adds(k) ==
    /\ CarriesOne(k)
    /\ value' = [value EXCEPT ![Storage(k)] = @ + 1]
    /\ UNCHANGED under

\* Read and Write of ConnCounter: the counter is set, whatever it had.
SetsTo(k, n) ==
    /\ value' = [value EXCEPT ![Storage(k)] = n]
    /\ under' = IF value[Storage(k)] = 0 THEN under ELSE under \cup {user[k]}
Sets(k) == CarriesOne(k) /\ SetsTo(k, 1)

\* A Read at the end of the stream, or a Write that fails, has 0 bytes.
SetsToNothing(k) ==
    /\ up /\ at[k] = "live" /\ value[Storage(k)] # 0
    /\ SetsTo(k, 0)
    /\ UNCHANGED <<up, maps, locals, walk, carried, reported>>

Disconnects(k) ==
    /\ up /\ at[k] = "live"
    /\ Leaves(k, "idle")
    /\ UNCHANGED <<up, maps, value, user, walk, carried, reported, under>>

-----------------------------------------------------------------------------
(* The report: GetUserTraffic(tag, uuid, reset) for each user of the list *)

ReportBegins ==
    /\ up /\ at[Report] = "idle"
    /\ i' = 1
    /\ Goto(Report, "walk")
    /\ UNCHANGED <<up, maps, value, user, table, by, got, carried, reported, under>>

\* Mutant: the first user without traffic ends the walk.
LoadsCounterOrEnds ==
    /\ up /\ at[Report] = "walk" /\ i <= NumUsers
    /\ IF (IF counter = None THEN TRUE ELSE Entry(counter, i) = None)
       THEN i' = NumUsers + 1 /\ UNCHANGED locals
       ELSE /\ user' = [user EXCEPT ![Report] = i]
            /\ table' = [table EXCEPT ![Report] = counter]
            /\ Goto(Report, "look") /\ UNCHANGED <<i, by>>
    /\ UNCHANGED <<up, maps, value, got, carried, reported, under>>

\* Without counters for the tag there is nothing to read; else GetUpCount follows.
LoadsCounter ==
    /\ up /\ at[Report] = "walk" /\ i <= NumUsers
    /\ IF counter = None THEN i' = i + 1 /\ UNCHANGED locals
       ELSE /\ user' = [user EXCEPT ![Report] = i]
            /\ table' = [table EXCEPT ![Report] = counter]
            /\ Goto(Report, "look") /\ UNCHANGED <<i, by>>
    /\ UNCHANGED <<up, maps, value, got, carried, reported, under>>

Looks ==
    /\ up /\ at[Report] = "look"
    /\ LET m == Entry(table[Report], user[Report]) IN
         IF m # None THEN Holds(Report, m, "read") ELSE Goto(Report, "find") /\ UNCHANGED by
    /\ UNCHANGED <<up, maps, value, user, table, walk, carried, reported, under>>

\* cts.UpCounter.Load(); then Reset looks the storage up once more.
Reads ==
    /\ up /\ at[Report] = "read"
    /\ got' = value[Storage(Report)]
    /\ Goto(Report, "find")
    /\ UNCHANGED <<up, maps, value, user, table, by, i, carried, reported, under>>

\* Mutant: reset is false.
ClearsNothing ==
    /\ up /\ at[Report] = "clear"
    /\ reported' = [reported EXCEPT ![user[Report]] = @ + got]
    /\ got' = 0 /\ i' = i + 1
    /\ Leaves(Report, "walk") /\ user' = [user EXCEPT ![Report] = None]
    /\ UNCHANGED <<up, maps, value, carried, under>>

\* cts.UpCounter.Store(0), whatever has come since the Load; what was read is reported.
Clears ==
    /\ up /\ at[Report] = "clear"
    /\ value' = [value EXCEPT ![Storage(Report)] = 0]
    /\ under' = IF value[Storage(Report)] = got THEN under ELSE under \cup {user[Report]}
    /\ reported' = [reported EXCEPT ![user[Report]] = @ + got]
    /\ got' = 0 /\ i' = i + 1
    /\ Leaves(Report, "walk") /\ user' = [user EXCEPT ![Report] = None]
    /\ UNCHANGED <<up, maps, carried>>

WalkEnds ==
    /\ up /\ at[Report] = "walk" /\ i > NumUsers
    /\ i' = 0
    /\ Goto(Report, "idle")
    /\ UNCHANGED <<up, maps, value, user, table, by, got, carried, reported, under>>

-----------------------------------------------------------------------------
Connection(k) ==
    \/ Connects(k) \/ Stores(k) \/ Finds(k, "live") \/ Puts(k, "live")
    \/ Adds(k) \/ Sets(k) \/ SetsToNothing(k) \/ Disconnects(k)
ReportStep ==
    \/ ReportBegins \/ LoadsCounter \/ Looks \/ Reads
    \/ Finds(Report, "clear") \/ Puts(Report, "clear")
    \/ Clears \/ WalkEnds

Next ==
    \/ \E k \in Conns : Connection(k)
    \/ ReportStep
    \/ \E g \in Goroutines : MapOverlaps(g)

\* The report is run again and again (ControllerTasks) and its calls return; nothing
\* makes anybody connect.
Spec == Init /\ [][Next]_vars
FairSpec == Spec /\ WF_vars(ReportStep)

-----------------------------------------------------------------------------
\* What the next report will find of a user.
Counted(u) ==
    IF counter = None THEN 0
    ELSE IF Entry(counter, u) = None THEN 0
    ELSE value[<<counter, u, Entry(counter, u)>>]

\* However connections and the report race for the counters, no byte is reported twice;
\* and each byte is reported or will be found by the next report, but for users who
\* had a counter replaced (two first connections of the node, or of the user), set by
\* Read or Write, or added to between GetUpCount and Reset.
Accounted ==
    \A u \in Users :
        /\ reported[u] + Counted(u) <= carried[u]
        /\ u \notin under => reported[u] + Counted(u) = carried[u]

\* Once no more traffic comes, all of it is reported in the end, of every user of whom
\* none has been given up.
AllReported ==
    <>[][UNCHANGED carried]_carried
        => <>[](\A u \in Users \ under : reported[u] = carried[u])
=============================================================================
