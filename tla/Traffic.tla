------------------------------- MODULE Traffic -------------------------------
(***************************************************************************)
(* How traffic is counted and reported: the counters of the xray core, the *)
(* report (reportUserTrafficTask), the monitor that replaces the user list *)
(* and deletes counters while the report walks it, and the panel.          *)
(*                                                                         *)
(* One direction stands for both.  A user is his uuid and his panel id.    *)
(* Of the counters that connections write to, only those registered under  *)
(* the user's name are ever read: value has those.  Connections of a user  *)
(* differ only in whether they write to it, so it is enough to count them. *)
(* The tag stays, and calls of the core do not fail: NodeSync has them.    *)
(***************************************************************************)
EXTENDS Naturals, Sequences, FiniteSets, FiniteSetsExt, Functions

CONSTANTS
    Users,
    MaxConns,   \* bound of the model: number of connections at a time
    Retries,    \* how often the HTTP client sends a request again (3)
    MaxBytes,   \* bound of the model: traffic of all users
    MaxEdits,   \* bound of the model: number of changes of the list
    MaxFaults,  \* bound of the model: number of failed requests
    None        \* no counter

ASSUME TrafficAssumption ==
    /\ IsFiniteSet(Users)
    /\ Retries \in Nat /\ MaxBytes \in Nat /\ MaxEdits \in Nat /\ MaxFaults \in Nat
    /\ MaxConns \in Nat
    /\ None \notin Nat

VARIABLES
    registering,        \* connections of each user that found no counter
    counted, strays,    \* those that write to his counter, and those that do not
    value,              \* the registered counter of each user
    carried,            \* history: traffic of each user so far
    userList, served,   \* Controller.userList; the users the inbound knows
    mAt, newU, dels,    \* the monitor, and its locals
    rAt, i, n, got,     \* the report: its position, index, range and traffic read
    rows, tries,        \* what is to be posted, by id; requests sent so far
    booked,             \* the panel's account
    edits, faults,
    over, under         \* history: whose account may be too high, or too low

conns == <<registering, counted, strays>>
account == <<value, carried>>
doubt == <<over, under>>
monitor == <<mAt, newU, dels, edits>>
report == <<rAt, i, n, got, rows, tries>>
vars == <<conns, account, userList, served, monitor, report, booked, faults, doubt>>

\* What the panel may list: each user once.
Lists == {L \in UNION {[1..m -> Users] : m \in 0..Cardinality(Users)} : IsInjective(L)}
Members(L) == {L[j] : j \in 1..Len(L)}
Nothing == [u \in Users |-> 0]

Init ==
    /\ registering = Nothing /\ counted = Nothing /\ strays = Nothing
    /\ value = [u \in Users |-> None] /\ carried = Nothing
    /\ userList \in Lists \ {<<>>} /\ served = Members(userList)
    /\ mAt = "idle" /\ newU = <<>> /\ dels = {}
    /\ rAt = "idle" /\ i = 0 /\ n = 0 /\ got = 0 /\ rows = Nothing /\ tries = 0
    /\ booked = Nothing
    /\ edits = 0 /\ faults = 0 /\ over = {} /\ under = {}

-----------------------------------------------------------------------------
(* Connections: DefaultDispatcher.getLink. *)

Add(f, u) == [f EXCEPT ![u] = @ + 1]
Sub(f, u) == [f EXCEPT ![u] = @ - 1]
Sum(f) == MapThenSumSet(LAMBDA u : f[u], Users)

\* The inbound knows the user; then GetOrRegisterCounter: the counter is there,
\* or it will be registered.
Connects(u) ==
    /\ u \in served
    /\ Sum(registering) + Sum(counted) + Sum(strays) < MaxConns
    /\ IF value[u] = None THEN registering' = Add(registering, u) /\ UNCHANGED counted
                          ELSE counted' = Add(counted, u) /\ UNCHANGED registering
    /\ UNCHANGED <<strays, account, userList, served, monitor, report, booked, faults, doubt>>

\* A counter that somebody has registered meanwhile is an error, and the
\* connection goes uncounted.
Registers(u) ==
    /\ registering[u] > 0
    /\ registering' = Sub(registering, u)
    /\ IF value[u] = None
       THEN /\ value' = [value EXCEPT ![u] = 0]
            /\ counted' = Add(counted, u)
            /\ UNCHANGED <<strays, under>>
       ELSE /\ strays' = Add(strays, u)
            /\ under' = under \cup {u}
            /\ UNCHANGED <<value, counted>>
    /\ UNCHANGED <<carried, userList, served, monitor, report, booked, faults, over>>

\* Mutant: the counter is set, not added to.
CarriesStored(u) ==
    /\ Sum(carried) < MaxBytes
    /\ carried' = Add(carried, u)
    /\ \/ counted[u] > 0 /\ value' = [value EXCEPT ![u] = 1]
       \/ strays[u] > 0 /\ UNCHANGED value
    /\ UNCHANGED <<conns, userList, served, monitor, report, booked, faults, doubt>>

\* SizeStatWriter.WriteMultiBuffer
Carries(u) ==
    /\ Sum(carried) < MaxBytes
    /\ carried' = Add(carried, u)
    /\ \/ counted[u] > 0 /\ value' = Add(value, u)
       \/ strays[u] > 0 /\ UNCHANGED value
    /\ UNCHANGED <<conns, userList, served, monitor, report, booked, faults, doubt>>

Disconnects(u) ==
    /\ \/ counted[u] > 0 /\ counted' = Sub(counted, u) /\ UNCHANGED strays
       \/ strays[u] > 0 /\ strays' = Sub(strays, u) /\ UNCHANGED counted
    /\ UNCHANGED <<registering, account, userList, served, monitor, report, booked, faults, doubt>>

-----------------------------------------------------------------------------
(* The monitor: the list changes alone, or together with the node.  Core calls *)
(* that connections see as one are one step.                                  *)

\* Controller.userList is another, be the report in the middle of it or not:
\* then it may read the traffic of one user and the id of another.
Assigns(L) ==
    /\ userList' = L
    /\ IF rAt \in {"take", "book"} THEN over' = Users /\ under' = Users
       ELSE /\ under' = under \cup (Members(userList) \ Members(L))
            /\ UNCHANGED over

\* The list is replaced, then the inbound; no counter is unregistered.
NodeChanges ==
    /\ mAt = "idle" /\ rAt # "crashed"
    /\ edits < MaxEdits
    /\ edits' = edits + 1
    /\ \E L \in Lists : Assigns(L) /\ served' = Members(L)
    /\ UNCHANGED <<conns, account, mAt, newU, dels, report, booked, faults>>

\* compareUserList finds those gone, and those whose speed limit is another.
ListChanges ==
    /\ mAt = "idle" /\ rAt # "crashed"
    /\ edits < MaxEdits
    /\ edits' = edits + 1
    /\ mAt' = "diff"
    /\ newU' \in Lists \ {<<>>}
    /\ \E touched \in SUBSET (Members(userList) \cap Members(newU')) :
         /\ newU' # userList \/ touched # {}
         /\ dels' = (Members(userList) \ Members(newU')) \cup touched
    /\ UNCHANGED <<conns, account, userList, served, report, booked, faults, doubt>>

\* Core.DelUsers, of each user: RemoveUser and UnregisterCounter.  Connections
\* of the user live on, and write to a counter that nobody reads.
DeletesUser ==
    /\ mAt = "diff"
    /\ \E u \in dels :
         /\ dels' = dels \ {u}
         /\ served' = served \ {u}
         /\ value' = [value EXCEPT ![u] = None]
         /\ counted' = [counted EXCEPT ![u] = 0]
         /\ strays' = [strays EXCEPT ![u] = @ + counted[u]]
         /\ under' = under \cup {u}
    /\ UNCHANGED <<registering, carried, userList, mAt, newU, edits, report, booked, faults, over>>

\* Core.AddUsers, and the end.
AddsUsers ==
    /\ mAt = "diff"
    /\ dels = {}
    /\ served' = Members(newU)
    /\ Assigns(newU)
    /\ mAt' = "idle" /\ newU' = <<>>
    /\ UNCHANGED <<conns, account, dels, edits, report, booked, faults>>

-----------------------------------------------------------------------------
(* The report: reportUserTrafficTask. *)

\* range evaluates the length of the list once.
ReportBegins ==
    /\ rAt = "idle"
    /\ rAt' = "take"
    /\ i' = 1
    /\ n' = Len(userList)
    /\ UNCHANGED <<conns, account, userList, served, monitor, got, rows, tries, booked, faults, doubt>>

\* The list has become shorter than i: the index panics, and the program ends
\* with all it has in memory.
Panics ==
    /\ rAt \in {"take", "book"}
    /\ i <= n
    /\ i > Len(userList)
    /\ rAt' = "crashed" /\ i' = 0 /\ n' = 0 /\ got' = 0 /\ rows' = Nothing /\ tries' = 0
    /\ registering' = Nothing /\ counted' = Nothing /\ strays' = Nothing
    /\ value' = [u \in Users |-> None]
    /\ mAt' = "idle" /\ newU' = <<>> /\ dels' = {} /\ served' = {}
    /\ UNCHANGED <<carried, userList, edits, booked, faults, doubt>>

\* What GetUserTraffic takes from the counter: Counter.Set(0) returns the old value.
Read(u) == IF value[u] = None THEN 0 ELSE value[u]

\* Mutant: GetUserTraffic is called without reset.
TakesValue ==
    /\ rAt = "take"
    /\ i <= n /\ i <= Len(userList)
    /\ got' = Read(userList[i])
    /\ IF got' > 0 THEN rAt' = "book" /\ UNCHANGED i ELSE i' = i + 1 /\ UNCHANGED rAt
    /\ UNCHANGED <<conns, account, userList, served, monitor, n, rows, tries, booked, faults, doubt>>

Takes ==
    /\ rAt = "take"
    /\ i <= n /\ i <= Len(userList)
    /\ got' = Read(userList[i])
    /\ value' = IF got' > 0 THEN [value EXCEPT ![userList[i]] = 0] ELSE value
    /\ IF got' > 0 THEN rAt' = "book" /\ UNCHANGED i ELSE i' = i + 1 /\ UNCHANGED rAt
    /\ UNCHANGED <<conns, carried, userList, served, monitor, n, rows, tries, booked, faults, doubt>>

\* The list is read again for the id; ReportUserTraffic keeps one row of each id.
Books ==
    /\ rAt = "book"
    /\ i <= Len(userList)
    /\ rows' = [rows EXCEPT ![userList[i]] = got]
    /\ got' = 0
    /\ i' = i + 1
    /\ rAt' = "take"
    /\ UNCHANGED <<conns, account, userList, served, monitor, n, tries, booked, faults, doubt>>

\* Mutant: the last user of the list is forgotten.
WalkEndsEarly ==
    /\ rAt = "take"
    /\ i > n - 1
    /\ rAt' = IF rows = Nothing THEN "idle" ELSE "send"
    /\ i' = 0 /\ n' = 0
    /\ UNCHANGED <<conns, account, userList, served, monitor, got, rows, tries, booked, faults, doubt>>

WalkEnds ==
    /\ rAt = "take"
    /\ i > n
    /\ rAt' = IF rows = Nothing THEN "idle" ELSE "send"
    /\ i' = 0 /\ n' = 0
    /\ UNCHANGED <<conns, account, userList, served, monitor, got, rows, tries, booked, faults, doubt>>

Reported == {u \in Users : rows[u] > 0}
Receives == booked' = [u \in Users |-> booked[u] + rows[u]]

\* The panel has received the report, and said so.
Answered ==
    /\ rAt = "send"
    /\ Receives
    /\ rAt' = "idle" /\ rows' = Nothing /\ tries' = 0
    /\ UNCHANGED <<conns, account, userList, served, monitor, i, n, got, faults, doubt>>

\* The panel answers with an error: the traffic read is forgotten.
Refused ==
    /\ rAt = "send"
    /\ faults < MaxFaults
    /\ faults' = faults + 1
    /\ under' = under \cup Reported
    /\ rAt' = "idle" /\ rows' = Nothing /\ tries' = 0
    /\ UNCHANGED <<conns, account, userList, served, monitor, i, n, got, booked, over>>

\* No answer comes: the request was lost, or the answer.  The HTTP client sends
\* the request again, unless it has given up.
NoAnswer ==
    /\ rAt = "send"
    /\ faults < MaxFaults
    /\ faults' = faults + 1
    /\ \/ Receives /\ over' = (IF tries < Retries THEN over \cup Reported ELSE over) /\ UNCHANGED under
       \/ UNCHANGED booked /\ under' = (IF tries < Retries THEN under ELSE under \cup Reported) /\ UNCHANGED over
    /\ IF tries < Retries THEN tries' = tries + 1 /\ UNCHANGED <<rAt, rows>>
       ELSE rAt' = "idle" /\ rows' = Nothing /\ tries' = 0
    /\ UNCHANGED <<conns, account, userList, served, monitor, i, n, got>>

-----------------------------------------------------------------------------
Connection(u) == Connects(u) \/ Registers(u) \/ Carries(u) \/ Disconnects(u)
Monitor == DeletesUser \/ AddsUsers
Report ==
    \/ ReportBegins \/ Takes \/ Books \/ WalkEnds \/ Panics
    \/ Answered \/ Refused \/ NoAnswer

\* A panic of any goroutine ends the program.
Ended == rAt = "crashed" /\ UNCHANGED vars

Next ==
    \/ \E u \in Users : Connection(u)
    \/ NodeChanges \/ ListChanges \/ Monitor
    \/ Report
    \/ Ended

\* The report is run again and again (ControllerTasks), and a change of the list
\* once begun is finished; nothing makes anybody connect.
Fairness == WF_vars(Monitor) /\ WF_vars(Report)
Spec == Init /\ [][Next]_vars
FairSpec == Spec /\ Fairness

-----------------------------------------------------------------------------
\* The types; a connection is counted only by the counter the report reads, and
\* no empty row is booked.
TypeOK ==
    /\ registering \in [Users -> Nat] /\ counted \in [Users -> Nat] /\ strays \in [Users -> Nat]
    /\ value \in [Users -> Nat \cup {None}] /\ carried \in [Users -> Nat]
    /\ userList \in Lists /\ served \subseteq Users
    /\ mAt \in {"idle", "diff"}
    /\ newU \in Lists /\ dels \subseteq Users
    /\ rAt \in {"idle", "take", "book", "send", "crashed"}
    /\ i \in Nat /\ n \in Nat /\ got \in Nat
    /\ rows \in [Users -> Nat] /\ tries \in 0..Retries
    /\ booked \in [Users -> Nat]
    /\ edits \in 0..MaxEdits /\ faults \in 0..MaxFaults
    /\ over \subseteq Users /\ under \subseteq Users
    /\ \A u \in Users : counted[u] > 0 => value[u] # None
    /\ rAt = "book" => got > 0

\* Traffic of a user that is on its way from his counter to the panel.
InHand(u) ==
    Read(u) + rows[u] + (IF rAt = "book" /\ i <= Len(userList) /\ userList[i] = u THEN got ELSE 0)

\* Whatever connects, is deleted, fails or is replaced at the same time, no byte
\* is booked twice or on another user, but for a list replaced under the report
\* and a report sent again after its answer was lost.
NeverOverbooked == \A u \in Users \ over : booked[u] + InHand(u) <= carried[u]

\* No byte is lost either, but for users deleted (or given another speed limit),
\* users in a report that failed, and a connection that lost the race to register
\* the user's counter.
NothingLost ==
    \A u \in Users \ (over \cup under) : booked[u] + InHand(u) = carried[u]

\* All traffic of such a user is booked in the end.
AllBooked ==
    \A u \in Users :
        [](u \notin over \cup under) => <>[](booked[u] = carried[u])
=============================================================================
