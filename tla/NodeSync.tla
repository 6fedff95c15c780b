------------------------------- MODULE NodeSync -------------------------------
(***************************************************************************)
(* How a controller follows the panel: Controller.Start and the body of    *)
(* nodeInfoMonitor (node/task.go), the ETag client of api/panel, the xray  *)
(* core's AddNode, DelNode, AddUsers and DelUsers, and the user limits of  *)
(* the limiter.  The body never runs beside itself (Task), so its locals   *)
(* are variables; every call that can fail, and every call that the        *)
(* traffic can observe, is a step.  Controller.Close runs beside it, and   *)
(* the model ends where vc.Close would come (Reload).                      *)
(*                                                                         *)
(* A user list is a set of <<uuid, speed limit>>.  The ETag of a response  *)
(* is its content: the panel answers 304 to the content fetched last.      *)
(***************************************************************************)
EXTENDS Naturals, FiniteSets

CONSTANTS
    Nodes,      \* node configurations the panel may serve
    Uuids, Speeds,
    Named,      \* Options.Name is set
    Faults,     \* the calls that may fail
    MaxFaults,  \* bound of the model: number of failures
    MaxEdits,   \* bound of the model: number of changes made on the panel
    None        \* nil

ASSUME NodeSyncAssumption ==
    /\ Named \in BOOLEAN
    /\ Faults \subseteq {"node", "users", "cert", "addNode", "addUsers", "delUsers"}
    /\ MaxFaults \in Nat /\ MaxEdits \in Nat
    /\ None \notin Nodes

\* What the panel may list, nobody included: each uuid once, with a speed limit (0: none).
Lists == {L \in SUBSET (Uuids \X Speeds) : \A x, y \in L : x[1] = y[1] => x = y}
Ids(L) == {x[1] : x \in L}
Limited(L) == {x \in L : x[2] # 0}

VARIABLES
    panelNode, panelUsers,  \* what the panel serves
    nodeEtag, userEtag,     \* panel.Client: what was fetched last
    info, userList,         \* Controller.info, Controller.userList
    inbound, served,        \* the core: the node it runs, the users it lets in
    registered,             \* limiter[tag] is Controller.limiter
    limits, rules,          \* Controller.limiter: UserLimitInfo; whose rules
    at, newN, newU,         \* where the body is, and its locals
    closing,                \* how far Controller.Close is
    faults, edits,          \* how many failures and changes there were
    failed,                 \* history: which calls have failed so far
    lost                    \* history: what was fetched last and dropped unused

outside == <<panelNode, panelUsers, edits, closing>>
client == <<nodeEtag, userEtag, lost>>
core == <<inbound, served>>
limiter == <<registered, limits, rules>>
trouble == <<faults, failed>>
syncVars == <<outside, client, info, userList, core, limiter, at, newN, newU, trouble>>

SyncInit ==
    /\ panelNode \in Nodes /\ panelUsers \in Lists
    /\ nodeEtag = None /\ userEtag = None
    /\ info = None /\ userList = {}
    /\ inbound = None /\ served = {}
    /\ registered = FALSE /\ limits = {} /\ rules = None
    /\ at = "stopped" /\ newN = None /\ newU = None
    /\ closing = "no"
    /\ faults = 0 /\ edits = 0 /\ failed = {} /\ lost = {}

Fault(f) ==
    /\ f \in Faults
    /\ faults < MaxFaults
    /\ faults' = faults + 1
    /\ failed' = failed \cup {f}

\* The body returns (nil, whatever happened) and its locals are gone.
Return == at' = "idle" /\ newN' = None /\ newU' = None

Fails(f) == Fault(f) /\ Return
Continue(l) == at' = l /\ UNCHANGED <<newN, newU, trouble>>

-----------------------------------------------------------------------------
(* The panel, and what its administrator does. *)

EditNode ==
    /\ edits < MaxEdits
    /\ edits' = edits + 1
    /\ panelNode' \in Nodes \ {panelNode}
    /\ UNCHANGED <<panelUsers, closing, client, info, userList, core, limiter, at, newN, newU, trouble>>

EditUsers ==
    /\ edits < MaxEdits
    /\ edits' = edits + 1
    /\ panelUsers' \in Lists \ {panelUsers}
    /\ UNCHANGED <<panelNode, closing, client, info, userList, core, limiter, at, newN, newU, trouble>>

-----------------------------------------------------------------------------
(* Controller.Start.  One that fails is not tried again with this client; it *)
(* fails for a list without users.                                           *)

Start ==
    /\ at = "stopped"
    /\ panelUsers # {}
    /\ nodeEtag' = panelNode /\ userEtag' = panelUsers
    /\ info' = panelNode /\ userList' = panelUsers
    /\ registered' = TRUE /\ limits' = Limited(panelUsers) /\ rules' = panelNode
    /\ inbound' = panelNode /\ served' = Ids(panelUsers)
    /\ at' = "idle"
    /\ UNCHANGED <<outside, lost, newN, newU, trouble>>

-----------------------------------------------------------------------------
(* Controller.Close, by the goroutine of the reload. *)

\* DeleteLimiter comes first, without the monitor's mutex and with the users served.
CloseDeletesLimiter ==
    /\ at # "stopped" /\ closing = "no"
    /\ registered' = FALSE
    /\ closing' = "limiter"
    /\ UNCHANGED <<panelNode, panelUsers, edits, client, info, userList, core, limits, rules,
                   at, newN, newU, trouble>>

\* The monitor's Close has waited for the run in progress.
CloseStopsMonitor ==
    /\ at = "idle" /\ closing = "limiter"
    /\ closing' = "closed"
    /\ UNCHANGED <<panelNode, panelUsers, edits, client, info, userList, core, limiter,
                   at, newN, newU, trouble>>

-----------------------------------------------------------------------------
(* nodeInfoMonitor: the two requests. *)

\* The monitor's timer fires.  After its Close one callback that had passed its test may
\* still run (ControllerTasks).
MonitorBegins ==
    /\ at = "idle" /\ closing # "late"
    /\ closing' = IF closing = "closed" THEN "late" ELSE closing

\* Mutant: the ETag is kept before the status of the response is checked.
FetchNodeKeepsEtag ==
    /\ MonitorBegins
    /\ nodeEtag' = panelNode
    /\ \/ /\ newN' = IF panelNode = nodeEtag THEN None ELSE panelNode
          /\ lost' = IF newN' = None THEN lost ELSE lost \ {"node"}
          /\ at' = "fetchUsers"
          /\ UNCHANGED <<newU, trouble>>
       \/ Fails("node") /\ UNCHANGED lost
    /\ UNCHANGED <<panelNode, panelUsers, edits, userEtag, info, userList, core, limiter>>

\* GetNodeInfo: the ETag is kept as soon as the response is parsed.
FetchNode ==
    /\ MonitorBegins
    /\ \/ /\ newN' = IF panelNode = nodeEtag THEN None ELSE panelNode
          /\ nodeEtag' = panelNode
          /\ lost' = IF newN' = None THEN lost ELSE lost \ {"node"}
          /\ at' = "fetchUsers"
          /\ UNCHANGED <<newU, trouble>>
       \/ Fails("node") /\ UNCHANGED <<nodeEtag, lost>>
    /\ UNCHANGED <<panelNode, panelUsers, edits, userEtag, info, userList, core, limiter>>

\* What GetUserList may return: nil for a 304, and nil or an empty slice for nobody.
UserAnswers ==
    IF panelUsers = userEtag THEN {None}
    ELSE IF panelUsers = {} THEN {None, {}} ELSE {panelUsers}

\* The ETag is kept.  A list of nobody is lost unless it is a slice and comes with a
\* node (CheckUsers, DelNode); if the call fails, a node just fetched is lost.
FetchUsers ==
    /\ at = "fetchUsers"
    /\ \/ /\ newU' \in UserAnswers
          /\ userEtag' = panelUsers
          /\ lost' = IF panelUsers = userEtag THEN lost
                     ELSE IF panelUsers = {} /\ None \in {newN, newU'} THEN lost \cup {"users"}
                     ELSE lost \ {"users"}
          /\ at' = IF newN # None THEN "delNode" ELSE "checkUsers"
          /\ UNCHANGED <<newN, trouble>>
       \/ /\ Fails("users")
          /\ lost' = IF newN # None THEN lost \cup {"node"} ELSE lost
          /\ UNCHANGED userEtag
    /\ UNCHANGED <<outside, nodeEtag, info, userList, core, limiter>>

-----------------------------------------------------------------------------
(* nodeInfoMonitor: the node has changed. *)

\* info and userList are replaced, then the old inbound is removed; there may
\* be none, after an earlier failure, and then everything stops here.
DelNode ==
    /\ at = "delNode"
    /\ info' = newN
    /\ userList' = IF newU # None THEN newU ELSE userList
    /\ IF inbound = None THEN Return /\ UNCHANGED <<core, trouble>>
       ELSE /\ inbound' = None
            /\ served' = {}
            /\ Continue(IF Named THEN "prepare" ELSE "delLimiter")
    /\ UNCHANGED <<outside, client, limiter>>

\* Mutant: the limiter is deleted and none is added.
DeleteLimiterOnly ==
    /\ at = "delLimiter"
    /\ registered' = FALSE
    /\ Continue("prepare")
    /\ UNCHANGED <<outside, client, info, userList, core, limits, rules>>

DeleteLimiter ==
    /\ at = "delLimiter"
    /\ registered' = FALSE
    /\ Continue("addLimiter")
    /\ UNCHANGED <<outside, client, info, userList, core, limits, rules>>

AddLimiter ==
    /\ at = "addLimiter"
    /\ registered' = TRUE
    /\ limits' = Limited(userList)
    /\ rules' = None
    /\ Continue("prepare")
    /\ UNCHANGED <<outside, client, info, userList, core>>

\* Mutant: UpdateRule is not called.
PrepareWithoutRules ==
    /\ at = "prepare"
    /\ Continue("addNode") \/ Fails("cert")
    /\ UNCHANGED <<outside, client, info, userList, core, limiter>>

\* UpdateRule, and requestCert if the node uses TLS.
Prepare ==
    /\ at = "prepare"
    /\ rules' = newN
    /\ Continue("addNode") \/ Fails("cert")
    /\ UNCHANGED <<outside, client, info, userList, core, registered, limits>>

\* The inbound is added before the outbound, and stays if that one fails.
AddNode ==
    /\ at = "addNode"
    /\ \/ inbound' = newN /\ Continue("addAllUsers")
       \/ inbound' \in {None, newN} /\ Fails("addNode")
    /\ UNCHANGED <<outside, client, info, userList, served, limiter>>

\* The core adds users one at a time, and stops at the first it cannot add.
CoreAddsUsers(L, next) ==
    \/ /\ inbound # None /\ Ids(L) \cap served = {}
       /\ served' = served \cup Ids(L)
       /\ Continue(next)
    \/ /\ inbound = None \/ Ids(L) \cap served # {}
       /\ served' \in {served \cup S : S \in SUBSET (IF inbound = None THEN {} ELSE Ids(L))}
       /\ Return /\ UNCHANGED trouble
    \/ /\ inbound # None
       /\ served' \in {served \cup S : S \in SUBSET Ids(L) \ {Ids(L)}}
       /\ Fails("addUsers")

AddAllUsers ==
    /\ at = "addAllUsers"
    /\ CoreAddsUsers(userList, "return")
    /\ UNCHANGED <<outside, client, info, userList, inbound, limiter>>

\* "Check interval" (ControllerTasks), and the end.
NodeChanged ==
    /\ at = "return"
    /\ Return
    /\ UNCHANGED <<outside, client, info, userList, core, limiter, trouble>>

-----------------------------------------------------------------------------
(* nodeInfoMonitor: the node has not changed. *)

\* compareUserList, on uuid and speed limit together.
Deleted == userList \ newU
Added == newU \ userList

\* len(newU) == 0 is "nothing new", for a 304 and for a list of nobody alike.
CheckUsers ==
    /\ at = "checkUsers"
    /\ IF newU \in {None, {}} THEN Return /\ UNCHANGED trouble
       ELSE Continue(IF Deleted # {} THEN "delUsers"
                     ELSE IF Added # {} THEN "addUsers" ELSE "updateUser")
    /\ UNCHANGED <<outside, client, info, userList, core, limiter>>

\* The core removes users one at a time, and stops at the first it cannot.
DelUsers ==
    /\ at = "delUsers"
    /\ \/ /\ inbound # None /\ Ids(Deleted) \subseteq served
          /\ served' = served \ Ids(Deleted)
          /\ Continue(IF Added # {} THEN "addUsers" ELSE "updateUser")
       \/ /\ inbound = None \/ ~(Ids(Deleted) \subseteq served)
          /\ served' \in {served \ S : S \in SUBSET (Ids(Deleted) \cap served)}
          /\ Return /\ UNCHANGED trouble
       \/ /\ inbound # None
          /\ served' \in {served \ S : S \in SUBSET Ids(Deleted) \ {Ids(Deleted)}}
          /\ Fails("delUsers")
    /\ UNCHANGED <<outside, client, info, userList, inbound, limiter>>

AddUsers ==
    /\ at = "addUsers"
    /\ CoreAddsUsers(Added, "updateUser")
    /\ UNCHANGED <<outside, client, info, userList, inbound, limiter>>

\* Mutant: additions, then deletions.
UpdateUserSwapped ==
    /\ at = "updateUser"
    /\ limits' = {x \in limits \cup Limited(Added) : x[1] \notin Ids(Deleted)}
    /\ userList' = newU
    /\ Return
    /\ UNCHANGED <<outside, client, info, core, registered, rules, trouble>>

\* Limiter.UpdateUser, with the uuid as the key: deletions, then additions.
UpdateUser ==
    /\ at = "updateUser"
    /\ limits' = {x \in limits : x[1] \notin Ids(Deleted) \cup Ids(Limited(Added))}
                    \cup Limited(Added)
    /\ userList' = newU
    /\ Return
    /\ UNCHANGED <<outside, client, info, core, registered, rules, trouble>>

-----------------------------------------------------------------------------
Body ==
    \/ FetchUsers \/ DelNode \/ DeleteLimiter \/ AddLimiter \/ Prepare \/ AddNode
    \/ AddAllUsers \/ NodeChanged \/ CheckUsers \/ DelUsers \/ AddUsers \/ UpdateUser

SyncNext ==
    \/ EditNode \/ EditUsers \/ Start \/ CloseDeletesLimiter \/ CloseStopsMonitor
    \/ FetchNode \/ Body

\* The monitor's timer fires again and again, and its calls return (Task).
SyncSpec == SyncInit /\ [][SyncNext]_syncVars
SyncFairSpec == SyncSpec /\ WF_syncVars(Start \/ FetchNode \/ Body)

-----------------------------------------------------------------------------
\* The types, and the monitor never applies a node or a list it did not fetch.
SyncTypeOK ==
    /\ panelNode \in Nodes /\ panelUsers \in Lists
    /\ nodeEtag \in Nodes \cup {None} /\ userEtag \in Lists \cup {None}
    /\ info \in Nodes \cup {None} /\ userList \in Lists
    /\ inbound \in Nodes \cup {None} /\ served \subseteq Uuids
    /\ registered \in BOOLEAN /\ limits \subseteq Uuids \X Speeds
    /\ rules \in Nodes \cup {None}
    /\ at \in {"stopped", "idle", "fetchUsers", "delNode", "delLimiter", "addLimiter",
               "prepare", "addNode", "addAllUsers", "return", "checkUsers", "delUsers",
               "addUsers", "updateUser"}
    /\ newN \in Nodes \cup {None} /\ newU \in Lists \cup {None}
    /\ closing \in {"no", "limiter", "closed", "late"}
    /\ failed \subseteq Faults /\ lost \subseteq {"node", "users"}
    /\ faults \in 0..MaxFaults /\ edits \in 0..MaxEdits
    /\ at = "delNode" => newN # None
    /\ at \in {"delUsers", "addUsers", "updateUser"} => newU # None

\* Whatever fails, the core runs the node that the controller believes in, under
\* the rules of that node and with a limiter its connections can find, whenever
\* users are given to it and whenever the monitor rests: AddUsers encodes users
\* for Controller.info, which the monitor replaces before it touches the core.
\* (Of the limiter only until Controller.Close begins, which deletes it.)
RunsInfo ==
    at \in {"idle", "addAllUsers", "addUsers"} /\ inbound # None
        => inbound = info /\ rules = info /\ (closing = "no" => registered)

\* As long as only requests have failed, or the certificate, what the core lets
\* in and how it is limited is the user list the controller has, whenever the
\* monitor rests, while Controller.Close is under way and after it too.
ServesUserList ==
    at = "idle" /\ inbound # None /\ failed \subseteq {"node", "users", "cert"}
        => served = Ids(userList) /\ limits = Limited(userList)

\* Until Controller.Close begins, users are only let in under a limiter that
\* connections can find: the window in which a node change has none registered is
\* a window with nobody to connect.  (Controller.Close deletes the limiter first,
\* controller.go:99, and the core serves the users until vc.Close: from there on
\* they are served without one, and their connections are refused.)
NobodyWithoutLimiter == served # {} /\ closing = "no" => registered

\* Once the panel stays as it is, the node and its users become the panel's, though
\* requests may fail on the way.  The exceptions are named: a controller that does
\* not start or is being closed; a failure of the core or of the certificate; and
\* lost, an answer whose ETag was kept and that was dropped, not replaced by a
\* later one: the node when GetUserList failed after it (api/panel/node.go:256),
\* the list of nobody (task.go:159), for which the old users are served for ever.
Converges ==
    /\ [](failed \subseteq {"node", "users"})
    /\ <>[](at # "stopped" /\ closing = "no" /\ lost = {})
    => <>[](/\ inbound = panelNode
            /\ served = Ids(panelUsers)
            /\ limits = Limited(panelUsers)
            /\ rules = panelNode)
=============================================================================
