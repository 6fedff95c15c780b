--------------------------------- MODULE Cores ---------------------------------
(***************************************************************************)
(* The proxy cores as their controllers use them: Selector (several cores), *)
(* the xray core and the sing-box core, with AddNode, DelNode, AddUsers and *)
(* DelUsers, the inbound each builds for a node, and the options of a node  *)
(* file that a core needs.  The controllers of the nodes run beside one     *)
(* another and share the cores; the map of sing's inbounds has no lock.     *)
(***************************************************************************)
EXTENDS Integers, FiniteSets

CONSTANTS
    Tags,       \* nodes, with a controller each
    CoreNames,
    TypeOf,     \* the type of each core
    Setups,     \* sets of cores that may be configured
    Infos,      \* of each node, what the panel may say
    Configs,    \* of each node, what its file may say
    Users,
    MaxChanges, \* bound of the model: changes of nodes and users
    Faults,     \* bound of the model: ports in use, managers that refuse
    None        \* nil

\* A node as the panel describes it, and an inbound as a core keeps it.
NodeInfos == [type : {"vmess", "vless", "shadowsocks", "trojan", "socks", "hysteria"},
              network : {"tcp", "ws", "grpc", "other"},
              settings : {"none", "ok", "bad"},
              security : {"none", "tls", "reality"}]
Listeners == [state : {"open", "closed"}, users : SUBSET Users, built : NodeInfos]

\* Core: the value in the file; name: CoreName; cert: whether CertMode names a way to
\* have a certificate; fallback: EnableFallback with usable FallBackConfigs or not.
Files == [Core : {"absent", "other", "xray", "sing"}, name : STRING,
          cert : BOOLEAN, fallback : {"off", "ok", "bad"}]

ASSUME CoresAssumption ==
    /\ TypeOf \in [CoreNames -> {"xray", "sing"}]
    /\ IsFiniteSet(CoreNames) /\ None \notin CoreNames
    /\ \A s \in Setups : s \subseteq CoreNames /\ s # {}
    /\ \A t \in Tags : Infos[t] \subseteq NodeInfos /\ Configs[t] \subseteq Files
    /\ None \notin NodeInfos \cup Listeners
    /\ MaxChanges \in Nat /\ Faults \in Nat

VARIABLES
    up,         \* the process runs
    cores,      \* the cores configured
    file,       \* the options of each node as written
    opts,       \* Options.Core, and which of XrayOptions and SingOptions there are
    info,       \* the node a controller passes on
    list, newU, \* Controller.userList, and what the monitor has fetched
    running,    \* controllers whose tasks run
    nodes,      \* Selector.nodes
    inbounds,   \* of each core: handlers of the inbound manager, Box.inbounds
    attached,   \* of each core: outbound handlers, the router's inbounds
    pc, on,     \* of each controller: where it is, the core that is called
    changes, faults,
    asked,      \* history: the node whose AddNode returned nil last, or None
    trouble     \* history: what has failed since: "", "failed" or, half of AddNode, "half"

core == <<nodes, inbounds, attached>>
panel == <<info, list, newU, running, changes>>
vars == <<up, cores, file, opts, panel, core, pc, on, faults, asked, trouble>>

Multi == Cardinality(cores) > 1
Kind(t) == TypeOf[on[t]]
In(t) == inbounds[on[t]][t]

\* Options.UnmarshalJSON: an unknown or missing Core leaves only RawOptions.
Parse(value) == [core |-> IF value \in {"xray", "sing"} THEN value ELSE "",
                 XrayOptions |-> value = "xray", SingOptions |-> value = "sing",
                 raw |-> value \notin {"xray", "sing"}]

\* The selector's second UnmarshalJSON, with Core set to a type: a value in the file
\* overwrites it again.
Reparse(value, type) == [Parse(IF value = "absent" THEN type ELSE value) EXCEPT !.raw = FALSE]

Init ==
    /\ up = TRUE
    /\ cores \in Setups
    /\ file \in {f \in [Tags -> UNION {Configs[t] : t \in Tags}] : \A t \in Tags : f[t] \in Configs[t]}
    /\ opts = [t \in Tags |-> Parse(file[t].Core)]
    /\ info \in {f \in [Tags -> UNION {Infos[t] : t \in Tags}] : \A t \in Tags : f[t] \in Infos[t]}
    /\ list = [t \in Tags |-> Users] /\ newU = list /\ running = {}
    /\ nodes = [t \in Tags |-> None]
    /\ inbounds = [c \in CoreNames |-> [t \in Tags |-> None]]
    /\ attached = [c \in CoreNames |-> {}]
    /\ pc = [t \in Tags |-> "new"]
    /\ on = [t \in Tags |-> CHOOSE c \in cores : TRUE]
    /\ changes = 0 /\ faults = 0
    /\ asked = [t \in Tags |-> None]
    /\ trouble = [t \in Tags |-> ""]

Goto(t, l) == pc' = [pc EXCEPT ![t] = l]
Panics == up' = FALSE /\ UNCHANGED <<cores, file, opts, panel, core, pc, on, faults, asked, trouble>>
Fault == faults < Faults /\ faults' = faults + 1

\* An error: Controller.Start gives up, nodeInfoMonitor returns.  Half an AddNode is
\* what it is until the node is deleted.
FailsAs(t, reason) ==
    /\ Goto(t, "idle")
    /\ trouble' = [trouble EXCEPT ![t] = reason]
Fails(t) == FailsAs(t, IF trouble[t] = "half" THEN "half" ELSE "failed")

-----------------------------------------------------------------------------
(* What the cores build *)

Protocols(type) == {"vmess", "vless", "shadowsocks", "trojan"}
                        \cup (IF type = "xray" THEN {"socks"} ELSE {"hysteria"})
V2ray(n) == n.type \in {"vmess", "vless"}

\* Mutant: the case of Reality is missing.
SecurityOfTls(n, f) == IF n.security = "tls" /\ f.cert THEN "tls" ELSE "none"

Security(n, f) == IF n.security = "tls" /\ ~f.cert THEN "none" ELSE n.security

Inbound(n, f, network, settings) ==
    [type |-> n.type, network |-> network, settings |-> settings, security |-> Security(n, f)]

\* buildV2ray: without NetworkSettings StreamSetting stays nil.
BuildV2rayFails(n, f) ==
    \/ n.type = "vless" /\ f.fallback = "bad"
    \/ n.settings = "bad"
    \/ n.settings = "ok" /\ n.network = "other"

\* buildInbound, for a node of a type the core knows: what it reads through a nil pointer.
XrayPanics(n, f, o) ==
    \/ ~o.XrayOptions /\ ~(n.type = "vmess" /\ BuildV2rayFails(n, f))
    \/ V2ray(n) /\ n.settings = "none" /\ ~BuildV2rayFails(n, f)
XrayFails(n, f, o) ==
    \/ V2ray(n) /\ BuildV2rayFails(n, f)
    \/ n.type = "trojan" /\ f.fallback = "bad"

\* The settings of "ws" are replaced by those of the proxy protocol.
XrayInbound(n, f) ==
    Inbound(n, f, IF V2ray(n) THEN n.network ELSE "tcp",
            IF V2ray(n) /\ n.network # "ws" THEN n.settings ELSE "none")

\* getInboundOptions, then inbound.New, which knows no other transport and no
\* hysteria without TLS.
SingFails(n, f) ==
    \/ V2ray(n) /\ n.network \in {"ws", "grpc"} /\ n.settings = "bad"
    \/ V2ray(n) /\ n.network = "other"
    \/ n.type = "hysteria" /\ Security(n, f) # "tls"

\* The settings of "tcp" are not read.
SingInbound(n, f) ==
    Inbound(n, f, IF V2ray(n) THEN n.network ELSE "tcp",
            IF V2ray(n) /\ n.network # "tcp" THEN n.settings ELSE "none")

-----------------------------------------------------------------------------
(* AddNode *)

\* Node.Start starts one controller after another.
Starts(t) ==
    /\ up /\ pc[t] = "new"
    /\ \A k \in Tags : pc[k] = "new" \/ k \in running
    /\ Goto(t, "add")
    /\ UNCHANGED <<up, cores, file, opts, panel, core, on, faults, asked, trouble>>

\* By name, by type, or any that knows the protocol; the last one of the range over
\* the map is taken, whichever that is.
Candidates(t) ==
    IF file[t].name # "" THEN {c \in cores : c = file[t].name}
    ELSE IF opts[t].core # "" THEN {c \in cores : TypeOf[c] = opts[t].core}
    ELSE {c \in cores : info[t].type \in Protocols(TypeOf[c])}

Selects(t) ==
    /\ up /\ pc[t] = "add"
    /\ \E c \in IF Multi THEN Candidates(t) ELSE cores :
         /\ on' = [on EXCEPT ![t] = c]
         /\ opts' = IF ~Multi \/ opts[t].core # "" THEN opts
                    ELSE [opts EXCEPT ![t] = Reparse(file[t].Core, TypeOf[c])]
    /\ Goto(t, "build")
    /\ UNCHANGED <<up, cores, file, panel, core, faults, asked, trouble>>

\* "the node type is not support"
SelectsNone(t) ==
    /\ up /\ pc[t] = "add" /\ Multi /\ Candidates(t) = {}
    /\ Fails(t)
    /\ UNCHANGED <<up, cores, file, opts, panel, core, on, faults, asked>>

Knows(t) == info[t].type \in Protocols(Kind(t))
BuildFails(t) ==
    /\ up /\ pc[t] = "build"
    /\ \/ Kind(t) = "xray" /\ (~Knows(t) \/ XrayFails(info[t], file[t], opts[t]))
                           /\ ~(Knows(t) /\ XrayPanics(info[t], file[t], opts[t]))
       \/ Kind(t) = "sing" /\ opts[t].SingOptions /\ (~Knows(t) \/ SingFails(info[t], file[t]))
    /\ Fails(t)
    /\ UNCHANGED <<up, cores, file, opts, panel, core, on, faults, asked>>

BuildPanics(t) ==
    /\ up /\ pc[t] = "build"
    /\ \/ Kind(t) = "xray" /\ Knows(t) /\ XrayPanics(info[t], file[t], opts[t])
       \/ Kind(t) = "sing" /\ ~opts[t].SingOptions
    /\ Panics

Builds(t) ==
    /\ up /\ pc[t] = "build" /\ Knows(t)
    /\ IF Kind(t) = "xray"
       THEN ~XrayFails(info[t], file[t], opts[t]) /\ ~XrayPanics(info[t], file[t], opts[t])
       ELSE opts[t].SingOptions /\ ~SingFails(info[t], file[t])
    /\ Goto(t, "open")
    /\ UNCHANGED <<up, cores, file, opts, panel, core, on, faults, asked, trouble>>

Put(t, x) == inbounds' = [inbounds EXCEPT ![on[t]][t] = x]
Listener(t, state) ==
    [state |-> state, users |-> {},
     built |-> IF Kind(t) = "xray" THEN XrayInbound(info[t], file[t]) ELSE SingInbound(info[t], file[t])]

\* addInbound: the manager refuses a tag it has, but AddNode comes after DelNode.
AddsInbound(t) ==
    /\ up /\ pc[t] = "open" /\ Kind(t) = "xray" /\ In(t) = None
    /\ Put(t, Listener(t, "open"))
    /\ Goto(t, "attach")
    /\ UNCHANGED <<up, cores, file, opts, panel, nodes, attached, on, faults, asked, trouble>>

\* The manager keeps a handler that does not start.
AddInboundFails(t) ==
    /\ up /\ pc[t] = "open" /\ Kind(t) = "xray"
    /\ Fault
    /\ UNCHANGED inbounds \/ Put(t, Listener(t, "closed"))
    /\ Fails(t)
    /\ UNCHANGED <<up, cores, file, opts, panel, nodes, attached, on, asked>>

\* inbound.New and in.Start.
StartsInbound(t) ==
    /\ up /\ pc[t] = "open" /\ Kind(t) = "sing"
    /\ \/ Goto(t, "store") /\ UNCHANGED <<faults, trouble>>
       \/ Fault /\ Fails(t)
    /\ UNCHANGED <<up, cores, file, opts, panel, core, on, asked>>

\* b.inbounds[tag] = in
Stores(t) ==
    /\ up /\ pc[t] = "store"
    /\ Put(t, Listener(t, "open"))
    /\ Goto(t, "attach")
    /\ UNCHANGED <<up, cores, file, opts, panel, nodes, attached, on, faults, asked, trouble>>

\* addOutbound, router.AddInbound; then Selector.nodes.
Attaches(t) ==
    /\ up /\ pc[t] = "attach"
    /\ attached' = [attached EXCEPT ![on[t]] = @ \cup {t}]
    /\ nodes' = IF Multi THEN [nodes EXCEPT ![t] = on[t]] ELSE nodes
    /\ asked' = [asked EXCEPT ![t] = info[t]]
    /\ trouble' = [trouble EXCEPT ![t] = ""]
    /\ Goto(t, "users")
    /\ UNCHANGED <<up, cores, file, opts, panel, inbounds, on, faults>>

AttachFails(t) ==
    /\ up /\ pc[t] = "attach"
    /\ Fault
    /\ FailsAs(t, "half")
    /\ UNCHANGED <<up, cores, file, opts, panel, core, on, asked>>

-----------------------------------------------------------------------------
(* DelNode *)

\* The node has changed at the panel; the type of a node is the file's.
NodeChanges(t) ==
    /\ up /\ pc[t] = "idle" /\ t \in running
    /\ changes < MaxChanges /\ changes' = changes + 1
    /\ \E n \in Infos[t] : n.type = info[t].type /\ info' = [info EXCEPT ![t] = n]
    /\ Goto(t, "del")
    /\ UNCHANGED <<up, cores, file, opts, list, newU, running, core, on, faults, asked, trouble>>

\* s.cores[t.(string)]: what the map holds is a Core.
SelectorDelNodePanics(t) ==
    /\ up /\ pc[t] = "del" /\ Multi /\ nodes[t] # None
    /\ Panics

\* removeInbound, removeOutbound.
XrayDelNode(t) ==
    /\ up /\ pc[t] = "del" /\ ~Multi /\ Kind(t) = "xray"
    /\ In(t) # None
    /\ Put(t, None)
    /\ attached' = [attached EXCEPT ![on[t]] = @ \ {t}]
    /\ asked' = [asked EXCEPT ![t] = None]
    /\ trouble' = [trouble EXCEPT ![t] = ""]
    /\ Goto(t, "add")
    /\ UNCHANGED <<up, cores, file, opts, panel, nodes, on, faults>>

\* Mutant: the inbound is taken from the router and not closed.
SingDelNodeOpen(t) ==
    /\ up /\ pc[t] = "del" /\ ~Multi /\ Kind(t) = "sing"
    /\ In(t) # None
    /\ attached' = [attached EXCEPT ![on[t]] = @ \ {t}]
    /\ asked' = [asked EXCEPT ![t] = None]
    /\ IF t \in attached[on[t]]
       THEN Goto(t, "add") /\ trouble' = [trouble EXCEPT ![t] = ""] ELSE FailsAs(t, "failed")
    /\ UNCHANGED <<up, cores, file, opts, panel, nodes, inbounds, on, faults>>

\* The inbound is closed and stays in the map; one that is closed again, or that the
\* router does not know, is an error.
SingDelNode(t) ==
    /\ up /\ pc[t] = "del" /\ ~Multi /\ Kind(t) = "sing"
    /\ In(t) # None
    /\ Put(t, [In(t) EXCEPT !.state = "closed"])
    /\ attached' = [attached EXCEPT ![on[t]] = @ \ {t}]
    /\ asked' = [asked EXCEPT ![t] = None]
    /\ IF In(t).state = "open" /\ t \in attached[on[t]]
       THEN Goto(t, "add") /\ trouble' = [trouble EXCEPT ![t] = ""] ELSE FailsAs(t, "failed")
    /\ UNCHANGED <<up, cores, file, opts, panel, nodes, on, faults>>

\* After an AddNode that failed, xray has no such node.  (The selector and sing keep what
\* a controller that runs has once added.)
DelNodeFails(t) ==
    /\ up /\ pc[t] = "del"
    /\ ~Multi /\ Kind(t) = "xray" /\ In(t) = None
    /\ Fails(t)
    /\ UNCHANGED <<up, cores, file, opts, panel, core, on, faults, asked>>

-----------------------------------------------------------------------------
(* AddUsers, DelUsers *)

\* GetUserManager of xray: there is an inbound, and its proxy is a proxy.UserManager.  The
\* socks server of xray-core is none, so that AddUsers is an error for every such node.
Manages(in) == in # None /\ in.built.type # "socks"

Target(t) == IF Multi THEN nodes[t] ELSE on[t]
Found(t) == Target(t) # None /\ Manages(inbounds[Target(t)][t])
Has(t) == inbounds[Target(t)][t].users
Lets(t, us) == inbounds' = [inbounds EXCEPT ![Target(t)][t].users = us]

\* All of them, after AddNode; a manager that refuses one leaves those before it.
AddsAllUsers(t) ==
    /\ up /\ pc[t] = "users" /\ Found(t)
    /\ \/ /\ Lets(t, Has(t) \cup list[t])
          /\ Goto(t, "idle") /\ running' = running \cup {t} /\ UNCHANGED <<faults, trouble>>
       \/ \E some \in SUBSET list[t] :
             Fault /\ Lets(t, Has(t) \cup some) /\ Fails(t) /\ UNCHANGED running
    /\ UNCHANGED <<up, cores, file, opts, info, list, newU, changes, nodes, attached, on, asked>>

\* The user list has changed: deletions first, where there are any.
UsersChange(t) ==
    /\ up /\ pc[t] = "idle" /\ t \in running
    /\ changes < MaxChanges /\ changes' = changes + 1
    /\ \E us \in SUBSET Users \ {{}, list[t]} :
         /\ newU' = [newU EXCEPT ![t] = us]
         /\ Goto(t, IF list[t] \subseteq us THEN "addUsers" ELSE "delUsers")
    /\ UNCHANGED <<up, cores, file, opts, info, list, running, core, on, faults, asked, trouble>>

DelsUsers(t) ==
    /\ up /\ pc[t] = "delUsers" /\ Found(t)
    /\ LET deleted == list[t] \ newU[t] IN
         \/ /\ Lets(t, Has(t) \ deleted)
            /\ Goto(t, "addUsers") /\ UNCHANGED <<faults, trouble>>
         \/ \E some \in SUBSET deleted : Fault /\ Lets(t, Has(t) \ some) /\ Fails(t)
    /\ UNCHANGED <<up, cores, file, opts, panel, nodes, attached, on, asked>>

\* The new ones; then userList is replaced.
AddsUsers(t) ==
    /\ up /\ pc[t] = "addUsers" /\ Found(t)
    /\ LET added == newU[t] \ list[t] IN
         \/ /\ Lets(t, Has(t) \cup added) /\ list' = [list EXCEPT ![t] = newU[t]]
            /\ Goto(t, "idle") /\ UNCHANGED <<faults, trouble>>
         \/ \E some \in SUBSET added \ {{}} :
               Fault /\ Lets(t, Has(t) \cup some) /\ Fails(t) /\ UNCHANGED list
    /\ UNCHANGED <<up, cores, file, opts, info, newU, running, changes, nodes, attached, on, asked>>

\* The selector or the manager does not have the node, or the node no user manager.
UsersFail(t) ==
    /\ up /\ pc[t] \in {"users", "delUsers", "addUsers"} /\ ~Found(t)
    /\ Fails(t)
    /\ UNCHANGED <<up, cores, file, opts, panel, core, on, faults, asked>>

\* A write of Box.inbounds while another controller uses the map: fatal error.
UsesMap(t) == Kind(t) = "sing" /\ pc[t] \in {"store", "del", "users", "delUsers", "addUsers"}
MapOverlaps(t) ==
    /\ up /\ pc[t] = "store"
    /\ \E k \in Tags \ {t} : UsesMap(k) /\ on[k] = on[t]
    /\ Panics

Next == \E t \in Tags :
    \/ Starts(t) \/ Selects(t) \/ SelectsNone(t) \/ BuildFails(t) \/ BuildPanics(t) \/ Builds(t)
    \/ AddsInbound(t) \/ AddInboundFails(t) \/ StartsInbound(t) \/ Stores(t)
    \/ Attaches(t) \/ AttachFails(t)
    \/ NodeChanges(t) \/ SelectorDelNodePanics(t) \/ XrayDelNode(t) \/ SingDelNode(t)
    \/ DelNodeFails(t)
    \/ AddsAllUsers(t) \/ UsersChange(t) \/ DelsUsers(t) \/ AddsUsers(t) \/ UsersFail(t)
    \/ MapOverlaps(t)

Spec == Init /\ [][Next]_vars

-----------------------------------------------------------------------------
Listening(t) == {c \in CoreNames : inbounds[c][t] # None /\ inbounds[c][t].state = "open"}

\* What an inbound must be for the node n: under the security the panel asks for, unless
\* the file asks for no certificate.  The settings of the transport are kept but for
\* those that a core does not use: of "ws" by xray, of "tcp" by sing.
Fits(b, n, f, type) ==
    /\ b.type = n.type
    /\ b.security = n.security \/ (b.security = "none" /\ ~f.cert /\ n.security = "tls")
    /\ V2ray(n) => /\ b.network = n.network
                   /\ (n.settings = "ok" /\ <<type, n.network>> \notin {<<"xray", "ws">>, <<"sing", "tcp">>})
                          => b.settings = "ok"

\* When no call is under way a node that was added without an error is served by one
\* core, the one the selector asks for it: it listens as the panel says, is routed,
\* and lets in the users of the list.  That is never a node of socks: AddUsers always
\* fails for one (core/xray/user.go:23), and its controller does not start.
ServesAsAsked ==
    up => \A t \in Tags : (pc[t] = "idle" /\ asked[t] # None /\ trouble[t] = "") =>
        \E c \in cores :
            /\ Listening(t) = {c} /\ t \in attached[c]
            /\ Multi => nodes[t] = c
            /\ inbounds[c][t].users = list[t]
            /\ Fits(inbounds[c][t].built, asked[t], file[t], TypeOf[c])
            /\ asked[t].type # "socks"

\* Nothing listens for a node that is not in the cores: not after DelNode, and not when
\* AddNode fails, unless this happens after the inbound has been started.
NoStrayListener ==
    up => \A t \in Tags :
        (pc[t] = "idle" /\ asked[t] = None /\ Listening(t) # {}) => trouble[t] = "half"
=============================================================================
