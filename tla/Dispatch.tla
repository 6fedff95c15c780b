------------------------------- MODULE Dispatch -------------------------------
(***************************************************************************)
(* What happens to a connection between the inbound and its handler: the   *)
(* xray dispatcher (app/dispatcher/default.go) and the sing-box hook       *)
(* (core/sing/hook.go), both of which look up the node's limiter, ask it   *)
(* for a place and a bucket (limiter/limiter.go), check its rules          *)
(* (limiter/rule.go) and give the place back.  Beside them the controller  *)
(* replaces the limiter, its rules and its users' limits (node/task.go).   *)
(*                                                                         *)
(* A connection holds the limiter it found, which may be replaced or       *)
(* deleted meanwhile: limiters are a heap.  AddConnCount and DelConnCount  *)
(* are one step here, with the count alone; ConnLimiter has their detail.  *)
(***************************************************************************)
EXTENDS Integers, Sequences, FiniteSets

CONSTANTS
    Conns,      \* goroutines of connections, each serves one after another
    Users,
    Limiters,   \* the heap of limiters
    Limits,     \* speed limits of users; 0 is none
    NodeLimits, \* speed limits of the node
    ConnLimit,
    Chunks,     \* bound of the model: what a client sends, a number of chunks
    MaxChanges, \* bound of the model: changes the controller makes
    None        \* nil

\* A TCP or UDP connection dispatched by xray, one given to DispatchLink; a connection
\* or a packet connection of the sing-box hook.
Kinds(core) == IF core = "xray" THEN {"tcp", "udp", "link"} ELSE {"hook", "packet"}

ASSUME DispatchAssumption ==
    /\ Limits \subseteq Nat /\ 0 \in Limits /\ NodeLimits \subseteq Nat
    /\ ConnLimit \in Nat \ {0}
    /\ Chunks \in Nat /\ MaxChanges \in Nat
    /\ None \notin Limiters /\ Limiters # {}
    /\ None \notin [rate : Nat, by : Conns]
    /\ IsFiniteSet(Conns)

VARIABLES
    up,         \* the process runs
    node,       \* its core, speed limit, and whether it has a Name
    registry,   \* the limiter of the tag, or None
    heap,       \* the limiters
    panel,      \* the speed limits the panel has set
    ctl,        \* where the controller is
    who,        \* the user whose limit it is changing
    changes,
    conn,       \* the connections
    stream      \* what the client of each has sent, by where it is
vars == <<up, node, registry, heap, panel, ctl, who, changes, conn, stream>>

\* Rules as far as a connection can meet them: none yet, nil entries, or the node's.
Fresh(limits) == [rules |-> "none", places |-> [u \in Users |-> 0],
                  limits |-> limits, bucket |-> [u \in Users |-> None],
                  leaked |-> [u \in Users |-> 0],      \* history: packets' places
                  others |-> {},      \* history: users that had another limit before
                  missed |-> {}]      \* history: users whose limit changed with the node's

\* l is the limiter held, owes the deferred DelConnCount, rate the limit loaded.
\* History: due is the limit the user had from when the connection began until it was
\* loaded, or None if the controller was changing it.
Idle(u) == [at |-> "idle", kind |-> "tcp", user |-> u, l |-> None, owes |-> FALSE,
            rate |-> 0, bucket |-> None, due |-> None]
NoLimits == [u \in Users |-> 0]
NoStream == [pipe |-> <<>>, cache |-> <<>>, got |-> <<>>, sent |-> 0]

Init ==
    /\ up = TRUE
    /\ node \in [core : {"xray", "sing"}, limit : NodeLimits, named : BOOLEAN]
    /\ panel = NoLimits
    /\ registry = CHOOSE l \in Limiters : TRUE
    /\ heap = [l \in Limiters |->
                 [Fresh(panel) EXCEPT !.rules = IF l = registry THEN "set" ELSE "none"]]
    /\ ctl = "idle" /\ who = None /\ changes = 0
    /\ \E user \in [Conns -> Users] : conn = [k \in Conns |-> Idle(user[k])]
    /\ stream = [k \in Conns |-> NoStream]

Kind(k) == conn[k].kind
L(k) == conn[k].l
User(k) == conn[k].user
Places(k) == heap[L(k)].places[User(k)]
ByHook(k) == Kind(k) \in {"hook", "packet"}

Goto(k, l) == conn' = [conn EXCEPT ![k].at = l]
Ends(k) ==
    /\ conn' = [conn EXCEPT ![k] = Idle(User(k))]
    /\ stream' = [stream EXCEPT ![k] = NoStream]
Panics ==
    /\ up' = FALSE
    /\ UNCHANGED <<node, registry, heap, panel, ctl, who, changes, conn, stream>>
Control == <<node, registry, panel, ctl, who, changes>>

-----------------------------------------------------------------------------
(* A connection begins: the limiter is looked up. *)

\* determineSpeedLimit: the smaller one that is not 0.
Slower(a, b) == IF a = 0 THEN b ELSE IF b = 0 \/ a <= b THEN a ELSE b

\* The controller has nothing under way for the limits: what the panel says is stored.
Stored == ctl \notin {"added", "deleted"}

\* History: what the panel has set for the user, which LimitedInForce asks for.
Due(k) == IF registry = None \/ ~Stored THEN None
          ELSE IF User(k) \in heap[registry].missed THEN None
          ELSE Slower(node.limit, panel[User(k)])

Begin(k, kind, l, at) ==
    conn' = [conn EXCEPT ![k].kind = kind, ![k].l = l, ![k].at = at,
                         ![k].due = IF kind = "link" THEN None ELSE Due(k)]

\* getLink: without a limiter the connection is refused.
Dispatches(k, kind) ==
    /\ up /\ conn[k].at = "idle"
    /\ kind \in Kinds(node.core) \cap {"tcp", "udp"}
    /\ registry # None
    /\ Begin(k, kind, registry, "check")
    /\ UNCHANGED <<up, Control, heap, stream>>

\* DispatchLink asks for no place; its limiter is looked up for the rules.
DispatchesLink(k) ==
    /\ up /\ conn[k].at = "idle" /\ "link" \in Kinds(node.core)
    /\ Begin(k, "link", None, "route")
    /\ UNCHANGED <<up, Control, heap, stream>>

\* RoutedConnection, RoutedPacketConnection: the rules are checked first.
HookBegins(k, kind) ==
    /\ up /\ conn[k].at = "idle"
    /\ kind \in Kinds(node.core) \cap {"hook", "packet"}
    /\ registry # None
    /\ Begin(k, kind, registry, "rules")
    /\ UNCHANGED <<up, Control, heap, stream>>

\* The error of GetLimiter is logged, and the nil limiter used.
HookFindsNone(k) ==
    /\ up /\ conn[k].at = "idle" /\ node.core = "sing"
    /\ registry = None
    /\ Panics

-----------------------------------------------------------------------------
(* CheckLimit *)

\* AddConnCount(email, ip, isTcp): the hook passes TRUE for packets too.
Counts(k) == Kind(k) # "udp"

Admits(k) ==
    /\ up /\ conn[k].at = "check"
    /\ Places(k) < ConnLimit
    /\ heap' = IF Counts(k) THEN [heap EXCEPT ![L(k)].places[User(k)] = @ + 1] ELSE heap
    /\ Goto(k, "limit")
    /\ UNCHANGED <<up, Control, stream>>

Refuses(k) ==
    /\ up /\ conn[k].at = "check"
    /\ Places(k) >= ConnLimit
    /\ Ends(k)
    /\ UNCHANGED <<up, Control, heap>>

\* UserLimitInfo.Load(email): the dispatcher asks for tag and Uuid, as the limits are
\* stored; the hook asks for the Uuid alone, and finds none.  (No dynamic limit is ever
\* set: SpeedChecker is not started.)
UserLimit(k) == IF node.core = "xray" THEN heap[L(k)].limits[User(k)] ELSE 0

LoadsLimit(k) ==
    /\ up /\ conn[k].at = "limit"
    /\ conn' = [conn EXCEPT ![k].rate = Slower(node.limit, UserLimit(k)),
                            ![k].at = "bucket"]
    /\ UNCHANGED <<up, Control, heap, stream>>

\* Where the connection goes once it has passed CheckLimit.  (UDP is sniffed in the same
\* way; the stream is followed for TCP.)
Past(k) == IF ByHook(k) THEN "live" ELSE IF Kind(k) = "tcp" THEN "sniff" ELSE "route"

\* Mutant: each connection stores a bucket of its own.
TakesOwnBucket(k) ==
    /\ up /\ conn[k].at = "bucket"
    /\ LET mine == IF conn[k].rate = 0 THEN None ELSE [rate |-> conn[k].rate, by |-> k]
       IN  /\ conn' = [conn EXCEPT ![k].bucket = mine, ![k].at = Past(k), ![k].rate = 0,
                                   ![k].owes = Kind(k) = "hook"]
           /\ heap' = [heap EXCEPT ![L(k)].bucket[User(k)] = mine]
    /\ UNCHANGED <<up, Control, stream>>

\* LoadOrStore(email, a new bucket): the first one of the user stays.
TakesBucket(k) ==
    /\ up /\ conn[k].at = "bucket"
    /\ LET old == heap[L(k)].bucket[User(k)]
           mine == IF conn[k].rate = 0 THEN None
                   ELSE IF old # None THEN old
                   ELSE [rate |-> conn[k].rate, by |-> k]
       IN  /\ conn' = [conn EXCEPT ![k].bucket = mine, ![k].at = Past(k), ![k].rate = 0,
                                   ![k].owes = Kind(k) = "hook"]      \* t.l = DelConnCount
           /\ heap' = IF mine = None THEN heap
                      ELSE [heap EXCEPT ![L(k)].bucket[User(k)] = mine]
    /\ UNCHANGED <<up, Control, stream>>

-----------------------------------------------------------------------------
(* Sniffing: the payload is read into a cache that the handler reads first. *)

Sends(k) ==
    /\ up /\ conn[k].at \in {"sniff", "live"} /\ Kind(k) = "tcp"
    /\ stream[k].sent < Chunks
    /\ stream' = [stream EXCEPT ![k].pipe = Append(@, stream[k].sent + 1), ![k].sent = @ + 1]
    /\ UNCHANGED <<up, Control, heap, conn>>

\* Mutant: the cache is replaced by what is read now.
CachesLast(k) ==
    /\ up /\ conn[k].at = "sniff"
    /\ stream[k].pipe # <<>>
    /\ stream' = [stream EXCEPT ![k].cache = stream[k].pipe, ![k].pipe = <<>>]
    /\ UNCHANGED <<up, Control, heap, conn>>

\* cReader.Cache(payload): whatever the pipe has within 100 ms.  (It is tried a few times;
\* a try that finds nothing changes nothing.)
Caches(k) ==
    /\ up /\ conn[k].at = "sniff"
    /\ stream[k].pipe # <<>>
    /\ stream' = [stream EXCEPT ![k].cache = @ \o stream[k].pipe, ![k].pipe = <<>>]
    /\ UNCHANGED <<up, Control, heap, conn>>

\* ReadMultiBuffer of the cachedReader, by the handler.
Reads(k) ==
    /\ up /\ conn[k].at = "live"
    /\ LET s == stream[k] IN
         /\ s.cache # <<>> \/ s.pipe # <<>>
         /\ stream' = [stream EXCEPT ![k] =
                         IF s.cache # <<>> THEN [s EXCEPT !.got = @ \o s.cache, !.cache = <<>>]
                                           ELSE [s EXCEPT !.got = @ \o s.pipe, !.pipe = <<>>]]
    /\ UNCHANGED <<up, Control, heap, conn>>

-----------------------------------------------------------------------------
(* routedDispatch, and the rules of the hook *)

\* Mutant: DelConnCount is deferred for UDP as well.
RoutesOwing(k) ==
    /\ up /\ conn[k].at \in {"sniff", "route"}
    /\ conn' = [conn EXCEPT ![k].at = "rules", ![k].owes = Kind(k) # "link",
                            ![k].l = IF Kind(k) = "link" THEN registry ELSE @]
    /\ UNCHANGED <<up, Control, heap, stream>>

\* With a result of the sniffer, an error of it or unsniffed: the deferred DelConnCount,
\* for TCP of Dispatch, with the limiter of getLink.  DispatchLink takes the
\* registry's limiter now, and owes nothing.
Routes(k) ==
    /\ up /\ conn[k].at \in {"sniff", "route"}
    /\ conn' = [conn EXCEPT ![k].at = "rules",
                            ![k].owes = Kind(k) = "tcp",
                            ![k].l = IF Kind(k) = "link" THEN registry ELSE @]
    /\ UNCHANGED <<up, Control, heap, stream>>

Rules(k) == IF L(k) = None THEN "none" ELSE heap[L(k)].rules
GivesBack(k) ==
    heap' = IF conn[k].owes THEN [heap EXCEPT ![L(k)].places[User(k)] = @ - 1]
            ELSE IF Kind(k) = "packet" /\ conn[k].at = "live"
            THEN [heap EXCEPT ![L(k)].leaked[User(k)] = @ + 1]
            ELSE heap

\* Reject by rule: of the destination it came with or was sniffed, or of the protocol.
RuleRejects(k) ==
    /\ up /\ conn[k].at = "rules" /\ Rules(k) = "set"
    /\ GivesBack(k)
    /\ Ends(k)
    /\ UNCHANGED <<up, Control>>

\* A rule that is still nil is asked for a match.
RulePanics(k) ==
    /\ up /\ conn[k].at = "rules" /\ Rules(k) = "nil"
    /\ Panics

\* In the hook: no rule matches, and a place is asked for.
RulesPass(k) ==
    /\ up /\ conn[k].at = "rules" /\ ByHook(k) /\ Rules(k) # "nil"
    /\ Goto(k, "check")
    /\ UNCHANGED <<up, Control, heap, stream>>

\* No rule matches; the tag of a forced outbound or any other handler does not exist.
NoHandler(k) ==
    /\ up /\ conn[k].at = "rules" /\ ~ByHook(k) /\ Rules(k) # "nil"
    /\ GivesBack(k)
    /\ Ends(k)
    /\ UNCHANGED <<up, Control>>

HandlerDispatches(k) ==
    /\ up /\ conn[k].at = "rules" /\ ~ByHook(k) /\ Rules(k) # "nil"
    /\ Goto(k, "live")
    /\ UNCHANGED <<up, Control, heap, stream>>

\* ReadPacket of a packet connection with a bucket calls itself without end.
ReadsPacket(k) ==
    /\ up /\ conn[k].at = "live" /\ Kind(k) = "packet"
    /\ conn[k].bucket # None
    /\ Panics

\* handler.Dispatch returns; sing-box calls Leave of the tracker.
Closes(k) ==
    /\ up /\ conn[k].at = "live"
    /\ GivesBack(k)
    /\ Ends(k)
    /\ UNCHANGED <<up, Control>>

-----------------------------------------------------------------------------
(* The controller *)

Conn == <<conn, stream>>
CtlGoto(l) == ctl' = l
Change == changes < MaxChanges /\ changes' = changes + 1

\* A user gets another limit: of him, nothing is due to connections that have not
\* loaded it.
Relimits(u, limit) ==
    /\ limit # panel[u]
    /\ panel' = [panel EXCEPT ![u] = limit]
    /\ conn' = [k \in Conns |-> IF User(k) = u /\ conn[k].at \in {"rules", "check", "limit"}
                                THEN [conn[k] EXCEPT !.due = None] ELSE conn[k]]

\* The user list has changed: the core lets the user in (again)...
AddsUsers(u, limit) ==
    /\ up /\ ctl = "idle" /\ Change /\ registry # None
    /\ Relimits(u, limit)
    /\ who' = u /\ CtlGoto("added")
    /\ heap' = [heap EXCEPT ![registry].others = @ \cup {u}, ![registry].missed = @ \ {u}]
    /\ UNCHANGED <<up, node, registry, stream>>

\* ...and then UpdateUser of the limiter deletes the old limit, and stores the new one.
DeletesLimits ==
    /\ up /\ ctl = "added"
    /\ heap' = [heap EXCEPT ![registry].limits[who] = 0]
    /\ CtlGoto("deleted")
    /\ UNCHANGED <<up, node, registry, panel, who, changes, Conn>>

StoresLimits ==
    /\ up /\ ctl = "deleted"
    /\ heap' = [heap EXCEPT ![registry].limits[who] = panel[who]]
    /\ who' = None /\ CtlGoto("idle")
    /\ UNCHANGED <<up, node, registry, panel, changes, Conn>>

\* The node has changed, and perhaps its users with it.  Of an unnamed node the
\* limiter is deleted and added again; connections that the old inbound carries go on.
DeletesLimiter ==
    /\ up /\ ctl = "idle" /\ Change /\ registry # None /\ ~node.named
    /\ registry' = None
    /\ \/ UNCHANGED <<panel, conn>>
       \/ \E u \in Users, limit \in Limits : Relimits(u, limit)
    /\ CtlGoto("add")
    /\ UNCHANGED <<up, node, heap, who, stream>>

FreeLimiters == {l \in Limiters \ {registry} : \A k \in Conns : L(k) # l}
\* Mutant: the limiter is made for no users.
AddsEmptyLimiter ==
    /\ up /\ ctl = "add"
    /\ FreeLimiters # {}
    /\ registry' = CHOOSE l \in FreeLimiters : TRUE
    /\ heap' = [l \in Limiters |-> IF l \in FreeLimiters THEN Fresh(NoLimits) ELSE heap[l]]
    /\ CtlGoto("rules")
    /\ UNCHANGED <<up, node, panel, who, changes, Conn>>

AddsLimiter ==
    /\ up /\ ctl = "add"
    /\ FreeLimiters # {}
    /\ registry' = CHOOSE l \in FreeLimiters : TRUE
    /\ heap' = [l \in Limiters |-> IF l \notin FreeLimiters THEN heap[l]
                                   ELSE Fresh(IF l = registry' THEN panel ELSE NoLimits)]
    /\ CtlGoto("rules")
    /\ UNCHANGED <<up, node, panel, who, changes, Conn>>

\* A named one keeps it, with the limits of the users it had before.
KeepsLimiter ==
    /\ up /\ ctl = "idle" /\ Change /\ registry # None /\ node.named
    /\ \/ UNCHANGED <<panel, conn, heap>>
       \/ \E u \in Users, limit \in Limits :
            /\ Relimits(u, limit)
            /\ heap' = [heap EXCEPT ![registry].missed = @ \cup {u}]
    /\ CtlGoto("rules")
    /\ UNCHANGED <<up, node, registry, who, stream>>

\* UpdateRule: DomainRules is a new slice of nils, which is then filled.
MakesRules ==
    /\ up /\ ctl = "rules"
    /\ heap' = [heap EXCEPT ![registry].rules = "nil"]
    /\ CtlGoto("fill")
    /\ UNCHANGED <<up, node, registry, panel, who, changes, Conn>>

FillsRules ==
    /\ up /\ ctl = "fill"
    /\ heap' = [heap EXCEPT ![registry].rules = "set"]
    /\ CtlGoto("idle")
    /\ UNCHANGED <<up, node, registry, panel, who, changes, Conn>>

\* Controller.Close: the limiter goes while the core still runs.
ClosesController ==
    /\ up /\ ctl = "idle" /\ Change /\ registry # None
    /\ registry' = None
    /\ CtlGoto("closed")
    /\ UNCHANGED <<up, node, heap, panel, who, Conn>>

ConnStep(k) ==
    \/ Admits(k) \/ Refuses(k) \/ LoadsLimit(k) \/ TakesBucket(k)
    \/ Caches(k) \/ Routes(k) \/ RuleRejects(k) \/ RulePanics(k)
    \/ RulesPass(k) \/ NoHandler(k) \/ HandlerDispatches(k) \/ ReadsPacket(k) \/ Closes(k)
CtlStep ==
    \/ DeletesLimits \/ StoresLimits \/ AddsLimiter \/ MakesRules \/ FillsRules

Next ==
    \/ \E k \in Conns : \E kind \in Kinds(node.core) : Dispatches(k, kind) \/ HookBegins(k, kind)
    \/ \E k \in Conns : DispatchesLink(k) \/ HookFindsNone(k) \/ Sends(k) \/ Reads(k) \/ ConnStep(k)
    \/ \E u \in Users, limit \in Limits : AddsUsers(u, limit)
    \/ DeletesLimiter \/ KeepsLimiter \/ ClosesController \/ CtlStep

Spec == Init /\ [][Next]_vars

-----------------------------------------------------------------------------
\* A connection that has a place of its limiter.
Holds(k) ==
    \/ Kind(k) = "tcp" /\ conn[k].at \notin {"idle", "check"}
    \/ ByHook(k) /\ conn[k].at \in {"limit", "bucket", "live"}

\* Every connection gives its place back once, to the limiter it had it from: on each
\* of the exits of routedDispatch and however the limiter is replaced meanwhile, the
\* places of a limiter are the connections that hold one.  (Packet connections of the
\* hook never give theirs back.)
PlacesMatch ==
    \A l \in Limiters, u \in Users :
        heap[l].places[u] - heap[l].leaked[u]
            = Cardinality({k \in Conns : L(k) = l /\ User(k) = u /\ Holds(k)})

PastBucket(k) == IF ByHook(k) THEN conn[k].at = "live"
                 ELSE Kind(k) # "link" /\ conn[k].at \in {"sniff", "route", "rules", "live"}

\* The connections of a user share one bucket of their limiter, so that together they
\* keep to the limit, even when several are the first at once.
OneBucket ==
    \A j, k \in {c \in Conns : PastBucket(c) /\ conn[c].bucket # None} :
        (User(j) = User(k) /\ L(j) = L(k)) => conn[j].bucket = conn[k].bucket

\* The hook loads nothing but the node's limit (core/sing/hook.go:67): a user of sing-box
\* for whom the panel has set a stricter one of his own is not kept to it.
Overlooked(k) == node.core = "sing" /\ conn[k].due # node.limit

\* A connection is limited if and only if the panel has set a limit for its user or the
\* node, and to that limit as long as the user has had no other in this limiter: a
\* limiter that is replaced, or a list that gives other users other limits, changes
\* nothing.  Excepted are the users of sing-box with a limit of their own, the
\* connections that begin or load the limit between AddUsers and UpdateUser, and users
\* whose limit changed together with a named node.
LimitedInForce ==
    \A k \in Conns : (PastBucket(k) /\ conn[k].due # None /\ ~Overlooked(k)) =>
        /\ conn[k].bucket # None <=> conn[k].due # 0
        /\ (conn[k].bucket # None /\ User(k) \notin heap[L(k)].others)
               => conn[k].bucket.rate = conn[k].due

\* Sniffing takes nothing from the stream: what the handler has read, then the cache,
\* then the pipe are what the client has sent, in its order.
StreamKept ==
    \A k \in Conns : LET s == stream[k] IN
        s.got \o s.cache \o s.pipe = [i \in 1..s.sent |-> i]
=============================================================================
