----------------------------- MODULE ConnLimiter -----------------------------
(***************************************************************************)
(* limiter/conn.go: how many connections and addresses a user has.         *)
(*                                                                         *)
(* count and ip are sync.Maps: each Load, Store, LoadOrStore, Delete and   *)
(* Range is one atomic step, and the goroutines of the connections and of  *)
(* the periodic ClearOnlineIP interleave between two of them.  ip maps a   *)
(* user to an inner map that goroutines hold by reference, so the inner    *)
(* maps are a heap: one that has been taken out of ip may still be written.*)
(* A connection is Add, its life, and Del, as the xray dispatcher and the  *)
(* sing-box hook call them (see Kinds).                                    *)
(***************************************************************************)
EXTENDS Integers, FiniteSets

CONSTANTS
    Conns,      \* connection goroutines; each serves connection after connection
    Users, IPs,
    Maps,       \* the heap of inner maps
    Kinds,      \* kinds of connections, a subset of {"tcp", "udp", "packet"}
    Configs,    \* limits that may be configured
    MaxBusy,    \* how many operations may be in progress at once
    MaxClock,   \* bound of the model: minutes, for the times stored if ~Realtime
    MaxEntry,   \* bound of the model: past it no connection begins
    Absent,     \* no entry
    NoMap       \* no inner map

ASSUME ConnLimiterAssumption ==
    /\ Configs \subseteq [conn : Nat, ip : Nat, realtime : BOOLEAN]
    /\ MaxBusy \in Nat /\ MaxClock \in Nat /\ MaxEntry \in Nat
    /\ Absent \notin Int
    /\ NoMap \notin Maps
    /\ Kinds \subseteq {"tcp", "udp", "packet"}
    /\ Users \cap IPs = {}
    /\ IsFiniteSet(Conns)

VARIABLES
    count,   \* ConnLimiter.count
    ip,      \* ConnLimiter.ip: the inner map of each user
    inner,   \* the inner maps: counts by address if Realtime, else times
    conf,    \* the configuration: connLimit, ipLimit, realtime
    clock,   \* time.Now(), in minutes
    pc,      \* where each connection is
    sess,    \* the user, address and kind of each connection, always the same
    v,       \* the value the connection has loaded
    held,    \* the inner map the connection has loaded
    clear    \* where the goroutine of ClearOnlineIP is

maps == <<count, ip, inner>>
fixed == <<conf, sess>>
vars == <<maps, clock, pc, fixed, v, held, clear>>

ConnLimit == conf.conn
IpLimit == conf.ip
Realtime == conf.realtime

\* Add is called with isTcp by the dispatcher for TCP and by the sing-box hook
\* for every connection, packet connections included; Del is called when a
\* connection ends, but for UDP of the dispatcher and packets of the hook.
IsTcp(k) == sess[k].kind \in {"tcp", "packet"}
CallsDel(k) == sess[k].kind = "tcp"

Keys == Users \cup IPs
Sessions == [user : Users, ip : IPs, kind : Kinds]
Empty == [key \in Keys |-> Absent]
Entries(m) == {key \in Keys : inner[m][key] # Absent}
User(k) == sess[k].user
IP(k) == sess[k].ip

Idle == [at |-> "idle", users |-> {}, user |-> Absent, map |-> NoMap, keys |-> {},
         key |-> Absent, seen |-> FALSE]

AddPC == {"loadCount", "storeCount", "addUser", "loadIp", "countIps", "storeIp"}
DelPC == {"delLoadCount", "delStoreCount", "delUser", "delLoadIp", "delStoreIp",
          "delRange", "delUserMap"}
Busy == {k \in Conns : pc[k] \in AddPC \cup DelPC}
Operations == Cardinality(Busy) + (IF clear.at = "idle" THEN 0 ELSE 1)

Init ==
    /\ count = [u \in Users |-> Absent]
    /\ ip = [u \in Users |-> NoMap]
    /\ inner = [m \in Maps |-> Empty]
    /\ conf \in Configs
    /\ clock = 0
    /\ pc = [k \in Conns |-> "idle"]
    /\ sess \in [Conns -> Sessions]
    /\ v = [k \in Conns |-> Absent]
    /\ held = [k \in Conns |-> NoMap]
    /\ clear = Idle

Goto(k, l) == pc' = [pc EXCEPT ![k] = l]

\* The operation of k has returned: its locals are gone.
Return(k, l) ==
    /\ Goto(k, l)
    /\ v' = [v EXCEPT ![k] = Absent]
    /\ held' = [held EXCEPT ![k] = NoMap]

\* Past the connection count: no IP limit, no IP work.
AfterCount(k, l) ==
    IF IpLimit = 0 THEN Return(k, IF l = "addUser" THEN "live" ELSE "idle")
                   ELSE Goto(k, l) /\ UNCHANGED <<v, held>>

-----------------------------------------------------------------------------
(* AddConnCount *)

AddBegin(k) ==
    /\ pc[k] = "idle"
    /\ Operations < MaxBusy
    /\ \A m \in Maps, key \in Keys : inner[m][key] # Absent => inner[m][key] <= MaxEntry
    /\ IF ConnLimit # 0 THEN Goto(k, "loadCount") /\ UNCHANGED <<v, held>>
                        ELSE AfterCount(k, "addUser")
    /\ UNCHANGED <<maps, clock, fixed, clear>>

\* Mutant: the limit is compared with >.
AddLoadsCountPastLimit(k) ==
    /\ pc[k] = "loadCount"
    /\ LET c == count[User(k)]
           over == IF c = Absent THEN FALSE ELSE c > ConnLimit
       IN  IF over THEN Return(k, "idle")
           ELSE IF IsTcp(k)
           THEN v' = [v EXCEPT ![k] = c] /\ Goto(k, "storeCount") /\ UNCHANGED held
           ELSE AfterCount(k, "addUser")
    /\ UNCHANGED <<maps, clock, fixed, clear>>

AddLoadsCount(k) ==
    /\ pc[k] = "loadCount"
    /\ LET c == count[User(k)] IN
         \/ /\ IF c = Absent THEN FALSE ELSE c >= ConnLimit
            /\ Return(k, "idle")                        \* over connection limit
         \/ /\ IF c = Absent THEN TRUE ELSE c < ConnLimit
            /\ IsTcp(k)
            /\ v' = [v EXCEPT ![k] = c]
            /\ Goto(k, "storeCount")
            /\ UNCHANGED held
         \/ /\ IF c = Absent THEN TRUE ELSE c < ConnLimit
            /\ ~IsTcp(k)
            /\ AfterCount(k, "addUser")
    /\ UNCHANGED <<maps, clock, fixed, clear>>

AddStoresCount(k) ==
    /\ pc[k] = "storeCount"
    /\ count' = [count EXCEPT ![User(k)] = IF v[k] = Absent THEN 1 ELSE v[k] + 1]
    /\ AfterCount(k, "addUser")
    /\ UNCHANGED <<ip, inner, clock, fixed, clear>>

\* What a new entry holds: a count of 2 per TCP connection, 1 for the packets,
\* or the time.
NewEntry(k) == IF ~Realtime THEN clock ELSE IF IsTcp(k) THEN 2 ELSE 1

FreeMaps ==
    {m \in Maps : /\ \A u \in Users : ip[u] # m
                  /\ \A k \in Conns : held[k] # m
                  /\ clear.map # m}

\* LoadOrStore(user, a new map with this address alone)
AddUserMap(k) ==
    /\ pc[k] = "addUser"
    /\ IF ip[User(k)] = NoMap
       THEN \E m \in FreeMaps :
              /\ ip' = [ip EXCEPT ![User(k)] = m]
              /\ inner' = [inner EXCEPT ![m] = [Empty EXCEPT ![IP(k)] = NewEntry(k)]]
              /\ Return(k, "live")
       ELSE /\ held' = [held EXCEPT ![k] = ip[User(k)]]
            /\ Goto(k, "loadIp")
            /\ UNCHANGED <<ip, inner, v>>
    /\ UNCHANGED <<count, clock, fixed, clear>>

\* The address is online already, or the addresses are to be counted.
AddLoadsIp(k) ==
    /\ pc[k] = "loadIp"
    /\ LET online == inner[held[k]][IP(k)] IN
         IF online # Absent /\ Realtime /\ ~IsTcp(k)
         THEN Return(k, "live")
         ELSE /\ v' = [v EXCEPT ![k] = online]
              /\ Goto(k, IF online = Absent THEN "countIps" ELSE "storeIp")
              /\ UNCHANGED held
    /\ UNCHANGED <<maps, clock, fixed, clear>>

\* Mutant: the limit is compared with >.
AddCountsIpsPastLimit(k) ==
    /\ pc[k] = "countIps"
    /\ IF Cardinality(Entries(held[k])) > IpLimit
       THEN Return(k, "idle")
       ELSE Goto(k, "storeIp") /\ UNCHANGED <<v, held>>
    /\ UNCHANGED <<maps, clock, fixed, clear>>

\* Over IP limit: the connection is refused, its count is not given back.
AddCountsIps(k) ==
    /\ pc[k] = "countIps"
    /\ IF Cardinality(Entries(held[k])) >= IpLimit
       THEN Return(k, "idle")
       ELSE Goto(k, "storeIp") /\ UNCHANGED <<v, held>>
    /\ UNCHANGED <<maps, clock, fixed, clear>>

AddStoresIp(k) ==
    /\ pc[k] = "storeIp"
    /\ inner' = [inner EXCEPT ![held[k]][IP(k)] =
                    IF Realtime /\ v[k] # Absent THEN v[k] + 2 ELSE NewEntry(k)]
    /\ Return(k, "live")
    /\ UNCHANGED <<count, ip, clock, fixed, clear>>

-----------------------------------------------------------------------------
(* DelConnCount, when the connection ends *)

\* Nothing is called, or DelConnCount returns at once.
End(k) ==
    /\ pc[k] = "live"
    /\ CallsDel(k) /\ Realtime => ConnLimit = 0 /\ IpLimit = 0
    /\ Goto(k, "idle")
    /\ UNCHANGED <<maps, clock, fixed, v, held, clear>>

DelBegin(k) ==
    /\ pc[k] = "live"
    /\ CallsDel(k) /\ Realtime
    /\ ConnLimit # 0 \/ IpLimit # 0
    /\ Operations < MaxBusy
    /\ Goto(k, IF ConnLimit # 0 THEN "delLoadCount" ELSE "delUser")
    /\ UNCHANGED <<maps, clock, fixed, v, held, clear>>

\* Mutant: no test that the user has a count.
DelLoadsCountUnchecked(k) ==
    /\ pc[k] = "delLoadCount"
    /\ v' = [v EXCEPT ![k] = count[User(k)]]
    /\ Goto(k, "delStoreCount")
    /\ UNCHANGED <<maps, clock, fixed, held, clear>>

DelLoadsCount(k) ==
    /\ pc[k] = "delLoadCount"
    /\ IF count[User(k)] = Absent
       THEN AfterCount(k, "delUser")
       ELSE /\ v' = [v EXCEPT ![k] = count[User(k)]]
            /\ Goto(k, "delStoreCount")
            /\ UNCHANGED held
    /\ UNCHANGED <<maps, clock, fixed, clear>>

\* Mutant: the count is deleted with the first connection that ends.
DelStoresCountDeletes(k) ==
    /\ pc[k] = "delStoreCount"
    /\ count' = [count EXCEPT ![User(k)] = Absent]
    /\ AfterCount(k, "delUser")
    /\ UNCHANGED <<ip, inner, clock, fixed, clear>>

DelStoresCount(k) ==
    /\ pc[k] = "delStoreCount"
    /\ count' = [count EXCEPT ![User(k)] = IF v[k] = 1 THEN Absent ELSE v[k] - 1]
    /\ AfterCount(k, "delUser")
    /\ UNCHANGED <<ip, inner, clock, fixed, clear>>

DelLoadsUser(k) ==
    /\ pc[k] = "delUser"
    /\ IF ip[User(k)] = NoMap
       THEN Return(k, "idle")
       ELSE /\ held' = [held EXCEPT ![k] = ip[User(k)]]
            /\ Goto(k, "delLoadIp")
            /\ UNCHANGED v
    /\ UNCHANGED <<maps, clock, fixed, clear>>

DelLoadsIp(k) ==
    /\ pc[k] = "delLoadIp"
    /\ IF inner[held[k]][IP(k)] = Absent
       THEN Return(k, "idle")
       ELSE /\ v' = [v EXCEPT ![k] = inner[held[k]][IP(k)]]
            /\ Goto(k, "delStoreIp")
            /\ UNCHANGED held
    /\ UNCHANGED <<maps, clock, fixed, clear>>

\* Mutant: the address is deleted with the first connection that ends.
DelStoresIpDeletes(k) ==
    /\ pc[k] = "delStoreIp"
    /\ inner' = [inner EXCEPT ![held[k]][IP(k)] = Absent]
    /\ Goto(k, "delRange")
    /\ UNCHANGED <<count, ip, clock, fixed, v, held, clear>>

\* Other connections are left on the address: the count less 2 is stored under
\* the key user, not under ip.
DelStoresIp(k) ==
    /\ pc[k] = "delStoreIp"
    /\ inner' = IF v[k] = 2
                THEN [inner EXCEPT ![held[k]][IP(k)] = Absent]
                ELSE [inner EXCEPT ![held[k]][User(k)] = v[k] - 2]
    /\ Goto(k, "delRange")
    /\ UNCHANGED <<count, ip, clock, fixed, v, held, clear>>

\* The Range is over the users, not over the addresses of this one.
DelRanges(k) ==
    /\ pc[k] = "delRange"
    /\ IF \E u \in Users : ip[u] # NoMap
       THEN Return(k, "idle")
       ELSE Goto(k, "delUserMap") /\ UNCHANGED <<v, held>>
    /\ UNCHANGED <<maps, clock, fixed, clear>>

DelUserMap(k) ==
    /\ pc[k] = "delUserMap"
    /\ ip' = [ip EXCEPT ![User(k)] = NoMap]
    /\ Return(k, "idle")
    /\ UNCHANGED <<count, inner, clock, fixed, clear>>

-----------------------------------------------------------------------------
(* ClearOnlineIP, run every 2 minutes by limiter.Init *)

ClearBegin ==
    /\ clear.at = "idle"
    /\ Operations < MaxBusy
    /\ clear' = [Idle EXCEPT !.at = "user", !.users = {u \in Users : ip[u] # NoMap}]
    /\ UNCHANGED <<maps, clock, pc, fixed, v, held>>

\* Range comes to a user, and starts the Range of its inner map.
ClearTakesUser ==
    /\ clear.at = "user"
    /\ \E u \in clear.users :
         clear' = IF ip[u] = NoMap
                  THEN [clear EXCEPT !.users = @ \ {u}]
                  ELSE [clear EXCEPT !.at = "key", !.users = @ \ {u}, !.user = u,
                                     !.map = ip[u], !.keys = Entries(ip[u]), !.seen = FALSE]
    /\ UNCHANGED <<maps, clock, pc, fixed, v, held>>

\* Mutant: times are taken for counts.
ExpiredAsCount(x) == x = 1

\* Every time stored is before a minute from now; of the counts, only 1 goes.
Expired(x) == IF Realtime THEN x = 1 ELSE x < clock + 1

ClearTakesKey ==
    /\ clear.at = "key"
    /\ \E key \in clear.keys :
         LET x == inner[clear.map][key] IN
         clear' = IF x = Absent
                  THEN [clear EXCEPT !.keys = @ \ {key}]
                  ELSE [clear EXCEPT !.keys = @ \ {key}, !.seen = TRUE,
                                     !.key = IF Expired(x) THEN key ELSE Absent,
                                     !.at = IF Expired(x) THEN "delete" ELSE "key"]
    /\ UNCHANGED <<maps, clock, pc, fixed, v, held>>

\* Delete(ip), whatever the entry has become since it was read.
ClearDeletesKey ==
    /\ clear.at = "delete"
    /\ inner' = [inner EXCEPT ![clear.map][clear.key] = Absent]
    /\ clear' = [clear EXCEPT !.at = "key", !.key = Absent]
    /\ UNCHANGED <<count, ip, clock, pc, fixed, v, held>>

\* A user whose map had no entry is deleted, whatever the map has become.
ClearEndsUser ==
    /\ clear.at = "key"
    /\ clear.keys = {}
    /\ ip' = IF clear.seen THEN ip ELSE [ip EXCEPT ![clear.user] = NoMap]
    /\ clear' = [Idle EXCEPT !.at = "user", !.users = clear.users]
    /\ UNCHANGED <<count, inner, clock, pc, fixed, v, held>>

ClearEnds ==
    /\ clear.at = "user"
    /\ clear.users = {}
    /\ clear' = Idle
    /\ UNCHANGED <<maps, clock, pc, fixed, v, held>>

Tick ==
    /\ ~Realtime
    /\ clock < MaxClock
    /\ clock' = clock + 1
    /\ UNCHANGED <<maps, pc, fixed, v, held, clear>>

AddStep(k) ==
    \/ AddLoadsCount(k) \/ AddStoresCount(k) \/ AddUserMap(k)
    \/ AddLoadsIp(k) \/ AddCountsIps(k) \/ AddStoresIp(k)
DelStep(k) ==
    \/ DelLoadsCount(k) \/ DelStoresCount(k) \/ DelLoadsUser(k) \/ DelLoadsIp(k)
    \/ DelStoresIp(k) \/ DelRanges(k) \/ DelUserMap(k)
ClearStep ==
    ClearTakesUser \/ ClearTakesKey \/ ClearDeletesKey \/ ClearEndsUser \/ ClearEnds

Next ==
    \/ \E k \in Conns : AddBegin(k) \/ AddStep(k) \/ End(k) \/ DelBegin(k) \/ DelStep(k)
    \/ ClearBegin \/ ClearStep \/ Tick

\* Operations end and connections end; nothing makes a client connect.
Fairness ==
    /\ \A k \in Conns : WF_vars(AddStep(k)) /\ WF_vars(DelStep(k)) /\ WF_vars(End(k))
                        /\ SF_vars(DelBegin(k))
    /\ WF_vars(ClearStep) /\ SF_vars(ClearBegin)

Spec == Init /\ [][Next]_vars
FairSpec == Spec /\ Fairness

-----------------------------------------------------------------------------
\* The types, and no nil is asserted to be an int or a map: Del has found the
\* value it decrements, and nobody uses an inner map that was not loaded.
TypeOK ==
    /\ count \in [Users -> Int \cup {Absent}]
    /\ ip \in [Users -> Maps \cup {NoMap}]
    /\ inner \in [Maps -> [Keys -> Int \cup {Absent}]]
    /\ conf \in Configs
    /\ clock \in 0..MaxClock
    /\ pc \in [Conns -> {"idle", "live"} \cup AddPC \cup DelPC]
    /\ sess \in [Conns -> Sessions]
    /\ v \in [Conns -> Int \cup {Absent}]
    /\ held \in [Conns -> Maps \cup {NoMap}]
    /\ clear \in [at : {"idle", "user", "key", "delete"}, users : SUBSET Users,
                  user : Users \cup {Absent}, map : Maps \cup {NoMap},
                  keys : SUBSET Keys, key : Keys \cup {Absent}, seen : BOOLEAN]
    /\ \A k \in Conns :
         /\ pc[k] \in {"delStoreCount", "delStoreIp"} => v[k] # Absent
         /\ pc[k] \in {"loadIp", "countIps", "storeIp", "delLoadIp", "delStoreIp"}
              => held[k] # NoMap

LiveTcp(u) == {k \in Conns : pc[k] = "live" /\ User(k) = u /\ IsTcp(k)}
Counted(u) == IF count[u] = Absent THEN 0 ELSE count[u]

\* Whatever Adds and Dels race, the count of a user stays between 1 and the
\* limit or is absent: no lost update brings it to 0 or below, where Del would
\* never delete it, or past the limit.
CountInRange == \A u \in Users : count[u] = Absent \/ count[u] \in 1..ConnLimit

\* No connection is forgotten: the count of a user is never below the number
\* of his TCP connections, so the limit holds (when operations do not overlap).
CountCoversLive ==
    ConnLimit # 0 => \A u \in Users : Cardinality(LiveTcp(u)) <= Counted(u)

\* A live TCP connection has its address on record, so that ClearOnlineIP and
\* the ends of other connections never free the place of an address in use.
LiveIpOnRecord ==
    Realtime /\ IpLimit # 0 =>
        \A u \in Users : \A k \in LiveTcp(u) :
            ip[u] # NoMap /\ inner[ip[u]][IP(k)] # Absent

\* In real time a user is never connected by TCP from more addresses than the
\* IP limit.
IpsWithinLimit ==
    Realtime /\ IpLimit # 0 =>
        \A u \in Users : Cardinality({IP(k) : k \in LiveTcp(u)}) <= IpLimit

\* Without realtime counts, a user never has more addresses on record than the
\* IP limit (when operations do not overlap).
RecordsWithinLimit ==
    IpLimit # 0 /\ ~Realtime =>
        \A u \in Users : ip[u] # NoMap => Cardinality(Entries(ip[u])) <= IpLimit

\* Connections of the user in real time that come from one address.
SharesAddress(u) ==
    Realtime /\ \E j, k \in Conns : j # k /\ User(j) = u /\ User(k) = u /\ IP(j) = IP(k)

\* example/config_full.json:125 "realtime limits of connections and IPs": once a
\* user has no connection left, his addresses are given back in the end, unless
\* several connections from one address have had their count stored under the
\* wrong key.
IpsGivenBack ==
    \A u \in Users :
        <>[](\A k \in Conns : User(k) = u => pc[k] = "idle")
            => SharesAddress(u) \/ <>[](ip[u] = NoMap \/ Entries(ip[u]) = {})

\* The atomic limiter that a configuration of a connection limit alone implements.
\* (Of any other configuration the quota sees no connection.)
Phase(k) ==
    IF ConnLimit = 0 \/ IpLimit # 0 THEN "out"
    ELSE IF pc[k] \in AddPC THEN "asking" ELSE IF pc[k] = "live" THEN "in" ELSE "out"
Quota == INSTANCE ConnQuota WITH
            limit <- ConnLimit,
            phase <- [k \in Conns |-> Phase(k)],
            user <- [k \in Conns |-> User(k)],
            counted <- [k \in Conns |-> IsTcp(k)]

\* With operations one at a time, the limiter answers every request as one that
\* knows the connections in progress: it admits below the limit and refuses at it.
IsQuota == Quota!Spec
=============================================================================
