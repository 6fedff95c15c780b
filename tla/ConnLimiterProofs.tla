-------------------------- MODULE ConnLimiterProofs --------------------------
(***************************************************************************)
(* Theorems about ConnLimiter for every number of users, addresses and     *)
(* connections and every configuration.                                    *)
(*                                                                         *)
(* Whatever operations overlap: the types, and the connection count of a   *)
(* user is absent or between 1 and the limit.                              *)
(*                                                                         *)
(* With operations one at a time (MaxBusy = 1): no connection is forgotten *)
(* by the counts and the records, the limits hold, and a limit of          *)
(* connections alone is the atomic ConnQuota.  The invariant they rest on  *)
(* is SerialInv: an operation in progress is alone, so that what it has    *)
(* loaded is what the maps hold; the count covers the connections that     *)
(* hold one; and the entry of an address covers its connections twice over,*)
(* which is why ClearOnlineIP, that deletes an entry of 1, and DelConnCount*)
(* that deletes one of 2, take no address from a connection in progress.   *)
(***************************************************************************)
EXTENDS ConnLimiter, TLAPS, FiniteSetTheorems

-----------------------------------------------------------------------------
(* Types. *)

Values == Int \cup {Absent}
PCs == {"idle", "live"} \cup AddPC \cup DelPC
Clearing == [at : {"idle", "user", "key", "delete"}, users : SUBSET Users,
             user : Users \cup {Absent}, map : Maps \cup {NoMap},
             keys : SUBSET Keys, key : Keys \cup {Absent}, seen : BOOLEAN]

\* TypeOK, with what it says of the maps, of each connection and of ClearOnlineIP apart.
MapTypes ==
    /\ count \in [Users -> Values]
    /\ ip \in [Users -> Maps \cup {NoMap}]
    /\ inner \in [Maps -> [Keys -> Values]]
ConnTypes ==
    /\ pc \in [Conns -> PCs]
    /\ v \in [Conns -> Values]
    /\ held \in [Conns -> Maps \cup {NoMap}]
    /\ \A k \in Conns :
         /\ pc[k] \in {"delStoreCount", "delStoreIp"} => v[k] # Absent
         /\ pc[k] \in {"loadIp", "countIps", "storeIp", "delLoadIp", "delStoreIp"}
              => held[k] # NoMap
FixedTypes == conf \in Configs /\ sess \in [Conns -> Sessions] /\ clock \in 0..MaxClock

LEMMA TypeParts ==
    /\ TypeOK <=> MapTypes /\ ConnTypes /\ FixedTypes /\ clear \in Clearing
    /\ TypeOK' <=> MapTypes' /\ ConnTypes' /\ FixedTypes' /\ clear' \in Clearing
  BY DEF TypeOK, MapTypes, ConnTypes, FixedTypes, Clearing, PCs, Values

\* ClearOnlineIP between two runs is of its type.
LEMMA IdleType == Idle \in Clearing
  BY DEF Idle, Clearing

\* The initial state has the types.
LEMMA InitTypeOK == Init => TypeOK
  <1> SUFFICES ASSUME Init PROVE MapTypes /\ ConnTypes /\ FixedTypes /\ clear \in Clearing
    BY TypeParts
  <1> USE ConnLimiterAssumption DEF Init
  <1>1. MapTypes BY DEF MapTypes, Empty, Values
  <1>2. ConnTypes BY DEF ConnTypes, Values, PCs
  <1>3. FixedTypes BY DEF FixedTypes
  <1>4. clear \in Clearing BY IdleType
  <1> QED BY <1>1, <1>2, <1>3, <1>4

\* The values that a step may store are of the types.
LEMMA StoredTypes ==
    ASSUME TypeOK, NEW k \in Conns
    PROVE  /\ User(k) \in Users /\ IP(k) \in Keys /\ User(k) \in Keys
           /\ NewEntry(k) \in Int /\ ConnLimit \in Nat /\ IpLimit \in Nat
           /\ Empty \in [Keys -> Values]
  BY ConnLimiterAssumption DEF TypeOK, Sessions, User, IP, Keys, NewEntry, ConnLimit, IpLimit,
     Empty, Values

\* AddConnCount keeps the types.
LEMMA AddTypeOK ==
    ASSUME TypeOK, NEW k \in Conns, AddBegin(k) \/ AddStep(k)
    PROVE  TypeOK'
  <1>a. FixedTypes' /\ clear' \in Clearing
    <2>1. UNCHANGED <<clock, fixed, clear>>
      BY DEF AddBegin, AddStep, AddLoadsCount, AddStoresCount, AddUserMap, AddLoadsIp,
             AddCountsIps, AddStoresIp
    <2> QED BY <2>1, TypeParts DEF FixedTypes, fixed
  <1> SUFFICES MapTypes' /\ ConnTypes' BY <1>a, TypeParts
  <1>0. MapTypes /\ ConnTypes BY TypeParts
  <1> USE <1>0, StoredTypes DEF Goto, Return, AfterCount, maps, PCs, AddPC, DelPC
  <1>1. CASE AddBegin(k)
    <2>1. MapTypes' BY <1>1 DEF AddBegin, MapTypes
    <2>2. ConnTypes' BY <1>1 DEF AddBegin, ConnTypes, Values
    <2> QED BY <2>1, <2>2
  <1>2. CASE AddLoadsCount(k)
    <2>1. MapTypes' BY <1>2 DEF AddLoadsCount, MapTypes
    <2>2. ConnTypes'
      <3>1. count[User(k)] \in Values BY DEF MapTypes
      <3>2. CASE Return(k, "idle") \/ Return(k, "live") BY <3>2 DEF ConnTypes, Values
      <3>3. CASE /\ Goto(k, "storeCount") /\ held' = held
                 /\ v' = [v EXCEPT ![k] = count[User(k)]]
        BY <3>1, <3>3 DEF ConnTypes
      <3>4. CASE Goto(k, "addUser") /\ UNCHANGED <<v, held>>
        BY <3>4 DEF ConnTypes
      <3> QED BY <1>2, <3>2, <3>3, <3>4 DEF AddLoadsCount
    <2> QED BY <2>1, <2>2
  <1>3. CASE AddStoresCount(k)
    <2>1. MapTypes' BY <1>3 DEF AddStoresCount, MapTypes, Values, ConnTypes
    <2>2. ConnTypes' BY <1>3 DEF AddStoresCount, ConnTypes, Values
    <2> QED BY <2>1, <2>2
  <1>4. CASE AddUserMap(k)
    <2>1. ASSUME ip[User(k)] = NoMap PROVE MapTypes'
      <3> PICK m \in FreeMaps :
                 /\ ip' = [ip EXCEPT ![User(k)] = m]
                 /\ inner' = [inner EXCEPT ![m] = [Empty EXCEPT ![IP(k)] = NewEntry(k)]]
        BY <1>4, <2>1 DEF AddUserMap
      <3>1. [Empty EXCEPT ![IP(k)] = NewEntry(k)] \in [Keys -> Values] BY DEF Values
      <3>2. m \in Maps BY DEF FreeMaps
      <3>3. count' = count BY <1>4 DEF AddUserMap
      <3>4. /\ ip' \in [Users -> Maps \cup {NoMap}]
            /\ inner' \in [Maps -> [Keys -> Values]]
        BY <3>1, <3>2 DEF MapTypes
      <3> QED BY <3>3, <3>4 DEF MapTypes
    <2>3. ASSUME ip[User(k)] # NoMap PROVE MapTypes'
      <3>1. UNCHANGED maps BY <1>4, <2>3 DEF AddUserMap
      <3> QED BY <3>1 DEF MapTypes
    <2>4. MapTypes' BY <2>1, <2>3
    <2>2. ConnTypes' BY <1>4 DEF AddUserMap, ConnTypes, Values, MapTypes
    <2> QED BY <2>2, <2>4
  <1>5. CASE AddLoadsIp(k)
    <2>1. MapTypes' BY <1>5 DEF AddLoadsIp, MapTypes
    <2>3. inner[held[k]][IP(k)] \in Values BY <1>5 DEF AddLoadsIp, ConnTypes, MapTypes
    <2>2. ConnTypes' BY <1>5, <2>3 DEF AddLoadsIp, ConnTypes, Values
    <2> QED BY <2>1, <2>2
  <1>6. CASE AddCountsIps(k)
    <2>1. MapTypes' BY <1>6 DEF AddCountsIps, MapTypes
    <2>2. ConnTypes' BY <1>6 DEF AddCountsIps, ConnTypes, Values
    <2> QED BY <2>1, <2>2
  <1>7. CASE AddStoresIp(k)
    <2>1. MapTypes' BY <1>7 DEF AddStoresIp, MapTypes, Values, ConnTypes
    <2>2. ConnTypes' BY <1>7 DEF AddStoresIp, ConnTypes, Values
    <2> QED BY <2>1, <2>2
  <1> QED BY <1>1, <1>2, <1>3, <1>4, <1>5, <1>6, <1>7 DEF AddStep

\* The end of a connection keeps the types.
LEMMA DelTypeOK ==
    ASSUME TypeOK, NEW k \in Conns, End(k) \/ DelBegin(k) \/ DelStep(k)
    PROVE  TypeOK'
  <1>a. FixedTypes' /\ clear' \in Clearing
    <2>1. UNCHANGED <<clock, fixed, clear>>
      BY DEF End, DelBegin, DelStep, DelLoadsCount, DelStoresCount, DelLoadsUser,
             DelLoadsIp, DelStoresIp, DelRanges, DelUserMap
    <2> QED BY <2>1, TypeParts DEF FixedTypes, fixed
  <1> SUFFICES MapTypes' /\ ConnTypes' BY <1>a, TypeParts
  <1>0. MapTypes /\ ConnTypes BY TypeParts
  <1> USE <1>0, StoredTypes DEF Goto, Return, AfterCount, maps, PCs, AddPC, DelPC
  <1>1. CASE End(k) \/ DelBegin(k)
    <2>1. MapTypes' BY <1>1 DEF End, DelBegin, MapTypes
    <2>2. ConnTypes' BY <1>1 DEF End, DelBegin, ConnTypes, Values
    <2> QED BY <2>1, <2>2
  <1>2. CASE DelLoadsCount(k)
    <2>1. MapTypes' BY <1>2 DEF DelLoadsCount, MapTypes
    <2>2. ConnTypes' BY <1>2 DEF DelLoadsCount, ConnTypes, Values, MapTypes
    <2> QED BY <2>1, <2>2
  <1>3. CASE DelStoresCount(k)
    <2>1. MapTypes' BY <1>3 DEF DelStoresCount, MapTypes, Values, ConnTypes
    <2>2. ConnTypes' BY <1>3 DEF DelStoresCount, ConnTypes, Values
    <2> QED BY <2>1, <2>2
  <1>4. CASE DelLoadsUser(k)
    <2>1. MapTypes' BY <1>4 DEF DelLoadsUser, MapTypes
    <2>2. ConnTypes' BY <1>4 DEF DelLoadsUser, ConnTypes, Values, MapTypes
    <2> QED BY <2>1, <2>2
  <1>5. CASE DelLoadsIp(k)
    <2>1. MapTypes' BY <1>5 DEF DelLoadsIp, MapTypes
    <2>3. inner[held[k]][IP(k)] \in Values BY <1>5 DEF DelLoadsIp, ConnTypes, MapTypes
    <2>2. ConnTypes' BY <1>5, <2>3 DEF DelLoadsIp, ConnTypes, Values
    <2> QED BY <2>1, <2>2
  <1>6. CASE DelStoresIp(k)
    <2>1. MapTypes' BY <1>6 DEF DelStoresIp, MapTypes, Values, ConnTypes
    <2>2. ConnTypes' BY <1>6 DEF DelStoresIp, ConnTypes, Values
    <2> QED BY <2>1, <2>2
  <1>7. CASE DelRanges(k)
    <2>1. MapTypes' BY <1>7 DEF DelRanges, MapTypes
    <2>2. ConnTypes' BY <1>7 DEF DelRanges, ConnTypes, Values
    <2> QED BY <2>1, <2>2
  <1>8. CASE DelUserMap(k)
    <2>1. MapTypes' BY <1>8 DEF DelUserMap, MapTypes
    <2>2. ConnTypes' BY <1>8 DEF DelUserMap, ConnTypes, Values
    <2> QED BY <2>1, <2>2
  <1> QED BY <1>1, <1>2, <1>3, <1>4, <1>5, <1>6, <1>7, <1>8 DEF DelStep

\* ClearOnlineIP, the clock and a stutter keep the types.
LEMMA OthersTypeOK ==
    ASSUME TypeOK, ClearBegin \/ ClearStep \/ Tick \/ UNCHANGED vars
    PROVE  TypeOK'
  <1>0. MapTypes /\ ConnTypes /\ FixedTypes /\ clear \in Clearing BY TypeParts
  <1> SUFFICES MapTypes' /\ ConnTypes' /\ FixedTypes' /\ clear' \in Clearing
    BY TypeParts
  <1> USE <1>0 DEF maps, fixed
  <1>a. ConnTypes'
    <2>1. UNCHANGED <<pc, v, held>>
      BY DEF ClearBegin, ClearStep, ClearTakesUser, ClearTakesKey, ClearDeletesKey,
             ClearEndsUser, ClearEnds, Tick, vars
    <2> QED BY <2>1 DEF ConnTypes
  <1>b. FixedTypes'
    <2>1. CASE Tick BY <2>1, ConnLimiterAssumption DEF FixedTypes, Tick
    <2>2. CASE ~Tick
      <3>1. UNCHANGED <<clock, fixed>>
        BY <2>2 DEF ClearBegin, ClearStep, ClearTakesUser, ClearTakesKey, ClearDeletesKey,
                    ClearEndsUser, ClearEnds, vars
      <3> QED BY <3>1 DEF FixedTypes
    <2> QED BY <2>1, <2>2
  <1>1. CASE ClearBegin
    <2>1. MapTypes' BY <1>1 DEF ClearBegin, MapTypes
    <2>2. clear' \in Clearing BY <1>1 DEF ClearBegin, Clearing, Idle
    <2> QED BY <2>1, <2>2, <1>a, <1>b
  <1>2. CASE ClearTakesUser
    <2>1. MapTypes' BY <1>2 DEF ClearTakesUser, MapTypes
    <2> PICK u \in clear.users :
               clear' = IF ip[u] = NoMap
                        THEN [clear EXCEPT !.users = @ \ {u}]
                        ELSE [clear EXCEPT !.at = "key", !.users = @ \ {u}, !.user = u,
                                           !.map = ip[u], !.keys = Entries(ip[u]), !.seen = FALSE]
      BY <1>2 DEF ClearTakesUser
    <2>3. u \in Users BY DEF Clearing
    <2>4. ip[u] \in Maps \cup {NoMap} BY <2>3 DEF MapTypes
    <2>5. Entries(ip[u]) \subseteq Keys BY DEF Entries
    <2>2. clear' \in Clearing BY <2>3, <2>4, <2>5 DEF Clearing
    <2> QED BY <2>1, <2>2, <1>a, <1>b
  <1>3. CASE ClearTakesKey
    <2>1. MapTypes' BY <1>3 DEF ClearTakesKey, MapTypes
    <2> PICK key \in clear.keys :
               LET x == inner[clear.map][key] IN
               clear' = IF x = Absent
                        THEN [clear EXCEPT !.keys = @ \ {key}]
                        ELSE [clear EXCEPT !.keys = @ \ {key}, !.seen = TRUE,
                                           !.key = IF Expired(x) THEN key ELSE Absent,
                                           !.at = IF Expired(x) THEN "delete" ELSE "key"]
      BY <1>3 DEF ClearTakesKey
    <2>3. key \in Keys BY DEF Clearing
    <2>2. clear' \in Clearing BY <2>3 DEF Clearing
    <2> QED BY <2>1, <2>2, <1>a, <1>b
  <1>4. CASE ClearDeletesKey
    <2>1. MapTypes' BY <1>4 DEF ClearDeletesKey, MapTypes, Values
    <2>2. clear' \in Clearing BY <1>4 DEF ClearDeletesKey, Clearing
    <2> QED BY <2>1, <2>2, <1>a, <1>b
  <1>5. CASE ClearEndsUser
    <2>1. MapTypes' BY <1>5 DEF ClearEndsUser, MapTypes
    <2>2. clear' \in Clearing BY <1>5, IdleType DEF ClearEndsUser, Clearing
    <2> QED BY <2>1, <2>2, <1>a, <1>b
  <1>6. CASE ClearEnds \/ Tick \/ UNCHANGED vars
    <2>1. MapTypes' BY <1>6 DEF ClearEnds, Tick, vars, MapTypes
    <2>2. clear' = Idle \/ clear' = clear BY <1>6 DEF ClearEnds, Tick, vars
    <2>3. clear' \in Clearing BY <2>2, IdleType
    <2> QED BY <2>1, <2>3, <1>a, <1>b
  <1> QED BY <1>1, <1>2, <1>3, <1>4, <1>5, <1>6 DEF ClearStep

\* Whatever operations overlap, no nil is used as an int or a map.
THEOREM TypeCorrect == Spec => []TypeOK
  <1>1. TypeOK /\ [Next]_vars => TypeOK'
    BY AddTypeOK, DelTypeOK, OthersTypeOK DEF Next
  <1> QED BY <1>1, InitTypeOK, PTL DEF Spec

-----------------------------------------------------------------------------
(* The count of a user, whatever operations overlap. *)

\* What a connection that is about to store a count has loaded.
LoadedInRange ==
    \A k \in Conns :
        /\ pc[k] \in {"loadCount", "storeCount", "delLoadCount", "delStoreCount"}
              => ConnLimit # 0
        /\ pc[k] = "storeCount" => v[k] = Absent \/ v[k] \in 1..(ConnLimit - 1)
        /\ pc[k] = "delStoreCount" => v[k] \in 1..ConnLimit

\* The inductive invariant of the counts.
IInv == TypeOK /\ LoadedInRange /\ CountInRange

\* The initial state satisfies the inductive invariant.
LEMMA InitIInv == Init => IInv
  <1> SUFFICES ASSUME Init PROVE IInv OBVIOUS
  <1>1. LoadedInRange BY DEF Init, LoadedInRange
  <1>2. CountInRange BY DEF Init, CountInRange
  <1> QED BY <1>1, <1>2, InitTypeOK DEF IInv

\* A step that changes no count and leaves no connection about to store one
\* keeps the counts and what was loaded.
LEMMA CountsUntouched ==
    ASSUME IInv, TypeOK', UNCHANGED <<count, fixed>>, NEW k \in Conns,
           \A j \in Conns \ {k} : pc'[j] = pc[j] /\ v'[j] = v[j],
           pc'[k] \notin {"loadCount", "storeCount", "delLoadCount", "delStoreCount"}
    PROVE  IInv'
  <1>1. LoadedInRange' BY DEF IInv, LoadedInRange, fixed, ConnLimit
  <1>2. CountInRange' BY DEF IInv, CountInRange, fixed, ConnLimit
  <1> QED BY <1>1, <1>2 DEF IInv

\* AddConnCount keeps the invariant.
LEMMA AddKeepsIInv ==
    ASSUME IInv, NEW k \in Conns, AddBegin(k) \/ AddStep(k)
    PROVE  IInv'
  <1>t. /\ LoadedInRange /\ CountInRange /\ TypeOK'
        /\ pc \in [Conns -> PCs] /\ v \in [Conns -> Values] /\ count \in [Users -> Values]
        /\ User(k) \in Users /\ ConnLimit \in Nat
    BY AddTypeOK, StoredTypes DEF IInv, TypeOK, PCs, Values
  <1> USE <1>t, ConnLimiterAssumption DEF Values, Goto, Return, AfterCount, maps, fixed, ConnLimit
  <1>1. CASE AddBegin(k)
    <2>1. LoadedInRange' BY <1>1 DEF AddBegin, LoadedInRange
    <2>2. CountInRange' BY <1>1 DEF AddBegin, CountInRange
    <2> QED BY <2>1, <2>2 DEF IInv
  <1>2. CASE AddLoadsCount(k)
    <2>1. LoadedInRange' BY <1>2 DEF AddLoadsCount, LoadedInRange, CountInRange
    <2>2. CountInRange' BY <1>2 DEF AddLoadsCount, CountInRange
    <2> QED BY <2>1, <2>2 DEF IInv
  <1>3. CASE AddStoresCount(k)
    <2>1. ConnLimit # 0 /\ (v[k] = Absent \/ v[k] \in 1..(ConnLimit - 1))
      BY <1>3 DEF AddStoresCount, LoadedInRange
    <2>2. PICK new : new = IF v[k] = Absent THEN 1 ELSE v[k] + 1 OBVIOUS
    <2>3. new \in 1..ConnLimit BY <2>1, <2>2
    <2>4. count' = [count EXCEPT ![User(k)] = new] /\ conf' = conf
      BY <1>3, <2>2 DEF AddStoresCount
    <2>5. LoadedInRange' BY <1>3 DEF AddStoresCount, LoadedInRange
    <2>6. CountInRange' BY <2>3, <2>4 DEF CountInRange
    <2> QED BY <2>5, <2>6 DEF IInv
  <1>4. CASE AddUserMap(k) \/ AddLoadsIp(k) \/ AddCountsIps(k) \/ AddStoresIp(k)
    BY <1>4, CountsUntouched DEF AddUserMap, AddLoadsIp, AddCountsIps, AddStoresIp
  <1> QED BY <1>1, <1>2, <1>3, <1>4 DEF AddStep

\* The end of a connection, with DelConnCount or without, keeps the invariant.
LEMMA DelKeepsIInv ==
    ASSUME IInv, NEW k \in Conns, End(k) \/ DelBegin(k) \/ DelStep(k)
    PROVE  IInv'
  <1>t. /\ LoadedInRange /\ CountInRange /\ TypeOK'
        /\ pc \in [Conns -> PCs] /\ v \in [Conns -> Values] /\ count \in [Users -> Values]
        /\ User(k) \in Users /\ ConnLimit \in Nat
    BY DelTypeOK, StoredTypes DEF IInv, TypeOK, PCs, Values
  <1> USE <1>t, ConnLimiterAssumption DEF Values, Goto, Return, AfterCount, maps, fixed, ConnLimit
  <1>1. CASE DelBegin(k)
    <2>1. LoadedInRange' BY <1>1 DEF DelBegin, LoadedInRange
    <2>2. CountInRange' BY <1>1 DEF DelBegin, CountInRange
    <2> QED BY <2>1, <2>2 DEF IInv
  <1>2. CASE DelLoadsCount(k)
    <2>1. LoadedInRange' BY <1>2 DEF DelLoadsCount, LoadedInRange, CountInRange
    <2>2. CountInRange' BY <1>2 DEF DelLoadsCount, CountInRange
    <2> QED BY <2>1, <2>2 DEF IInv
  <1>3. CASE DelStoresCount(k)
    <2>1. v[k] \in 1..ConnLimit BY <1>3 DEF DelStoresCount, LoadedInRange
    <2>2. PICK new : new = IF v[k] = 1 THEN Absent ELSE v[k] - 1 OBVIOUS
    <2>3. new = Absent \/ new \in 1..ConnLimit BY <2>1, <2>2
    <2>4. count' = [count EXCEPT ![User(k)] = new] /\ conf' = conf
      BY <1>3, <2>2 DEF DelStoresCount
    <2>5. LoadedInRange' BY <1>3 DEF DelStoresCount, LoadedInRange
    <2>6. CountInRange' BY <2>3, <2>4 DEF CountInRange
    <2> QED BY <2>5, <2>6 DEF IInv
  <1>4. CASE \/ End(k) \/ DelLoadsUser(k) \/ DelLoadsIp(k)
             \/ DelStoresIp(k) \/ DelRanges(k) \/ DelUserMap(k)
    BY <1>4, CountsUntouched
    DEF End, DelLoadsUser, DelLoadsIp, DelStoresIp, DelRanges, DelUserMap
  <1> QED BY <1>1, <1>2, <1>3, <1>4 DEF DelStep

\* ClearOnlineIP, the clock and a stutter touch no count.
LEMMA OthersKeepIInv ==
    ASSUME IInv, ClearBegin \/ ClearStep \/ Tick \/ UNCHANGED vars
    PROVE  IInv'
  <1>1. UNCHANGED <<count, pc, conf, v>>
    BY DEF ClearBegin, ClearStep, ClearTakesUser, ClearTakesKey, ClearDeletesKey,
           ClearEndsUser, ClearEnds, Tick, vars, maps, fixed
  <1>2. TypeOK' BY OthersTypeOK DEF IInv
  <1>3. LoadedInRange' BY <1>1 DEF IInv, LoadedInRange, ConnLimit
  <1>4. CountInRange' BY <1>1 DEF IInv, CountInRange, ConnLimit
  <1> QED BY <1>2, <1>3, <1>4 DEF IInv

\* Whatever Adds, Dels and clearings overlap, in any order, no update that one
\* loses to another takes the count of a user out of 1..ConnLimit.
THEOREM CountStaysInRange == Spec => []CountInRange
  <1>1. IInv /\ [Next]_vars => IInv'
    BY AddKeepsIInv, DelKeepsIInv, OthersKeepIInv DEF Next
  <1>2. IInv => CountInRange BY DEF IInv
  <1> QED BY <1>1, <1>2, InitIInv, PTL DEF Spec

-----------------------------------------------------------------------------
(* Operations one at a time (MaxBusy = 1). *)

\* No two operations are in progress, ClearOnlineIP included.
OneAtATime ==
    /\ \A j, k \in Busy : j = k
    /\ Busy # {} => clear.at = "idle"

CountPC == {"loadCount", "storeCount", "delLoadCount", "delStoreCount"}

\* What the operation of k has loaded is what the maps hold.
Loaded(k) ==
    /\ pc[k] \in {"storeCount", "delStoreCount"} => v[k] = count[User(k)]
    /\ pc[k] \in {"loadIp", "countIps", "storeIp", "delLoadIp", "delStoreIp", "delRange"}
          => held[k] = ip[User(k)] /\ held[k] # NoMap
    /\ pc[k] = "countIps" => v[k] = Absent
    /\ pc[k] \in {"countIps", "storeIp", "delStoreIp"} => v[k] = inner[held[k]][IP(k)]
    /\ pc[k] = "storeIp" /\ v[k] = Absent => Cardinality(Entries(held[k])) < IpLimit
    /\ pc[k] \in (AddPC \cup DelPC) \ CountPC => IpLimit # 0
    /\ pc[k] \in CountPC => ConnLimit # 0
    /\ pc[k] \in DelPC => CallsDel(k) /\ Realtime /\ pc[k] # "delUserMap"
LoadedStands == \A k \in Conns : Loaded(k)

\* The same of ClearOnlineIP: an entry of the map it walks has been seen, or is to come.
ClearStands ==
    /\ clear.at \in {"key", "delete"} =>
         /\ clear.user \in Users /\ clear.map = ip[clear.user] /\ clear.map # NoMap
         /\ clear.seen \/ Entries(clear.map) \subseteq clear.keys
    /\ clear.at = "delete" => clear.seen /\ clear.key \in Keys
                             /\ (Realtime => inner[clear.map][clear.key] = 1)

\* Users do not share an inner map, and an inner map has finitely many entries.
OwnMaps == \A u, w \in Users : ip[u] # NoMap /\ ip[u] = ip[w] => u = w
FiniteMaps == \A m \in Maps : IsFiniteSet(Entries(m))

\* In real time what is stored of an address is a count of its connections.
Positive == Realtime => \A m \in Maps, a \in IPs : inner[m][a] # Absent => inner[m][a] >= 1

\* The TCP connections of u that the count must cover.
HoldPC == {"live", "addUser", "loadIp", "countIps", "storeIp", "delLoadCount", "delStoreCount"}
Holding(u) == {k \in Conns : pc[k] \in HoldPC /\ User(k) = u /\ IsTcp(k)}
CountCovers == ConnLimit # 0 => \A u \in Users : Cardinality(Holding(u)) <= Counted(u)

\* The TCP connections of u from a that the entry of a must cover, with 2 for each.
OnPC == {"live", "delLoadCount", "delStoreCount", "delUser", "delLoadIp", "delStoreIp"}
OnAddress(u, a) == {k \in Conns : pc[k] \in OnPC /\ User(k) = u /\ IP(k) = a /\ IsTcp(k)}
Covers(u, a) ==
    OnAddress(u, a) # {} =>
        /\ ip[u] # NoMap
        /\ inner[ip[u]][a] # Absent
        /\ inner[ip[u]][a] >= 2 * Cardinality(OnAddress(u, a))
RecordCovers == Realtime /\ IpLimit # 0 => \A u \in Users, a \in IPs : Covers(u, a)

\* What the limit of addresses bounds: in real time a key of the map may be a user.
Records(u) == IF Realtime THEN Entries(ip[u]) \cap IPs ELSE Entries(ip[u])
RecordsFit ==
    IpLimit # 0 => \A u \in Users : ip[u] # NoMap => Cardinality(Records(u)) <= IpLimit

SerialInv ==
    /\ TypeOK /\ OneAtATime
    /\ LoadedStands /\ ClearStands
    /\ OwnMaps /\ FiniteMaps /\ Positive
    /\ CountCovers /\ RecordCovers /\ RecordsFit

\* An operation that begins, begins alone.
LEMMA BeginsAlone ==
    ASSUME MaxBusy = 1, Operations < MaxBusy
    PROVE  Busy = {} /\ clear.at = "idle"
  <1>1. IsFiniteSet(Busy) BY FS_Subset, ConnLimiterAssumption DEF Busy
  <1>2. Cardinality(Busy) \in Nat BY <1>1, FS_CardinalityType
  <1>3. Cardinality(Busy) = 0 /\ clear.at = "idle" BY <1>2 DEF Operations
  <1> QED BY <1>1, <1>3, FS_EmptySet

\* One connection more or less in a set of them.
LEMMA OneMoreOrLess ==
    ASSUME NEW S, S \subseteq Conns, NEW k
    PROVE  /\ IsFiniteSet(S) /\ Cardinality(S) \in Nat
           /\ Cardinality(S \cup {k}) \in Nat /\ Cardinality(S \cup {k}) <= Cardinality(S) + 1
           /\ k \in S => Cardinality(S \ {k}) = Cardinality(S) - 1
  <1>1. IsFiniteSet(S) BY FS_Subset, ConnLimiterAssumption
  <1>2. Cardinality(S) \in Nat BY <1>1, FS_CardinalityType
  <1>3. Cardinality(S \cup {k}) = IF k \in S THEN Cardinality(S) ELSE Cardinality(S) + 1
    BY <1>1, FS_AddElement
  <1>4. k \in S => Cardinality(S \ {k}) = Cardinality(S) - 1 BY <1>1, FS_RemoveElement
  <1> QED BY <1>1, <1>2, <1>3, <1>4

\* A set of fewer connections.
LEMMA FewerConns ==
    ASSUME NEW S \in SUBSET Conns, NEW T \in SUBSET S
    PROVE  Cardinality(T) <= Cardinality(S) /\ Cardinality(T) \in Nat /\ Cardinality(S) \in Nat
  <1>1. IsFiniteSet(S) BY FS_Subset, ConnLimiterAssumption
  <1>2. IsFiniteSet(T) /\ Cardinality(T) <= Cardinality(S) BY <1>1, FS_Subset
  <1> QED BY <1>1, <1>2, FS_CardinalityType

\* A step that changes no count and takes no connection into Holding.
LEMMA HoldingShrinks ==
    ASSUME CountCovers, TypeOK, UNCHANGED <<count, conf>>,
           ConnLimit # 0 => \A u \in Users : Holding(u)' \subseteq Holding(u)
    PROVE  CountCovers'
  <1> SUFFICES ASSUME ConnLimit' # 0, NEW u \in Users
               PROVE  Cardinality(Holding(u)') <= Counted(u)'
    BY DEF CountCovers
  <1>1. ConnLimit # 0 /\ Counted(u)' = Counted(u) BY DEF ConnLimit, Counted
  <1>2. Holding(u) \in SUBSET Conns BY DEF Holding
  <1>3. /\ Cardinality(Holding(u)') <= Cardinality(Holding(u))
        /\ Cardinality(Holding(u)') \in Nat /\ Cardinality(Holding(u)) \in Nat
    BY <1>1, <1>2, FewerConns
  <1>4. Cardinality(Holding(u)) <= Counted(u) BY <1>1 DEF CountCovers
  <1>5. Counted(u) \in Int BY DEF TypeOK, Counted
  <1> QED BY <1>1, <1>3, <1>4, <1>5

\* A step that writes no inner map and takes no connection into OnAddress.
LEMMA AddressesShrink ==
    ASSUME RecordCovers, TypeOK, UNCHANGED <<ip, inner, conf>>,
           Realtime /\ IpLimit # 0 =>
              \A u \in Users, a \in IPs : OnAddress(u, a)' \subseteq OnAddress(u, a)
    PROVE  RecordCovers'
  <1> SUFFICES ASSUME Realtime', IpLimit' # 0, NEW u \in Users, NEW a \in IPs,
                      OnAddress(u, a)' # {}
               PROVE  /\ ip'[u] # NoMap
                      /\ inner'[ip'[u]][a] # Absent
                      /\ inner'[ip'[u]][a] >= 2 * Cardinality(OnAddress(u, a)')
    BY DEF RecordCovers, Covers
  <1>1. Realtime /\ IpLimit # 0 BY DEF Realtime, IpLimit
  <1>2. OnAddress(u, a) \in SUBSET Conns BY DEF OnAddress
  <1>3. /\ Cardinality(OnAddress(u, a)') <= Cardinality(OnAddress(u, a))
        /\ Cardinality(OnAddress(u, a)') \in Nat /\ Cardinality(OnAddress(u, a)) \in Nat
    BY <1>1, <1>2, FewerConns
  <1>4. /\ ip[u] # NoMap
        /\ inner[ip[u]][a] # Absent
        /\ inner[ip[u]][a] >= 2 * Cardinality(OnAddress(u, a))
    BY <1>1 DEF RecordCovers, Covers
  <1>5. inner[ip[u]][a] \in Int
    BY <1>4 DEF TypeOK, Keys
  <1> QED BY <1>3, <1>4, <1>5

\* The entries of the inner maps after a write to one of them.
LEMMA EntriesOfWrite ==
    ASSUME TypeOK, NEW m \in Maps, NEW key \in Keys, NEW x,
           inner' = [inner EXCEPT ![m][key] = x]
    PROVE  /\ Entries(m)' = IF x = Absent THEN Entries(m) \ {key} ELSE Entries(m) \cup {key}
           /\ \A n \in Maps \ {m} : Entries(n)' = Entries(n)
           /\ FiniteMaps => FiniteMaps'
  <1>1. Entries(m)' = IF x = Absent THEN Entries(m) \ {key} ELSE Entries(m) \cup {key}
    BY DEF TypeOK, Entries
  <1>2. \A n \in Maps \ {m} : Entries(n)' = Entries(n)
    BY DEF TypeOK, Entries
  <1>3. ASSUME FiniteMaps PROVE FiniteMaps'
    <2>1. IsFiniteSet(Entries(m)') BY <1>1, <1>3, FS_AddElement, FS_RemoveElement DEF FiniteMaps
    <2> QED BY <1>2, <1>3, <2>1 DEF FiniteMaps
  <1> QED BY <1>1, <1>2, <1>3

\* The initial state.
LEMMA InitSerial == Init => SerialInv
  <1> SUFFICES ASSUME Init PROVE SerialInv OBVIOUS
  <1>1. TypeOK BY InitTypeOK
  <1>2. Busy = {} /\ clear.at = "idle" BY DEF Init, Busy, Idle, AddPC, DelPC
  <1>3. LoadedStands BY DEF Init, LoadedStands, Loaded, AddPC, DelPC, CountPC
  <1>4. \A m \in Maps : Entries(m) = {} BY DEF Init, Entries, Empty
  <1>5. FiniteMaps BY <1>4, FS_EmptySet DEF FiniteMaps
  <1>6. \A u \in Users : Holding(u) = {} /\ Counted(u) = 0
    BY DEF Init, Holding, HoldPC, Counted
  <1>7. \A u \in Users, a \in IPs : OnAddress(u, a) = {} BY DEF Init, OnAddress, OnPC
  <1>8. \A u \in Users : ip[u] = NoMap BY DEF Init
  <1>10. Positive BY <1>4 DEF Positive, Entries, Keys
  <1>9. CountCovers BY <1>6, FS_EmptySet DEF CountCovers
  <1> QED BY <1>1, <1>2, <1>3, <1>5, <1>7, <1>8, <1>9, <1>10
      DEF SerialInv, OneAtATime, ClearStands, OwnMaps, RecordCovers, Covers, RecordsFit

\* A step of connection k while nothing else is in progress.
LEMMA AloneStep ==
    ASSUME SerialInv, NEW k \in Conns, k \in Busy \/ (Busy = {} /\ clear.at = "idle"),
           \A j \in Conns \ {k} : pc'[j] = pc[j], clear' = clear
    PROVE  /\ clear.at = "idle" /\ OneAtATime' /\ ClearStands'
           /\ \A j \in Conns \ {k} : pc[j] \notin AddPC \cup DelPC /\ Loaded(j)'
  <1>1. clear.at = "idle" /\ \A j \in Conns \ {k} : j \notin Busy
    BY DEF SerialInv, OneAtATime
  <1>2. \A j \in Conns \ {k} : pc[j] \notin AddPC \cup DelPC BY <1>1 DEF Busy
  <1>3. Busy' \subseteq {k} BY <1>2 DEF Busy
  <1>4. OneAtATime' BY <1>1, <1>3 DEF OneAtATime
  <1>5. ClearStands' BY <1>1 DEF ClearStands
  <1>6. \A j \in Conns \ {k} : Loaded(j)'
    BY <1>2 DEF Loaded, AddPC, DelPC, CountPC
  <1> QED BY <1>1, <1>2, <1>4, <1>5, <1>6

\* A step that writes neither ip nor an inner map.
LEMMA KeepsMaps ==
    ASSUME SerialInv, UNCHANGED <<ip, inner, conf>>
    PROVE  OwnMaps' /\ FiniteMaps' /\ RecordsFit' /\ Positive'
  BY DEF SerialInv, Positive, OwnMaps, FiniteMaps, RecordsFit, Records, Entries, Realtime, IpLimit

\* A step of an operation of k, all of whose conjuncts but those given are clear.
LEMMA QuietStep ==
    ASSUME SerialInv, TypeOK', NEW k \in Conns, k \in Busy \/ (Busy = {} /\ clear.at = "idle"),
           \A j \in Conns \ {k} : pc'[j] = pc[j], UNCHANGED <<ip, inner, fixed, clear>>,
           Loaded(k)', CountCovers',
           IpLimit # 0 /\ pc'[k] \in OnPC /\ IsTcp(k) => pc[k] \in OnPC
    PROVE  SerialInv'
  <1> USE DEF fixed
  <1>1. OneAtATime' /\ ClearStands' /\ \A j \in Conns \ {k} : Loaded(j)' BY AloneStep
  <1>2. LoadedStands' BY <1>1 DEF LoadedStands
  <1>3. \A u \in Users, a \in IPs : IpLimit # 0 => OnAddress(u, a)' \subseteq OnAddress(u, a)
    BY DEF OnAddress, User, IP, IsTcp
  <1>4. RecordCovers' BY <1>3, AddressesShrink DEF SerialInv
  <1> QED BY <1>1, <1>2, <1>4, KeepsMaps DEF SerialInv

\* Of those, a step that changes no count.
LEMMA QuieterStep ==
    ASSUME SerialInv, TypeOK', NEW k \in Conns, k \in Busy \/ (Busy = {} /\ clear.at = "idle"),
           \A j \in Conns \ {k} : pc'[j] = pc[j], UNCHANGED <<maps, fixed, clear>>,
           Loaded(k)',
           ConnLimit # 0 /\ pc'[k] \in HoldPC /\ IsTcp(k) => pc[k] \in HoldPC,
           IpLimit # 0 /\ pc'[k] \in OnPC /\ IsTcp(k) => pc[k] \in OnPC
    PROVE  SerialInv'
  <1> USE DEF fixed, maps
  <1>1. \A u \in Users : ConnLimit # 0 => Holding(u)' \subseteq Holding(u)
    BY DEF Holding, User, IsTcp
  <1>2. CountCovers' BY <1>1, HoldingShrinks DEF SerialInv
  <1> QED BY <1>2, QuietStep

\* Before a step of an operation of k, and after it.
LEMMA InOperation ==
    ASSUME SerialInv, NEW k \in Conns, pc[k] \in AddPC \cup DelPC
    PROVE  k \in Busy /\ Loaded(k) /\ TypeOK
  BY DEF Busy, SerialInv, LoadedStands

\* The steps of AddConnCount that only look, or count.
LEMMA AddLooksSerial ==
    ASSUME MaxBusy = 1, SerialInv, TypeOK', NEW k \in Conns,
           AddBegin(k) \/ AddLoadsCount(k) \/ AddLoadsIp(k) \/ AddCountsIps(k)
    PROVE  SerialInv'
  <1>t. TypeOK BY DEF SerialInv
  <1>c. ConnLimit \in Nat /\ IpLimit \in Nat BY <1>t, StoredTypes
  <1> USE DEF Goto, Return, AfterCount
  <1>1. CASE AddBegin(k)
    <2>1. Busy = {} /\ clear.at = "idle" BY <1>1, BeginsAlone DEF AddBegin
    <2>2. /\ \A j \in Conns \ {k} : pc'[j] = pc[j]
          /\ UNCHANGED <<maps, fixed, clear>>
          /\ pc'[k] \in {"loadCount", "addUser", "live"}
          /\ pc'[k] = "loadCount" => ConnLimit # 0
          /\ pc'[k] \in {"live", "addUser"} => ConnLimit = 0
          /\ pc'[k] = "live" => IpLimit = 0
          /\ pc'[k] = "addUser" => IpLimit # 0
      BY <1>1, <1>t DEF AddBegin, TypeOK
    <2>3. Loaded(k)' BY <2>2 DEF Loaded, AddPC, DelPC, CountPC, fixed, ConnLimit, IpLimit
    <2> QED BY <2>1, <2>2, <2>3, QuieterStep DEF HoldPC, OnPC
  <1>2. CASE AddLoadsCount(k)
    <2>1. k \in Busy /\ Loaded(k) BY <1>2, InOperation DEF AddLoadsCount, AddPC
    <2>2. /\ \A j \in Conns \ {k} : pc'[j] = pc[j]
          /\ UNCHANGED <<maps, fixed, clear>>
          /\ pc'[k] \in {"idle", "storeCount", "addUser", "live"}
          /\ pc'[k] = "storeCount" => v'[k] = count[User(k)]
          /\ pc'[k] \in {"live", "addUser"} => ~IsTcp(k)
          /\ pc'[k] = "addUser" => IpLimit # 0
      BY <1>2, <1>t DEF AddLoadsCount, TypeOK
    <2>3. ConnLimit # 0 BY <1>2, <2>1 DEF AddLoadsCount, Loaded, CountPC
    <2>4. Loaded(k)'
      BY <2>2, <2>3 DEF Loaded, AddPC, DelPC, CountPC, fixed, maps, ConnLimit, IpLimit, User
    <2> QED BY <2>1, <2>2, <2>4, QuieterStep DEF HoldPC, OnPC
  <1>3. CASE AddLoadsIp(k)
    <2>1. k \in Busy /\ Loaded(k) BY <1>3, InOperation DEF AddLoadsIp, AddPC
    <2>2. /\ \A j \in Conns \ {k} : pc'[j] = pc[j]
          /\ UNCHANGED <<maps, fixed, clear>>
          /\ pc[k] = "loadIp"
          /\ pc'[k] \in {"live", "countIps", "storeIp"}
          /\ pc'[k] # "live" => /\ held'[k] = held[k]
                                /\ v'[k] = inner[held[k]][IP(k)]
          /\ pc'[k] = "countIps" <=> pc'[k] # "live" /\ v'[k] = Absent
          /\ pc'[k] = "live" => ~IsTcp(k)
      BY <1>3, <1>t DEF AddLoadsIp, TypeOK
    <2>3. IpLimit # 0 /\ held[k] = ip[User(k)] /\ held[k] # NoMap
      BY <2>1, <2>2 DEF Loaded, AddPC, CountPC
    <2>4. Loaded(k)'
      BY <2>2, <2>3 DEF Loaded, AddPC, DelPC, CountPC, fixed, maps, ConnLimit, IpLimit, User, IP
    <2> QED BY <2>1, <2>2, <2>4, QuieterStep DEF HoldPC, OnPC
  <1>4. CASE AddCountsIps(k)
    <2>1. k \in Busy /\ Loaded(k) BY <1>4, InOperation DEF AddCountsIps, AddPC
    <2>2. /\ \A j \in Conns \ {k} : pc'[j] = pc[j]
          /\ UNCHANGED <<maps, fixed, clear>>
          /\ pc[k] = "countIps"
          /\ pc'[k] \in {"idle", "storeIp"}
          /\ pc'[k] = "storeIp" => /\ held'[k] = held[k] /\ v'[k] = v[k]
                                   /\ ~(Cardinality(Entries(held[k])) >= IpLimit)
      BY <1>4, <1>t DEF AddCountsIps, TypeOK
    <2>3. /\ IpLimit # 0 /\ held[k] = ip[User(k)] /\ held[k] # NoMap
          /\ v[k] = Absent /\ v[k] = inner[held[k]][IP(k)]
      BY <2>1, <2>2 DEF Loaded, AddPC, CountPC
    <2>4. Cardinality(Entries(held[k])) \in Nat
      <3>1. held[k] \in Maps BY <1>t, <2>3 DEF TypeOK
      <3> QED BY <3>1, FS_CardinalityType DEF SerialInv, FiniteMaps
    <2>5. pc'[k] = "storeIp" => Cardinality(Entries(held[k])') < IpLimit
      BY <1>c, <2>2, <2>4 DEF Entries, maps
    <2>6. Loaded(k)'
      BY <2>2, <2>3, <2>5
      DEF Loaded, AddPC, DelPC, CountPC, fixed, maps, ConnLimit, IpLimit, User, IP, Entries
    <2> QED BY <2>1, <2>2, <2>6, QuieterStep DEF HoldPC, OnPC
  <1> QED BY <1>1, <1>2, <1>3, <1>4

\* The step of AddConnCount that counts the connection.
LEMMA AddStoresCountSerial ==
    ASSUME SerialInv, TypeOK', NEW k \in Conns, AddStoresCount(k)
    PROVE  SerialInv'
  <1>t. TypeOK BY DEF SerialInv
  <1>1. k \in Busy /\ Loaded(k) BY InOperation DEF AddStoresCount, AddPC
  <1>2. /\ \A j \in Conns \ {k} : pc'[j] = pc[j]
        /\ UNCHANGED <<ip, inner, fixed, clear>>
        /\ pc'[k] \in {"live", "addUser"}
        /\ pc'[k] = "addUser" <=> IpLimit # 0
    BY <1>t DEF AddStoresCount, TypeOK, Goto, Return, AfterCount
  <1>3. v[k] = count[User(k)] /\ ConnLimit # 0
    BY <1>1 DEF AddStoresCount, Loaded, CountPC
  <1>4. Loaded(k)'
    BY <1>2, <1>3 DEF Loaded, AddPC, DelPC, CountPC, fixed, ConnLimit, IpLimit
  <1>5. CountCovers'
    <2> SUFFICES ASSUME NEW u \in Users
                 PROVE  Cardinality(Holding(u)') <= Counted(u)'
      BY DEF CountCovers
    <2>1. /\ Holding(u) \in SUBSET Conns
          /\ Cardinality(Holding(u)) <= Counted(u)
          /\ Counted(u) \in Int
      BY <1>3, <1>t DEF SerialInv, CountCovers, Holding, Counted, TypeOK
    <2>2. CASE u = User(k)
      <3>1. Holding(u)' \subseteq Holding(u) \cup {k}
        BY <1>2 DEF Holding, fixed, User, IsTcp
      <3>2. Counted(u)' = Counted(u) + 1
        BY <1>3, <1>t, <2>2, ConnLimiterAssumption DEF AddStoresCount, Counted, TypeOK
      <3>3. Holding(u) \cup {k} \in SUBSET Conns BY <2>1
      <3>4. /\ Cardinality(Holding(u)') <= Cardinality(Holding(u) \cup {k})
            /\ Cardinality(Holding(u)') \in Nat
            /\ Cardinality(Holding(u) \cup {k}) \in Nat
        BY <3>1, <3>3, FewerConns
      <3>5. /\ Cardinality(Holding(u)) \in Nat
            /\ Cardinality(Holding(u) \cup {k}) <= Cardinality(Holding(u)) + 1
        BY <2>1, OneMoreOrLess
      <3> QED BY <2>1, <3>2, <3>4, <3>5
    <2>3. CASE u # User(k)
      <3>1. Holding(u)' \subseteq Holding(u)
        BY <1>2, <2>3 DEF Holding, fixed, User, IsTcp
      <3>2. Counted(u)' = Counted(u)
        BY <2>3, <1>t DEF AddStoresCount, Counted, TypeOK
      <3>3. /\ Cardinality(Holding(u)') <= Cardinality(Holding(u))
            /\ Cardinality(Holding(u)') \in Nat /\ Cardinality(Holding(u)) \in Nat
        BY <2>1, <3>1, FewerConns
      <3> QED BY <2>1, <3>2, <3>3
    <2> QED BY <2>2, <2>3
  <1>6. IpLimit # 0 => pc'[k] \notin OnPC BY <1>2 DEF OnPC
  <1> QED BY <1>1, <1>2, <1>4, <1>5, <1>6, QuietStep

\* The end of a connection for which nothing is called.
LEMMA EndSerial ==
    ASSUME SerialInv, TypeOK', NEW k \in Conns, End(k)
    PROVE  SerialInv'
  <1>t. TypeOK BY DEF SerialInv
  <1>1. /\ pc[k] = "live" /\ pc' = [pc EXCEPT ![k] = "idle"]
        /\ UNCHANGED <<count, ip, inner, clock, conf, sess, v, held, clear>>
    BY DEF End, Goto, maps, fixed
  <1>2. Busy' = Busy BY <1>1, <1>t DEF Busy, AddPC, DelPC, TypeOK
  <1>3. OneAtATime' BY <1>1, <1>2 DEF SerialInv, OneAtATime
  <1>4. ASSUME NEW j \in Conns PROVE Loaded(j)'
    <2>1. CASE j = k BY <1>1, <1>t, <2>1 DEF Loaded, AddPC, DelPC, CountPC, TypeOK
    <2>2. CASE j # k
      <3>1. pc'[j] = pc[j] BY <1>1, <1>t, <2>2 DEF TypeOK
      <3>2. Loaded(j) BY DEF SerialInv, LoadedStands
      <3> QED BY <1>1, <3>1, <3>2
          DEF Loaded, User, IP, Entries, IpLimit, ConnLimit, Realtime, CallsDel
    <2> QED BY <2>1, <2>2
  <1>5. ClearStands' BY <1>1 DEF SerialInv, ClearStands, Entries, Realtime
  <1>6. \A u \in Users : Holding(u)' \subseteq Holding(u)
    BY <1>1, <1>t DEF Holding, HoldPC, User, IsTcp, TypeOK
  <1>7. \A u \in Users, a \in IPs : OnAddress(u, a)' \subseteq OnAddress(u, a)
    BY <1>1, <1>t DEF OnAddress, OnPC, User, IP, IsTcp, TypeOK
  <1>8. CountCovers' BY <1>1, <1>6, HoldingShrinks DEF SerialInv
  <1>9. RecordCovers' BY <1>1, <1>7, AddressesShrink DEF SerialInv
  <1> QED BY <1>1, <1>3, <1>4, <1>5, <1>8, <1>9, KeepsMaps DEF SerialInv, LoadedStands

\* The steps of DelConnCount that only look.
LEMMA DelLooksSerial ==
    ASSUME MaxBusy = 1, SerialInv, TypeOK', NEW k \in Conns,
           DelBegin(k) \/ DelLoadsCount(k) \/ DelLoadsUser(k) \/ DelLoadsIp(k) \/ DelRanges(k)
    PROVE  SerialInv'
  <1>t. TypeOK BY DEF SerialInv
  <1>c. ConnLimit \in Nat /\ IpLimit \in Nat BY <1>t, StoredTypes
  <1> USE DEF Goto, Return, AfterCount
  <1>1. CASE DelBegin(k)
    <2>1. Busy = {} /\ clear.at = "idle" BY <1>1, BeginsAlone DEF DelBegin
    <2>2. /\ \A j \in Conns \ {k} : pc'[j] = pc[j]
          /\ UNCHANGED <<maps, fixed, clear>>
          /\ pc[k] = "live" /\ pc'[k] \in {"delLoadCount", "delUser"}
          /\ pc'[k] = "delLoadCount" <=> ConnLimit # 0
          /\ ConnLimit # 0 \/ IpLimit # 0
          /\ CallsDel(k) /\ Realtime
      BY <1>1, <1>t DEF DelBegin, TypeOK
    <2>3. Loaded(k)'
      BY <2>2 DEF Loaded, AddPC, DelPC, CountPC, fixed, ConnLimit, IpLimit, Realtime, CallsDel
    <2> QED BY <2>1, <2>2, <2>3, QuieterStep DEF HoldPC, OnPC
  <1>2. CASE DelLoadsCount(k)
    <2>1. k \in Busy /\ Loaded(k) BY <1>2, InOperation DEF DelLoadsCount, DelPC
    <2>2. /\ \A j \in Conns \ {k} : pc'[j] = pc[j]
          /\ UNCHANGED <<maps, fixed, clear>>
          /\ pc[k] = "delLoadCount" /\ pc'[k] \in {"idle", "delUser", "delStoreCount"}
          /\ pc'[k] = "delStoreCount" => v'[k] = count[User(k)]
          /\ pc'[k] = "delUser" => IpLimit # 0
      BY <1>2, <1>t DEF DelLoadsCount, TypeOK
    <2>3. ConnLimit # 0 /\ CallsDel(k) /\ Realtime
      BY <2>1, <2>2 DEF Loaded, CountPC, DelPC
    <2>4. Loaded(k)'
      BY <2>2, <2>3
      DEF Loaded, AddPC, DelPC, CountPC, fixed, maps, ConnLimit, IpLimit, Realtime, CallsDel, User
    <2> QED BY <2>1, <2>2, <2>4, QuieterStep DEF HoldPC, OnPC
  <1>3. CASE DelLoadsUser(k)
    <2>1. k \in Busy /\ Loaded(k) BY <1>3, InOperation DEF DelLoadsUser, DelPC
    <2>2. /\ \A j \in Conns \ {k} : pc'[j] = pc[j]
          /\ UNCHANGED <<maps, fixed, clear>>
          /\ pc[k] = "delUser" /\ pc'[k] \in {"idle", "delLoadIp"}
          /\ pc'[k] = "delLoadIp" => held'[k] = ip[User(k)] /\ held'[k] # NoMap
      BY <1>3, <1>t DEF DelLoadsUser, TypeOK
    <2>3. IpLimit # 0 /\ CallsDel(k) /\ Realtime
      BY <2>1, <2>2 DEF Loaded, CountPC, DelPC
    <2>4. Loaded(k)'
      BY <2>2, <2>3
      DEF Loaded, AddPC, DelPC, CountPC, fixed, maps, ConnLimit, IpLimit, Realtime, CallsDel, User
    <2> QED BY <2>1, <2>2, <2>4, QuieterStep DEF HoldPC, OnPC
  <1>4. CASE DelLoadsIp(k)
    <2>1. k \in Busy /\ Loaded(k) BY <1>4, InOperation DEF DelLoadsIp, DelPC
    <2>2. /\ \A j \in Conns \ {k} : pc'[j] = pc[j]
          /\ UNCHANGED <<maps, fixed, clear>>
          /\ pc[k] = "delLoadIp" /\ pc'[k] \in {"idle", "delStoreIp"}
          /\ pc'[k] = "delStoreIp" => held'[k] = held[k] /\ v'[k] = inner[held[k]][IP(k)]
      BY <1>4, <1>t DEF DelLoadsIp, TypeOK
    <2>3. /\ IpLimit # 0 /\ CallsDel(k) /\ Realtime
          /\ held[k] = ip[User(k)] /\ held[k] # NoMap
      BY <2>1, <2>2 DEF Loaded, CountPC, DelPC
    <2>4. Loaded(k)'
      BY <2>2, <2>3
      DEF Loaded, AddPC, DelPC, CountPC, fixed, maps, ConnLimit, IpLimit, Realtime, CallsDel, User, IP
    <2> QED BY <2>1, <2>2, <2>4, QuieterStep DEF HoldPC, OnPC
  <1>5. CASE DelRanges(k)
    <2>1. k \in Busy /\ Loaded(k) BY <1>5, InOperation DEF DelRanges, DelPC
    <2>2. ip[User(k)] # NoMap /\ User(k) \in Users
      BY <1>5, <2>1, <1>t, StoredTypes DEF DelRanges, Loaded
    <2>3. /\ \A j \in Conns \ {k} : pc'[j] = pc[j]
          /\ UNCHANGED <<maps, fixed, clear>>
          /\ pc[k] = "delRange" /\ pc'[k] = "idle"
      BY <1>5, <1>t, <2>2 DEF DelRanges, TypeOK
    <2>4. Loaded(k)' BY <2>3 DEF Loaded, AddPC, DelPC, CountPC
    <2> QED BY <2>1, <2>3, <2>4, QuieterStep DEF HoldPC, OnPC
  <1> QED BY <1>1, <1>2, <1>3, <1>4, <1>5

\* The step of DelConnCount that gives the count back.
LEMMA DelStoresCountSerial ==
    ASSUME SerialInv, TypeOK', NEW k \in Conns, DelStoresCount(k)
    PROVE  SerialInv'
  <1>t. TypeOK BY DEF SerialInv
  <1>1. k \in Busy /\ Loaded(k) BY InOperation DEF DelStoresCount, DelPC
  <1>2. /\ \A j \in Conns \ {k} : pc'[j] = pc[j]
        /\ UNCHANGED <<ip, inner, fixed, clear>>
        /\ pc[k] = "delStoreCount" /\ pc'[k] \in {"idle", "delUser"}
        /\ pc'[k] = "delUser" => IpLimit # 0
    BY <1>t DEF DelStoresCount, TypeOK, Goto, Return, AfterCount
  <1>3. v[k] = count[User(k)] /\ v[k] # Absent /\ ConnLimit # 0 /\ CallsDel(k) /\ Realtime
    BY <1>1, <1>2, <1>t DEF Loaded, CountPC, DelPC, TypeOK
  <1>4. Loaded(k)'
    BY <1>2, <1>3
    DEF Loaded, AddPC, DelPC, CountPC, fixed, ConnLimit, IpLimit, Realtime, CallsDel
  <1>5. CountCovers'
    <2> SUFFICES ASSUME NEW u \in Users
                 PROVE  Cardinality(Holding(u)') <= Counted(u)'
      BY DEF CountCovers
    <2>1. /\ Holding(u) \in SUBSET Conns
          /\ Cardinality(Holding(u)) <= Counted(u)
          /\ Counted(u) \in Int
      BY <1>3, <1>t DEF SerialInv, CountCovers, Holding, Counted, TypeOK
    <2>2. CASE u = User(k)
      <3>1. Holding(u)' \subseteq Holding(u) \ {k}
        BY <1>2 DEF Holding, HoldPC, fixed, User, IsTcp
      <3>2. k \in Holding(u)
        BY <1>2, <1>3, <2>2 DEF Holding, HoldPC, CallsDel, IsTcp
      <3>3. Counted(u) = v[k] /\ Counted(u)' = v[k] - 1
        BY <1>3, <1>t, <2>2, ConnLimiterAssumption DEF DelStoresCount, Counted, TypeOK
      <3>4. Holding(u) \ {k} \in SUBSET Conns BY <2>1
      <3>5. /\ Cardinality(Holding(u)') <= Cardinality(Holding(u) \ {k})
            /\ Cardinality(Holding(u)') \in Nat
            /\ Cardinality(Holding(u) \ {k}) \in Nat
        BY <3>1, <3>4, FewerConns
      <3>6. /\ Cardinality(Holding(u)) \in Nat
            /\ Cardinality(Holding(u) \ {k}) = Cardinality(Holding(u)) - 1
        BY <2>1, <3>2, OneMoreOrLess
      <3> QED BY <2>1, <3>3, <3>5, <3>6
    <2>3. CASE u # User(k)
      <3>1. Holding(u)' \subseteq Holding(u)
        BY <1>2, <2>3 DEF Holding, HoldPC, fixed, User, IsTcp
      <3>2. Counted(u)' = Counted(u)
        BY <2>3, <1>t DEF DelStoresCount, Counted, TypeOK
      <3>3. /\ Cardinality(Holding(u)') <= Cardinality(Holding(u))
            /\ Cardinality(Holding(u)') \in Nat /\ Cardinality(Holding(u)) \in Nat
        BY <2>1, <3>1, FewerConns
      <3> QED BY <2>1, <3>2, <3>3
    <2> QED BY <2>2, <2>3
  <1>6. pc[k] \in OnPC BY <1>2 DEF OnPC
  <1> QED BY <1>1, <1>2, <1>4, <1>5, <1>6, QuietStep

\* A step of an operation of k that may write ip or an inner map, but no count.
LEMMA WriteStep ==
    ASSUME SerialInv, TypeOK', NEW k \in Conns, k \in Busy,
           \A j \in Conns \ {k} : pc'[j] = pc[j], UNCHANGED <<count, fixed, clear>>,
           Loaded(k)', pc'[k] \in HoldPC /\ IsTcp(k) => pc[k] \in HoldPC,
           OwnMaps', FiniteMaps', Positive', RecordCovers', RecordsFit'
    PROVE  SerialInv'
  <1> USE DEF fixed
  <1>1. OneAtATime' /\ ClearStands' /\ \A j \in Conns \ {k} : Loaded(j)' BY AloneStep
  <1>2. LoadedStands' BY <1>1 DEF LoadedStands
  <1>3. \A u \in Users : Holding(u)' \subseteq Holding(u)
    BY DEF Holding, User, IsTcp
  <1>4. CountCovers' BY <1>3, HoldingShrinks DEF SerialInv
  <1> QED BY <1>1, <1>2, <1>4 DEF SerialInv

\* The values after a write to one entry of one inner map.
LEMMA ValuesOfWrite ==
    ASSUME TypeOK, NEW m \in Maps, NEW key \in Keys, NEW x,
           inner' = [inner EXCEPT ![m][key] = x]
    PROVE  /\ inner'[m][key] = x
           /\ \A n \in Maps, o \in Keys : n # m \/ o # key => inner'[n][o] = inner[n][o]
  <1>1. inner \in [Maps -> [Keys -> Int \cup {Absent}]] BY DEF TypeOK
  <1>2. inner'[m] = [inner[m] EXCEPT ![key] = x] BY <1>1
  <1>3. \A n \in Maps \ {m} : inner'[n] = inner[n] BY <1>1
  <1>4. inner[m] \in [Keys -> Int \cup {Absent}] BY <1>1
  <1>5. inner'[m][key] = x /\ \A o \in Keys \ {key} : inner'[m][o] = inner[m][o]
    BY <1>2, <1>4
  <1> QED BY <1>3, <1>5

\* A new entry for one connection covers it.
LEMMA NewEntryCovers ==
    ASSUME TypeOK, NEW k \in Conns
    PROVE  /\ NewEntry(k) \in Int /\ NewEntry(k) # Absent
           /\ Realtime => NewEntry(k) >= 1
           /\ Realtime /\ IsTcp(k) => NewEntry(k) = 2
  BY StoredTypes, ConnLimiterAssumption DEF NewEntry

\* The first connection of a user makes his map.
LEMMA AddMakesMapSerial ==
    ASSUME SerialInv, TypeOK', NEW k \in Conns, AddUserMap(k), ip[User(k)] = NoMap
    PROVE  SerialInv'
  <1>t. TypeOK BY DEF SerialInv
  <1>c. User(k) \in Users /\ IP(k) \in Keys /\ IpLimit \in Nat BY <1>t, StoredTypes
  <1> PICK m \in FreeMaps :
           /\ ip' = [ip EXCEPT ![User(k)] = m]
           /\ inner' = [inner EXCEPT ![m] = [Empty EXCEPT ![IP(k)] = NewEntry(k)]]
           /\ Return(k, "live")
    BY DEF AddUserMap
  <1>1. k \in Busy /\ Loaded(k) BY InOperation DEF AddUserMap, AddPC
  <1>2. /\ pc[k] = "addUser" /\ pc' = [pc EXCEPT ![k] = "live"]
        /\ UNCHANGED <<count, conf, sess, clear, clock>>
    BY DEF AddUserMap, Return, Goto, fixed
  <1>3. m \in Maps /\ \A w \in Users : ip[w] # m BY DEF FreeMaps
  <1>4. IpLimit # 0 BY <1>1, <1>2 DEF Loaded, AddPC, CountPC
  <1>5. ip'[User(k)] = m /\ \A w \in Users \ {User(k)} : ip'[w] = ip[w] BY <1>c, <1>t DEF TypeOK
  <1>6. /\ inner'[m] = [Empty EXCEPT ![IP(k)] = NewEntry(k)]
        /\ \A n \in Maps \ {m} : inner'[n] = inner[n]
    BY <1>3, <1>t DEF TypeOK
  <1>7. Entries(m)' = {IP(k)} /\ \A n \in Maps \ {m} : Entries(n)' = Entries(n)
    <2>0. DOMAIN Empty = Keys /\ \A key \in Keys : Empty[key] = Absent BY DEF Empty
    <2>3. NewEntry(k) # Absent BY <1>t, NewEntryCovers
    <2>1. inner'[m][IP(k)] # Absent BY <1>c, <1>6, <2>0, <2>3
    <2>2. \A key \in Keys \ {IP(k)} : inner'[m][key] = Absent BY <1>6, <2>0
    <2> QED BY <1>c, <1>6, <2>1, <2>2 DEF Entries
  <1>8. FiniteMaps'
    <2>1. IsFiniteSet({IP(k)}) BY FS_Singleton
    <2>2. \A n \in Maps : IsFiniteSet(Entries(n)) BY DEF SerialInv, FiniteMaps
    <2>3. \A n \in Maps : IsFiniteSet(Entries(n)') BY <1>7, <2>1, <2>2
    <2> QED BY <2>3 DEF FiniteMaps
  <1>9. OwnMaps' BY <1>3, <1>5 DEF SerialInv, OwnMaps
  <1>10. Positive'
    <2> SUFFICES ASSUME Realtime, NEW n \in Maps, NEW a \in IPs, inner'[n][a] # Absent
                 PROVE  inner'[n][a] >= 1
      BY <1>2 DEF Positive, Realtime
    <2>1. a \in Keys BY DEF Keys
    <2>2. CASE n = m BY <1>c, <1>t, <1>6, <2>1, <2>2, NewEntryCovers DEF Empty
    <2>3. CASE n # m BY <1>6, <2>3 DEF SerialInv, Positive
    <2> QED BY <2>2, <2>3
  <1>11. RecordsFit'
    <2> SUFFICES ASSUME NEW w \in Users, ip'[w] # NoMap
                 PROVE  Cardinality(Records(w)') <= IpLimit
      BY <1>2 DEF RecordsFit, IpLimit
    <2>1. CASE w = User(k)
      <3>1. Records(w)' \subseteq {IP(k)} BY <1>5, <1>7, <2>1 DEF Records
      <3>2. Cardinality(Records(w)') <= 1 /\ Cardinality(Records(w)') \in Nat
        <4>1. IsFiniteSet({IP(k)}) /\ Cardinality({IP(k)}) = 1 BY FS_Singleton
        <4>2. /\ IsFiniteSet(Records(w)')
              /\ Cardinality(Records(w)') <= Cardinality({IP(k)})
          BY <3>1, <4>1, FS_Subset
        <4> QED BY <4>1, <4>2, FS_CardinalityType
      <3> QED BY <1>c, <1>4, <3>2
    <2>2. CASE w # User(k)
      <3>1. ip'[w] = ip[w] /\ ip[w] \in Maps \ {m} BY <1>3, <1>5, <1>t, <2>2 DEF TypeOK
      <3>2. Records(w)' = Records(w) BY <1>2, <1>7, <3>1 DEF Records, Realtime
      <3> QED BY <1>4, <3>1, <3>2 DEF SerialInv, RecordsFit
    <2> QED BY <2>1, <2>2
  <1>12. RecordCovers'
    <2> SUFFICES ASSUME Realtime, NEW w \in Users, NEW a \in IPs, OnAddress(w, a)' # {}
                 PROVE  /\ ip'[w] # NoMap
                        /\ inner'[ip'[w]][a] # Absent
                        /\ inner'[ip'[w]][a] >= 2 * Cardinality(OnAddress(w, a)')
      BY <1>2 DEF RecordCovers, Covers, Realtime
    <2>0. Covers(w, a) BY <1>4 DEF SerialInv, RecordCovers
    <2>1. CASE w = User(k)
      <3>1. OnAddress(w, a) = {} BY <2>0, <2>1 DEF Covers
      <3>2. OnAddress(w, a)' = {k} /\ a = IP(k) /\ IsTcp(k)
        BY <1>2, <1>t, <3>1 DEF OnAddress, OnPC, User, IP, IsTcp, TypeOK
      <3>3. Cardinality(OnAddress(w, a)') = 1 BY <3>2, FS_Singleton
      <3>4. inner'[m][a] = 2 BY <1>c, <1>t, <1>6, <3>2, NewEntryCovers DEF Empty
      <3> QED BY <1>3, <1>5, <2>1, <3>3, <3>4, ConnLimiterAssumption
    <2>2. CASE w # User(k)
      <3>1. OnAddress(w, a)' = OnAddress(w, a)
        BY <1>2, <1>t, <2>2 DEF OnAddress, OnPC, User, IP, IsTcp, TypeOK
      <3>2. ip[w] # NoMap BY <2>0, <3>1 DEF Covers
      <3>3. ip'[w] = ip[w] /\ ip[w] \in Maps \ {m} BY <1>3, <1>5, <1>t, <2>2, <3>2 DEF TypeOK
      <3> QED BY <1>6, <2>0, <3>1, <3>3 DEF Covers
    <2> QED BY <2>1, <2>2
  <1>13. Loaded(k)' BY <1>2, <1>t DEF Loaded, AddPC, DelPC, CountPC, TypeOK
  <1>14. /\ \A j \in Conns \ {k} : pc'[j] = pc[j]
         /\ pc[k] \in HoldPC
    BY <1>2, <1>t DEF TypeOK, HoldPC
  <1> QED BY <1>1, <1>2, <1>8, <1>9, <1>10, <1>11, <1>12, <1>13, <1>14, WriteStep DEF fixed

\* AddUserMap, whether the user has a map or not.
LEMMA AddUserMapSerial ==
    ASSUME SerialInv, TypeOK', NEW k \in Conns, AddUserMap(k)
    PROVE  SerialInv'
  <1>t. TypeOK BY DEF SerialInv
  <1>1. CASE ip[User(k)] # NoMap
    <2>1. k \in Busy /\ Loaded(k) BY InOperation DEF AddUserMap, AddPC
    <2>2. /\ \A j \in Conns \ {k} : pc'[j] = pc[j]
          /\ UNCHANGED <<maps, fixed, clear>>
          /\ pc[k] = "addUser" /\ pc'[k] = "loadIp"
          /\ held'[k] = ip[User(k)]
      BY <1>1, <1>t DEF AddUserMap, TypeOK, Goto, maps
    <2>3. IpLimit # 0 BY <2>1, <2>2 DEF Loaded, AddPC, CountPC
    <2>4. Loaded(k)'
      BY <1>1, <2>2, <2>3 DEF Loaded, AddPC, DelPC, CountPC, fixed, maps, IpLimit, User
    <2> QED BY <2>1, <2>2, <2>4, QuieterStep DEF HoldPC, OnPC
  <1> QED BY <1>1, AddMakesMapSerial

\* A write to an inner map of a user other than w, or to a key that is no address.
LEMMA OtherMap ==
    ASSUME SerialInv, NEW u \in Users, ip[u] # NoMap, NEW w \in Users, w # u, ip[w] # NoMap
    PROVE  ip[w] \in Maps \ {ip[u]}
  BY DEF SerialInv, TypeOK, OwnMaps

\* Fewer records are within the limit as well.
LEMMA FewerRecords ==
    ASSUME SerialInv, NEW u \in Users, ip[u] # NoMap, IpLimit # 0,
           NEW S \in SUBSET Records(u)
    PROVE  Cardinality(S) <= IpLimit
  <1>1. ip[u] \in Maps /\ Cardinality(Records(u)) <= IpLimit
    BY DEF SerialInv, TypeOK, RecordsFit
  <1>2. IsFiniteSet(Entries(ip[u])) BY <1>1 DEF SerialInv, FiniteMaps
  <1>3. IsFiniteSet(Records(u)) BY <1>2, FS_Subset DEF Records
  <1>4. IsFiniteSet(S) /\ Cardinality(S) <= Cardinality(Records(u)) BY <1>3, FS_Subset
  <1>5. Cardinality(S) \in Nat /\ Cardinality(Records(u)) \in Nat
    BY <1>3, <1>4, FS_CardinalityType
  <1>6. IpLimit \in Nat BY ConnLimiterAssumption DEF SerialInv, TypeOK, IpLimit
  <1> QED BY <1>1, <1>4, <1>5, <1>6

\* The entry of the address is stored.
LEMMA AddStoresIpSerial ==
    ASSUME SerialInv, TypeOK', NEW k \in Conns, AddStoresIp(k)
    PROVE  SerialInv'
  <1>t. TypeOK BY DEF SerialInv
  <1>1. k \in Busy /\ Loaded(k) BY InOperation DEF AddStoresIp, AddPC
  <1>m. PICK m : m = held[k] OBVIOUS
  <1>x. PICK x : x = IF Realtime /\ v[k] # Absent THEN v[k] + 2 ELSE NewEntry(k) OBVIOUS
  <1>2. /\ pc[k] = "storeIp" /\ pc' = [pc EXCEPT ![k] = "live"]
        /\ UNCHANGED <<count, ip, conf, sess, clear, clock>>
        /\ inner' = [inner EXCEPT ![m][IP(k)] = x]
    BY <1>m, <1>x DEF AddStoresIp, Return, Goto, fixed
  <1>3. /\ IpLimit # 0 /\ m = ip[User(k)] /\ m # NoMap /\ v[k] = inner[m][IP(k)]
        /\ v[k] = Absent => Cardinality(Entries(m)) < IpLimit
    BY <1>1, <1>2, <1>m DEF Loaded, AddPC, CountPC
  <1>c. /\ User(k) \in Users /\ IP(k) \in Keys /\ IP(k) \in IPs /\ IpLimit \in Nat /\ m \in Maps
        /\ v[k] = Absent \/ v[k] \in Int
    BY <1>t, <1>3, StoredTypes DEF TypeOK, IP, Sessions
  <1>4. x \in Int /\ x # Absent BY <1>c, <1>t, <1>x, NewEntryCovers, ConnLimiterAssumption
  <1>5. /\ Entries(m)' = Entries(m) \cup {IP(k)}
        /\ \A n \in Maps \ {m} : Entries(n)' = Entries(n)
        /\ FiniteMaps'
    <2>1. inner' = [inner EXCEPT ![m][IP(k)] = x] BY <1>2
    <2>2. m \in Maps /\ IP(k) \in Keys BY <1>c
    <2>3. FiniteMaps BY DEF SerialInv
    <2> QED BY <1>t, <1>4, <2>1, <2>2, <2>3, EntriesOfWrite
  <1>6. /\ inner'[m][IP(k)] = x
        /\ \A n \in Maps, key \in Keys : n # m \/ key # IP(k) => inner'[n][key] = inner[n][key]
    <2>1. inner' = [inner EXCEPT ![m][IP(k)] = x] BY <1>2
    <2>2. m \in Maps /\ IP(k) \in Keys BY <1>c
    <2>3. inner'[m][IP(k)] = x BY <1>t, <2>1, <2>2, ValuesOfWrite
    <2>4. ASSUME NEW n \in Maps, NEW o \in Keys, n # m \/ o # IP(k)
          PROVE  inner'[n][o] = inner[n][o]
      BY <1>t, <2>1, <2>2, <2>4, ValuesOfWrite
    <2> QED BY <2>3, <2>4
  <1>7. OwnMaps' BY <1>2 DEF SerialInv, OwnMaps
  <1>8. Positive'
    <2> SUFFICES ASSUME Realtime, NEW n \in Maps, NEW a \in IPs, inner'[n][a] # Absent
                 PROVE  inner'[n][a] >= 1
      BY <1>2 DEF Positive, Realtime
    <2>1. a \in Keys BY DEF Keys
    <2>2. CASE n = m /\ a = IP(k)
      <3>1. v[k] # Absent => v[k] >= 1
        BY <1>c, <1>3 DEF SerialInv, Positive
      <3>2. x >= 1 BY <1>c, <1>t, <1>x, <3>1, NewEntryCovers
      <3> QED BY <1>6, <2>2, <3>2
    <2>3. CASE n # m \/ a # IP(k) BY <1>6, <2>1, <2>3 DEF SerialInv, Positive
    <2> QED BY <2>2, <2>3
  <1>9. RecordsFit'
    <2> SUFFICES ASSUME NEW w \in Users, ip[w] # NoMap
                 PROVE  Cardinality(Records(w)') <= IpLimit
      BY <1>2 DEF RecordsFit, IpLimit
    <2>1. CASE w # User(k)
      <3>1. ip[w] \in Maps \ {m} BY <1>c, <1>3, <2>1, OtherMap
      <3>2. Records(w)' = Records(w) BY <1>2, <1>5, <3>1 DEF Records, Realtime
      <3> QED BY <1>3, <3>2 DEF SerialInv, RecordsFit
    <2>2. CASE w = User(k) /\ v[k] # Absent
      <3>1. Entries(m)' = Entries(m) BY <1>c, <1>3, <1>5, <2>2 DEF Entries
      <3>2. Records(w)' = Records(w) BY <1>2, <1>3, <2>2, <3>1 DEF Records, Realtime
      <3> QED BY <1>3, <3>2 DEF SerialInv, RecordsFit
    <2>3. CASE w = User(k) /\ v[k] = Absent
      <3>1. Cardinality(Entries(m)) < IpLimit BY <1>3, <2>3
      <3>2. IsFiniteSet(Entries(m)) /\ IsFiniteSet(Entries(m)')
        BY <1>c, <1>5 DEF SerialInv, FiniteMaps
      <3>3. Cardinality(Entries(m)') <= Cardinality(Entries(m)) + 1
        <4>1. Cardinality(Entries(m) \cup {IP(k)}) =
                IF IP(k) \in Entries(m) THEN Cardinality(Entries(m)) ELSE Cardinality(Entries(m)) + 1
          BY <3>2, FS_AddElement
        <4> QED BY <1>5, <3>2, <4>1, FS_CardinalityType
      <3>4. Records(w)' \subseteq Entries(m)' BY <1>2, <1>3, <2>3 DEF Records
      <3>5. /\ Cardinality(Records(w)') <= Cardinality(Entries(m)')
            /\ IsFiniteSet(Records(w)')
        BY <3>2, <3>4, FS_Subset
      <3>6. /\ Cardinality(Entries(m)) \in Nat /\ Cardinality(Entries(m)') \in Nat
            /\ Cardinality(Records(w)') \in Nat
        BY <3>2, <3>5, FS_CardinalityType
      <3> QED BY <1>c, <3>1, <3>3, <3>5, <3>6
    <2> QED BY <2>1, <2>2, <2>3
  <1>10. RecordCovers'
    <2> SUFFICES ASSUME Realtime, NEW w \in Users, NEW a \in IPs, OnAddress(w, a)' # {}
                 PROVE  /\ ip[w] # NoMap
                        /\ inner'[ip[w]][a] # Absent
                        /\ inner'[ip[w]][a] >= 2 * Cardinality(OnAddress(w, a)')
      BY <1>2 DEF RecordCovers, Covers, Realtime
    <2>0. Covers(w, a) /\ a \in Keys BY <1>3 DEF SerialInv, RecordCovers, Keys
    <2>1. CASE w = User(k) /\ a = IP(k)
      <3>1. OnAddress(w, a) \in SUBSET Conns BY DEF OnAddress
      <3>2. OnAddress(w, a)' \subseteq OnAddress(w, a) \cup {k}
        BY <1>2, <1>t DEF OnAddress, OnPC, User, IP, IsTcp, TypeOK
      <3>3. /\ OnAddress(w, a) \cup {k} \in SUBSET Conns
            /\ Cardinality(OnAddress(w, a)) \in Nat
            /\ Cardinality(OnAddress(w, a)') \in Nat
            /\ Cardinality(OnAddress(w, a)') <= Cardinality(OnAddress(w, a)) + 1
        <4>1. OnAddress(w, a) \cup {k} \in SUBSET Conns BY <3>1
        <4> HIDE DEF OnAddress
        <4>2. /\ Cardinality(OnAddress(w, a)') <= Cardinality(OnAddress(w, a) \cup {k})
              /\ Cardinality(OnAddress(w, a)') \in Nat
          BY <3>2, <4>1, FewerConns
        <4>3. /\ Cardinality(OnAddress(w, a)) \in Nat
              /\ Cardinality(OnAddress(w, a) \cup {k}) \in Nat
              /\ Cardinality(OnAddress(w, a) \cup {k}) <= Cardinality(OnAddress(w, a)) + 1
          BY <3>1, OneMoreOrLess
        <4> QED BY <4>1, <4>2, <4>3
      <3>4. CASE v[k] # Absent
        <4>1. x = v[k] + 2 /\ v[k] \in Int BY <1>c, <1>x, <3>4
        <4>2. v[k] >= 2 * Cardinality(OnAddress(w, a))
          <5>1. CASE OnAddress(w, a) # {} BY <1>3, <2>0, <2>1, <5>1 DEF Covers
          <5>2. CASE OnAddress(w, a) = {}
            <6>1. Cardinality(OnAddress(w, a)) = 0 BY <5>2, FS_EmptySet
            <6>2. v[k] >= 1 BY <1>c, <1>3, <3>4 DEF SerialInv, Positive
            <6> QED BY <4>1, <6>1, <6>2
          <5> QED BY <5>1, <5>2
        <4> QED BY <1>3, <1>4, <1>6, <2>1, <3>3, <4>1, <4>2
      <3>5. CASE v[k] = Absent
        <4>1. OnAddress(w, a) = {} BY <1>3, <2>0, <2>1, <3>5 DEF Covers
        <4>2. OnAddress(w, a)' = {k} /\ IsTcp(k)
          BY <1>2, <1>t, <4>1 DEF OnAddress, OnPC, User, IP, IsTcp, TypeOK
        <4>3. Cardinality(OnAddress(w, a)') = 1 BY <4>2, FS_Singleton
        <4>4. x = 2 BY <1>t, <1>x, <3>5, <4>2, NewEntryCovers
        <4> QED BY <1>3, <1>4, <1>6, <2>1, <4>3, <4>4
      <3> QED BY <3>4, <3>5
    <2>2. CASE w # User(k) \/ a # IP(k)
      <3>1. OnAddress(w, a)' = OnAddress(w, a)
        BY <1>2, <1>t, <2>2 DEF OnAddress, OnPC, User, IP, IsTcp, TypeOK
      <3>2. ip[w] # NoMap BY <2>0, <3>1 DEF Covers
      <3>3. ip[w] \in Maps /\ (w # User(k) => ip[w] # m)
        BY <1>c, <1>t, <1>3, <3>2, OtherMap DEF TypeOK
      <3>4. inner'[ip[w]][a] = inner[ip[w]][a] BY <1>6, <2>0, <2>2, <3>3
      <3> QED BY <2>0, <3>1, <3>4 DEF Covers
    <2> QED BY <2>1, <2>2
  <1>11. Loaded(k)' BY <1>2, <1>t DEF Loaded, AddPC, DelPC, CountPC, TypeOK
  <1>12. /\ \A j \in Conns \ {k} : pc'[j] = pc[j]
         /\ pc[k] \in HoldPC
    BY <1>2, <1>t DEF TypeOK, HoldPC
  <1> QED BY <1>1, <1>2, <1>5, <1>7, <1>8, <1>9, <1>10, <1>11, <1>12, WriteStep DEF fixed

\* The entry of the address is taken off, or less 2 of it is stored under the user.
LEMMA DelStoresIpSerial ==
    ASSUME SerialInv, TypeOK', NEW k \in Conns, DelStoresIp(k)
    PROVE  SerialInv'
  <1>t. TypeOK BY DEF SerialInv
  <1>1. k \in Busy /\ Loaded(k) BY InOperation DEF DelStoresIp, DelPC
  <1>m. PICK m, u : m = held[k] /\ u = User(k) OBVIOUS
  <1>x. PICK key, x : IF v[k] = 2 THEN key = IP(k) /\ x = Absent ELSE key = u /\ x = v[k] - 2
    OBVIOUS
  <1>2. /\ pc[k] = "delStoreIp" /\ pc' = [pc EXCEPT ![k] = "delRange"]
        /\ UNCHANGED <<count, ip, conf, sess, clear, clock, v, held>>
        /\ inner' = [inner EXCEPT ![m][key] = x]
    BY <1>m, <1>x DEF DelStoresIp, Goto, fixed
  <1>3. /\ IpLimit # 0 /\ m = ip[u] /\ m # NoMap /\ v[k] = inner[m][IP(k)]
        /\ CallsDel(k) /\ Realtime
    BY <1>1, <1>2, <1>m DEF Loaded, DelPC, CountPC
  <1>c. /\ u \in Users /\ IP(k) \in IPs /\ IpLimit \in Nat /\ m \in Maps /\ v[k] \in Int
        /\ key \in Keys
    BY <1>2, <1>t, <1>3, <1>m, <1>x, StoredTypes DEF TypeOK, IP, Sessions
  <1>4. u \notin IPs BY <1>c, ConnLimiterAssumption
  <1>5. v[k] >= 2 * Cardinality(OnAddress(u, IP(k))) /\ k \in OnAddress(u, IP(k))
    <2>1. k \in OnAddress(u, IP(k)) BY <1>2, <1>3, <1>m DEF OnAddress, OnPC, CallsDel, IsTcp
    <2> QED BY <1>c, <1>3, <2>1 DEF SerialInv, RecordCovers, Covers
  <1>6. /\ Entries(m)' = IF x = Absent THEN Entries(m) \ {key} ELSE Entries(m) \cup {key}
        /\ \A n \in Maps \ {m} : Entries(n)' = Entries(n)
        /\ FiniteMaps'
    BY <1>c, <1>t, <1>2, EntriesOfWrite DEF SerialInv
  <1>7. /\ inner'[m][key] = x
        /\ \A n \in Maps, o \in Keys : n # m \/ o # key => inner'[n][o] = inner[n][o]
    <2>1. inner' = [inner EXCEPT ![m][key] = x] BY <1>2
    <2>2. m \in Maps /\ key \in Keys BY <1>c
    <2>3. inner'[m][key] = x BY <1>t, <2>1, <2>2 DEF TypeOK
    <2>4. ASSUME NEW n \in Maps, NEW o \in Keys, n # m \/ o # key
          PROVE  inner'[n][o] = inner[n][o]
      BY <1>t, <2>1, <2>2, <2>4, ValuesOfWrite
    <2> QED BY <2>3, <2>4
  <1>8. key \in IPs => key = IP(k) /\ v[k] = 2 /\ x = Absent BY <1>4, <1>x
  <1>9. OwnMaps' BY <1>2 DEF SerialInv, OwnMaps
  <1>10. Positive'
    <2> SUFFICES ASSUME NEW n \in Maps, NEW a \in IPs, inner'[n][a] # Absent
                 PROVE  inner'[n][a] >= 1
      BY DEF Positive
    <2>1. a \in Keys BY DEF Keys
    <2>2. n # m \/ a # key BY <1>7, <1>8
    <2> QED BY <1>3, <1>7, <2>1, <2>2 DEF SerialInv, Positive
  <1>11. RecordsFit'
    <2> SUFFICES ASSUME NEW w \in Users, ip[w] # NoMap
                 PROVE  Cardinality(Records(w)') <= IpLimit
      BY <1>2 DEF RecordsFit, IpLimit
    <2>1. ip[w] \in Maps BY <1>t DEF TypeOK
    <2>2. Records(w)' \subseteq Records(w)
      <3>1. Entries(ip[w])' \cap IPs \subseteq Entries(ip[w]) \cap IPs BY <1>6, <1>8, <2>1
      <3> QED BY <1>2, <1>3, <3>1 DEF Records, Realtime
    <2> QED BY <1>3, <2>2, FewerRecords
  <1>12. RecordCovers'
    <2> SUFFICES ASSUME NEW w \in Users, NEW a \in IPs, OnAddress(w, a)' # {}
                 PROVE  /\ ip[w] # NoMap
                        /\ inner'[ip[w]][a] # Absent
                        /\ inner'[ip[w]][a] >= 2 * Cardinality(OnAddress(w, a)')
      BY <1>2 DEF RecordCovers, Covers
    <2>0. Covers(w, a) /\ a \in Keys BY <1>3 DEF SerialInv, RecordCovers, Keys
    <2>1. OnAddress(w, a)' \subseteq OnAddress(w, a) \ {k}
      BY <1>2, <1>t DEF OnAddress, OnPC, User, IP, IsTcp, TypeOK
    <2>2. ip[w] # NoMap /\ OnAddress(w, a) # {} BY <2>0, <2>1 DEF Covers
    <2>3. ip[w] \in Maps BY <1>t, <2>2 DEF TypeOK
    <2>4. ip[w] # m \/ a # key
      <3> SUFFICES ASSUME ip[w] = m, a = key PROVE FALSE OBVIOUS
      <3>1. w = u BY <1>c, <1>3, <2>2, OtherMap
      <3>2. v[k] = 2 /\ a = IP(k) BY <1>8
      <3>3. Cardinality(OnAddress(u, IP(k))) \in Nat /\ OnAddress(u, IP(k)) \subseteq Conns
        BY OneMoreOrLess DEF OnAddress
      <3>4. Cardinality(OnAddress(u, IP(k)) \ {k}) = Cardinality(OnAddress(u, IP(k))) - 1
        BY <1>5, <3>3, OneMoreOrLess
      <3>5. IsFiniteSet(OnAddress(u, IP(k)) \ {k})
        BY <3>3, OneMoreOrLess, FS_Subset
      <3>6. Cardinality(OnAddress(u, IP(k)) \ {k}) = 0
        BY <1>5, <3>2, <3>3, <3>4, <3>5, FS_CardinalityType
      <3>7. OnAddress(u, IP(k)) \ {k} = {} BY <3>5, <3>6, FS_EmptySet
      <3> QED BY <2>1, <3>1, <3>2, <3>7
    <2>5. inner'[ip[w]][a] = inner[ip[w]][a] BY <1>7, <2>0, <2>3, <2>4
    <2>6. OnAddress(w, a) \in SUBSET Conns BY DEF OnAddress
    <2>7. /\ Cardinality(OnAddress(w, a)') <= Cardinality(OnAddress(w, a))
          /\ Cardinality(OnAddress(w, a)') \in Nat /\ Cardinality(OnAddress(w, a)) \in Nat
      BY <2>1, <2>6, FewerConns
    <2>8. inner[ip[w]][a] # Absent /\ inner[ip[w]][a] \in Int
      BY <1>t, <2>0, <2>2, <2>3 DEF Covers, TypeOK
    <2>9. inner[ip[w]][a] >= 2 * Cardinality(OnAddress(w, a)) BY <2>0, <2>2 DEF Covers
    <2> QED BY <2>2, <2>5, <2>7, <2>8, <2>9
  <1>13. Loaded(k)'
    BY <1>2, <1>3, <1>m, <1>t
    DEF Loaded, AddPC, DelPC, CountPC, TypeOK, User, IpLimit, Realtime, CallsDel
  <1>14. /\ \A j \in Conns \ {k} : pc'[j] = pc[j]
         /\ pc'[k] \notin HoldPC
    BY <1>2, <1>t DEF TypeOK, HoldPC
  <1> QED BY <1>1, <1>2, <1>6, <1>9, <1>10, <1>11, <1>12, <1>13, <1>14, WriteStep DEF fixed

\* Between operations every connection is idle or live: whatever ClearOnlineIP does,
\* none has loaded anything.
LEMMA NobodyHasLoaded ==
    ASSUME SerialInv, TypeOK', Busy = {}, pc' = pc
    PROVE  OneAtATime' /\ LoadedStands'
  <1>1. \A k \in Conns : pc[k] \notin AddPC \cup DelPC BY DEF Busy
  <1>2. Busy' = {} BY <1>1 DEF Busy
  <1>3. LoadedStands' BY <1>1 DEF LoadedStands, Loaded, AddPC, DelPC, CountPC
  <1> QED BY <1>2, <1>3 DEF OneAtATime

\* A step of ClearOnlineIP that deletes nothing.
LEMMA ClearLooks ==
    ASSUME SerialInv, TypeOK', Busy = {}, UNCHANGED <<maps, pc, fixed>>, ClearStands'
    PROVE  SerialInv'
  <1> USE DEF maps, fixed
  <1>1. OneAtATime' /\ LoadedStands' BY NobodyHasLoaded
  <1>2. \A u \in Users : Holding(u)' = Holding(u) BY DEF Holding, User, IsTcp
  <1>3. \A u \in Users, a \in IPs : OnAddress(u, a)' = OnAddress(u, a)
    BY DEF OnAddress, User, IP, IsTcp
  <1>4. CountCovers' BY <1>2, HoldingShrinks DEF SerialInv
  <1>5. RecordCovers' BY <1>3, AddressesShrink DEF SerialInv
  <1> QED BY <1>1, <1>4, <1>5, KeepsMaps DEF SerialInv

\* ClearOnlineIP begins, takes a user or a key, and ends.
LEMMA ClearLooksSerial ==
    ASSUME MaxBusy = 1, SerialInv, TypeOK',
           ClearBegin \/ ClearTakesUser \/ ClearTakesKey \/ ClearEnds
    PROVE  SerialInv'
  <1>t. TypeOK BY DEF SerialInv
  <1>b. Busy = {}
    <2>1. CASE ClearBegin BY <2>1, BeginsAlone DEF ClearBegin
    <2>2. CASE clear.at # "idle" BY <2>2 DEF SerialInv, OneAtATime
    <2> QED BY <2>1, <2>2 DEF ClearTakesUser, ClearTakesKey, ClearEnds
  <1>u. UNCHANGED <<maps, pc, fixed>>
    BY DEF ClearBegin, ClearTakesUser, ClearTakesKey, ClearEnds, fixed
  <1>i. ip' = ip /\ inner' = inner /\ conf' = conf BY <1>u DEF maps, fixed
  <1>1. CASE ClearBegin
    <2>1. clear'.at = "user" BY <1>1 DEF ClearBegin, Idle
    <2> QED BY <1>b, <1>u, <2>1, ClearLooks DEF ClearStands
  <1>2. CASE ClearTakesUser
    <2> PICK u \in clear.users :
               clear' = IF ip[u] = NoMap
                        THEN [clear EXCEPT !.users = @ \ {u}]
                        ELSE [clear EXCEPT !.at = "key", !.users = @ \ {u}, !.user = u,
                                           !.map = ip[u], !.keys = Entries(ip[u]), !.seen = FALSE]
      BY <1>2 DEF ClearTakesUser
    <2>0. clear.at = "user" BY <1>2 DEF ClearTakesUser
    <2>1. u \in Users BY <1>t DEF TypeOK
    <2>2. CASE ip[u] = NoMap
      <3>1. clear'.at = "user" BY <1>t, <2>0, <2>2 DEF TypeOK
      <3> QED BY <1>b, <1>u, <3>1, ClearLooks DEF ClearStands
    <2>3. CASE ip[u] # NoMap
      <3>1. /\ clear'.at = "key" /\ clear'.user = u /\ clear'.map = ip[u]
            /\ clear'.keys = Entries(ip[u])
        BY <1>t, <2>3 DEF TypeOK
      <3>2. Entries(clear.map)' = Entries(ip[u]) BY <1>i, <3>1 DEF Entries
      <3>3. ClearStands' BY <1>i, <2>1, <2>3, <3>1, <3>2 DEF ClearStands
      <3> QED BY <1>b, <1>u, <3>3, ClearLooks
    <2> QED BY <2>2, <2>3
  <1>3. CASE ClearTakesKey
    <2>0. clear.at = "key" BY <1>3 DEF ClearTakesKey
    <2> PICK key \in clear.keys :
               LET x == inner[clear.map][key] IN
               clear' = IF x = Absent
                        THEN [clear EXCEPT !.keys = @ \ {key}]
                        ELSE [clear EXCEPT !.keys = @ \ {key}, !.seen = TRUE,
                                           !.key = IF Expired(x) THEN key ELSE Absent,
                                           !.at = IF Expired(x) THEN "delete" ELSE "key"]
      BY <1>3 DEF ClearTakesKey
    <2>1. /\ clear.user \in Users /\ clear.map = ip[clear.user] /\ clear.map # NoMap
          /\ clear.seen \/ Entries(clear.map) \subseteq clear.keys
      BY <2>0 DEF SerialInv, ClearStands
    <2>2. key \in Keys BY <1>t DEF TypeOK
    <2>3. Entries(clear.map)' = Entries(clear'.map) BY <1>i DEF Entries
    <2>4. CASE inner[clear.map][key] = Absent
      <3>1. /\ clear'.at = "key" /\ clear'.user = clear.user /\ clear'.map = clear.map
            /\ clear'.keys = clear.keys \ {key} /\ clear'.seen = clear.seen
        BY <1>t, <2>0, <2>4 DEF TypeOK
      <3>2. key \notin Entries(clear.map) BY <2>4 DEF Entries
      <3>3. ClearStands' BY <1>i, <2>1, <2>3, <3>1, <3>2 DEF ClearStands
      <3> QED BY <1>b, <1>u, <3>3, ClearLooks
    <2>5. CASE inner[clear.map][key] # Absent
      <3>1. /\ clear'.at \in {"key", "delete"}
            /\ clear'.user = clear.user /\ clear'.map = clear.map
            /\ clear'.seen = TRUE
            /\ clear'.at = "delete" => clear'.key = key /\ Expired(inner[clear.map][key])
        BY <1>t, <2>0, <2>5 DEF TypeOK
      <3>2. clear'.at = "delete" /\ Realtime => inner[clear.map][key] = 1
        BY <3>1 DEF Expired
      <3>3. ClearStands' BY <1>i, <2>1, <2>2, <3>1, <3>2 DEF ClearStands, Realtime
      <3> QED BY <1>b, <1>u, <3>3, ClearLooks
    <2> QED BY <2>4, <2>5
  <1>4. CASE ClearEnds
    <2>1. clear'.at = "idle" BY <1>4 DEF ClearEnds, Idle
    <2> QED BY <1>b, <1>u, <2>1, ClearLooks DEF ClearStands
  <1> QED BY <1>1, <1>2, <1>3, <1>4

\* In real time the key that goes is no address of a connection in progress.
LEMMA ClearDeletesKeySerial ==
    ASSUME SerialInv, TypeOK', ClearDeletesKey
    PROVE  SerialInv'
  <1>t. TypeOK BY DEF SerialInv
  <1>b. Busy = {} BY DEF SerialInv, OneAtATime, ClearDeletesKey
  <1>m. PICK m, key : m = clear.map /\ key = clear.key OBVIOUS
  <1>1. /\ inner' = [inner EXCEPT ![m][key] = Absent]
        /\ UNCHANGED <<count, ip, pc, conf, sess>>
        /\ clear' = [clear EXCEPT !.at = "key", !.key = Absent]
    BY <1>m DEF ClearDeletesKey, fixed
  <1>2. /\ clear.user \in Users /\ m = ip[clear.user] /\ m # NoMap /\ clear.seen
        /\ key \in Keys /\ (Realtime => inner[m][key] = 1)
    BY <1>m DEF SerialInv, ClearStands, ClearDeletesKey
  <1>3. m \in Maps /\ IpLimit \in Nat
    BY <1>2, <1>t, ConnLimiterAssumption DEF TypeOK, IpLimit
  <1>4. /\ \A n \in Maps : Entries(n)' \subseteq Entries(n)
        /\ FiniteMaps'
    BY <1>1, <1>2, <1>3, <1>t, EntriesOfWrite DEF SerialInv
  <1>5. ASSUME NEW n \in Maps, NEW o \in Keys
        PROVE  inner'[n][o] = IF n = m /\ o = key THEN Absent ELSE inner[n][o]
    BY <1>1, <1>2, <1>3, <1>t DEF TypeOK
  <1>6. OneAtATime' /\ LoadedStands' BY <1>1, <1>b, NobodyHasLoaded
  <1>7. ClearStands'
    <2>1. /\ clear'.at = "key" /\ clear'.user = clear.user /\ clear'.map = m
          /\ clear'.seen
      BY <1>1, <1>2, <1>m, <1>t DEF TypeOK
    <2> QED BY <1>1, <1>2, <2>1 DEF ClearStands
  <1>8. OwnMaps' BY <1>1 DEF SerialInv, OwnMaps
  <1>9. Positive' BY <1>1, <1>5 DEF SerialInv, Positive, Realtime, Keys
  <1>10. CountCovers'
    <2>1. \A u \in Users : Holding(u)' = Holding(u) BY <1>1 DEF Holding, User, IsTcp
    <2> QED BY <1>1, <1>t, <2>1, HoldingShrinks DEF SerialInv
  <1>11. RecordsFit'
    <2> SUFFICES ASSUME IpLimit # 0, NEW w \in Users, ip[w] # NoMap
                 PROVE  Cardinality(Records(w)') <= IpLimit
      BY <1>1 DEF RecordsFit, IpLimit
    <2>1. ip[w] \in Maps BY <1>t DEF TypeOK
    <2>2. Records(w)' \subseteq Records(w) BY <1>1, <1>4, <2>1 DEF Records, Realtime
    <2> QED BY <2>2, FewerRecords
  <1>12. RecordCovers'
    <2> SUFFICES ASSUME Realtime, IpLimit # 0, NEW w \in Users, NEW a \in IPs,
                        OnAddress(w, a)' # {}
                 PROVE  /\ ip[w] # NoMap
                        /\ inner'[ip[w]][a] # Absent
                        /\ inner'[ip[w]][a] >= 2 * Cardinality(OnAddress(w, a)')
      BY <1>1 DEF RecordCovers, Covers, Realtime, IpLimit
    <2>0. Covers(w, a) /\ a \in Keys BY DEF SerialInv, RecordCovers, Keys
    <2>1. OnAddress(w, a)' = OnAddress(w, a) BY <1>1 DEF OnAddress, User, IP, IsTcp
    <2>2. /\ ip[w] # NoMap /\ inner[ip[w]][a] # Absent
          /\ inner[ip[w]][a] >= 2 * Cardinality(OnAddress(w, a))
      BY <2>0, <2>1 DEF Covers
    <2>3. ip[w] \in Maps BY <1>t, <2>2 DEF TypeOK
    <2>4. ip[w] # m \/ a # key
      <3> SUFFICES ASSUME ip[w] = m, a = key PROVE FALSE OBVIOUS
      <3>1. inner[ip[w]][a] = 1 BY <1>2
      <3>2. OnAddress(w, a) \subseteq Conns BY DEF OnAddress
      <3>3. IsFiniteSet(OnAddress(w, a)) /\ Cardinality(OnAddress(w, a)) \in Nat
        BY <3>2, OneMoreOrLess
      <3>4. Cardinality(OnAddress(w, a)) = 0 BY <2>2, <3>1, <3>3
      <3> QED BY <2>1, <3>3, <3>4, FS_EmptySet
    <2>5. inner'[ip[w]][a] = inner[ip[w]][a] BY <1>5, <2>0, <2>3, <2>4
    <2> QED BY <2>1, <2>2, <2>5
  <1> QED BY <1>4, <1>6, <1>7, <1>8, <1>9, <1>10, <1>11, <1>12 DEF SerialInv

\* A user is taken off only if his map has no entry, and so he has no connection.
LEMMA ClearEndsUserSerial ==
    ASSUME SerialInv, TypeOK', ClearEndsUser
    PROVE  SerialInv'
  <1>t. TypeOK BY DEF SerialInv
  <1>b. Busy = {} BY DEF SerialInv, OneAtATime, ClearEndsUser
  <1>1. UNCHANGED <<count, inner, pc, conf, sess>> BY DEF ClearEndsUser, fixed
  <1>2. clear'.at = "user" BY DEF ClearEndsUser, Idle
  <1>3. ClearStands' BY <1>2 DEF ClearStands
  <1>4. CASE clear.seen
    <2>1. ip' = ip BY <1>4 DEF ClearEndsUser
    <2> QED BY <1>1, <1>3, <1>b, <2>1, ClearLooks DEF maps, fixed
  <1>5. CASE ~clear.seen
    <2>u. PICK u : u = clear.user OBVIOUS
    <2>1. ip' = [ip EXCEPT ![u] = NoMap] BY <1>5, <2>u DEF ClearEndsUser
    <2>2. u \in Users /\ ip[u] # NoMap /\ Entries(ip[u]) = {}
      BY <1>5, <2>u DEF SerialInv, ClearStands, ClearEndsUser
    <2>3. \A w \in Users : ip'[w] # NoMap => w # u /\ ip'[w] = ip[w]
      BY <1>t, <2>1, <2>2 DEF TypeOK
    <2>4. OneAtATime' /\ LoadedStands' BY <1>1, <1>b, NobodyHasLoaded
    <2>5. OwnMaps' BY <2>3 DEF SerialInv, OwnMaps
    <2>6. FiniteMaps' /\ Positive'
      BY <1>1 DEF SerialInv, FiniteMaps, Positive, Entries, Realtime
    <2>7. CountCovers'
      <3>1. \A w \in Users : Holding(w)' = Holding(w) BY <1>1 DEF Holding, User, IsTcp
      <3> QED BY <1>1, <1>t, <3>1, HoldingShrinks DEF SerialInv
    <2>8. RecordsFit'
      BY <1>1, <2>3 DEF SerialInv, RecordsFit, Records, Entries, Realtime, IpLimit
    <2>9. RecordCovers'
      <3> SUFFICES ASSUME Realtime, IpLimit # 0, NEW w \in Users, NEW a \in IPs,
                          OnAddress(w, a)' # {}
                   PROVE  /\ ip'[w] # NoMap
                          /\ inner[ip'[w]][a] # Absent
                          /\ inner[ip'[w]][a] >= 2 * Cardinality(OnAddress(w, a)')
        BY <1>1 DEF RecordCovers, Covers, Realtime, IpLimit
      <3>0. Covers(w, a) /\ a \in Keys BY DEF SerialInv, RecordCovers, Keys
      <3>1. OnAddress(w, a)' = OnAddress(w, a) BY <1>1 DEF OnAddress, User, IP, IsTcp
      <3>2. a \in Entries(ip[w]) BY <3>0, <3>1 DEF Covers, Entries
      <3>3. w # u BY <2>2, <3>2
      <3>4. ip'[w] = ip[w] BY <1>t, <2>1, <3>3 DEF TypeOK
      <3> QED BY <3>0, <3>1, <3>4 DEF Covers
    <2> QED BY <1>3, <2>4, <2>5, <2>6, <2>7, <2>8, <2>9 DEF SerialInv
  <1> QED BY <1>4, <1>5

\* The clock and a stutter.
LEMMA TickSerial ==
    ASSUME SerialInv, TypeOK', Tick \/ UNCHANGED vars
    PROVE  SerialInv'
  <1>1. UNCHANGED <<count, ip, inner, pc, conf, sess, v, held, clear>>
    BY DEF Tick, vars, maps, fixed
  <1>2. OneAtATime' BY <1>1 DEF SerialInv, OneAtATime, Busy
  <1>3. LoadedStands'
    BY <1>1 DEF SerialInv, LoadedStands, Loaded, User, IP, Entries, IpLimit, ConnLimit,
                Realtime, CallsDel
  <1>4. ClearStands' BY <1>1 DEF SerialInv, ClearStands, Entries, Realtime
  <1>5. \A u \in Users : Holding(u)' = Holding(u) BY <1>1 DEF Holding, User, IsTcp
  <1>6. \A u \in Users, a \in IPs : OnAddress(u, a)' = OnAddress(u, a)
    BY <1>1 DEF OnAddress, User, IP, IsTcp
  <1>7. CountCovers' BY <1>1, <1>5, HoldingShrinks DEF SerialInv
  <1>8. RecordCovers' BY <1>1, <1>6, AddressesShrink DEF SerialInv
  <1> QED BY <1>1, <1>2, <1>3, <1>4, <1>7, <1>8, KeepsMaps DEF SerialInv

\* DelUserMap is never reached: the map the operation has loaded is the user's.
LEMMA DelUserMapNever ==
    ASSUME SerialInv, NEW k \in Conns
    PROVE  ~DelUserMap(k)
  <1> SUFFICES ASSUME DelUserMap(k) PROVE FALSE OBVIOUS
  <1>1. pc[k] = "delUserMap" BY DEF DelUserMap
  <1>2. Loaded(k) BY DEF SerialInv, LoadedStands
  <1> QED BY <1>1, <1>2 DEF Loaded, DelPC

\* The invariant of operations one at a time.
LEMMA SerialInvHolds == ASSUME MaxBusy = 1 PROVE Spec => []SerialInv
  <1>1. SerialInv /\ [Next]_vars => SerialInv'
    <2> SUFFICES ASSUME SerialInv, [Next]_vars PROVE SerialInv' OBVIOUS
    <2>t. TypeOK' BY AddTypeOK, DelTypeOK, OthersTypeOK DEF Next, SerialInv
    <2>1. ASSUME NEW k \in Conns, AddBegin(k) \/ AddStep(k) PROVE SerialInv'
      BY <2>t, <2>1, AddLooksSerial, AddStoresCountSerial, AddUserMapSerial, AddStoresIpSerial
      DEF AddStep
    <2>2. ASSUME NEW k \in Conns, End(k) \/ DelBegin(k) \/ DelStep(k) PROVE SerialInv'
      BY <2>t, <2>2, EndSerial, DelLooksSerial, DelStoresCountSerial, DelStoresIpSerial,
         DelUserMapNever DEF DelStep
    <2>3. ASSUME ClearBegin \/ ClearStep PROVE SerialInv'
      BY <2>t, <2>3, ClearLooksSerial, ClearDeletesKeySerial, ClearEndsUserSerial DEF ClearStep
    <2>4. ASSUME Tick \/ UNCHANGED vars PROVE SerialInv' BY <2>t, <2>4, TickSerial
    <2> QED BY <2>1, <2>2, <2>3, <2>4 DEF Next
  <1> QED BY <1>1, InitSerial, PTL DEF Spec

-----------------------------------------------------------------------------
(* What the invariant says of the properties. *)

\* With operations one at a time no connection is forgotten: the count that Add compares
\* with the limit is at least the number of the user's live TCP connections.
THEOREM CountCoversConnections == ASSUME MaxBusy = 1 PROVE Spec => []CountCoversLive
  <1>1. SerialInv => CountCoversLive
    <2> SUFFICES ASSUME SerialInv, ConnLimit # 0, NEW u \in Users
                 PROVE  Cardinality(LiveTcp(u)) <= Counted(u)
      BY DEF CountCoversLive
    <2>1. Holding(u) \in SUBSET Conns /\ LiveTcp(u) \subseteq Holding(u)
      BY DEF Holding, HoldPC, LiveTcp
    <2>2. /\ Cardinality(LiveTcp(u)) <= Cardinality(Holding(u))
          /\ Cardinality(LiveTcp(u)) \in Nat /\ Cardinality(Holding(u)) \in Nat
      BY <2>1, FewerConns
    <2>3. Cardinality(Holding(u)) <= Counted(u) /\ Counted(u) \in Int
      BY DEF SerialInv, CountCovers, TypeOK, Counted
    <2> QED BY <2>2, <2>3
  <1> QED BY <1>1, SerialInvHolds, PTL

\* The address of a live TCP connection is on record.
LEMMA LiveOnRecord ==
    ASSUME SerialInv, Realtime, IpLimit # 0, NEW u \in Users, NEW k \in LiveTcp(u)
    PROVE  ip[u] # NoMap /\ inner[ip[u]][IP(k)] # Absent /\ IP(k) \in IPs
  <1>1. k \in OnAddress(u, IP(k)) BY DEF LiveTcp, OnAddress, OnPC
  <1>2. IP(k) \in IPs BY DEF SerialInv, TypeOK, LiveTcp, Sessions, IP
  <1>3. Covers(u, IP(k)) BY <1>2 DEF SerialInv, RecordCovers
  <1> QED BY <1>1, <1>2, <1>3 DEF Covers

\* With operations one at a time neither ClearOnlineIP nor the end of another connection
\* takes the record of an address that a TCP connection is live from.
THEOREM LiveStaysOnRecord == ASSUME MaxBusy = 1 PROVE Spec => []LiveIpOnRecord
  <1>1. SerialInv => LiveIpOnRecord BY LiveOnRecord DEF LiveIpOnRecord
  <1> QED BY <1>1, SerialInvHolds, PTL

\* With operations one at a time the addresses a user's TCP connections are live from are
\* within the IP limit: they are on record, and the addresses on record are within it.
THEOREM AddressesWithinLimit == ASSUME MaxBusy = 1 PROVE Spec => []IpsWithinLimit
  <1>1. SerialInv => IpsWithinLimit
    <2> SUFFICES ASSUME SerialInv, Realtime, IpLimit # 0, NEW u \in Users
                 PROVE  Cardinality({IP(k) : k \in LiveTcp(u)}) <= IpLimit
      BY DEF IpsWithinLimit
    <2>1. CASE LiveTcp(u) = {}
      <3>1. {IP(k) : k \in LiveTcp(u)} = {} BY <2>1
      <3>2. IpLimit \in Nat BY ConnLimiterAssumption DEF SerialInv, TypeOK, IpLimit
      <3>3. Cardinality({IP(k) : k \in LiveTcp(u)}) = 0 BY <3>1, FS_EmptySet
      <3> QED BY <3>2, <3>3
    <2>2. CASE LiveTcp(u) # {}
      <3>1. ip[u] # NoMap BY <2>2, LiveOnRecord
      <3>2. {IP(k) : k \in LiveTcp(u)} \subseteq Records(u)
        BY LiveOnRecord DEF Records, Entries, Keys
      <3> QED BY <3>1, <3>2, FewerRecords
    <2> QED BY <2>1, <2>2
  <1> QED BY <1>1, SerialInvHolds, PTL

\* With operations one at a time Add records no address past the limit, whatever
\* ClearOnlineIP has deleted before.
THEOREM RecordsStayWithinLimit == ASSUME MaxBusy = 1 PROVE Spec => []RecordsWithinLimit
  <1>1. SerialInv => RecordsWithinLimit
    BY DEF SerialInv, RecordsFit, Records, RecordsWithinLimit
  <1> QED BY <1>1, SerialInvHolds, PTL

-----------------------------------------------------------------------------
(* A limit of connections alone is the quota. *)

\* A limit of connections alone, in real time: then the count is exact, if every
\* connection that is counted is given back.
Plain == ConnLimit # 0 /\ IpLimit = 0 /\ Realtime
ExactCount ==
    Plain => /\ \A u \in Users : Cardinality(Holding(u)) = Counted(u)
             /\ \A k \in Conns : pc[k] = "storeCount" => IsTcp(k)
ExactInv == SerialInv /\ IInv /\ ExactCount

\* Without a limit of addresses, the operations are steps on the count.
LEMMA PlainPC ==
    ASSUME SerialInv, Plain, NEW k \in Conns
    PROVE  pc[k] \in {"idle", "live"} \cup CountPC
  <1>1. Loaded(k) /\ pc[k] \in {"idle", "live"} \cup AddPC \cup DelPC
    BY DEF SerialInv, LoadedStands, TypeOK
  <1> QED BY <1>1 DEF Loaded, Plain

\* Nobody waits to count a connection, and nobody has one.
LEMMA InitExact == Init => ExactCount
  <1> SUFFICES ASSUME Init PROVE ExactCount OBVIOUS
  <1>1. \A u \in Users : Holding(u) = {} /\ Counted(u) = 0
    BY DEF Init, Holding, HoldPC, Counted
  <1>2. \A k \in Conns : pc[k] # "storeCount" BY DEF Init
  <1> QED BY <1>1, <1>2, FS_EmptySet DEF ExactCount

\* A step that neither changes a count nor takes a connection that holds one in or out.
LEMMA ExactKept ==
    ASSUME ExactCount, UNCHANGED <<count, fixed>>,
           Plain => \A u \in Users : Holding(u)' = Holding(u),
           Plain => \A k \in Conns : pc'[k] = "storeCount" => IsTcp(k)
    PROVE  ExactCount'
  <1> SUFFICES ASSUME Plain
               PROVE  /\ \A u \in Users : Cardinality(Holding(u)') = Counted(u)'
                      /\ \A k \in Conns : pc'[k] = "storeCount" => IsTcp(k)'
    BY DEF ExactCount, Plain, ConnLimit, IpLimit, Realtime, fixed
  <1>1. \A u \in Users : Cardinality(Holding(u)) = Counted(u) BY DEF ExactCount
  <1>2. \A u \in Users : Counted(u)' = Counted(u) BY DEF Counted
  <1>3. \A k \in Conns : IsTcp(k)' <=> IsTcp(k) BY DEF IsTcp, fixed
  <1> QED BY <1>1, <1>2, <1>3

\* AddStoresCount counts one more.
LEMMA AddStoresCountExact ==
    ASSUME ExactInv, NEW k \in Conns, AddStoresCount(k)
    PROVE  ExactCount'
  <1>t. TypeOK BY DEF ExactInv, SerialInv
  <1>0. UNCHANGED <<conf, sess>> BY DEF AddStoresCount, fixed
  <1> SUFFICES ASSUME Plain
               PROVE  /\ \A u \in Users : Cardinality(Holding(u)') = Counted(u)'
                      /\ \A j \in Conns : pc'[j] = "storeCount" => IsTcp(j)'
    BY <1>0 DEF ExactCount, Plain, ConnLimit, IpLimit, Realtime
  <1>1. /\ pc[k] = "storeCount" /\ pc' = [pc EXCEPT ![k] = "live"]
        /\ count' = [count EXCEPT ![User(k)] = IF v[k] = Absent THEN 1 ELSE v[k] + 1]
    BY DEF AddStoresCount, AfterCount, Return, Goto, Plain
  <1>2. IsTcp(k) /\ User(k) \in Users
    BY <1>1, <1>t, StoredTypes DEF ExactInv, ExactCount
  <1>3. v[k] = count[User(k)]
    BY <1>1 DEF ExactInv, SerialInv, LoadedStands, Loaded
  <1>4. Holding(User(k))' = Holding(User(k)) \cup {k} /\ k \notin Holding(User(k))
    BY <1>0, <1>1, <1>2, <1>t DEF Holding, HoldPC, User, IsTcp, TypeOK
  <1>5. Counted(User(k))' = Counted(User(k)) + 1
    BY <1>0, <1>1, <1>2, <1>3, <1>t, ConnLimiterAssumption DEF Counted, TypeOK, User
  <1>6. Cardinality(Holding(User(k)) \cup {k}) = Cardinality(Holding(User(k))) + 1
    <2>1. Holding(User(k)) \subseteq Conns BY DEF Holding
    <2>2. IsFiniteSet(Holding(User(k))) BY <2>1, OneMoreOrLess
    <2> QED BY <1>4, <2>2, FS_AddElement
  <1>7. ASSUME NEW u \in Users, u # User(k)
        PROVE  Holding(u)' = Holding(u) /\ Counted(u)' = Counted(u)
    BY <1>0, <1>1, <1>7, <1>t DEF Holding, HoldPC, User, IsTcp, Counted, TypeOK
  <1>8. \A j \in Conns : pc'[j] = "storeCount" => IsTcp(j)'
    BY <1>0, <1>1, <1>t DEF ExactInv, ExactCount, IsTcp, TypeOK
  <1>9. \A u \in Users : Cardinality(Holding(u)) = Counted(u) BY DEF ExactInv, ExactCount
  <1>10. ASSUME NEW u \in Users PROVE Cardinality(Holding(u)') = Counted(u)'
    <2>1. CASE u # User(k) BY <1>7, <1>9, <2>1
    <2>2. CASE u = User(k)
      <3>1. Holding(u)' = Holding(User(k)) \cup {k}
        BY <1>0, <1>4, <2>2 DEF Holding, HoldPC, User, IsTcp
      <3>2. Counted(u)' = Counted(User(k)) + 1 BY <1>0, <1>5, <2>2 DEF Counted, User
      <3> QED BY <1>2, <1>6, <1>9, <3>1, <3>2
    <2> QED BY <2>1, <2>2
  <1> QED BY <1>8, <1>10

\* DelStoresCount counts one less.
LEMMA DelStoresCountExact ==
    ASSUME ExactInv, NEW k \in Conns, DelStoresCount(k)
    PROVE  ExactCount'
  <1>t. TypeOK BY DEF ExactInv, SerialInv
  <1>0. UNCHANGED <<conf, sess>> BY DEF DelStoresCount, fixed
  <1> SUFFICES ASSUME Plain
               PROVE  /\ \A u \in Users : Cardinality(Holding(u)') = Counted(u)'
                      /\ \A j \in Conns : pc'[j] = "storeCount" => IsTcp(j)'
    BY <1>0 DEF ExactCount, Plain, ConnLimit, IpLimit, Realtime
  <1>1. /\ pc[k] = "delStoreCount" /\ pc' = [pc EXCEPT ![k] = "idle"]
        /\ count' = [count EXCEPT ![User(k)] = IF v[k] = 1 THEN Absent ELSE v[k] - 1]
    BY DEF DelStoresCount, AfterCount, Return, Goto, Plain
  <1>2. IsTcp(k) /\ User(k) \in Users
    BY <1>1, <1>t, StoredTypes DEF ExactInv, SerialInv, LoadedStands, Loaded, DelPC, CallsDel, IsTcp
  <1>3. v[k] = count[User(k)] /\ v[k] # Absent
    BY <1>1, <1>t DEF ExactInv, SerialInv, LoadedStands, Loaded, TypeOK
  <1>4. k \in Holding(User(k)) /\ Holding(User(k)) \subseteq Conns
    BY <1>1, <1>2 DEF Holding, HoldPC
  <1>6. Cardinality(Holding(User(k)) \ {k}) = Cardinality(Holding(User(k))) - 1
    BY <1>4, OneMoreOrLess
  <1>7. ASSUME NEW u \in Users, u # User(k)
        PROVE  Holding(u)' = Holding(u) /\ Counted(u)' = Counted(u)
    BY <1>0, <1>1, <1>7, <1>t DEF Holding, HoldPC, User, IsTcp, Counted, TypeOK
  <1>8. \A j \in Conns : pc'[j] = "storeCount" => IsTcp(j)'
    BY <1>0, <1>1, <1>t DEF ExactInv, ExactCount, IsTcp, TypeOK
  <1>9. \A u \in Users : Cardinality(Holding(u)) = Counted(u) BY DEF ExactInv, ExactCount
  <1>10. ASSUME NEW u \in Users PROVE Cardinality(Holding(u)') = Counted(u)'
    <2>1. CASE u # User(k) BY <1>7, <1>9, <2>1
    <2>2. CASE u = User(k)
      <3>1. Holding(u)' = Holding(User(k)) \ {k}
        BY <1>0, <1>1, <1>t, <2>2 DEF Holding, HoldPC, User, IsTcp, TypeOK
      <3>2. Counted(u)' = Counted(u) - 1
        BY <1>0, <1>1, <1>3, <1>t, <2>2, ConnLimiterAssumption DEF Counted, TypeOK, User
      <3> QED BY <1>6, <1>9, <2>2, <3>1, <3>2
    <2> QED BY <2>1, <2>2
  <1> QED BY <1>8, <1>10

\* The other steps of a connection: AddBegin, AddLoadsCount, End, DelBegin and
\* DelLoadsCount, for the steps on the addresses are never taken.
LEMMA ConnExact ==
    ASSUME "packet" \notin Kinds, ExactInv, NEW k \in Conns,
           AddBegin(k) \/ AddStep(k) \/ End(k) \/ DelBegin(k) \/ DelStep(k),
           ~AddStoresCount(k), ~DelStoresCount(k)
    PROVE  ExactCount'
  <1>t. TypeOK /\ SerialInv /\ ExactCount BY DEF ExactInv, SerialInv
  <1>k. IsTcp(k) <=> CallsDel(k)
    BY <1>t, ConnLimiterAssumption DEF TypeOK, Sessions, IsTcp, CallsDel
  <1>0. UNCHANGED <<count, fixed>>
    BY DEF AddBegin, AddStep, AddLoadsCount, AddUserMap, AddLoadsIp, AddCountsIps, AddStoresIp,
           End, DelBegin, DelStep, DelLoadsCount, DelLoadsUser, DelLoadsIp, DelStoresIp,
           DelRanges, DelUserMap, maps
  <1>1. ASSUME Plain
        PROVE  /\ \A u \in Users : Holding(u)' = Holding(u)
               /\ \A j \in Conns : pc'[j] = "storeCount" => IsTcp(j)
    <2>1. pc[k] \in {"idle", "live"} \cup CountPC BY <1>1, <1>t, PlainPC
    <2>2. AddBegin(k) \/ AddLoadsCount(k) \/ End(k) \/ DelBegin(k) \/ DelLoadsCount(k)
      BY <2>1 DEF AddStep, DelStep, CountPC, AddUserMap, AddLoadsIp, AddCountsIps, AddStoresIp,
                  DelLoadsUser, DelLoadsIp, DelStoresIp, DelRanges, DelUserMap
    <2>3. /\ \A j \in Conns \ {k} : pc'[j] = pc[j]
          /\ pc'[k] = "storeCount" => IsTcp(k)
      BY <1>t, <2>2 DEF AddBegin, AddLoadsCount, End, DelBegin, DelLoadsCount, Goto, Return,
                        AfterCount, TypeOK
    <2>4. IsTcp(k) => (pc'[k] \in HoldPC <=> pc[k] \in HoldPC)
      <3> SUFFICES ASSUME IsTcp(k) PROVE pc'[k] \in HoldPC <=> pc[k] \in HoldPC OBVIOUS
      <3>1. CASE AddBegin(k)
        BY <1>1, <1>t, <3>1 DEF AddBegin, Plain, Goto, TypeOK, HoldPC
      <3>2. CASE AddLoadsCount(k)
        BY <1>t, <3>2 DEF AddLoadsCount, Goto, Return, TypeOK, HoldPC
      <3>3. CASE End(k) BY <1>1, <1>k, <3>3 DEF End, Plain
      <3>4. CASE DelBegin(k)
        BY <1>1, <1>t, <3>4 DEF DelBegin, Plain, Goto, TypeOK, HoldPC
      <3>5. CASE DelLoadsCount(k)
        <4>1. User(k) \in Users BY <1>t, StoredTypes
        <4>2. k \in Holding(User(k)) /\ Holding(User(k)) \subseteq Conns
          BY <3>5 DEF DelLoadsCount, Holding, HoldPC
        <4>3. Cardinality(Holding(User(k))) # 0
          BY <4>2, OneMoreOrLess, FS_EmptySet
        <4>4. count[User(k)] # Absent
          BY <1>1, <1>t, <4>1, <4>3 DEF ExactCount, Counted
        <4> QED BY <1>t, <3>5, <4>4 DEF DelLoadsCount, Goto, TypeOK, HoldPC
      <3> QED BY <2>2, <3>1, <3>2, <3>3, <3>4, <3>5
    <2>5. \A u \in Users : Holding(u)' = Holding(u)
      BY <1>0, <2>3, <2>4 DEF Holding, User, IsTcp, fixed
    <2> QED BY <1>1, <1>t, <2>3, <2>5 DEF ExactCount
  <1> QED BY <1>0, <1>1, <1>t, ExactKept

\* The invariant of operations one at a time without packet connections.
LEMMA ExactInvHolds ==
    ASSUME MaxBusy = 1, "packet" \notin Kinds
    PROVE  Spec => []ExactInv
  <1>1. ExactInv /\ SerialInv' /\ IInv' /\ [Next]_vars => ExactInv'
    <2> SUFFICES ASSUME ExactInv, [Next]_vars PROVE ExactCount' BY DEF ExactInv
    <2>1. ASSUME NEW k \in Conns,
                 AddBegin(k) \/ AddStep(k) \/ End(k) \/ DelBegin(k) \/ DelStep(k)
          PROVE  ExactCount'
      BY <2>1, AddStoresCountExact, DelStoresCountExact, ConnExact
    <2>2. ASSUME ClearBegin \/ ClearStep \/ Tick \/ UNCHANGED vars PROVE ExactCount'
      <3>1. UNCHANGED <<count, pc, fixed>>
        BY <2>2 DEF ClearBegin, ClearStep, ClearTakesUser, ClearTakesKey, ClearDeletesKey,
                    ClearEndsUser, ClearEnds, Tick, vars, maps
      <3>2. \A u \in Users : Holding(u)' = Holding(u)
        BY <3>1 DEF Holding, User, IsTcp, fixed
      <3> QED BY <3>1, <3>2, ExactKept DEF ExactInv, ExactCount
    <2> QED BY <2>1, <2>2 DEF Next
  <1>2. Init => ExactInv BY InitExact, InitSerial, InitIInv DEF ExactInv
  <1>3. IInv /\ [Next]_vars => IInv'
    BY AddKeepsIInv, DelKeepsIInv, OthersKeepIInv DEF Next
  <1> QED BY <1>1, <1>2, <1>3, SerialInvHolds, PTL DEF Spec, ExactInv

\* The configurations that the quota is about keep exact counts: a limit of connections
\* alone comes with real time.
PlainConfigs == \A c \in Configs : c.ip = 0 => c.conn = 0 \/ c.realtime

\* The initial state is the quota's.
LEMMA QuotaInit == Init => Quota!Init
  <1> SUFFICES ASSUME Init PROVE Quota!Init OBVIOUS
  <1>t. TypeOK BY InitTypeOK
  <1>1. ConnLimit \in Nat BY <1>t, ConnLimiterAssumption DEF TypeOK, ConnLimit
  <1>2. \A k \in Conns : Phase(k) = "out" BY DEF Init, Phase, AddPC
  <1>3. \A k \in Conns : User(k) \in Users /\ IsTcp(k) \in BOOLEAN
    BY <1>t, StoredTypes DEF IsTcp
  <1> QED BY <1>1, <1>2, <1>3 DEF Quota!Init

\* A step that moves no connection is no step of the quota.
LEMMA QuotaStutters ==
    ASSUME conf' = conf, sess' = sess, \A k \in Conns : Phase(k)' = Phase(k)
    PROVE  UNCHANGED Quota!vars
  BY DEF Quota!vars, ConnLimit, User, IsTcp

\* A step that moves connection k is the quota's move of k.
LEMMA QuotaMoves ==
    ASSUME conf' = conf, sess' = sess, NEW k \in Conns, NEW p,
           Phase(k)' = p, \A j \in Conns \ {k} : Phase(j)' = Phase(j)
    PROVE  Quota!Goto(k, p)
  <1>1. [j \in Conns |-> Phase(j)]' = [[j \in Conns |-> Phase(j)] EXCEPT ![k] = p]
    OBVIOUS
  <1>2. UNCHANGED <<ConnLimit, [j \in Conns |-> User(j)], [j \in Conns |-> IsTcp(j)]>>
    BY DEF ConnLimit, User, IsTcp
  <1> QED BY <1>1, <1>2 DEF Quota!Goto

\* While k asks, the quota's connections of its user are those that are counted.
LEMMA QuotaCounts ==
    ASSUME ExactInv, Plain, NEW k \in Conns, pc[k] \in {"loadCount", "storeCount"}
    PROVE  /\ Cardinality(Quota!In(User(k))) = Counted(User(k))
           /\ \A j \in Conns \ {k} : pc[j] \in {"idle", "live"}
  <1>1. \A j \in Conns \ {k} : pc[j] \in {"idle", "live"}
    <2>1. \A j \in Conns \ {k} : pc[j] \notin AddPC \cup DelPC
      BY DEF ExactInv, SerialInv, OneAtATime, Busy, AddPC
    <2> QED BY <2>1 DEF ExactInv, SerialInv, TypeOK
  <1>2. \A j \in Conns : Phase(j) = "in" <=> pc[j] = "live"
    BY DEF Phase, Plain, AddPC
  <1>3. Quota!In(User(k)) = Holding(User(k))
    BY <1>1, <1>2 DEF Quota!In, Holding, HoldPC
  <1>4. User(k) \in Users BY StoredTypes DEF ExactInv, SerialInv
  <1> QED BY <1>1, <1>3, <1>4 DEF ExactInv, ExactCount

\* The answer that the count gives is the quota's.
LEMMA QuotaAnswers ==
    ASSUME NEW k \in Conns, Phase(k) = "asking", NEW n, n = Cardinality(Quota!In(User(k)))
    PROVE  /\ n < ConnLimit /\ Quota!Goto(k, "in") => Quota!Admit(k)
           /\ n >= ConnLimit /\ Quota!Goto(k, "out") => Quota!Refuse(k)
  <1>1. [j \in Conns |-> User(j)][k] = User(k) OBVIOUS
  <1>2. [j \in Conns |-> Phase(j)][k] = "asking" OBVIOUS
  <1>4. Cardinality(Quota!In(User(k))) = Quota!Cardinality(Quota!In(User(k)))
    BY DEF Cardinality, Quota!Cardinality, IsFiniteSet, Quota!IsFiniteSet
  <1>3. n = Quota!Cardinality(Quota!In([j \in Conns |-> User(j)][k])) BY <1>1, <1>4
  <1> QED BY <1>2, <1>3 DEF Quota!Admit, Quota!Refuse

\* Without real time the quota sees nothing.
LEMMA NotPlain ==
    ASSUME PlainConfigs, SerialInv, ~Plain, conf' = conf
    PROVE  \A k \in Conns : Phase(k) = "out" /\ Phase(k)' = "out"
  <1>1. ConnLimit = 0 \/ IpLimit # 0
    BY DEF PlainConfigs, SerialInv, TypeOK, Plain, ConnLimit, IpLimit, Realtime
  <1> QED BY <1>1 DEF Phase, ConnLimit, IpLimit

\* A step of AddConnCount is the quota's question, its answer, or none.
LEMMA AddIsQuota ==
    ASSUME ExactInv, Plain, NEW k \in Conns, AddBegin(k) \/ AddStep(k)
    PROVE  [Quota!Next]_(Quota!vars)
  <1>t. TypeOK /\ SerialInv BY DEF ExactInv, SerialInv
  <1>p. pc[k] \in {"idle", "live"} \cup CountPC BY <1>t, PlainPC
  <1>s. AddBegin(k) \/ AddLoadsCount(k) \/ AddStoresCount(k)
    BY <1>p DEF AddStep, CountPC, AddUserMap, AddLoadsIp, AddCountsIps, AddStoresIp
  <1>0. conf' = conf /\ sess' = sess
    BY <1>s DEF AddBegin, AddLoadsCount, AddStoresCount, fixed
  <1>j. \A j \in Conns \ {k} : pc'[j] = pc[j] /\ Phase(j)' = Phase(j)
    BY <1>0, <1>s, <1>t DEF AddBegin, AddLoadsCount, AddStoresCount, Goto, Return, AfterCount,
                            TypeOK, Phase, ConnLimit, IpLimit
  <1>u. User(k) \in Users /\ ConnLimit \in Nat BY <1>t, StoredTypes
  <1>h. Phase(k)' = IF pc'[k] \in AddPC THEN "asking" ELSE IF pc'[k] = "live" THEN "in" ELSE "out"
    BY <1>0 DEF Phase, Plain, ConnLimit, IpLimit
  <1>1. CASE AddBegin(k)
    <2>1. Phase(k) = "out" BY <1>1 DEF AddBegin, Phase, AddPC
    <2>2. Phase(k)' = "asking" BY <1>1, <1>h, <1>t DEF AddBegin, Plain, Goto, TypeOK, AddPC
    <2>3. Quota!Goto(k, "asking") BY <1>0, <1>j, <2>2, QuotaMoves
    <2> QED BY <2>1, <2>3 DEF Quota!Next, Quota!Ask
  <1>2. CASE AddLoadsCount(k)
    <2>1. /\ Cardinality(Quota!In(User(k))) = Counted(User(k))
          /\ Phase(k) = "asking"
      BY <1>2, QuotaCounts DEF AddLoadsCount, Phase, Plain, AddPC
    <2>2. count[User(k)] = Absent \/ count[User(k)] \in Nat
      BY <1>u DEF ExactInv, IInv, CountInRange
    <2>3. CASE pc'[k] = "idle"
      <3>1. Counted(User(k)) >= ConnLimit
        BY <1>2, <1>t, <2>3 DEF AddLoadsCount, AfterCount, Plain, Return, Goto, TypeOK, Counted
      <3>2. Quota!Goto(k, "out") BY <1>0, <1>h, <1>j, <2>3, QuotaMoves DEF AddPC
      <3> QED BY <2>1, <3>1, <3>2, QuotaAnswers DEF Quota!Next
    <2>4. CASE pc'[k] = "live"
      <3>1. Counted(User(k)) < ConnLimit
        BY <1>2, <1>t, <1>u, <2>2, <2>4
        DEF AddLoadsCount, AfterCount, Plain, Return, Goto, TypeOK, Counted
      <3>2. Quota!Goto(k, "in") BY <1>0, <1>h, <1>j, <2>4, QuotaMoves DEF AddPC
      <3> QED BY <2>1, <3>1, <3>2, QuotaAnswers DEF Quota!Next
    <2>5. CASE pc'[k] = "storeCount"
      <3>1. Phase(k)' = Phase(k) BY <1>h, <2>1, <2>5 DEF AddPC
      <3> QED BY <1>0, <1>j, <3>1, QuotaStutters
    <2> QED BY <1>2, <1>t, <2>3, <2>4, <2>5
        DEF AddLoadsCount, AfterCount, Plain, Return, Goto, TypeOK
  <1>3. CASE AddStoresCount(k)
    <2>1. /\ Cardinality(Quota!In(User(k))) = Counted(User(k))
          /\ Phase(k) = "asking"
      BY <1>3, QuotaCounts DEF AddStoresCount, Phase, Plain, AddPC
    <2>2. v[k] = count[User(k)] /\ (v[k] = Absent \/ v[k] \in 1..(ConnLimit - 1))
      BY <1>3, <1>t DEF AddStoresCount, ExactInv, SerialInv, LoadedStands, Loaded, IInv, LoadedInRange
    <2>3. Counted(User(k)) < ConnLimit BY <1>u, <2>2 DEF Counted, Plain
    <2>4. pc'[k] = "live"
      BY <1>3, <1>t DEF AddStoresCount, AfterCount, Plain, Return, Goto, TypeOK
    <2>5. Quota!Goto(k, "in") BY <1>0, <1>h, <1>j, <2>4, QuotaMoves DEF AddPC
    <2> QED BY <2>1, <2>3, <2>5, QuotaAnswers DEF Quota!Next
  <1> QED BY <1>s, <1>1, <1>2, <1>3

\* The end of a connection is the quota's, when DelConnCount begins or at once.
LEMMA DelIsQuota ==
    ASSUME ExactInv, Plain, NEW k \in Conns, End(k) \/ DelBegin(k) \/ DelStep(k)
    PROVE  [Quota!Next]_(Quota!vars)
  <1>t. TypeOK /\ SerialInv BY DEF ExactInv, SerialInv
  <1>p. pc[k] \in {"idle", "live"} \cup CountPC BY <1>t, PlainPC
  <1>s. End(k) \/ DelBegin(k) \/ DelLoadsCount(k) \/ DelStoresCount(k)
    BY <1>p DEF DelStep, CountPC, DelLoadsUser, DelLoadsIp, DelStoresIp, DelRanges, DelUserMap
  <1>0. conf' = conf /\ sess' = sess
    BY <1>s DEF End, DelBegin, DelLoadsCount, DelStoresCount, fixed
  <1>j. \A j \in Conns \ {k} : pc'[j] = pc[j] /\ Phase(j)' = Phase(j)
    BY <1>0, <1>s, <1>t DEF End, DelBegin, DelLoadsCount, DelStoresCount, Goto, Return,
                            AfterCount, TypeOK, Phase, ConnLimit, IpLimit
  <1>h. /\ pc'[k] \in {"idle", "delLoadCount", "delStoreCount"}
        /\ Phase(k)' = "out"
    <2>1. pc'[k] \in {"idle", "delLoadCount", "delStoreCount"}
      BY <1>s, <1>t DEF End, DelBegin, DelLoadsCount, DelStoresCount, Goto, Return, AfterCount,
                        Plain, TypeOK
    <2> QED BY <2>1 DEF Phase, AddPC
  <1>1. CASE pc[k] = "live"
    <2>1. Phase(k) = "in" BY <1>1 DEF Phase, Plain, AddPC
    <2>2. Quota!Goto(k, "out") BY <1>0, <1>h, <1>j, QuotaMoves
    <2> QED BY <2>1, <2>2 DEF Quota!Next, Quota!Leave
  <1>2. CASE pc[k] # "live"
    <2>1. pc[k] \in DelPC BY <1>2, <1>s DEF End, DelBegin, DelLoadsCount, DelStoresCount, DelPC
    <2>2. Phase(k) = "out" BY <2>1 DEF Phase, AddPC, DelPC
    <2> QED BY <1>0, <1>h, <1>j, <2>2, QuotaStutters
  <1> QED BY <1>1, <1>2

\* With operations one at a time, and connections whose ends are counted (no packets, real
\* time), AddConnCount and DelConnCount answer as the atomic quota does.
THEOREM ImplementsQuota ==
    ASSUME MaxBusy = 1, "packet" \notin Kinds, PlainConfigs
    PROVE  Spec => IsQuota
  <1>1. ExactInv /\ [Next]_vars => [Quota!Next]_(Quota!vars)
    <2> SUFFICES ASSUME ExactInv, [Next]_vars PROVE [Quota!Next]_(Quota!vars) OBVIOUS
    <2>0. conf' = conf /\ sess' = sess
      BY DEF Next, vars, fixed, AddBegin, AddStep, AddLoadsCount, AddStoresCount, AddUserMap,
             AddLoadsIp, AddCountsIps, AddStoresIp, End, DelBegin, DelStep, DelLoadsCount,
             DelStoresCount, DelLoadsUser, DelLoadsIp, DelStoresIp, DelRanges, DelUserMap,
             ClearBegin, ClearStep, ClearTakesUser, ClearTakesKey, ClearDeletesKey,
             ClearEndsUser, ClearEnds, Tick
    <2>1. CASE ~Plain
      <3>1. \A k \in Conns : Phase(k)' = Phase(k)
        BY <2>0, <2>1, NotPlain DEF ExactInv
      <3> QED BY <2>0, <3>1, QuotaStutters
    <2>2. CASE Plain
      <3>1. ASSUME NEW k \in Conns, AddBegin(k) \/ AddStep(k) PROVE [Quota!Next]_(Quota!vars)
        BY <2>2, <3>1, AddIsQuota
      <3>2. ASSUME NEW k \in Conns, End(k) \/ DelBegin(k) \/ DelStep(k)
            PROVE  [Quota!Next]_(Quota!vars)
        BY <2>2, <3>2, DelIsQuota
      <3>3. ASSUME ClearBegin \/ ClearStep \/ Tick \/ UNCHANGED vars
            PROVE  [Quota!Next]_(Quota!vars)
        <4>1. pc' = pc
          BY <3>3 DEF ClearBegin, ClearStep, ClearTakesUser, ClearTakesKey, ClearDeletesKey,
                      ClearEndsUser, ClearEnds, Tick, vars
        <4>2. \A k \in Conns : Phase(k)' = Phase(k)
          BY <2>0, <4>1 DEF Phase, ConnLimit, IpLimit
        <4> QED BY <2>0, <4>2, QuotaStutters
      <3> QED BY <3>1, <3>2, <3>3 DEF Next
    <2> QED BY <2>1, <2>2
  <1> QED BY <1>1, QuotaInit, ExactInvHolds, PTL DEF Spec, IsQuota, Quota!Spec
=============================================================================
