--------------------------- MODULE SingTrafficProofs ---------------------------
(***************************************************************************)
(* Theorems about SingTraffic for every number of connections, users and   *)
(* bytes: the types, and that no byte is reported twice and none is lost   *)
(* but where the code gives it up.                                         *)
(***************************************************************************)
EXTENDS SingTraffic, TLAPS

TypeOK ==
    /\ up \in BOOLEAN
    /\ counter \in Conns \cup {None}
    /\ counters \in [Conns -> [Users -> Goroutines \cup {None}]]
    /\ value \in [Storages -> Nat]
    /\ at \in [Goroutines -> {"idle", "store", "find", "put", "live", "walk", "look", "read", "clear"}]
    /\ user \in [Goroutines -> Users \cup {None}]
    /\ table \in [Goroutines -> Conns \cup {None}]
    /\ by \in [Goroutines -> Goroutines \cup {None}]
    /\ i \in Nat /\ got \in Nat
    /\ carried \in [Users -> Nat] /\ reported \in [Users -> Nat]
    /\ under \in SUBSET Users

\* The storage of u in c that m has made.
Val(c, u, m) == value[<<c, u, m>>]

\* Where a connection and the report may be, and what they hold there.
ConnPlaced(k) ==
    /\ at[k] \in {"idle", "store", "find", "put", "live"} /\ user[k] \in Users
    /\ at[k] \in {"idle", "store"} <=> table[k] = None
    /\ at[k] = "live" <=> by[k] # None
ReportPlaced ==
    /\ at[Report] \in {"idle", "walk", "look", "read", "find", "put", "clear"}
    /\ at[Report] \in {"idle", "walk"} <=> table[Report] = None
    /\ table[Report] # None => user[Report] \in Users
    /\ at[Report] = "walk" => i # 0
    /\ at[Report] \in {"idle", "walk", "look", "put"} => by[Report] = None
    /\ at[Report] \in {"read", "clear"} => by[Report] # None
    /\ by[Report] = None => got = 0

\* What a goroutine holds is in the maps; what it is about to put there is fresh.
Holding(g) ==
    /\ table[g] # None => counter # None
    /\ by[g] # None => table[g] # None /\ Entry(table[g], user[g]) # None
    /\ at[g] = "put" =>
         /\ by[g] = None /\ Entry(table[g], user[g]) # g
         /\ Val(table[g], user[g], g) = 0
         /\ \A h \in Goroutines : ~(by[h] = g /\ table[h] = table[g] /\ user[h] = user[g])
    /\ at[g] = "store" =>
         /\ counter # g
         /\ \A u \in Users : Entry(g, u) = None
         /\ \A h \in Goroutines : table[h] # g

MapsClean ==
    \A c \in Conns, u \in Users :
        /\ counter = None => Entry(c, u) = None
        /\ Entry(c, u) = None => \A m \in Goroutines : Val(c, u, m) = 0

\* No byte of u is in two places.
NotTwice(u) == reported[u] + Counted(u) <= carried[u]

\* No byte of u is out of reach: connections and report use the storage that counts.
ConnWhole(k, u) ==
    (user[k] = u /\ table[k] # None) =>
        /\ table[k] = counter
        /\ by[k] # None => by[k] = Entry(counter, u)
ReportWhole(u) ==
    user[Report] = u =>
        /\ (table[Report] = counter /\ by[Report] # None) => by[Report] = Entry(counter, u)
        /\ table[Report] # counter => got = 0
Whole(u) ==
    u \notin under =>
        /\ reported[u] + Counted(u) = carried[u]
        /\ \A k \in Conns : ConnWhole(k, u)
        /\ \A c \in Conns \ {counter}, m \in Goroutines : Val(c, u, m) = 0
        /\ ReportWhole(u)

\* What the report holds of its user is added to what is reported; unless it is in the
\* storage that counts, beside it.
Maker == IF at[Report] = "look" THEN Entry(table[Report], user[Report]) ELSE by[Report]
Pending ==
    IF at[Report] \in {"look", "read"}
    THEN IF Maker = None THEN 0 ELSE Val(table[Report], user[Report], Maker)
    ELSE got
PendingFits(u) ==
    /\ reported[u] + Pending <= carried[u]
    /\ (table[Report] # counter \/ Maker # Entry(counter, u))
         => reported[u] + Pending + Counted(u) <= carried[u]
ReportFits == table[Report] # None => PendingFits(user[Report])

Placed == (\A k \in Conns : ConnPlaced(k)) /\ ReportPlaced
IInv ==
    /\ TypeOK /\ Placed /\ MapsClean
    /\ \A g \in Goroutines : Holding(g)
    /\ \A u \in Users : NotTwice(u) /\ Whole(u)
    /\ ReportFits

\* The types of what is read through the maps.
LEMMA ReadTypes ==
    ASSUME TypeOK
    PROVE  /\ \A c \in Conns, u \in Users : Entry(c, u) \in Goroutines \cup {None}
           /\ \A c \in Conns, u \in Users, m \in Goroutines : Val(c, u, m) \in Nat
           /\ \A u \in Users : Counted(u) \in Nat
  <1>1. \A c \in Conns, u \in Users : Entry(c, u) \in Goroutines \cup {None}
    BY DEF TypeOK, Entry
  <1>2. \A c \in Conns, u \in Users, m \in Goroutines : Val(c, u, m) \in Nat
    BY DEF TypeOK, Val, Storages
  <1>3. ASSUME NEW u \in Users PROVE Counted(u) \in Nat
    <2>1. counter # None => counter \in Conns BY DEF TypeOK
    <2> QED BY <1>1, <1>2, <2>1 DEF Counted, Val
  <1> QED BY <1>1, <1>2, <1>3

\* At first nothing is counted.
LEMMA InitIInv == Init => IInv
  <1> SUFFICES ASSUME Init PROVE IInv OBVIOUS
  <1> USE SingTrafficAssumption
  <1>1. PICK f \in [Conns -> Users] : user = [g \in Goroutines |-> IF g = Report THEN None ELSE f[g]]
    BY DEF Init
  <1>2. /\ up = TRUE /\ counter = None /\ counters = NoMaps /\ value = NoTraffic
        /\ at = Resting /\ table = Nil /\ by = Nil /\ i = 0 /\ got = 0
        /\ carried = Nothing /\ reported = Nothing /\ under = {}
    BY DEF Init
  <1>3. TypeOK
    BY <1>1, <1>2 DEF TypeOK, NoMaps, NoTraffic, Resting, Nil, Nothing, Goroutines
  <1>4. \A g \in Goroutines : at[g] = "idle" /\ table[g] = None /\ by[g] = None
    BY <1>2 DEF Resting, Nil
  <1>5. Placed BY <1>1, <1>2, <1>4 DEF Placed, ConnPlaced, ReportPlaced, Goroutines
  <1>6. MapsClean BY <1>2 DEF MapsClean, Entry, Val, NoMaps, NoTraffic, Storages
  <1>7. \A g \in Goroutines : Holding(g) BY <1>4 DEF Holding
  <1>8. \A u \in Users : Counted(u) = 0 /\ reported[u] = 0 /\ carried[u] = 0
    BY <1>2 DEF Counted, Nothing
  <1>9. \A u \in Users : NotTwice(u) BY <1>8 DEF NotTwice
  <1>10. ASSUME NEW u \in Users PROVE Whole(u)
    <2>1. \A c \in Conns, m \in Goroutines : Val(c, u, m) = 0 BY <1>2 DEF Val, NoTraffic, Storages
    <2> QED BY <1>2, <1>4, <1>8, <2>1 DEF Whole, ConnWhole, ReportWhole, Goroutines
  <1>11. ReportFits BY <1>4 DEF ReportFits, Goroutines
  <1> QED BY <1>3, <1>5, <1>6, <1>7, <1>9, <1>10, <1>11 DEF IInv

\* The counters as they are, as long as maps and storages stay.
LEMMA SameMaps ==
    ASSUME UNCHANGED <<maps, value>>
    PROVE  /\ \A c \in Conns, u \in Users : Entry(c, u)' = Entry(c, u)
           /\ \A c \in Conns, u \in Users, m \in Goroutines : Val(c, u, m)' = Val(c, u, m)
           /\ \A u \in Users : Counted(u)' = Counted(u)
           /\ counter' = counter /\ counters' = counters
  BY DEF maps, Entry, Val, Counted

\* A step by which one goroutine only takes or gives up what it holds.
LEMMA LocalKeeps ==
    ASSUME IInv, TypeOK', Placed', UNCHANGED <<maps, value, carried, reported, under>>,
           NEW g \in Goroutines,
           \A h \in Goroutines \ {g} : /\ at'[h] = at[h] /\ user'[h] = user[h]
                                       /\ table'[h] = table[h] /\ by'[h] = by[h],
           g # Report => user'[g] = user[g] /\ got' = got,
           table'[g] \in {None, table[g], counter},
           by'[g] # None => /\ table'[g] = table[g] /\ table[g] # None /\ user'[g] = user[g]
                            /\ by'[g] \in {by[g], Entry(table[g], user[g])},
           Holding(g)',
           g = Report => (\A u \in Users \ under : ReportWhole(u)') /\ ReportFits'
    PROVE  IInv'
  <1> USE SingTrafficAssumption
  <1>1. /\ TypeOK /\ Placed /\ MapsClean /\ ReportFits
        /\ \A h \in Goroutines : Holding(h)
        /\ \A u \in Users : NotTwice(u) /\ Whole(u)
    BY DEF IInv
  <1>2. /\ \A c \in Conns, u \in Users : Entry(c, u)' = Entry(c, u)
        /\ \A c \in Conns, u \in Users, m \in Goroutines : Val(c, u, m)' = Val(c, u, m)
        /\ \A u \in Users : Counted(u)' = Counted(u)
        /\ counter' = counter /\ counters' = counters
    BY SameMaps
  <1>3. \A h \in Goroutines : /\ table[h] \in Conns \cup {None} /\ by[h] \in Goroutines \cup {None}
                              /\ table[h] # None => user[h] \in Users
    BY <1>1 DEF TypeOK, Placed, ConnPlaced, ReportPlaced, Goroutines
  <1>4. counter \in Conns \cup {None} BY <1>1 DEF TypeOK
  <1>5. MapsClean' BY <1>1, <1>2 DEF MapsClean
  <1>6. ASSUME NEW h \in Goroutines \ {g} PROVE Holding(h)'
    <2>1. Holding(h) /\ Holding(g) BY <1>1
    <2>2. by[h] # None => Entry(table[h], user[h])' # None
      BY <1>2, <1>3, <2>1 DEF Holding
    <2>3. CASE at[h] = "put"
      <3>1. h # None /\ table[h] \in Conns /\ user[h] \in Users
        BY <1>1, <1>3, <2>3 DEF Placed, ConnPlaced, ReportPlaced, Goroutines
      <3>2. /\ Entry(table[h], user[h]) # h /\ Val(table[h], user[h], h) = 0
            /\ \A j \in Goroutines : ~(by[j] = h /\ table[j] = table[h] /\ user[j] = user[h])
        BY <2>1, <2>3 DEF Holding
      <3>3. ~(by'[g] = h /\ table'[g] = table[h] /\ user'[g] = user[h])
        BY <3>1, <3>2
      <3>4. \A j \in Goroutines : ~(by'[j] = h /\ table'[j] = table[h] /\ user'[j] = user[h])
        BY <3>2, <3>3
      <3>5. Entry(table[h], user[h])' # h /\ Val(table[h], user[h], h)' = 0
        BY <1>2, <3>1, <3>2
      <3> QED BY <1>2, <2>1, <2>2, <2>3, <3>4, <3>5 DEF Holding, Entry, Val
    <2>4. CASE at[h] = "store"
      <3>1. h \in Conns BY <1>1, <2>4 DEF Placed, ReportPlaced, Goroutines
      <3>2. /\ counter # h /\ \A u \in Users : Entry(h, u) = None
            /\ \A j \in Goroutines : table[j] # h
        BY <2>1, <2>4 DEF Holding
      <3>3. \A j \in Goroutines : table'[j] # h BY <3>1, <3>2
      <3>4. \A u \in Users : Entry(h, u)' = None BY <1>2, <3>1, <3>2
      <3> QED BY <1>2, <2>1, <2>2, <2>4, <3>2, <3>3, <3>4 DEF Holding, Entry
    <2>5. CASE at[h] \notin {"put", "store"} BY <1>2, <2>1, <2>2, <2>5 DEF Holding, Entry
    <2> QED BY <2>3, <2>4, <2>5
  <1>7. \A u \in Users : NotTwice(u)' BY <1>1, <1>2 DEF NotTwice
  <1>8. ASSUME NEW u \in Users PROVE Whole(u)'
    <2> SUFFICES ASSUME u \notin under PROVE Whole(u)' BY DEF Whole
    <2>1. Whole(u) BY <1>1
    <2>2. reported'[u] + Counted(u)' = carried'[u] BY <1>2, <2>1 DEF Whole
    <2>3. \A c \in Conns \ {counter'}, m \in Goroutines : Val(c, u, m)' = 0
      BY <1>2, <2>1 DEF Whole
    <2>4. ASSUME NEW k \in Conns PROVE ConnWhole(k, u)'
      <3>1. k \in Goroutines /\ ConnWhole(k, u) BY <2>1 DEF Whole, Goroutines
      <3>2. counter # None => Entry(counter, u)' = Entry(counter, u) BY <1>2, <1>4
      <3>3. table[k] # None => counter # None BY <1>1, <3>1 DEF Holding
      <3>4. CASE k # g BY <1>2, <3>1, <3>2, <3>3, <3>4 DEF ConnWhole, Entry
      <3>5. CASE k = g
        <4>1. user'[k] = user[k] BY <3>5
        <4> QED BY <1>2, <1>4, <3>1, <3>2, <3>3, <3>5, <4>1 DEF ConnWhole, Entry
      <3> QED BY <3>4, <3>5
    <2>5. ReportWhole(u)'
      <3>1. CASE g = Report BY <3>1
      <3>2. CASE g # Report
        <4>1. Report \in Goroutines \ {g} /\ ReportWhole(u) BY <2>1, <3>2 DEF Whole, Goroutines
        <4>2. counter # None => Entry(counter, u)' = Entry(counter, u) BY <1>2, <1>4
        <4>3. by[Report] # None => table[Report] # None BY <1>1, <4>1 DEF Holding
        <4> QED BY <1>2, <3>2, <4>1, <4>2, <4>3 DEF ReportWhole, Entry
      <3> QED BY <3>1, <3>2
    <2> QED BY <2>2, <2>3, <2>4, <2>5 DEF Whole
  <1>9. ReportFits'
    <2>1. CASE g = Report BY <2>1
    <2>2. CASE g # Report
      <3>1. Report \in Goroutines \ {g} BY <2>2 DEF Goroutines
      <3>2. /\ at'[Report] = at[Report] /\ user'[Report] = user[Report]
            /\ table'[Report] = table[Report] /\ by'[Report] = by[Report] /\ got' = got
        BY <2>2, <3>1
      <3> SUFFICES ASSUME table[Report] # None PROVE ReportFits' BY <3>2 DEF ReportFits
      <3>3. table[Report] \in Conns /\ user[Report] \in Users /\ counter \in Conns
        BY <1>1, <1>3, <1>4, <3>1 DEF Holding
      <3>4. Maker' = Maker BY <1>2, <3>2, <3>3 DEF Maker
      <3>5. Pending' = Pending
        <4>1. Maker \in Goroutines \cup {None} BY <1>1, <1>3, <3>1, <3>3, ReadTypes DEF Maker
        <4> QED BY <1>2, <3>2, <3>3, <3>4, <4>1 DEF Pending
      <3>6. PendingFits(user[Report]) BY <1>1 DEF ReportFits
      <3>7. /\ Entry(counter, user[Report])' = Entry(counter, user[Report])
            /\ Counted(user[Report])' = Counted(user[Report])
        <4>1. user'[Report] = user[Report] BY <3>2
        <4>2. Counted(user[Report])' = Counted(user[Report])
          BY <1>2, <4>1 DEF Counted, Entry
        <4> QED BY <1>2, <4>1, <4>2 DEF Entry
      <3>8. PendingFits(user[Report])'
        BY <1>2, <3>2, <3>4, <3>5, <3>6, <3>7 DEF PendingFits
      <3> QED BY <3>8 DEF ReportFits
    <2> QED BY <2>1, <2>2
  <1> QED BY <1>5, <1>6, <1>7, <1>8, <1>9 DEF IInv

\* The parts of the invariant a step starts from.
LEMMA Parts ==
    ASSUME IInv, NEW g \in Goroutines
    PROVE  /\ TypeOK /\ Placed /\ MapsClean /\ Holding(g)
           /\ counter \in Conns \cup {None}
           /\ table[g] \in Conns \cup {None} /\ by[g] \in Goroutines \cup {None}
           /\ table[g] # None => counter \in Conns /\ user[g] \in Users
           /\ g # Report => g \in Conns /\ ConnPlaced(g)
           /\ g = Report => ReportPlaced
  <1>1. TypeOK /\ Placed /\ MapsClean /\ Holding(g) BY DEF IInv
  <1>2. /\ counter \in Conns \cup {None}
        /\ table[g] \in Conns \cup {None} /\ by[g] \in Goroutines \cup {None}
    BY <1>1 DEF TypeOK
  <1>3. /\ g # Report => g \in Conns /\ ConnPlaced(g)
        /\ g = Report => ReportPlaced
    BY <1>1 DEF Placed, Goroutines
  <1>4. table[g] # None => counter # None /\ user[g] \in Users
    BY <1>1, <1>3 DEF Holding, ConnPlaced, ReportPlaced
  <1> QED BY <1>1, <1>2, <1>3, <1>4

\* A connection that moves leaves the others and the report where they are.
LEMMA ConnMoves ==
    ASSUME Placed, NEW k \in Conns,
           \A h \in Goroutines \ {k} : /\ at'[h] = at[h] /\ user'[h] = user[h]
                                       /\ table'[h] = table[h] /\ by'[h] = by[h],
           walk' = walk, ConnPlaced(k)'
    PROVE  Placed'
  <1>1. Report \in Goroutines \ {k} BY SingTrafficAssumption DEF Goroutines
  <1>2. ReportPlaced' BY <1>1 DEF Placed, ReportPlaced, walk
  <1>3. ASSUME NEW h \in Conns \ {k} PROVE ConnPlaced(h)'
    BY DEF Placed, ConnPlaced, Goroutines
  <1> QED BY <1>2, <1>3 DEF Placed

\* The report that moves leaves the connections where they are.
LEMMA ReportMoves ==
    ASSUME Placed,
           \A h \in Goroutines \ {Report} : /\ at'[h] = at[h] /\ user'[h] = user[h]
                                            /\ table'[h] = table[h] /\ by'[h] = by[h],
           ReportPlaced'
    PROVE  Placed'
  BY SingTrafficAssumption DEF Placed, ConnPlaced, Goroutines

\* A connection takes the counters of its node, if there are some.
LEMMA ConnectsKeeps == ASSUME IInv, NEW k \in Conns, Connects(k) PROVE IInv'
  <1> USE SingTrafficAssumption
  <1>1. k \in Goroutines /\ k # Report BY DEF Goroutines
  <1>2. /\ TypeOK /\ Placed /\ MapsClean /\ ConnPlaced(k) /\ counter \in Conns \cup {None}
        /\ at[k] = "idle" /\ table[k] = None /\ by[k] = None
    BY <1>1, Parts DEF Connects, ConnPlaced
  <1>3. PICK l \in {"store", "find"} :
          /\ at' = [at EXCEPT ![k] = l] /\ table' = [table EXCEPT ![k] = counter]
          /\ l = "store" <=> counter = None
          /\ UNCHANGED <<up, maps, value, user, by, walk, carried, reported, under>>
    <2>1. CASE counter = None
      <3>1. table' = [table EXCEPT ![k] = counter] BY <1>1, <1>2, <2>1 DEF Connects, TypeOK
      <3> QED BY <2>1, <3>1 DEF Connects, Goto
    <2>2. CASE counter # None BY <2>2 DEF Connects, Goto
    <2> QED BY <2>1, <2>2
  <1>4. TypeOK' BY <1>1, <1>2, <1>3 DEF TypeOK, maps, walk
  <1>5. /\ at'[k] = l /\ table'[k] = counter /\ by'[k] = None /\ user'[k] = user[k]
        /\ \A h \in Goroutines \ {k} : /\ at'[h] = at[h] /\ user'[h] = user[h]
                                       /\ table'[h] = table[h] /\ by'[h] = by[h]
    BY <1>1, <1>2, <1>3 DEF TypeOK
  <1>6. ConnPlaced(k)' BY <1>2, <1>3, <1>5 DEF ConnPlaced
  <1>7. Holding(k)'
    <2>1. counter' = counter /\ counters' = counters BY <1>3 DEF maps
    <2>2. CASE counter = None
      <3>1. \A h \in Goroutines : table[h] = None BY <2>2, Parts
      <3>2. \A h \in Goroutines : table'[h] = None BY <1>1, <1>5, <2>2, <3>1
      <3>3. \A u \in Users : Entry(k, u)' = None BY <1>2, <2>1, <2>2 DEF MapsClean, Entry
      <3>4. k # None BY <1>1
      <3> QED BY <1>1, <1>3, <1>5, <2>1, <2>2, <3>2, <3>3, <3>4 DEF Holding
    <2>3. CASE counter # None BY <1>3, <1>5, <2>1, <2>3 DEF Holding
    <2> QED BY <2>2, <2>3
  <1>8. Placed' BY <1>2, <1>3, <1>5, <1>6, ConnMoves
  <1>9. table'[k] \in {None, table[k], counter} BY <1>5
  <1> HIDE DEF Holding
  <1> QED BY <1>1, <1>3, <1>4, <1>5, <1>7, <1>8, <1>9, LocalKeeps DEF walk

\* A connection gives up what it holds.
LEMMA DisconnectsKeeps == ASSUME IInv, NEW k \in Conns, Disconnects(k) PROVE IInv'
  <1> USE SingTrafficAssumption
  <1>1. k \in Goroutines /\ k # Report BY DEF Goroutines
  <1>2. TypeOK /\ Placed /\ ConnPlaced(k) BY <1>1, Parts
  <1>3. /\ at' = [at EXCEPT ![k] = "idle"] /\ table' = [table EXCEPT ![k] = None]
        /\ by' = [by EXCEPT ![k] = None]
        /\ UNCHANGED <<up, maps, value, user, walk, carried, reported, under>>
    BY DEF Disconnects, Leaves, Goto
  <1>4. TypeOK' BY <1>1, <1>2, <1>3 DEF TypeOK, maps, walk
  <1>5. /\ at'[k] = "idle" /\ table'[k] = None /\ by'[k] = None /\ user'[k] = user[k]
        /\ \A h \in Goroutines \ {k} : /\ at'[h] = at[h] /\ user'[h] = user[h]
                                       /\ table'[h] = table[h] /\ by'[h] = by[h]
    BY <1>1, <1>2, <1>3 DEF TypeOK
  <1>6. ConnPlaced(k)' BY <1>2, <1>5 DEF ConnPlaced
  <1>7. Holding(k)' BY <1>5 DEF Holding
  <1>8. Placed' BY <1>2, <1>3, <1>5, <1>6, ConnMoves
  <1> QED BY <1>1, <1>3, <1>4, <1>5, <1>7, <1>8, LocalKeeps DEF walk

\* A connection finds the storage of its user, or that there is none.
LEMMA ConnFindsKeeps == ASSUME IInv, NEW k \in Conns, Finds(k, "live") PROVE IInv'
  <1> USE SingTrafficAssumption
  <1> DEFINE m == Entry(table[k], user[k])
  <1>1. k \in Goroutines /\ k # Report BY DEF Goroutines
  <1>2. /\ TypeOK /\ Placed /\ MapsClean /\ ConnPlaced(k) /\ Holding(k) /\ at[k] = "find"
        /\ table[k] \in Conns /\ user[k] \in Users /\ by[k] = None
    BY <1>1, Parts DEF Finds, ConnPlaced
  <1>3. m \in Goroutines \cup {None} BY <1>2, ReadTypes
  <1>4. PICK l \in {"live", "put"} :
          /\ at' = [at EXCEPT ![k] = l] /\ by' = [by EXCEPT ![k] = m]
          /\ l = "put" <=> m = None
          /\ UNCHANGED <<up, maps, value, user, table, walk, carried, reported, under>>
    <2>1. CASE m = None
      <3>1. by' = [by EXCEPT ![k] = m] BY <1>1, <1>2, <2>1 DEF Finds, TypeOK
      <3> QED BY <2>1, <3>1 DEF Finds, Goto
    <2>2. CASE m # None BY <2>2 DEF Finds, Goto, Holds
    <2> QED BY <2>1, <2>2
  <1>5. m' = m BY <1>4 DEF maps, Entry
  <1> HIDE DEF m
  <1>6. TypeOK' BY <1>1, <1>2, <1>3, <1>4 DEF TypeOK, maps, walk
  <1>7. /\ at'[k] = l /\ table'[k] = table[k] /\ by'[k] = m /\ user'[k] = user[k]
        /\ \A h \in Goroutines \ {k} : /\ at'[h] = at[h] /\ user'[h] = user[h]
                                       /\ table'[h] = table[h] /\ by'[h] = by[h]
    BY <1>1, <1>2, <1>3, <1>4 DEF TypeOK
  <1>8. ConnPlaced(k)' BY <1>2, <1>4, <1>7 DEF ConnPlaced
  <1>9. Holding(k)'
    <2>1. counter' = counter /\ counters' = counters /\ value' = value BY <1>4 DEF maps
    <2>2. Entry(table[k], user[k])' = m BY <1>5 DEF m
    <2>3. CASE m = None
      <3>1. Entry(table[k], user[k]) = None BY <2>3 DEF m
      <3>2. Val(table[k], user[k], k) = 0 BY <1>1, <1>2, <3>1 DEF MapsClean
      <3>3. \A h \in Goroutines : ~(by[h] = k /\ table[h] = table[k] /\ user[h] = user[k])
        <4>1. SUFFICES ASSUME NEW h \in Goroutines, by[h] = k, table[h] = table[k], user[h] = user[k]
                       PROVE  FALSE
          OBVIOUS
        <4>2. Holding(h) BY Parts
        <4>3. k # None BY <1>1
        <4> QED BY <3>1, <4>1, <4>2, <4>3 DEF Holding
      <3>4. \A h \in Goroutines : ~(by'[h] = k /\ table'[h] = table[k] /\ user'[h] = user[k])
        BY <1>1, <1>7, <2>3, <3>3
      <3>5. Val(table[k], user[k], k)' = 0 BY <1>4, <2>1, <3>2 DEF Val
      <3>6. k # None BY <1>1
      <3> QED BY <1>2, <1>4, <1>7, <2>1, <2>2, <2>3, <3>4, <3>5, <3>6 DEF Holding, Entry, Val
    <2>4. CASE m # None
      BY <1>2, <1>4, <1>7, <2>1, <2>2, <2>4 DEF Holding, Entry
    <2> QED BY <2>3, <2>4
  <1>10. Placed' BY <1>2, <1>4, <1>7, <1>8, ConnMoves
  <1>11. by'[k] \in {by[k], Entry(table[k], user[k])} BY <1>7 DEF m
  <1>12. table[k] # None BY <1>2
  <1> QED BY <1>1, <1>4, <1>6, <1>7, <1>9, <1>10, <1>11, <1>12, LocalKeeps DEF walk

\* The report between two users, or before and after all of them.
LEMMA BetweenKeeps ==
    ASSUME IInv, NEW p \in {"idle", "walk"}, at[Report] \in {"idle", "walk"},
           at' = [at EXCEPT ![Report] = p], i' \in Nat, p = "walk" => i' # 0,
           UNCHANGED <<up, maps, value, user, table, by, got, carried, reported, under>>
    PROVE  IInv'
  <1> USE SingTrafficAssumption
  <1>1. Report \in Goroutines BY DEF Goroutines
  <1>2. /\ TypeOK /\ Placed /\ ReportPlaced /\ Holding(Report)
        /\ table[Report] = None /\ by[Report] = None /\ got = 0
    BY <1>1, Parts DEF ReportPlaced
  <1>3. TypeOK' BY <1>1, <1>2 DEF TypeOK, maps
  <1>4. /\ at'[Report] = p /\ table'[Report] = None /\ by'[Report] = None
        /\ \A h \in Goroutines \ {Report} : /\ at'[h] = at[h] /\ user'[h] = user[h]
                                            /\ table'[h] = table[h] /\ by'[h] = by[h]
    BY <1>1, <1>2 DEF TypeOK
  <1>5. ReportPlaced' BY <1>2, <1>4 DEF ReportPlaced
  <1>6. Placed' BY <1>2, <1>4, <1>5, ReportMoves
  <1>7. Holding(Report)' BY <1>4 DEF Holding
  <1>8. (\A u \in Users \ under : ReportWhole(u)') /\ ReportFits'
    BY <1>2, <1>4 DEF ReportWhole, ReportFits
  <1> QED BY <1>1, <1>3, <1>4, <1>6, <1>7, <1>8, LocalKeeps

\* LoadsCounter: the report turns to the storage that counts.
LEMMA LoadsCounterKeeps == ASSUME IInv, LoadsCounter PROVE IInv'
  <1> USE SingTrafficAssumption
  <1>1. Report \in Goroutines BY DEF Goroutines
  <1>2. /\ TypeOK /\ Placed /\ ReportPlaced /\ counter \in Conns \cup {None}
        /\ table[Report] = None /\ by[Report] = None /\ got = 0
        /\ at[Report] = "walk" /\ i # 0 /\ i \in Nat /\ i <= NumUsers
    BY <1>1, Parts DEF ReportPlaced, LoadsCounter, TypeOK
  <1>3. i \in Users BY <1>2 DEF Users
  <1>4. UNCHANGED <<up, maps, value, got, carried, reported, under>> BY DEF LoadsCounter
  <1>5. CASE counter = None
    <2>1. i' = i + 1 /\ UNCHANGED locals BY <1>5 DEF LoadsCounter
    <2>2. at' = [at EXCEPT ![Report] = "walk"] /\ i' \in Nat /\ i' # 0
      BY <1>1, <1>2, <2>1 DEF TypeOK, locals
    <2> QED BY <1>2, <1>4, <2>1, <2>2, BetweenKeeps DEF locals
  <1>6. CASE counter # None
    <2>1. /\ user' = [user EXCEPT ![Report] = i] /\ table' = [table EXCEPT ![Report] = counter]
          /\ at' = [at EXCEPT ![Report] = "look"] /\ UNCHANGED <<i, by>>
      BY <1>6 DEF LoadsCounter, Goto
    <2>2. TypeOK' BY <1>1, <1>2, <1>3, <1>4, <2>1 DEF TypeOK, maps
    <2>3. /\ at'[Report] = "look" /\ table'[Report] = counter /\ by'[Report] = None
          /\ user'[Report] = i /\ got' = 0
          /\ \A h \in Goroutines \ {Report} : /\ at'[h] = at[h] /\ user'[h] = user[h]
                                              /\ table'[h] = table[h] /\ by'[h] = by[h]
      BY <1>1, <1>2, <1>4, <2>1 DEF TypeOK
    <2>4. ReportPlaced' BY <1>3, <1>6, <2>3 DEF ReportPlaced
    <2>5. Placed' BY <1>2, <2>3, <2>4, ReportMoves
    <2>6. counter' = counter /\ counters' = counters BY <1>4 DEF maps
    <2>7. Holding(Report)' BY <1>6, <2>3, <2>6 DEF Holding
    <2>8. \A u \in Users \ under : ReportWhole(u)' BY <2>3 DEF ReportWhole
    <2>9. ReportFits'
      <3>1. Maker' = Entry(counter, i) BY <2>3, <2>6 DEF Maker, Entry
      <3>2. Pending' = Counted(i)
        <4>1. Val(table[Report], user[Report], Maker)' = Val(counter, i, Maker')
          BY <1>4, <2>3 DEF Val
        <4> QED BY <1>6, <2>3, <3>1, <4>1 DEF Pending, Counted, Val
      <3>3. NotTwice(i) BY <1>3 DEF IInv
      <3>4. reported'[i] + Pending' <= carried'[i] BY <1>4, <3>2, <3>3 DEF NotTwice
      <3>5. Maker' = Entry(counter, user[Report])' BY <2>3, <2>6, <3>1 DEF Entry
      <3>6. PendingFits(user[Report])' BY <2>3, <2>6, <3>4, <3>5 DEF PendingFits
      <3> QED BY <3>6 DEF ReportFits
    <2>10. table'[Report] \in {None, table[Report], counter} BY <2>3
    <2> QED BY <1>1, <1>4, <2>2, <2>3, <2>5, <2>7, <2>8, <2>9, <2>10, LocalKeeps
  <1> QED BY <1>5, <1>6

\* The report at its user: it looks for the storage, reads, and looks once more.
LEMMA ReportLooks ==
    ASSUME IInv, table[Report] # None,
           NEW p \in {"read", "find", "put", "clear"},
           NEW m \in {by[Report], Entry(table[Report], user[Report])},
           at' = [at EXCEPT ![Report] = p], by' = [by EXCEPT ![Report] = m], got' \in Nat,
           UNCHANGED <<up, maps, value, user, table, i, carried, reported, under>>,
           got' # got => by[Report] # None /\ got' = Val(table[Report], user[Report], by[Report]),
           p \in {"read", "clear"} => m # None,
           p = "put" => m = None /\ Entry(table[Report], user[Report]) = None,
           at[Report] = "look" => m = Entry(table[Report], user[Report]),
           m = None => got' = 0,
           Pending' = Pending
    PROVE  IInv'
  <1> USE SingTrafficAssumption
  <1>1. Report \in Goroutines BY DEF Goroutines
  <1>2. /\ TypeOK /\ Placed /\ MapsClean /\ ReportPlaced /\ Holding(Report) /\ ReportFits
        /\ table[Report] \in Conns /\ user[Report] \in Users /\ counter \in Conns
    BY <1>1, Parts DEF IInv
  <1>3. m \in Goroutines \cup {None} BY <1>1, <1>2, Parts, ReadTypes
  <1>4. TypeOK' BY <1>1, <1>2, <1>3 DEF TypeOK, maps
  <1>5. /\ at'[Report] = p /\ table'[Report] = table[Report] /\ by'[Report] = m
        /\ user'[Report] = user[Report]
        /\ \A h \in Goroutines \ {Report} : /\ at'[h] = at[h] /\ user'[h] = user[h]
                                            /\ table'[h] = table[h] /\ by'[h] = by[h]
    BY <1>1, <1>2, <1>3 DEF TypeOK
  <1>6. ReportPlaced' BY <1>2, <1>5 DEF ReportPlaced
  <1>7. Placed' BY <1>2, <1>5, <1>6, ReportMoves
  <1>8. counter' = counter /\ counters' = counters /\ value' = value BY DEF maps
  <1>9. Holding(Report)'
    <2>1. m # None => Entry(table[Report], user[Report]) # None
      BY <1>2 DEF Holding
    <2>2. CASE p = "put"
      <3>1. Entry(table[Report], user[Report]) = None BY <2>2
      <3>2. Val(table[Report], user[Report], Report) = 0 BY <1>1, <1>2, <3>1 DEF MapsClean
      <3>3. ASSUME NEW h \in Goroutines, by'[h] = Report, table'[h] = table[Report], user'[h] = user[Report]
            PROVE  FALSE
        <4>1. Report # None /\ by'[Report] = None BY <1>5, <2>2
        <4>2. by[h] = Report /\ table[h] = table[Report] /\ user[h] = user[Report]
          BY <1>5, <3>3, <4>1
        <4>3. Holding(h) BY Parts
        <4> QED BY <3>1, <4>1, <4>2, <4>3 DEF Holding
      <3> QED BY <1>1, <1>2, <1>5, <1>8, <2>2, <3>1, <3>2, <3>3 DEF Holding, Entry, Val
    <2>3. CASE p # "put" BY <1>2, <1>5, <1>8, <2>1, <2>3 DEF Holding, Entry
    <2> QED BY <2>2, <2>3
  <1>10. ASSUME NEW u \in Users \ under PROVE ReportWhole(u)'
    <2>1. ReportWhole(u) /\ \A c \in Conns \ {counter}, q \in Goroutines : Val(c, u, q) = 0
      BY DEF IInv, Whole
    <2>2. CASE user[Report] = u
      <3>1. table[Report] = counter /\ m # None => m = Entry(counter, u)'
        BY <1>8, <2>1, <2>2 DEF ReportWhole, Entry
      <3>2. table[Report] # counter => got' = 0
        <4>1. by[Report] \in Goroutines \cup {None} BY <1>1, Parts
        <4> QED BY <1>2, <2>1, <2>2, <4>1 DEF ReportWhole
      <3> QED BY <1>5, <1>8, <3>1, <3>2 DEF ReportWhole
    <2>3. CASE user[Report] # u BY <1>5, <2>3 DEF ReportWhole
    <2> QED BY <2>2, <2>3
  <1>11. ReportFits'
    <2>1. PendingFits(user[Report]) BY <1>2 DEF ReportFits
    <2>2. Entry(table[Report], user[Report])' = Entry(table[Report], user[Report])
      BY <1>5, <1>8 DEF Entry
    <2>3. Maker' \in {Maker, Entry(table[Report], user[Report])}
      BY <1>5 DEF Maker
    <2>4. /\ Entry(counter, user[Report])' = Entry(counter, user[Report])
          /\ Counted(user[Report])' = Counted(user[Report])
      BY <1>5, <1>8 DEF Entry, Counted
    <2>5. PendingFits(user[Report])'
      BY <1>2, <1>5, <1>8, <2>1, <2>3, <2>4 DEF PendingFits
    <2> QED BY <2>5 DEF ReportFits
  <1>12. \A u \in Users \ under : ReportWhole(u)' BY <1>10
  <1>13. m # None => m \in {by[Report], Entry(table[Report], user[Report])} OBVIOUS
  <1> QED BY <1>1, <1>4, <1>5, <1>7, <1>9, <1>11, <1>12, <1>13, LocalKeeps

\* GetUpCount finds the storage of the user, or that there is none.
LEMMA LooksKeeps == ASSUME IInv, Looks PROVE IInv'
  <1> DEFINE m == Entry(table[Report], user[Report])
  <1>1. Report \in Goroutines BY DEF Goroutines
  <1>2. /\ TypeOK /\ table[Report] \in Conns /\ user[Report] \in Users
        /\ by[Report] = None /\ got = 0 /\ at[Report] = "look"
    BY <1>1, Parts DEF Looks, ReportPlaced
  <1>3. PICK p \in {"read", "find"} :
          /\ at' = [at EXCEPT ![Report] = p] /\ by' = [by EXCEPT ![Report] = m]
          /\ p = "find" <=> m = None
          /\ UNCHANGED <<up, maps, value, user, table, walk, carried, reported, under>>
    <2>1. CASE m = None
      <3>1. by' = [by EXCEPT ![Report] = m] BY <1>1, <1>2, <2>1 DEF TypeOK, Looks
      <3> QED BY <2>1, <3>1 DEF Looks, Goto
    <2>2. CASE m # None BY <2>2 DEF Looks, Goto, Holds
    <2> QED BY <2>1, <2>2
  <1>4. at'[Report] = p /\ by'[Report] = m /\ got' = 0 BY <1>1, <1>2, <1>3 DEF TypeOK, walk
  <1>5. Maker = m /\ Maker' = m BY <1>2, <1>3, <1>4 DEF Maker
  <1>6. Pending' = Pending
    <2>1. value' = value /\ table' = table /\ user' = user BY <1>3
    <2> HIDE DEF m
    <2> QED BY <1>2, <1>3, <1>4, <1>5, <2>1 DEF Pending, Val
  <1>7. got' \in Nat /\ got' = got BY <1>2, <1>4
  <1> QED BY <1>2, <1>3, <1>6, <1>7, ReportLooks, SingTrafficAssumption DEF walk

\* What is read is still in the storage.
LEMMA ReadsKeeps == ASSUME IInv, Reads PROVE IInv'
  <1>1. Report \in Goroutines BY DEF Goroutines
  <1>2. /\ TypeOK /\ table[Report] \in Conns /\ user[Report] \in Users /\ table[Report] # None
        /\ by[Report] \in Goroutines /\ by[Report] # None /\ at[Report] = "read"
    BY <1>1, Parts DEF Reads, ReportPlaced
  <1>3. /\ at' = [at EXCEPT ![Report] = "find"] /\ by' = [by EXCEPT ![Report] = by[Report]]
        /\ got' = Val(table[Report], user[Report], by[Report])
        /\ UNCHANGED <<up, maps, value, user, table, by, i, carried, reported, under>>
    BY <1>1, <1>2 DEF Reads, Goto, Storage, Val, TypeOK
  <1>4. at'[Report] = "find" BY <1>1, <1>2, <1>3 DEF TypeOK
  <1>5. Pending' = Pending BY <1>2, <1>3, <1>4 DEF Pending, Maker
  <1>6. got' \in Nat BY <1>2, <1>3, ReadTypes
  <1> QED BY <1>2, <1>3, <1>5, <1>6, ReportLooks

\* Reset finds the storage that is now in the map, which may be another one.
LEMMA ReportFindsKeeps == ASSUME IInv, Finds(Report, "clear") PROVE IInv'
  <1> DEFINE m == Entry(table[Report], user[Report])
  <1>1. Report \in Goroutines BY DEF Goroutines
  <1>2. /\ TypeOK /\ table[Report] \in Conns /\ user[Report] \in Users /\ at[Report] = "find"
        /\ by[Report] # None => m # None
        /\ by[Report] = None => got = 0
        /\ table[Report] # None /\ got \in Nat
    BY <1>1, Parts DEF Finds, ReportPlaced, Holding, TypeOK
  <1>3. PICK p \in {"clear", "put"} :
          /\ at' = [at EXCEPT ![Report] = p] /\ by' = [by EXCEPT ![Report] = m]
          /\ p = "put" <=> m = None
          /\ UNCHANGED <<up, maps, value, user, table, walk, carried, reported, under>>
    <2>1. CASE m = None
      <3>1. by' = [by EXCEPT ![Report] = m] BY <1>1, <1>2, <2>1 DEF TypeOK, Finds
      <3> QED BY <2>1, <3>1 DEF Finds, Goto
    <2>2. CASE m # None BY <2>2 DEF Finds, Goto, Holds
    <2> QED BY <2>1, <2>2
  <1>4. at'[Report] = p /\ got' = got BY <1>1, <1>2, <1>3 DEF TypeOK, walk
  <1>5. Pending' = Pending BY <1>2, <1>3, <1>4 DEF Pending
  <1>6. m = None => got' = 0 BY <1>2, <1>4
  <1>7. got' \in Nat BY <1>2, <1>4
  <1> QED BY <1>2, <1>3, <1>4, <1>5, <1>6, <1>7, ReportLooks DEF walk

\* A storage is put into the map.  Nobody has used it; one that was there before is given up.
LEMMA PutsKeeps ==
    ASSUME IInv, NEW g \in Goroutines, NEW p \in {"live", "clear"}, Puts(g, p),
           p = "live" <=> g # Report
    PROVE  IInv'
  <1> USE SingTrafficAssumption
  <1> DEFINE c == table[g]
             u == user[g]
  <1>1. /\ TypeOK /\ Placed /\ MapsClean /\ Holding(g) /\ at[g] = "put" /\ ReportFits
        /\ \A h \in Goroutines : Holding(h)
        /\ \A v \in Users : NotTwice(v) /\ Whole(v)
    BY DEF IInv, Puts
  <1>2. c \in Conns /\ u \in Users /\ counter \in Conns /\ g # None
    BY <1>1, Parts DEF ConnPlaced, ReportPlaced, Goroutines
  <1>3. /\ by[g] = None /\ Entry(c, u) # g /\ Val(c, u, g) = 0
        /\ \A h \in Goroutines : ~(by[h] = g /\ table[h] = c /\ user[h] = u)
    BY <1>1 DEF Holding
  <1>4. /\ counters' = [counters EXCEPT ![c][u] = g]
        /\ under' = IF Entry(c, u) = None THEN under ELSE under \cup {u}
        /\ at' = [at EXCEPT ![g] = p] /\ by' = [by EXCEPT ![g] = g]
        /\ UNCHANGED <<up, counter, value, user, table, walk, carried, reported>>
    BY DEF Puts, Holds, Goto
  <1>5. /\ at'[g] = p /\ by'[g] = g
        /\ \A h \in Goroutines \ {g} : at'[h] = at[h] /\ by'[h] = by[h]
    BY <1>1, <1>4 DEF TypeOK
  <1>6. \A d \in Conns, v \in Users : Entry(d, v)' = IF d = c /\ v = u THEN g ELSE Entry(d, v)
    BY <1>1, <1>2, <1>4 DEF TypeOK, Entry
  <1>7. \A d \in Conns, v \in Users : counters'[d][v] = IF d = c /\ v = u THEN g ELSE Entry(d, v)
    BY <1>6 DEF Entry
  <1>8. /\ \A h \in Goroutines : table[h] \in Conns \cup {None}
        /\ \A h \in Goroutines : table[h] # None => user[h] \in Users
        /\ \A h \in Goroutines : by[h] \in Goroutines \cup {None}
    BY Parts
  <1> HIDE DEF c, u
  <1>9. TypeOK'
    <2>1. counters' \in [Conns -> [Users -> Goroutines \cup {None}]]
      BY <1>1, <1>2, <1>4 DEF TypeOK
    <2> QED BY <1>1, <1>2, <1>4, <2>1 DEF TypeOK, walk
  <1>10. Placed'
    <2>1. CASE g = Report
      <3>1. ReportPlaced'
        BY <1>1, <1>2, <1>4, <1>5, <2>1 DEF Placed, ReportPlaced, walk, c
      <3> QED BY <1>1, <1>4, <1>5, <2>1, <3>1, ReportMoves
    <2>2. CASE g # Report
      <3>1. g \in Conns BY <2>2 DEF Goroutines
      <3>2. ConnPlaced(g)' BY <1>1, <1>2, <1>4, <1>5, <2>2, <3>1 DEF Placed, ConnPlaced, c
      <3> QED BY <1>1, <1>4, <1>5, <3>1, <3>2, ConnMoves
    <2> QED BY <2>1, <2>2
  <1>11. MapsClean'
    <2>1. ASSUME NEW d \in Conns, NEW v \in Users
          PROVE  /\ counter' # None
                 /\ Entry(d, v)' = None => \A m \in Goroutines : Val(d, v, m)' = 0
      BY <1>1, <1>2, <1>4, <1>6 DEF MapsClean, Val
    <2> QED BY <2>1 DEF MapsClean
  <1>12. ASSUME NEW h \in Goroutines PROVE Holding(h)'
    <2>1. Holding(h) BY <1>1
    <2>2. table' = table /\ user' = user /\ counter' = counter /\ value' = value BY <1>4
    <2>3. CASE h = g
      <3>1. table[h] # None /\ counters'[table[h]][user[h]] # None BY <1>2, <1>7, <2>3 DEF c, u
      <3> QED BY <1>2, <1>5, <2>2, <2>3, <3>1 DEF Holding, Entry
    <2>4. CASE h # g
      <3>1. by[h] # None => counters'[table[h]][user[h]] # None
        BY <1>2, <1>7, <1>8, <2>1 DEF Holding
      <3>2. CASE at[h] = "put"
        <4>1. table[h] \in Conns /\ user[h] \in Users
          BY <1>8, <3>2, Parts DEF ConnPlaced, ReportPlaced
        <4>2. counters'[table[h]][user[h]] # h BY <1>7, <2>1, <2>4, <3>2, <4>1 DEF Holding
        <4>3. \A j \in Goroutines : ~(by'[j] = h /\ table[j] = table[h] /\ user[j] = user[h])
          BY <1>5, <2>1, <2>4, <3>2 DEF Holding
        <4> QED BY <1>5, <2>1, <2>2, <2>4, <3>1, <3>2, <4>2, <4>3 DEF Holding, Entry, Val
      <3>3. CASE at[h] = "store"
        <4>1. h \in Conns /\ h # c
          BY <2>1, <3>3, Parts DEF ReportPlaced, Holding, c
        <4>2. \A v \in Users : counters'[h][v] = None BY <1>7, <2>1, <3>3, <4>1 DEF Holding
        <4> QED BY <1>5, <2>1, <2>2, <2>4, <3>1, <3>3, <4>2 DEF Holding, Entry
      <3>4. CASE at[h] \notin {"put", "store"}
        BY <1>5, <2>1, <2>2, <2>4, <3>1, <3>4 DEF Holding, Entry
      <3> QED BY <3>2, <3>3, <3>4
    <2> QED BY <2>3, <2>4
  <1>13. ASSUME NEW v \in Users
         PROVE  Counted(v)' = IF c = counter /\ v = u THEN 0 ELSE Counted(v)
    <2>2. /\ counter' = counter /\ value' = value /\ counter # None BY <1>2, <1>4
    <2>3. counters'[counter][v] = IF c = counter /\ v = u THEN g ELSE Entry(counter, v)
      BY <1>2, <1>7
    <2>4. CASE c = counter /\ v = u
      BY <1>2, <1>3, <2>2, <2>3, <2>4 DEF Counted, Entry, Val
    <2>5. CASE ~(c = counter /\ v = u)
      BY <2>2, <2>3, <2>5 DEF Counted, Entry
    <2> QED BY <2>4, <2>5
  <1>14. \A v \in Users : NotTwice(v)'
    BY <1>1, <1>4, <1>13, ReadTypes DEF NotTwice, TypeOK
  <1>15. ASSUME NEW v \in Users PROVE Whole(v)'
    <2> SUFFICES ASSUME v \notin under' PROVE Whole(v)' BY DEF Whole
    <2>1. v \notin under /\ Whole(v) BY <1>1, <1>4
    <2>2. /\ reported[v] + Counted(v) = carried[v]
          /\ \A k \in Conns : ConnWhole(k, v)
          /\ \A d \in Conns \ {counter}, m \in Goroutines : Val(d, v, m) = 0
          /\ ReportWhole(v)
      BY <2>1 DEF Whole
    <2>3. v = u => Entry(c, u) = None BY <1>4
    <2>4. (v = u /\ c = counter) => Counted(v) = 0 BY <1>2, <2>3 DEF Counted
    <2>5. reported'[v] + Counted(v)' = carried'[v] BY <1>4, <1>13, <2>2, <2>4
    <2>6. \A d \in Conns \ {counter'}, m \in Goroutines : Val(d, v, m)' = 0
      BY <1>4, <2>2 DEF Val
    <2>7. ASSUME NEW h \in Goroutines, user[h] = v, table[h] = counter,
                 by[h] # None => by[h] = Entry(counter, v), by'[h] # None
          PROVE  by'[h] = counters'[counter][v]
      <3>1. CASE h = g BY <1>2, <1>5, <1>7, <2>7, <3>1 DEF c, u
      <3>2. CASE h # g
        <4>1. by[h] # None /\ Entry(table[h], user[h]) # None /\ by[h] = Entry(counter, v)
          BY <1>1, <1>5, <2>7, <3>2 DEF Holding
        <4>2. ~(counter = c /\ v = u) BY <2>3, <2>7, <4>1
        <4> QED BY <1>2, <1>5, <1>7, <3>2, <4>1, <4>2
      <3> QED BY <3>1, <3>2
    <2>8. ASSUME NEW k \in Conns PROVE ConnWhole(k, v)'
      <3>1. k \in Goroutines /\ ConnWhole(k, v) BY <2>2 DEF Goroutines
      <3>2. table' = table /\ user' = user /\ counter' = counter BY <1>4
      <3> QED BY <2>7, <3>1, <3>2 DEF ConnWhole, Entry
    <2>9. ReportWhole(v)'
      <3>1. Report \in Goroutines /\ ReportWhole(v) BY <2>2 DEF Goroutines
      <3>2. table' = table /\ user' = user /\ counter' = counter /\ got' = got BY <1>4 DEF walk
      <3>3. CASE by[Report] # None \/ by'[Report] = None
        BY <2>7, <3>1, <3>2, <3>3 DEF ReportWhole, Entry
      <3>4. CASE by[Report] = None /\ by'[Report] # None
        BY <2>7, <3>1, <3>2, <3>4 DEF ReportWhole, Entry
      <3> QED BY <3>3, <3>4
    <2> QED BY <2>5, <2>6, <2>8, <2>9 DEF Whole
  <1>16. ReportFits'
    <2>1. table' = table /\ user' = user /\ counter' = counter /\ got' = got /\ value' = value
          /\ carried' = carried /\ reported' = reported
      BY <1>4 DEF walk
    <2>2. Report \in Goroutines BY DEF Goroutines
    <2> SUFFICES ASSUME table[Report] # None PROVE ReportFits' BY <2>1 DEF ReportFits
    <2>3. PICK t \in Conns, w \in Users : t = table[Report] /\ w = user[Report] BY <1>8, <2>2
    <2>4. PendingFits(w) BY <1>1, <2>3 DEF ReportFits
    <2>5. Counted(w)' = IF c = counter /\ w = u THEN 0 ELSE Counted(w) BY <1>13, <2>3
    <2>6. counters'[counter][w] = IF c = counter /\ w = u THEN g ELSE Entry(counter, w)
      BY <1>2, <1>7, <2>3
    <2>7. counters'[t][w] = IF c = t /\ w = u THEN g ELSE Entry(t, w) BY <1>7, <2>3
    <2>8. /\ Counted(w) \in Nat /\ Pending \in Nat
          /\ reported[w] \in Nat /\ carried[w] \in Nat
      <3>1. Maker \in Goroutines \cup {None} BY <1>1, <1>8, <2>2, <2>3, ReadTypes DEF Maker
      <3>2. Pending \in Nat BY <1>1, <2>3, <3>1, ReadTypes DEF Pending, TypeOK
      <3> QED BY <1>1, <2>3, <3>2, ReadTypes DEF TypeOK
    <2>9. /\ Pending' \in {0, Pending}
          /\ Maker' = Maker \/ (t = c /\ w = u /\ Maker' = g)
      <3>1. CASE g = Report
        <4>1. at'[Report] = "clear" /\ by'[Report] = g /\ by[Report] = None
          BY <1>3, <1>5, <3>1
        <4>2. got = 0 BY <1>1, <4>1 DEF Placed, ReportPlaced
        <4> QED BY <2>1, <2>3, <3>1, <4>1, <4>2 DEF Pending, Maker, c, u
      <3>2. CASE g # Report
        <4>1. at'[Report] = at[Report] /\ by'[Report] = by[Report] BY <1>5, <2>2, <3>2
        <4>2. CASE at[Report] = "look"
          <5>1. Maker' = counters'[t][w] BY <2>1, <2>3, <4>1, <4>2 DEF Maker, Entry
          <5>2. Pending' = IF Maker' = None THEN 0 ELSE Val(t, w, Maker')
            BY <2>1, <2>3, <4>1, <4>2 DEF Pending, Val
          <5>3. CASE c = t /\ w = u BY <1>3, <2>7, <5>1, <5>2, <5>3
          <5>4. CASE ~(c = t /\ w = u)
            <6>1. Maker' = Maker BY <2>3, <2>7, <4>2, <5>1, <5>4 DEF Maker
            <6> QED BY <2>3, <4>2, <5>2, <6>1 DEF Pending
          <5> QED BY <5>3, <5>4
        <4>3. CASE at[Report] # "look"
          <5>1. Maker' = Maker BY <4>1, <4>3 DEF Maker
          <5> QED BY <2>1, <4>1, <4>3, <5>1 DEF Pending, Val
        <4> QED BY <4>2, <4>3
      <3> QED BY <3>1, <3>2
    <2>10. /\ reported[w] + Pending' <= carried[w]
           /\ (t # counter \/ Maker' # counters'[counter][w])
                => reported[w] + Pending' + Counted(w)' <= carried[w]
      <3>1. /\ reported[w] + Pending <= carried[w]
            /\ (t # counter \/ Maker # Entry(counter, w))
                 => reported[w] + Pending + Counted(w) <= carried[w]
        BY <2>3, <2>4 DEF PendingFits
      <3> QED BY <2>5, <2>6, <2>8, <2>9, <3>1
    <2>11. PendingFits(user[Report])'
      BY <2>1, <2>3, <2>10 DEF PendingFits, Entry
    <2> QED BY <2>11 DEF ReportFits
  <1> QED BY <1>9, <1>10, <1>11, <1>12, <1>14, <1>15, <1>16 DEF IInv

\* A TrafficCounter is stored.  It is empty, and what is in one before it is given up.
LEMMA StoresKeeps == ASSUME IInv, NEW k \in Conns, Stores(k) PROVE IInv'
  <1> USE SingTrafficAssumption
  <1>1. k \in Goroutines /\ k # Report /\ k # None BY DEF Goroutines
  <1>2. /\ TypeOK /\ Placed /\ MapsClean /\ ConnPlaced(k) /\ at[k] = "store" /\ ReportFits
        /\ table[k] = None /\ by[k] = None /\ counter \in Conns \cup {None} /\ user[k] \in Users
        /\ \A h \in Goroutines : Holding(h)
        /\ \A u \in Users : NotTwice(u) /\ Whole(u)
    BY <1>1, Parts DEF IInv, Stores, ConnPlaced
  <1>3. /\ counter # k /\ \A u \in Users : Entry(k, u) = None
        /\ \A h \in Goroutines : table[h] # k
    BY <1>1, <1>2 DEF Holding
  <1>4. /\ counter' = k /\ at' = [at EXCEPT ![k] = "find"] /\ table' = [table EXCEPT ![k] = k]
        /\ under' = IF counter = None THEN under ELSE under \cup Replaced(counter)
        /\ UNCHANGED <<up, counters, value, user, by, walk, carried, reported>>
    BY DEF Stores, Goto
  <1>5. /\ at'[k] = "find" /\ table'[k] = k
        /\ \A h \in Goroutines \ {k} : at'[h] = at[h] /\ table'[h] = table[h]
    BY <1>1, <1>2, <1>4 DEF TypeOK
  <1>6. TypeOK'
    <2>1. \A c \in Conns : Replaced(c) \subseteq Users
      BY <1>2 DEF Replaced, Placed, ConnPlaced
    <2>2. under' \in SUBSET Users BY <1>2, <1>4, <2>1 DEF TypeOK
    <2> QED BY <1>1, <1>2, <1>4, <2>2 DEF TypeOK, walk
  <1>7. Placed'
    <2>1. ConnPlaced(k)' BY <1>1, <1>2, <1>4, <1>5 DEF ConnPlaced
    <2> QED BY <1>2, <1>4, <1>5, <2>1, ConnMoves
  <1>8. MapsClean' BY <1>1, <1>2, <1>4 DEF MapsClean, Entry, Val
  <1>9. ASSUME NEW h \in Goroutines PROVE Holding(h)'
    <2>1. Holding(h) BY <1>2
    <2>2. user' = user /\ by' = by /\ counters' = counters /\ value' = value BY <1>4
    <2>3. CASE h = k BY <1>1, <1>2, <1>4, <1>5, <2>2, <2>3 DEF Holding, Entry
    <2>4. CASE h # k
      <3>1. CASE at[h] = "put"
        <4>1. \A j \in Goroutines : ~(by[j] = h /\ table'[j] = table[h] /\ user[j] = user[h])
          BY <1>2, <1>5, <2>1, <3>1, <2>4 DEF Holding
        <4> QED BY <1>1, <1>4, <1>5, <2>1, <2>2, <2>4, <3>1, <4>1 DEF Holding, Entry, Val
      <3>2. CASE at[h] = "store"
        <4>1. \A j \in Goroutines : table'[j] # h BY <1>5, <2>1, <2>4, <3>2 DEF Holding
        <4> QED BY <1>1, <1>4, <1>5, <2>1, <2>2, <2>4, <3>2, <4>1 DEF Holding, Entry
      <3>3. CASE at[h] \notin {"put", "store"}
        BY <1>1, <1>4, <1>5, <2>1, <2>2, <2>4, <3>3 DEF Holding, Entry
      <3> QED BY <3>1, <3>2, <3>3
    <2> QED BY <2>3, <2>4
  <1>10. \A u \in Users : Counted(u)' = 0 BY <1>1, <1>3, <1>4 DEF Counted, Entry
  <1>11. \A u \in Users : NotTwice(u)'
    BY <1>2, <1>4, <1>10, ReadTypes DEF NotTwice, TypeOK
  <1>12. ASSUME NEW u \in Users PROVE Whole(u)'
    <2> SUFFICES ASSUME u \notin under' PROVE Whole(u)' BY DEF Whole
    <2>1. u \notin under /\ Whole(u) BY <1>2, <1>4
    <2>2. /\ reported[u] + Counted(u) = carried[u]
          /\ \A j \in Conns : ConnWhole(j, u)
          /\ \A d \in Conns \ {counter}, m \in Goroutines : Val(d, u, m) = 0
          /\ ReportWhole(u)
      BY <2>1 DEF Whole
    <2>3. counter # None => /\ Entry(counter, u) = None
                            /\ \A j \in Conns : table[j] = counter => user[j] # u
      BY <1>4 DEF Replaced
    <2>4. Counted(u) = 0 BY <2>3 DEF Counted
    <2>5. reported'[u] + Counted(u)' = carried'[u] BY <1>4, <1>10, <2>2, <2>4
    <2>6. ASSUME NEW d \in Conns \ {counter'}, NEW m \in Goroutines PROVE Val(d, u, m)' = 0
      <3>1. Val(d, u, m) = 0 BY <1>2, <2>2, <2>3 DEF MapsClean
      <3> QED BY <1>4, <3>1 DEF Val
    <2>7. ASSUME NEW j \in Conns PROVE ConnWhole(j, u)'
      <3>1. j \in Goroutines /\ ConnWhole(j, u) /\ Holding(j) BY <1>2, <2>2 DEF Goroutines
      <3>2. CASE j = k BY <1>2, <1>4, <1>5, <3>2 DEF ConnWhole
      <3>3. CASE j # k
        <4>1. user[j] = u => table[j] = None BY <2>3, <3>1 DEF ConnWhole, Holding
        <4> QED BY <1>4, <1>5, <3>1, <3>3, <4>1 DEF ConnWhole
      <3> QED BY <3>2, <3>3
    <2>8. ReportWhole(u)'
      <3>1. /\ Report \in Goroutines \ {k} /\ ReportWhole(u) /\ Holding(Report) /\ ReportPlaced
        BY <1>1, <1>2, <2>2 DEF Goroutines, Placed
      <3>2. table'[Report] # counter' BY <1>3, <1>4, <1>5, <3>1
      <3>3. user[Report] = u => got = 0
        <4>1. CASE table[Report] = counter /\ counter # None /\ user[Report] = u
          <5>1. by[Report] = None BY <2>3, <3>1, <4>1 DEF Holding
          <5> QED BY <3>1, <5>1 DEF ReportPlaced
        <4>2. CASE table[Report] = None BY <3>1, <4>2 DEF Holding, ReportPlaced
        <4>3. CASE table[Report] # counter BY <3>1, <4>3 DEF ReportWhole
        <4> QED BY <4>1, <4>2, <4>3
      <3> QED BY <1>4, <3>2, <3>3 DEF ReportWhole, walk
    <2> QED BY <2>5, <2>6, <2>7, <2>8 DEF Whole
  <1>13. ReportFits'
    <2>1. Report \in Goroutines \ {k} BY <1>1 DEF Goroutines
    <2>2. /\ table'[Report] = table[Report] /\ at'[Report] = at[Report]
          /\ user' = user /\ by' = by /\ counters' = counters /\ got' = got /\ value' = value
          /\ reported' = reported /\ carried' = carried
      BY <1>4, <1>5, <2>1 DEF walk
    <2> SUFFICES ASSUME table[Report] # None PROVE ReportFits' BY <2>2 DEF ReportFits
    <2>3. PICK w \in Users : w = user[Report] BY <2>1, Parts
    <2>4. Maker' = Maker /\ Pending' = Pending BY <2>2 DEF Maker, Pending, Entry, Val
    <2>5. reported[w] + Pending <= carried[w] BY <1>2, <2>3 DEF ReportFits, PendingFits
    <2>6. Counted(w)' = 0 BY <1>10
    <2>7. reported[w] \in Nat /\ Pending \in Nat
      <3>1. Maker \in Goroutines \cup {None}
        BY <1>2, <2>1, Parts, ReadTypes DEF Maker
      <3>2. Pending \in Nat
        BY <1>2, <2>1, <3>1, Parts, ReadTypes DEF Pending, TypeOK
      <3> QED BY <1>2, <3>2 DEF TypeOK
    <2>8. PendingFits(user[Report])'
      BY <2>2, <2>3, <2>4, <2>5, <2>6, <2>7 DEF PendingFits
    <2> QED BY <2>8 DEF ReportFits
  <1> QED BY <1>6, <1>7, <1>8, <1>9, <1>11, <1>12, <1>13 DEF IInv

\* A write of a map that others use ends the process, and everything that was not reported.
LEMMA MapOverlapsKeeps == ASSUME IInv, NEW g \in Goroutines, MapOverlaps(g) PROVE IInv'
  <1> USE SingTrafficAssumption
  <1>1. /\ up' = FALSE
        /\ counter' = None /\ counters' = NoMaps /\ value' = NoTraffic
        /\ at' = Resting /\ table' = Nil /\ by' = Nil
        /\ user' = [user EXCEPT ![Report] = None]
        /\ i' = 0 /\ got' = 0 /\ under' = Users
        /\ UNCHANGED <<carried, reported>>
    BY DEF MapOverlaps
  <1>2. /\ TypeOK /\ Placed /\ \A u \in Users : NotTwice(u)
    BY DEF IInv
  <1>3. TypeOK'
    BY <1>1, <1>2 DEF TypeOK, NoMaps, NoTraffic, Resting, Nil, Goroutines
  <1>4. \A h \in Goroutines : at'[h] = "idle" /\ table'[h] = None /\ by'[h] = None
    BY <1>1 DEF Resting, Nil
  <1>5. Placed'
    <2>1. \A k \in Conns : user'[k] = user[k] BY <1>1, <1>2 DEF TypeOK, Goroutines
    <2>2. \A k \in Conns : ConnPlaced(k)' BY <1>2, <1>4, <2>1 DEF Placed, ConnPlaced, Goroutines
    <2>3. ReportPlaced' BY <1>1, <1>4 DEF ReportPlaced, Goroutines
    <2> QED BY <2>2, <2>3 DEF Placed
  <1>6. MapsClean' BY <1>1 DEF MapsClean, Entry, Val, NoMaps, NoTraffic, Storages
  <1>7. \A h \in Goroutines : Holding(h)' BY <1>4 DEF Holding
  <1>8. ASSUME NEW u \in Users PROVE NotTwice(u)'
    <2>1. Counted(u)' = 0 BY <1>1 DEF Counted
    <2>2. Counted(u) \in Nat /\ reported[u] \in Nat /\ carried[u] \in Nat
      BY <1>2, ReadTypes DEF TypeOK
    <2> QED BY <1>1, <1>2, <2>1, <2>2 DEF NotTwice
  <1>9. \A u \in Users : Whole(u)' BY <1>1 DEF Whole
  <1>10. ReportFits' BY <1>4 DEF ReportFits, Goroutines
  <1> QED BY <1>3, <1>5, <1>6, <1>7, <1>8, <1>9, <1>10 DEF IInv

\* Adds, Sets, SetsToNothing: a connection of u changes the storage it holds.
LEMMA WritesKeep ==
    ASSUME IInv, NEW k \in Conns, at[k] = "live", NEW e \in {0, 1}, NEW n \in Nat,
           n <= value[Storage(k)] + e,
           value' = [value EXCEPT ![Storage(k)] = n],
           carried' = [carried EXCEPT ![user[k]] = @ + e],
           under' \in {under, under \cup {user[k]}},
           user[k] \notin under' => n = value[Storage(k)] + e,
           UNCHANGED <<up, maps, locals, walk, reported>>
    PROVE  IInv'
  <1> USE SingTrafficAssumption
  <1>1. k \in Goroutines BY DEF Goroutines
  <1>2. /\ TypeOK /\ Placed /\ MapsClean /\ ConnPlaced(k) /\ ReportFits
        /\ \A h \in Goroutines : Holding(h)
        /\ \A v \in Users : NotTwice(v) /\ Whole(v)
    BY <1>1, Parts DEF IInv
  <1>3. PICK c \in Conns, u \in Users, m \in Goroutines :
          c = table[k] /\ u = user[k] /\ m = by[k]
    BY <1>1, <1>2, Parts DEF ConnPlaced
  <1>4. Storage(k) = <<c, u, m>> /\ value[Storage(k)] = Val(c, u, m) BY <1>3 DEF Storage, Val
  <1>5. /\ Entry(c, u) # None /\ counter # None /\ m # None
    BY <1>1, <1>2, <1>3, Parts DEF Holding
  <1>6. /\ value' \in [Storages -> Nat]
        /\ \A d \in Conns, v \in Users, q \in Goroutines :
             Val(d, v, q)' = IF d = c /\ v = u /\ q = m THEN n ELSE Val(d, v, q)
    <2>1. value' = [value EXCEPT ![<<c, u, m>>] = n] BY <1>4
    <2> QED BY <1>2, <2>1 DEF TypeOK, Storages, Val
  <1>7. \A d \in Conns, v \in Users, q \in Goroutines :
          value'[<<d, v, q>>] = IF d = c /\ v = u /\ q = m THEN n ELSE Val(d, v, q)
    BY <1>6 DEF Val
  <1>8. /\ counter' = counter /\ counters' = counters /\ at' = at /\ table' = table /\ by' = by
        /\ user' = user /\ i' = i /\ got' = got /\ reported' = reported /\ up' = up
    BY DEF maps, locals, walk
  <1>9. /\ carried' \in [Users -> Nat]
        /\ \A v \in Users : carried'[v] = IF v = u THEN carried[u] + e ELSE carried[v]
        /\ \A v \in Users : carried[v] \in Nat /\ reported[v] \in Nat
    BY <1>2, <1>3 DEF TypeOK
  <1>10. TypeOK' BY <1>2, <1>3, <1>6, <1>8, <1>9 DEF TypeOK
  <1>11. Placed' BY <1>2, <1>8 DEF Placed, ConnPlaced, ReportPlaced
  <1>12. MapsClean'
    <2>1. \A d \in Conns, v \in Users : Entry(d, v) = None => ~(d = c /\ v = u) BY <1>5
    <2> QED BY <1>2, <1>6, <1>8, <2>1 DEF MapsClean, Entry
  <1>13. ASSUME NEW h \in Goroutines PROVE Holding(h)'
    <2>1. Holding(h) BY <1>2
    <2>2. CASE at[h] = "put"
      <3>1. table[h] \in Conns /\ user[h] \in Users
        BY <2>2, Parts DEF ConnPlaced, ReportPlaced
      <3>2. ~(c = table[h] /\ u = user[h] /\ m = h) BY <1>1, <1>3, <2>1, <2>2 DEF Holding
      <3>3. value'[<<table[h], user[h], h>>] = 0 BY <1>7, <2>1, <2>2, <3>1, <3>2 DEF Holding
      <3> QED BY <1>8, <2>1, <2>2, <3>3 DEF Holding, Entry, Val
    <2>3. CASE at[h] # "put" BY <1>8, <2>1, <2>3 DEF Holding, Entry
    <2> QED BY <2>2, <2>3
  <1>14. counter \in Conns BY <1>2, <1>5 DEF TypeOK
  <1>15. ASSUME NEW v \in Users
         PROVE  Counted(v)' = IF v = u /\ c = counter /\ m = Entry(c, u) THEN n ELSE Counted(v)
    <2>1. Counted(v)' = IF Entry(counter, v) = None THEN 0 ELSE value'[<<counter, v, Entry(counter, v)>>]
      BY <1>5, <1>8 DEF Counted, Entry
    <2>2. Counted(v) = IF Entry(counter, v) = None THEN 0 ELSE Val(counter, v, Entry(counter, v))
      BY <1>5 DEF Counted, Val
    <2>3. Entry(counter, v) \in Goroutines \cup {None} BY <1>2, <1>14, ReadTypes
    <2> QED BY <1>5, <1>7, <1>14, <2>1, <2>2, <2>3
  <1>16. /\ (c = counter /\ m = Entry(c, u)) => Counted(u) = Val(c, u, m)
         /\ Val(c, u, m) \in Nat /\ \A v \in Users : Counted(v) \in Nat
    BY <1>2, <1>5, ReadTypes DEF Counted, Val
  <1>17. \A v \in Users : NotTwice(v)'
    BY <1>2, <1>4, <1>8, <1>9, <1>15, <1>16 DEF NotTwice
  <1>18. ASSUME NEW v \in Users PROVE Whole(v)'
    <2> SUFFICES ASSUME v \notin under' PROVE Whole(v)' BY DEF Whole
    <2>2. v \notin under BY <1>3
    <2>3. /\ reported[v] + Counted(v) = carried[v]
          /\ \A j \in Conns : ConnWhole(j, v)
          /\ \A d \in Conns \ {counter}, q \in Goroutines : Val(d, v, q) = 0
          /\ ReportWhole(v)
      BY <1>2, <2>2 DEF Whole
    <2>4. v = u => c = counter /\ m = Entry(c, u) /\ n = Val(c, u, m) + e
      BY <1>3, <1>4, <1>5, <2>3, Parts, <1>1 DEF ConnWhole
    <2>5. reported'[v] + Counted(v)' = carried'[v]
      BY <1>8, <1>9, <1>15, <1>16, <2>3, <2>4
    <2>6. \A d \in Conns \ {counter'}, q \in Goroutines : Val(d, v, q)' = 0
      BY <1>6, <1>8, <2>3, <2>4
    <2>7. (\A j \in Conns : ConnWhole(j, v)') /\ ReportWhole(v)'
      BY <1>8, <2>3 DEF ConnWhole, ReportWhole, Entry
    <2> QED BY <2>5, <2>6, <2>7 DEF Whole
  <1>19. ReportFits'
    <2>1. Report \in Goroutines BY DEF Goroutines
    <2> SUFFICES ASSUME table[Report] # None PROVE ReportFits' BY <1>8 DEF ReportFits
    <2>2. PICK t \in Conns, w \in Users : t = table[Report] /\ w = user[Report] BY <2>1, Parts
    <2>3. Maker \in Goroutines \cup {None} BY <1>2, <2>1, <2>2, Parts, ReadTypes DEF Maker
    <2>4. PICK q \in Goroutines \cup {None} : q = Maker BY <2>3
    <2>5. Maker' = q BY <1>8, <2>4 DEF Maker, Entry
    <2>6. Pending = IF at[Report] \in {"look", "read"} THEN IF q = None THEN 0 ELSE Val(t, w, q) ELSE got
      BY <2>2, <2>4 DEF Pending
    <2>7. Pending' = IF at[Report] \in {"look", "read"} THEN IF q = None THEN 0 ELSE value'[<<t, w, q>>] ELSE got
      BY <1>8, <2>2, <2>5 DEF Pending, Val
    <2>8. Pending' = Pending \/ (Pending' = n /\ Pending = Val(c, u, m) /\ t = c /\ w = u /\ q = m)
      BY <1>7, <2>2, <2>6, <2>7
    <2>9. Pending \in Nat BY <1>2, <2>2, <2>4, <2>6, ReadTypes DEF TypeOK
    <2>10. /\ reported[w] + Pending <= carried[w]
           /\ (t # counter \/ q # Entry(counter, w)) => reported[w] + Pending + Counted(w) <= carried[w]
      BY <1>2, <2>2, <2>4 DEF ReportFits, PendingFits
    <2>11. reported[w] + Pending' <= carried'[w]
      BY <1>4, <1>9, <1>16, <2>2, <2>8, <2>9, <2>10
    <2>12. (t # counter \/ q # Entry(counter, w)) => reported[w] + Pending' + Counted(w)' <= carried'[w]
      <3>1. Counted(w)' = IF w = u /\ c = counter /\ m = Entry(c, u) THEN n ELSE Counted(w)
        BY <1>15
      <3> QED BY <1>4, <1>9, <1>16, <2>2, <2>8, <2>9, <2>10, <3>1
    <2>13. PendingFits(user[Report])'
      <3>1. Counted(user[Report])' = Counted(w)' BY <1>8, <2>2 DEF Counted, Entry
      <3> QED BY <1>8, <2>2, <2>5, <2>11, <2>12, <3>1 DEF PendingFits, Entry
    <2> QED BY <2>13 DEF ReportFits
  <1> QED BY <1>10, <1>11, <1>12, <1>13, <1>17, <1>18, <1>19 DEF IInv

\* ReadBuffer, WriteBuffer: what is carried is added.
LEMMA AddsKeeps == ASSUME IInv, NEW k \in Conns, Adds(k) PROVE IInv'
  <1> DEFINE n == value[Storage(k)] + 1
  <1>1. k \in Goroutines /\ k # Report BY SingTrafficAssumption DEF Goroutines
  <1>2. at[k] = "live" BY DEF Adds, CarriesOne
  <1>3. Storage(k) \in Storages /\ value[Storage(k)] \in Nat
    BY <1>1, <1>2, Parts DEF Storage, Storages, ConnPlaced, TypeOK
  <1>4. /\ value' = [value EXCEPT ![Storage(k)] = n] /\ n \in Nat
        /\ carried' = [carried EXCEPT ![user[k]] = @ + 1]
        /\ UNCHANGED <<up, maps, locals, walk, reported, under>>
    BY <1>3 DEF Adds, CarriesOne
  <1>5. n <= value[Storage(k)] + 1 BY <1>3
  <1>6. under' \in {under, under \cup {user[k]}} BY <1>4
  <1>7. n = value[Storage(k)] + 1 OBVIOUS
  <1> HIDE DEF n
  <1> QED BY <1>2, <1>4, <1>5, <1>6, <1>7, WritesKeep

\* Read, Write: the counter is set, and what it had is given up.
LEMMA SetsKeeps == ASSUME IInv, NEW k \in Conns, Sets(k) PROVE IInv'
  <1>1. k \in Goroutines /\ k # Report BY SingTrafficAssumption DEF Goroutines
  <1>2. at[k] = "live" BY DEF Sets, CarriesOne
  <1>3. Storage(k) \in Storages /\ value[Storage(k)] \in Nat
    BY <1>1, <1>2, Parts DEF Storage, Storages, ConnPlaced, TypeOK
  <1>4. /\ value' = [value EXCEPT ![Storage(k)] = 1]
        /\ carried' = [carried EXCEPT ![user[k]] = @ + 1]
        /\ under' = IF value[Storage(k)] = 0 THEN under ELSE under \cup {user[k]}
        /\ UNCHANGED <<up, maps, locals, walk, reported>>
    BY DEF Sets, SetsTo, CarriesOne
  <1>5. 1 <= value[Storage(k)] + 1 BY <1>3
  <1>6. under' \in {under, under \cup {user[k]}} BY <1>4
  <1>7. user[k] \notin under' => 1 = value[Storage(k)] + 1
    <2>1. user[k] \notin under' => value[Storage(k)] = 0 BY <1>4
    <2> QED BY <2>1
  <1> QED BY <1>2, <1>4, <1>5, <1>6, <1>7, WritesKeep

\* The same with nothing read or written.
LEMMA SetsToNothingKeeps == ASSUME IInv, NEW k \in Conns, SetsToNothing(k) PROVE IInv'
  <1>1. k \in Goroutines /\ k # Report BY SingTrafficAssumption DEF Goroutines
  <1>2. at[k] = "live" BY DEF SetsToNothing
  <1>3. Storage(k) \in Storages /\ value[Storage(k)] \in Nat /\ user[k] \in Users
    BY <1>1, <1>2, Parts DEF Storage, Storages, ConnPlaced, TypeOK
  <1>4. /\ value' = [value EXCEPT ![Storage(k)] = 0] /\ carried' = carried
        /\ under' = IF value[Storage(k)] = 0 THEN under ELSE under \cup {user[k]}
        /\ value[Storage(k)] # 0
        /\ UNCHANGED <<up, maps, locals, walk, reported>>
    BY DEF SetsToNothing, SetsTo
  <1>5. 0 <= value[Storage(k)] + 0 BY <1>3
  <1>6. under' \in {under, under \cup {user[k]}} /\ user[k] \in under' BY <1>4
  <1>7. carried' = [carried EXCEPT ![user[k]] = @ + 0]
    <2>1. carried \in [Users -> Nat] BY <1>1, Parts DEF TypeOK
    <2>2. carried[user[k]] + 0 = carried[user[k]] BY <1>3, <2>1
    <2> QED BY <1>3, <1>4, <2>1, <2>2
  <1> QED BY <1>2, <1>4, <1>5, <1>6, <1>7, WritesKeep

\* Clears: what was read is reported, once; what came since is given up.
LEMMA ClearsKeeps == ASSUME IInv, Clears PROVE IInv'
  <1> USE SingTrafficAssumption
  <1>1. Report \in Goroutines BY DEF Goroutines
  <1>2. /\ TypeOK /\ Placed /\ MapsClean /\ ReportPlaced /\ ReportFits /\ at[Report] = "clear"
        /\ \A h \in Goroutines : Holding(h)
        /\ \A v \in Users : NotTwice(v) /\ Whole(v)
    BY <1>1, Parts DEF IInv, Clears
  <1>3. PICK c \in Conns, u \in Users, m \in Goroutines :
          c = table[Report] /\ u = user[Report] /\ m = by[Report]
    BY <1>1, <1>2, Parts DEF ReportPlaced
  <1>4. /\ value' = [value EXCEPT ![<<c, u, m>>] = 0]
        /\ under' = IF Val(c, u, m) = got THEN under ELSE under \cup {u}
        /\ reported' = [reported EXCEPT ![u] = @ + got]
        /\ got' = 0 /\ i' = i + 1 /\ at' = [at EXCEPT ![Report] = "walk"]
        /\ table' = [table EXCEPT ![Report] = None] /\ by' = [by EXCEPT ![Report] = None]
        /\ user' = [user EXCEPT ![Report] = None]
        /\ UNCHANGED <<up, counter, counters, carried>>
    BY <1>3 DEF Clears, Leaves, Goto, Storage, Val, maps
  <1>5. /\ value' \in [Storages -> Nat]
        /\ \A d \in Conns, v \in Users, q \in Goroutines :
             Val(d, v, q)' = IF d = c /\ v = u /\ q = m THEN 0 ELSE Val(d, v, q)
    BY <1>2, <1>4 DEF TypeOK, Storages, Val
  <1>6. \A d \in Conns, v \in Users, q \in Goroutines :
          value'[<<d, v, q>>] = IF d = c /\ v = u /\ q = m THEN 0 ELSE Val(d, v, q)
    BY <1>5 DEF Val
  <1>7. /\ at'[Report] = "walk" /\ table'[Report] = None /\ by'[Report] = None
        /\ \A h \in Goroutines \ {Report} : /\ at'[h] = at[h] /\ user'[h] = user[h]
                                            /\ table'[h] = table[h] /\ by'[h] = by[h]
    BY <1>1, <1>2, <1>4 DEF TypeOK
  <1>8. /\ counter # None /\ counter \in Conns /\ m # None /\ c # None /\ Entry(c, u) # None
        /\ got \in Nat /\ i \in Nat
    BY <1>1, <1>2, <1>3, Parts DEF Holding, TypeOK
  <1>9. /\ reported' \in [Users -> Nat]
        /\ \A v \in Users : reported'[v] = IF v = u THEN reported[u] + got ELSE reported[v]
        /\ \A v \in Users : carried[v] \in Nat /\ reported[v] \in Nat
    BY <1>2, <1>4, <1>8 DEF TypeOK
  <1>10. i' \in Nat /\ i' # 0 BY <1>4, <1>8
  <1>11. TypeOK' BY <1>1, <1>2, <1>4, <1>5, <1>9, <1>10 DEF TypeOK
  <1>12. Placed'
    <2>1. ReportPlaced' BY <1>4, <1>7, <1>10 DEF ReportPlaced
    <2> QED BY <1>2, <1>7, <2>1, ReportMoves
  <1>13. MapsClean' BY <1>2, <1>4, <1>5 DEF MapsClean, Entry
  <1>14. ASSUME NEW h \in Goroutines PROVE Holding(h)'
    <2>1. Holding(h) BY <1>2
    <2>2. CASE h = Report BY <1>7, <2>2 DEF Holding
    <2>3. CASE h # Report /\ at[h] = "put"
      <3>1. table[h] \in Conns /\ user[h] \in Users BY <2>3, Parts DEF ConnPlaced
      <3>2. value'[<<table[h], user[h], h>>] = 0 BY <1>6, <2>1, <2>3, <3>1 DEF Holding
      <3>3. h # None BY DEF Goroutines
      <3>4. \A j \in Goroutines : ~(by'[j] = h /\ table'[j] = table[h] /\ user'[j] = user[h])
        BY <1>7, <2>1, <2>3, <3>3 DEF Holding
      <3> QED BY <1>4, <1>7, <2>1, <2>3, <3>2, <3>4 DEF Holding, Entry, Val
    <2>4. CASE h # Report /\ at[h] = "store"
      <3>1. h \in Conns /\ h # None BY <2>4 DEF Goroutines
      <3>2. \A j \in Goroutines : table'[j] # h BY <1>7, <2>1, <2>4, <3>1 DEF Holding
      <3> QED BY <1>4, <1>7, <2>1, <2>4, <3>2 DEF Holding, Entry
    <2>5. CASE h # Report /\ at[h] \notin {"put", "store"}
      BY <1>4, <1>7, <2>1, <2>5 DEF Holding, Entry
    <2> QED BY <2>2, <2>3, <2>4, <2>5
  <1>15. ASSUME NEW v \in Users
         PROVE  Counted(v)' = IF v = u /\ c = counter /\ m = Entry(c, u) THEN 0 ELSE Counted(v)
    <2>1. Counted(v)' = IF Entry(counter, v) = None THEN 0 ELSE value'[<<counter, v, Entry(counter, v)>>]
      BY <1>4, <1>8 DEF Counted, Entry
    <2>2. Counted(v) = IF Entry(counter, v) = None THEN 0 ELSE Val(counter, v, Entry(counter, v))
      BY <1>8 DEF Counted, Val
    <2>3. Entry(counter, v) \in Goroutines \cup {None} BY <1>2, <1>8, ReadTypes
    <2> QED BY <1>6, <1>8, <2>1, <2>2, <2>3
  <1>16. /\ (c = counter /\ m = Entry(c, u)) => Counted(u) = Val(c, u, m)
         /\ \A v \in Users : Counted(v) \in Nat
    BY <1>2, <1>8, ReadTypes DEF Counted, Val
  <1>17. ASSUME NEW v \in Users PROVE NotTwice(v)'
    <2>1. Maker = m /\ Pending = got BY <1>2, <1>3 DEF Maker, Pending
    <2>2. /\ reported[u] + got <= carried[u]
          /\ (c # counter \/ m # Entry(counter, u)) => reported[u] + got + Counted(u) <= carried[u]
      BY <1>2, <1>3, <1>8, <2>1 DEF ReportFits, PendingFits
    <2> QED BY <1>2, <1>4, <1>8, <1>9, <1>15, <1>16, <2>2 DEF NotTwice
  <1>18. ASSUME NEW v \in Users PROVE Whole(v)'
    <2> SUFFICES ASSUME v \notin under' PROVE Whole(v)' BY DEF Whole
    <2>1. v \notin under BY <1>4
    <2>2. /\ reported[v] + Counted(v) = carried[v]
          /\ \A j \in Conns : ConnWhole(j, v)
          /\ \A d \in Conns \ {counter}, q \in Goroutines : Val(d, v, q) = 0
          /\ ReportWhole(v)
      BY <1>2, <2>1 DEF Whole
    <2>3. v = u => Val(c, u, m) = got BY <1>4
    <2>4. v = u => (c = counter /\ m = Entry(c, u)) \/ (c # counter /\ got = 0)
      BY <1>3, <1>8, <2>2 DEF ReportWhole
    <2>5. reported'[v] + Counted(v)' = carried'[v]
      BY <1>4, <1>8, <1>9, <1>15, <1>16, <2>2, <2>3, <2>4
    <2>6. \A d \in Conns \ {counter'}, q \in Goroutines : Val(d, v, q)' = 0
      BY <1>4, <1>5, <2>2
    <2>7. ASSUME NEW j \in Conns PROVE ConnWhole(j, v)'
      <3>1. j \in Goroutines \ {Report} /\ ConnWhole(j, v) BY <2>2 DEF Goroutines
      <3> QED BY <1>4, <1>7, <3>1 DEF ConnWhole, Entry
    <2>8. ReportWhole(v)' BY <1>4, <1>7 DEF ReportWhole
    <2> QED BY <2>5, <2>6, <2>7, <2>8 DEF Whole
  <1>19. ReportFits' BY <1>7 DEF ReportFits
  <1> QED BY <1>11, <1>12, <1>13, <1>14, <1>17, <1>18, <1>19 DEF IInv

\* The invariant is inductive.
LEMMA NextIInv == IInv /\ [Next]_vars => IInv'
  <1> SUFFICES ASSUME IInv, [Next]_vars PROVE IInv' OBVIOUS
  <1> USE SingTrafficAssumption
  <1>1. CASE UNCHANGED vars
    <2>1. /\ counter' = counter /\ counters' = counters /\ value' = value /\ at' = at
          /\ user' = user /\ table' = table /\ by' = by /\ i' = i /\ got' = got
          /\ carried' = carried /\ reported' = reported /\ under' = under /\ up' = up
      BY <1>1 DEF vars, maps, locals, walk
    <2>2. TypeOK' BY <2>1 DEF IInv, TypeOK
    <2>3. Placed' /\ MapsClean' BY <2>1 DEF IInv, Placed, ConnPlaced, ReportPlaced, MapsClean, Entry, Val
    <2>4. \A g \in Goroutines : Holding(g)' BY <2>1 DEF IInv, Holding, Entry, Val
    <2>5. \A u \in Users : Counted(u)' = Counted(u) BY <2>1 DEF Counted, Entry
    <2>6. \A u \in Users : NotTwice(u)' /\ Whole(u)'
      BY <2>1, <2>5 DEF IInv, NotTwice, Whole, ConnWhole, ReportWhole, Entry, Val
    <2>7. ReportFits'
      <3>1. Maker' = Maker BY <2>1 DEF Maker, Entry
      <3>2. Pending' = Pending BY <2>1, <3>1 DEF Pending, Val
      <3>3. Counted(user[Report])' = Counted(user[Report]) BY <2>1 DEF Counted, Entry
      <3> QED BY <2>1, <3>1, <3>2, <3>3 DEF IInv, ReportFits, PendingFits, Entry
    <2> QED BY <2>2, <2>3, <2>4, <2>6, <2>7 DEF IInv
  <1>2. ASSUME NEW k \in Conns, Connection(k) PROVE IInv'
    <2>1. k \in Goroutines /\ k # Report BY DEF Goroutines
    <2>2. CASE Puts(k, "live") BY <2>1, <2>2, PutsKeeps
    <2> QED
      BY <1>2, <2>2, ConnectsKeeps, StoresKeeps, ConnFindsKeeps, AddsKeeps, SetsKeeps,
         SetsToNothingKeeps, DisconnectsKeeps DEF Connection
  <1>3. CASE ReportStep
    <2>1. Report \in Goroutines BY DEF Goroutines
    <2>2. CASE ReportBegins
      <3>1. /\ at' = [at EXCEPT ![Report] = "walk"] /\ i' = 1 /\ at[Report] = "idle"
            /\ UNCHANGED <<up, maps, value, user, table, by, got, carried, reported, under>>
        BY <2>2 DEF ReportBegins, Goto
      <3> QED BY <3>1, BetweenKeeps
    <2>3. CASE WalkEnds
      <3>1. /\ at' = [at EXCEPT ![Report] = "idle"] /\ i' = 0 /\ at[Report] = "walk"
            /\ UNCHANGED <<up, maps, value, user, table, by, got, carried, reported, under>>
        BY <2>3 DEF WalkEnds, Goto
      <3> QED BY <3>1, BetweenKeeps
    <2>4. CASE Puts(Report, "clear") BY <2>1, <2>4, PutsKeeps
    <2> QED
      BY <1>3, <2>2, <2>3, <2>4, LoadsCounterKeeps, LooksKeeps, ReadsKeeps, ReportFindsKeeps,
         ClearsKeeps DEF ReportStep
  <1>4. CASE \E g \in Goroutines : MapOverlaps(g) BY <1>4, MapOverlapsKeeps
  <1> QED BY <1>1, <1>2, <1>3, <1>4 DEF Next

\* It holds in every state.
LEMMA Inductive == Spec => []IInv
  <1> QED BY InitIInv, NextIInv, PTL DEF Spec

\* The variables have their types, while GetCounter, Load and Store of several goroutines
\* interleave.
THEOREM TypeCorrect == Spec => []TypeOK
  <1>1. IInv => TypeOK BY DEF IInv
  <1> QED BY <1>1, Inductive, PTL

\* However connections make, replace and set counters while GetUserTraffic reads and
\* clears them, no byte is reported twice, and none is lost of a user of whom the code
\* has not given one up at a place that is named (`under`).
THEOREM NothingTwice == Spec => []Accounted
  <1>1. IInv => Accounted BY DEF IInv, NotTwice, Whole, Accounted
  <1> QED BY <1>1, Inductive, PTL
=============================================================================
