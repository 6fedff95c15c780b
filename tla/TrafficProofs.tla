---------------------------- MODULE TrafficProofs ----------------------------
(***************************************************************************)
(* Proofs about Traffic: no byte is booked twice or on another user, and   *)
(* none is lost, but for the users that over and under name.  Types is the *)
(* part of TypeOK that this needs.                                         *)
(***************************************************************************)
EXTENDS Traffic, TLAPS, FiniteSetTheorems

Types ==
    /\ counted \in [Users -> Nat] /\ strays \in [Users -> Nat]
    /\ value \in [Users -> Nat \cup {None}] /\ carried \in [Users -> Nat]
    /\ userList \in Lists
    /\ mAt = "diff" => newU \in Lists
    /\ rAt \in {"idle", "take", "book", "send", "crashed"}
    /\ i \in Nat /\ got \in Nat
    /\ rows \in [Users -> Nat] /\ booked \in [Users -> Nat]

\* A counted connection has a counter, and one that has none is known.
Counters ==
    \A u \in Users : (counted[u] > 0 => value[u] # None) /\ (strays[u] > 0 => u \in under)

\* Outside a report nothing is to be posted; in a walk over a list that stays,
\* those still to come have no row yet, and the index never leaves the list.
Walk ==
    /\ rAt \in {"idle", "crashed"} => rows = Nothing
    /\ rAt \in {"take", "book"} => i > 0
    /\ rAt \in {"take", "book"} /\ over # Users =>
         /\ n = Len(userList)
         /\ rAt = "book" => i <= n
         /\ \A j \in i..Len(userList) : rows[userList[j]] = 0

IInv == Types /\ Counters /\ Walk /\ NeverOverbooked /\ NothingLost

-----------------------------------------------------------------------------
\* A list of the panel names users, each once.
LEMMA ListFacts ==
    ASSUME NEW L, L \in Lists
    PROVE  /\ Len(L) \in Nat
           /\ \A j \in 1..Len(L) : L[j] \in Users
           /\ \A j, k \in 1..Len(L) : L[j] = L[k] => j = k
  <1>1. PICK m \in 0..Cardinality(Users) : L \in [1..m -> Users] BY DEF Lists
  <1>2. m \in Nat OBVIOUS
  <1>3. L \in Seq(Users) /\ Len(L) = m BY <1>1, <1>2
  <1>4. IsInjective(L) BY DEF Lists
  <1> QED BY <1>1, <1>3, <1>4 DEF IsInjective

LEMMA InitIInv == Init => IInv
  <1> SUFFICES ASSUME Init PROVE IInv OBVIOUS
  <1> USE TrafficAssumption DEF Init, Nothing
  <1>1. Types BY DEF Types
  <1>2. Counters BY DEF Counters
  <1>3. Walk BY DEF Walk
  <1>4. NeverOverbooked /\ NothingLost BY DEF NeverOverbooked, NothingLost, InHand, Read
  <1> QED BY <1>1, <1>2, <1>3, <1>4 DEF IInv

-----------------------------------------------------------------------------
\* Connections: what is carried is counted, or the user is in under.
LEMMA ConnectionKeepsIInv ==
    ASSUME IInv, NEW u \in Users, Connection(u)
    PROVE  IInv'
  <1> USE TrafficAssumption
      DEF IInv, account, doubt, report, monitor, conns, Add, Sub
  <1>1. CASE Connects(u)
    <2>1. Types' BY <1>1 DEF Connects, Types
    <2>2. Counters' BY <1>1 DEF Connects, Counters, Types
    <2>3. Walk' BY <1>1 DEF Connects, Walk
    <2>4. NeverOverbooked' /\ NothingLost'
      BY <1>1 DEF Connects, NeverOverbooked, NothingLost, InHand, Read
    <2> QED BY <2>1, <2>2, <2>3, <2>4
  <1>2. CASE Registers(u)
    <2>1. Types' BY <1>2 DEF Registers, Types
    <2>2. Counters' BY <1>2 DEF Registers, Counters, Types
    <2>3. Walk' BY <1>2 DEF Registers, Walk
    <2>4. \A w \in Users : Read(w)' = Read(w) BY <1>2 DEF Registers, Read, Types
    <2>5. NeverOverbooked' BY <1>2, <2>4 DEF Registers, NeverOverbooked, InHand
    <2>6. NothingLost' BY <1>2, <2>4 DEF Registers, NothingLost, InHand
    <2> QED BY <2>1, <2>2, <2>3, <2>5, <2>6
  <1>3. CASE Carries(u)
    <2>1. Types' BY <1>3 DEF Carries, Types, Counters
    <2>2. Counters' BY <1>3 DEF Carries, Counters, Types
    <2>3. Walk' BY <1>3 DEF Carries, Walk
    <2>4. \A w \in Users :
             /\ Read(w) \in Nat /\ carried[w] \in Nat /\ rows[w] \in Nat /\ booked[w] \in Nat
             /\ carried'[w] = IF w = u THEN carried[w] + 1 ELSE carried[w]
             /\ Read(w)' = Read(w) \/ (w = u /\ Read(w)' = Read(w) + 1)
             /\ w \notin under /\ w = u => Read(w)' = Read(w) + 1
      BY <1>3 DEF Carries, Read, Types, Counters
    <2>5. UNCHANGED <<rows, booked, rAt, i, userList, got, over, under>> BY <1>3 DEF Carries
    <2>6. \A w \in Users : /\ InHand(w) \in Nat
                           /\ InHand(w)' = InHand(w) + (Read(w)' - Read(w))
      <3> SUFFICES ASSUME NEW w \in Users
                   PROVE  InHand(w) \in Nat /\ InHand(w)' = InHand(w) + (Read(w)' - Read(w))
        OBVIOUS
      <3> DEFINE h == IF rAt = "book" /\ i <= Len(userList) /\ userList[i] = w THEN got ELSE 0
      <3>1. h \in Nat BY DEF Types
      <3>2. InHand(w) = Read(w) + rows[w] + h BY DEF InHand
      <3>3. InHand(w)' = Read(w)' + rows[w] + h BY <2>5 DEF InHand
      <3>4. Read(w)' \in Nat BY <2>4
      <3> HIDE DEF h
      <3> QED BY <2>4, <3>1, <3>2, <3>3, <3>4
    <2>7. NeverOverbooked'
      <3> SUFFICES ASSUME NEW w \in Users \ over PROVE booked[w] + InHand(w)' <= carried'[w]
        BY <2>5 DEF NeverOverbooked
      <3>1. booked[w] + InHand(w) <= carried[w] BY DEF NeverOverbooked
      <3>2. /\ InHand(w)' = InHand(w) + (Read(w)' - Read(w)) /\ InHand(w) \in Nat
            /\ carried'[w] = (IF w = u THEN carried[w] + 1 ELSE carried[w])
            /\ Read(w)' = Read(w) \/ (w = u /\ Read(w)' = Read(w) + 1)
            /\ carried[w] \in Nat /\ booked[w] \in Nat /\ Read(w) \in Nat
        BY <2>4, <2>6
      <3> QED BY <3>1, <3>2
    <2>8. NothingLost'
      <3> SUFFICES ASSUME NEW w \in Users \ (over \cup under)
                   PROVE  booked[w] + InHand(w)' = carried'[w]
        BY <2>5 DEF NothingLost
      <3>1. booked[w] + InHand(w) = carried[w] BY DEF NothingLost
      <3>2. /\ InHand(w)' = InHand(w) + (Read(w)' - Read(w)) /\ InHand(w) \in Nat
            /\ carried'[w] = (IF w = u THEN carried[w] + 1 ELSE carried[w])
            /\ Read(w)' = (IF w = u THEN Read(w) + 1 ELSE Read(w))
            /\ carried[w] \in Nat /\ booked[w] \in Nat /\ Read(w) \in Nat
        BY <2>4, <2>6
      <3> QED BY <3>1, <3>2
    <2> QED BY <2>1, <2>2, <2>3, <2>7, <2>8
  <1>4. CASE Disconnects(u)
    <2>1. Types' BY <1>4 DEF Disconnects, Types
    <2>2. Counters' BY <1>4 DEF Disconnects, Counters, Types
    <2>3. Walk' BY <1>4 DEF Disconnects, Walk
    <2>4. NeverOverbooked' /\ NothingLost'
      BY <1>4 DEF Disconnects, NeverOverbooked, NothingLost, InHand, Read
    <2> QED BY <2>1, <2>2, <2>3, <2>4
  <1> QED BY <1>1, <1>2, <1>3, <1>4 DEF Connection

\* A new list: outside a walk it moves no traffic, inside one all is in doubt.
LEMMA AssignKeepsIInv ==
    ASSUME IInv, NEW L \in Lists, Assigns(L),
           mAt' = "diff" => newU' \in Lists,
           UNCHANGED <<counted, strays, account, report, booked>>
    PROVE  IInv'
  <1> USE TrafficAssumption DEF IInv, account, report, Assigns
  <1>1. Types' BY DEF Types
  <1>2. Counters' BY DEF Counters
  <1>3. Walk' BY DEF Walk
  <1>4. NeverOverbooked' /\ NothingLost' BY DEF NeverOverbooked, NothingLost, InHand, Read
  <1> QED BY <1>1, <1>2, <1>3, <1>4

\* The monitor: a counter that is unregistered puts its user in under.
LEMMA MonitorKeepsIInv ==
    ASSUME IInv, NodeChanges \/ ListChanges \/ Monitor
    PROVE  IInv'
  <1> USE TrafficAssumption DEF IInv
  <1>1. CASE NodeChanges
    <2>1. PICK L \in Lists : Assigns(L) BY <1>1 DEF NodeChanges
    <2> QED BY <1>1, <2>1, AssignKeepsIInv DEF NodeChanges, conns, Types
  <1>2. CASE ListChanges
    <2> USE <1>2 DEF ListChanges, conns, account, report, doubt
    <2>1. Types' BY DEF Types
    <2>2. Counters' BY DEF Counters
    <2>3. Walk' BY DEF Walk
    <2>4. NeverOverbooked' /\ NothingLost' BY DEF NeverOverbooked, NothingLost, InHand, Read
    <2> QED BY <2>1, <2>2, <2>3, <2>4
  <1>3. CASE DeletesUser
    <2> USE <1>3 DEF DeletesUser, report
    <2>1. PICK u : /\ value' = [value EXCEPT ![u] = None]
                   /\ counted' = [counted EXCEPT ![u] = 0]
                   /\ strays' = [strays EXCEPT ![u] = @ + counted[u]]
                   /\ under' = under \cup {u}
      OBVIOUS
    <2>2. Types'
      <3>1. u \in Users => strays[u] + counted[u] \in Nat BY DEF Types
      <3>2. strays' \in [Users -> Nat] BY <2>1, <3>1 DEF Types
      <3>3. value' \in [Users -> Nat \cup {None}] BY <2>1 DEF Types
      <3>4. counted' \in [Users -> Nat] BY <2>1 DEF Types
      <3> QED BY <3>2, <3>3, <3>4 DEF Types
    <2>3. Counters' BY <2>1 DEF Counters, Types
    <2>4. Walk' BY DEF Walk
    <2>5. \A w \in Users : /\ Read(w)' \in Nat /\ Read(w) \in Nat /\ Read(w)' <= Read(w)
                           /\ w # u => Read(w)' = Read(w)
      BY <2>1 DEF Read, Types
    <2>6. NeverOverbooked' BY <2>5 DEF NeverOverbooked, InHand, Types
    <2>7. NothingLost' BY <2>1, <2>5 DEF NothingLost, InHand
    <2> QED BY <2>2, <2>3, <2>4, <2>6, <2>7
  <1>4. CASE AddsUsers
    <2>1. newU \in Lists /\ Assigns(newU) BY <1>4 DEF AddsUsers, Types
    <2> QED BY <1>4, <2>1, AssignKeepsIInv DEF AddsUsers, conns
  <1> QED BY <1>1, <1>2, <1>3, <1>4 DEF Monitor

-----------------------------------------------------------------------------
\* The walk: traffic goes from the counter to got, and from got to its row.
LEMMA WalkKeepsIInv ==
    ASSUME IInv, ReportBegins \/ Takes \/ Books \/ WalkEnds \/ Panics
    PROVE  IInv'
  <1> USE TrafficAssumption DEF IInv, conns, account, doubt, monitor
  <1>0. /\ Len(userList) \in Nat
        /\ \A j \in 1..Len(userList) : userList[j] \in Users
        /\ \A j, k \in 1..Len(userList) : userList[j] = userList[k] => j = k
    BY ListFacts DEF Types
  <1>1. CASE ReportBegins
    <2> USE <1>1 DEF ReportBegins
    <2>1. Types' BY DEF Types
    <2>2. Counters' BY DEF Counters
    <2>3. Walk' BY <1>0 DEF Walk, Nothing
    <2>4. NeverOverbooked' /\ NothingLost' BY DEF NeverOverbooked, NothingLost, InHand, Read
    <2> QED BY <2>1, <2>2, <2>3, <2>4
  <1>2. CASE Takes
    <2> DEFINE s == userList[i]
    <2>0. s \in Users /\ Read(s) \in Nat /\ s = userList[i]
      <3>1. i \in 1..Len(userList) BY <1>0, <1>2 DEF Takes, Walk, Types
      <3> QED BY <1>0, <3>1 DEF Types, Read
    <2> HIDE DEF s
    <2>1. CASE over = Users
      <3>1. Types'
        <4>1. got' \in Nat BY <1>2, <2>0 DEF Takes
        <4>2. value' \in [Users -> Nat \cup {None}] BY <1>2, <2>0 DEF Takes, Types
        <4> QED BY <1>2, <4>1, <4>2 DEF Takes, Types
      <3>2. Counters' BY <1>2, SMTT(20) DEF Takes, Counters, Types
      <3>3. Walk' BY <1>2, <2>1 DEF Takes, Walk, Types
      <3>4. NeverOverbooked' /\ NothingLost' BY <1>2, <2>1 DEF Takes, NeverOverbooked, NothingLost
      <3> QED BY <3>1, <3>2, <3>3, <3>4
    <2>2. CASE over # Users
      <3>1. i \in 1..Len(userList) /\ s \in Users /\ s = userList[i]
        BY <1>0, <1>2, <2>0 DEF Takes, Walk, Types
      <3>2. Types'
        <4>1. got' \in Nat BY <1>2, <2>0 DEF Takes
        <4>2. value' \in [Users -> Nat \cup {None}] BY <1>2, <2>0 DEF Takes, Types
        <4> QED BY <1>2, <4>1, <4>2 DEF Takes, Types
      <3>3. Counters' BY <1>2, SMTT(20) DEF Takes, Counters, Types
      <3>4. Walk' BY <1>0, <1>2, <2>2, <3>1 DEF Takes, Walk, Types
      <3>5. \A w \in Users : InHand(w)' = InHand(w)
        <4> SUFFICES ASSUME NEW w \in Users PROVE InHand(w)' = InHand(w) OBVIOUS
        <4>1. InHand(w) = Read(w) + rows[w] BY <1>2, SMTT(20) DEF Takes, InHand, Types, Read
        <4>2. CASE w = s /\ got' > 0
          <5>1. Read(w)' = 0 /\ got' = Read(w) BY <1>2, <2>0, <4>2 DEF Takes, Read, Types
          <5>2. InHand(w)' = 0 + rows[w] + got'
            BY <1>2, <3>1, <4>2, <5>1 DEF Takes, InHand, Types
          <5> QED BY <4>1, <5>1, <5>2, <3>2 DEF Types
        <4>3. CASE w # s \/ ~(got' > 0)
          <5>1. Read(w)' = Read(w) BY <1>2, <2>0, <4>3 DEF Takes, Read, Types
          <5>2. InHand(w)' = Read(w) + rows[w]
            BY <1>2, <4>3, <5>1, SMTT(20) DEF Takes, InHand, Types, Read
          <5> QED BY <4>1, <5>2
        <4> QED BY <4>2, <4>3
      <3>6. NeverOverbooked' /\ NothingLost'
        BY <1>2, <3>5 DEF Takes, NeverOverbooked, NothingLost
      <3> QED BY <3>2, <3>3, <3>4, <3>6
    <2> QED BY <2>1, <2>2
  <1>3. CASE Books
    <2> DEFINE s == userList[i]
    <2>1. Types'
      <3>1. rows' \in [Users -> Nat] BY <1>3 DEF Books, Types
      <3>2. i' \in Nat /\ got' \in Nat /\ rAt' = "take" BY <1>3 DEF Books, Types
      <3> QED BY <1>3, <3>1, <3>2 DEF Books, Types
    <2>2. Counters' BY <1>3 DEF Books, Counters
    <2>3. CASE over = Users
      <3>1. Walk' BY <1>3, <2>3 DEF Books, Walk, Types
      <3>2. NeverOverbooked' /\ NothingLost' BY <1>3, <2>3 DEF Books, NeverOverbooked, NothingLost
      <3> QED BY <2>1, <2>2, <3>1, <3>2
    <2>4. CASE over # Users
      <3>1. i \in 1..Len(userList) /\ s \in Users /\ rows[s] = 0
        BY <1>0, <1>3, <2>4 DEF Books, Walk, Types
      <3>2. Walk' BY <1>0, <1>3, <2>4, <3>1 DEF Books, Walk, Types
      <3>3. \A w \in Users : InHand(w)' = InHand(w)
        <4> SUFFICES ASSUME NEW w \in Users PROVE InHand(w)' = InHand(w) OBVIOUS
        <4>1. Read(w)' = Read(w) /\ Read(w) \in Nat BY <1>3 DEF Books, Read, Types
        <4>2. rows'[w] = (IF w = s THEN got ELSE rows[w]) BY <1>3 DEF Books, Types
        <4>3. InHand(w)' = Read(w) + rows'[w] + 0 BY <1>3, <4>1 DEF Books, InHand
        <4>4. InHand(w) = Read(w) + rows[w] + (IF w = s THEN got ELSE 0)
          BY <1>3, <3>1 DEF Books, InHand
        <4> QED BY <3>1, <4>1, <4>2, <4>3, <4>4 DEF Types
      <3>4. NeverOverbooked' /\ NothingLost'
        BY <1>3, <3>3 DEF Books, NeverOverbooked, NothingLost
      <3> QED BY <2>1, <2>2, <3>2, <3>4
    <2> QED BY <2>3, <2>4
  <1>4. CASE WalkEnds
    <2> USE <1>4 DEF WalkEnds
    <2>1. Types' BY DEF Types
    <2>2. Counters' BY DEF Counters
    <2>3. Walk' BY DEF Walk
    <2>4. NeverOverbooked' /\ NothingLost' BY DEF NeverOverbooked, NothingLost, InHand, Read
    <2> QED BY <2>1, <2>2, <2>3, <2>4
  <1>5. CASE Panics
    <2>1. over = Users BY <1>0, <1>5 DEF Panics, Walk, Types
    <2>2. Types' BY <1>5 DEF Panics, Types, Nothing
    <2>3. Counters' BY <1>5 DEF Panics, Counters, Nothing
    <2>4. Walk' BY <1>5 DEF Panics, Walk, Nothing
    <2>5. NeverOverbooked' /\ NothingLost' BY <1>5, <2>1 DEF Panics, NeverOverbooked, NothingLost
    <2> QED BY <2>2, <2>3, <2>4, <2>5
  <1> QED BY <1>1, <1>2, <1>3, <1>4, <1>5

\* The request: rows go to the panel's account, or their users are in doubt.
LEMMA PostKeepsIInv ==
    ASSUME IInv, Answered \/ Refused \/ NoAnswer
    PROVE  IInv'
  <1> USE TrafficAssumption DEF IInv, conns, account, doubt, monitor, Nothing, Receives, Reported
  <1>1. /\ rAt = "send" /\ UNCHANGED <<counted, strays, value, carried, userList, mAt, newU, i, got>>
        /\ \/ rAt' = "send" /\ rows' = rows
           \/ rAt' = "idle" /\ rows' = Nothing
        /\ booked' = booked \/ booked' = [u \in Users |-> booked[u] + rows[u]]
        /\ under \subseteq under'
    BY DEF Answered, Refused, NoAnswer
  <1>2. Types' BY <1>1 DEF Types
  <1>3. Counters' BY <1>1 DEF Counters
  <1>4. Walk' BY <1>1 DEF Walk
  <1>5. \A u \in Users :
           /\ Read(u)' = Read(u) /\ Read(u) \in Nat /\ rows[u] \in Nat /\ booked[u] \in Nat
           /\ carried[u] \in Nat
           /\ InHand(u) = Read(u) + rows[u]
           /\ InHand(u)' = Read(u) + rows'[u]
    BY <1>1, <1>2 DEF Read, InHand, Types
  <1>6. CASE Answered
    <2>1. \A u \in Users : booked'[u] = booked[u] + rows[u] /\ rows'[u] = 0 BY <1>6 DEF Answered
    <2>2. UNCHANGED <<over, under, carried>> BY <1>6 DEF Answered
    <2> QED BY <1>2, <1>3, <1>4, <1>5, <2>1, <2>2 DEF NeverOverbooked, NothingLost
  <1>7. CASE Refused
    <2>1. /\ \A u \in Users : rows'[u] = 0 /\ (u \notin under' => ~(rows[u] > 0))
          /\ UNCHANGED <<over, booked, carried>>
      BY <1>7 DEF Refused
    <2>2. NeverOverbooked' BY <1>5, <2>1 DEF NeverOverbooked
    <2>3. NothingLost' BY <1>1, <1>5, <2>1 DEF NothingLost
    <2> QED BY <1>2, <1>3, <1>4, <2>2, <2>3
  <1>8. CASE /\ NoAnswer /\ Receives /\ UNCHANGED under
             /\ over' = (IF tries < Retries THEN over \cup Reported ELSE over)
    <2>1. /\ \A u \in Users :
               /\ booked'[u] = booked[u] + rows[u]
               /\ rows'[u] = 0 \/ (rows'[u] = rows[u] /\ (u \notin over' => ~(rows[u] > 0)))
          /\ over \subseteq over' /\ under \subseteq under' /\ carried' = carried
      BY <1>8 DEF NoAnswer
    <2>2. NeverOverbooked' BY <1>5, <2>1 DEF NeverOverbooked
    <2>3. NothingLost' BY <1>5, <2>1 DEF NothingLost
    <2> QED BY <1>2, <1>3, <1>4, <2>2, <2>3
  <1>9. CASE /\ NoAnswer /\ UNCHANGED <<booked, over>>
             /\ under' = (IF tries < Retries THEN under ELSE under \cup Reported)
    <2>1. /\ \A u \in Users :
               rows'[u] = rows[u] \/ (rows'[u] = 0 /\ (u \notin under' => ~(rows[u] > 0)))
          /\ over \subseteq over' /\ under \subseteq under' /\ UNCHANGED <<booked, carried>>
      BY <1>9 DEF NoAnswer
    <2>2. NeverOverbooked' BY <1>5, <2>1 DEF NeverOverbooked
    <2>3. NothingLost' BY <1>5, <2>1 DEF NothingLost
    <2> QED BY <1>2, <1>3, <1>4, <2>2, <2>3
  <1> QED BY <1>6, <1>7, <1>8, <1>9 DEF NoAnswer

\* A stutter changes nothing.
LEMMA StutterKeepsIInv == IInv /\ UNCHANGED vars => IInv'
  <1> SUFFICES ASSUME IInv, UNCHANGED vars PROVE IInv' OBVIOUS
  <1> USE DEF IInv, vars, conns, account, doubt, monitor, report
  <1>1. Types' /\ Counters' /\ Walk' BY DEF Types, Counters, Walk
  <1>2. NeverOverbooked' /\ NothingLost' BY DEF NeverOverbooked, NothingLost, InHand, Read
  <1> QED BY <1>1, <1>2

-----------------------------------------------------------------------------
LEMMA SpecIInv == Spec => []IInv
  <1>1. IInv /\ [Next]_vars => IInv'
    BY ConnectionKeepsIInv, MonitorKeepsIInv, WalkKeepsIInv, PostKeepsIInv, StutterKeepsIInv
       DEF Next, Report, Ended
  <1> QED BY <1>1, InitIInv, PTL DEF Spec

\* The rest of TypeOK, which no other proof needs.
Locals ==
    /\ registering \in [Users -> Nat] /\ served \subseteq Users
    /\ mAt \in {"idle", "diff"} /\ newU \in Lists /\ dels \subseteq Users
    /\ n \in Nat /\ tries \in 0..Retries
    /\ edits \in 0..MaxEdits /\ faults \in 0..MaxFaults
    /\ over \subseteq Users /\ under \subseteq Users
    /\ rAt = "book" => got > 0

\* The empty list is one, and the users of a list are users.
LEMMA ListMembers ==
    /\ <<>> \in Lists
    /\ \A L \in Lists : Members(L) \subseteq Users
  <1>1. <<>> \in Lists
    <2>1. Cardinality(Users) \in Nat BY FS_CardinalityType, TrafficAssumption
    <2>2. <<>> \in [1..0 -> Users] /\ 0 \in 0..Cardinality(Users) BY <2>1
    <2>3. IsInjective(<<>>) BY DEF IsInjective
    <2> QED BY <2>2, <2>3 DEF Lists
  <1> QED BY <1>1, ListFacts DEF Members

\* Connections and the monitor keep the types of their locals.
LEMMA EditKeepsLocals ==
    ASSUME IInv, Locals,
           \/ \E u \in Users : Connection(u)
           \/ NodeChanges \/ ListChanges \/ Monitor
    PROVE  Locals'
  <1> USE TrafficAssumption, ListMembers
      DEF IInv, Types, Locals, account, doubt, report, monitor, conns, Add, Sub
  <1>1. ASSUME NEW u \in Users, Connection(u) PROVE Locals'
    <2>1. CASE Connects(u)
      <3>1. CASE value[u] = None
        <4>1. registering' = [registering EXCEPT ![u] = @ + 1] BY <2>1, <3>1 DEF Connects
        <4> QED BY <2>1, <4>1, SMTT(20) DEF Connects
      <3>2. CASE value[u] # None BY <2>1, <3>2 DEF Connects
      <3> QED BY <3>1, <3>2
    <2>2. CASE Registers(u)
      <3>1. /\ registering' = [registering EXCEPT ![u] = @ - 1]
            /\ registering[u] \in Nat /\ registering[u] > 0
        BY <2>2 DEF Registers
      <3>2. registering' \in [Users -> Nat] BY <3>1
      <3>3. under' \subseteq Users BY <2>2 DEF Registers
      <3>4. UNCHANGED <<served, monitor, report, faults, over>> BY <2>2 DEF Registers
      <3> QED BY <3>2, <3>3, <3>4
    <2>3. CASE Carries(u) BY <2>3 DEF Carries
    <2>4. CASE Disconnects(u) BY <2>4 DEF Disconnects
    <2> QED BY <1>1, <2>1, <2>2, <2>3, <2>4 DEF Connection
  <1>2. CASE NodeChanges BY <1>2 DEF NodeChanges, Assigns
  <1>3. CASE ListChanges BY <1>3 DEF ListChanges
  <1>4. CASE DeletesUser BY <1>4 DEF DeletesUser
  <1>5. CASE AddsUsers BY <1>5 DEF AddsUsers, Assigns
  <1> QED BY <1>1, <1>2, <1>3, <1>4, <1>5 DEF Monitor

\* So does the report, and a step that changes nothing.
LEMMA ReportKeepsLocals ==
    ASSUME IInv, Locals, Report \/ UNCHANGED vars
    PROVE  Locals'
  <1> USE TrafficAssumption, ListMembers
      DEF IInv, Types, Locals, account, doubt, report, monitor, conns, Reported
  <1>1. CASE ReportBegins
    <2>1. Len(userList) \in Nat BY ListFacts
    <2> QED BY <1>1, <2>1 DEF ReportBegins
  <1>2. CASE Takes BY <1>2 DEF Takes
  <1>3. CASE Books BY <1>3 DEF Books
  <1>4. CASE WalkEnds BY <1>4 DEF WalkEnds
  <1>5. CASE Panics BY <1>5 DEF Panics, Nothing
  <1>6. CASE Answered BY <1>6 DEF Answered
  <1>7. CASE Refused BY <1>7 DEF Refused
  <1>8. CASE NoAnswer BY <1>8 DEF NoAnswer
  <1>9. CASE UNCHANGED vars BY <1>9 DEF vars
  <1> QED BY <1>1, <1>2, <1>3, <1>4, <1>5, <1>6, <1>7, <1>8, <1>9 DEF Report

\* The types; a connection is counted only by the counter the report reads, and no empty
\* row is booked, whatever is deleted, replaced or ended by a panic meanwhile.
THEOREM TypeCorrect == Spec => []TypeOK
  <1>1. Init => Locals
    <2> SUFFICES ASSUME Init PROVE Locals OBVIOUS
    <2>1. served \subseteq Users BY ListMembers DEF Init
    <2>2. faults \in 0..MaxFaults /\ edits \in 0..MaxEdits /\ tries \in 0..Retries
      BY TrafficAssumption DEF Init
    <2> QED BY <2>1, <2>2, ListMembers DEF Init, Locals, Nothing
  <1>2. IInv /\ Locals /\ [Next]_vars => Locals'
    BY EditKeepsLocals, ReportKeepsLocals DEF Next, Ended
  <1>3. IInv /\ Locals => TypeOK BY DEF IInv, Types, Counters, Locals, TypeOK
  <1> QED BY <1>1, <1>2, <1>3, SpecIInv, PTL DEF Spec

\* Whatever connects, is deleted, fails or is replaced meanwhile, no byte of a
\* user outside over is booked twice or on somebody else.
THEOREM NobodyIsOverbooked == Spec => []NeverOverbooked
  <1>1. IInv => NeverOverbooked BY DEF IInv
  <1> QED BY <1>1, SpecIInv, PTL

\* And of a user outside both over and under, no byte is lost: it is booked, or in
\* his counter, or in the report.
THEOREM EveryByteIsKept == Spec => []NothingLost
  <1>1. IInv => NothingLost BY DEF IInv
  <1> QED BY <1>1, SpecIInv, PTL
=============================================================================
