----------------------------- MODULE DispatchProofs -----------------------------
(***************************************************************************)
(* Theorems about Dispatch for every number of connections, users and      *)
(* limiters: the types, that connections of a user share a bucket, that    *)
(* each connection gives its place back once, that sniffing keeps the      *)
(* stream, and that the limits in force are the panel's.                   *)
(***************************************************************************)
EXTENDS Dispatch, FiniteSetTheorems, SequenceTheorems, TLAPS

Ats == {"idle", "check", "limit", "bucket", "sniff", "route", "rules", "live"}
Buckets == [rate : Nat, by : Conns]
Connections == [at : Ats, kind : Kinds("xray") \cup Kinds("sing"), user : Users,
                l : Limiters \cup {None}, owes : BOOLEAN, rate : Nat,
                bucket : Buckets \cup {None}, due : Nat \cup {None}]
Objects == [rules : {"none", "nil", "set"}, places : [Users -> Int],
            limits : [Users -> Nat], bucket : [Users -> Buckets \cup {None}],
            leaked : [Users -> Nat], others : SUBSET Users, missed : SUBSET Users]
Heaps == [Limiters -> Objects]
Streams == [pipe : Seq(Nat), cache : Seq(Nat), got : Seq(Nat), sent : Nat]

TypeOK ==
    /\ up \in BOOLEAN
    /\ node \in [core : {"xray", "sing"}, limit : Nat, named : BOOLEAN]
    /\ registry \in Limiters \cup {None}
    /\ heap \in Heaps
    /\ panel \in [Users -> Nat]
    /\ ctl \in {"idle", "added", "deleted", "add", "rules", "fill", "closed"}
    /\ who \in Users \cup {None}
    /\ changes \in Nat
    /\ conn \in [Conns -> Connections]
    /\ stream \in [Conns -> Streams]

\* Where a connection of each kind may be, and what it owes and holds there.
WhereOK ==
    \A k \in Conns :
        /\ Kind(k) # "link" /\ conn[k].at # "idle" => L(k) \in Limiters
        /\ Kind(k) = "link" => conn[k].at \in {"route", "rules", "live"}
        /\ ByHook(k) => conn[k].at \notin {"sniff", "route"}
        /\ conn[k].owes <=> \/ Kind(k) = "tcp" /\ conn[k].at \in {"rules", "live"}
                            \/ Kind(k) = "hook" /\ conn[k].at = "live"

\* A bucket that is in use is the one its limiter has for the user.
BucketStored ==
    \A k \in Conns : PastBucket(k) /\ conn[k].bucket # None
        => conn[k].bucket = heap[L(k)].bucket[User(k)]

\* There is a limiter while the controller works on one, and a user it works for.
ControlOK ==
    /\ ctl \in {"added", "deleted", "rules", "fill"} => registry \in Limiters
    /\ ctl \in {"added", "deleted"} => who \in Users

IInv == TypeOK /\ WhereOK /\ ControlOK

-----------------------------------------------------------------------------
(* Types *)

\* The smaller of two limits that is not 0 is a limit.
LEMMA SlowerIsNat == ASSUME NEW a \in Nat, NEW b \in Nat PROVE Slower(a, b) \in Nat
  BY DEF Slower

\* What is due to a connection is a limit, or nothing.
LEMMA DueType == ASSUME TypeOK, NEW k \in Conns PROVE Due(k) \in Nat \cup {None}
  <1>1. panel[User(k)] \in Nat BY DispatchAssumption DEF TypeOK, User, Connections
  <1> QED BY <1>1, SlowerIsNat DEF Due, TypeOK

\* A limiter keeps its type when one of its entries is replaced.
LEMMA HeapUpdates ==
    ASSUME heap \in Heaps, NEW l \in Limiters, NEW u \in Users
    PROVE  /\ \A n \in Int : [heap EXCEPT ![l].places[u] = n] \in Heaps
           /\ \A n \in Nat : [heap EXCEPT ![l].leaked[u] = n] \in Heaps
           /\ \A n \in Nat : [heap EXCEPT ![l].limits[u] = n] \in Heaps
           /\ \A b \in Buckets \cup {None} : [heap EXCEPT ![l].bucket[u] = b] \in Heaps
           /\ heap[l].places[u] \in Int /\ heap[l].leaked[u] \in Nat
           /\ heap[l].bucket[u] \in Buckets \cup {None}
  <1>1. heap[l] \in Objects BY DEF Heaps
  <1>2. ASSUME NEW o \in Objects PROVE [heap EXCEPT ![l] = o] \in Heaps BY DEF Heaps
  <1>3. ASSUME NEW n \in Int PROVE [heap EXCEPT ![l].places[u] = n] \in Heaps
    <2>1. [heap[l] EXCEPT !.places[u] = n] \in Objects BY <1>1 DEF Objects
    <2> QED BY <1>2, <2>1
  <1>4. ASSUME NEW n \in Nat PROVE [heap EXCEPT ![l].leaked[u] = n] \in Heaps
    <2>1. [heap[l] EXCEPT !.leaked[u] = n] \in Objects BY <1>1 DEF Objects
    <2> QED BY <1>2, <2>1
  <1>5. ASSUME NEW n \in Nat PROVE [heap EXCEPT ![l].limits[u] = n] \in Heaps
    <2>1. [heap[l] EXCEPT !.limits[u] = n] \in Objects BY <1>1 DEF Objects
    <2> QED BY <1>2, <2>1
  <1>6. ASSUME NEW b \in Buckets \cup {None} PROVE [heap EXCEPT ![l].bucket[u] = b] \in Heaps
    <2>1. [heap[l] EXCEPT !.bucket[u] = b] \in Objects BY <1>1 DEF Objects
    <2> QED BY <1>2, <2>1
  <1> QED BY <1>1, <1>3, <1>4, <1>5, <1>6 DEF Objects

\* The initial state has the types, and nobody owes anything.
LEMMA InitIInv == Init => IInv
  <1> SUFFICES ASSUME Init PROVE IInv OBVIOUS
  <1> USE DispatchAssumption DEF Init
  <1>1. registry \in Limiters OBVIOUS
  <1>2. heap \in Heaps
    <2>1. Fresh(panel) \in Objects BY DEF Fresh, NoLimits, Objects
    <2>2. \A o \in Objects, r \in {"set", "none"} : [o EXCEPT !.rules = r] \in Objects
      BY DEF Objects
    <2> HIDE DEF Init
    <2>3. heap = [l \in Limiters |->
                    [Fresh(panel) EXCEPT !.rules = IF l = registry THEN "set" ELSE "none"]]
      BY DEF Init
    <2> QED BY <2>1, <2>2, <2>3 DEF Heaps
  <1>3. PICK user \in [Conns -> Users] : conn = [k \in Conns |-> Idle(user[k])] OBVIOUS
  <1>4. conn \in [Conns -> Connections] BY <1>3 DEF Connections, Idle, Ats, Kinds
  <1>5. stream \in [Conns -> Streams] BY EmptySeq DEF NoStream, Streams
  <1>6. WhereOK BY <1>3 DEF WhereOK, Idle, Kind, L, ByHook
  <1>7. ControlOK BY DEF ControlOK
  <1> QED BY <1>1, <1>2, <1>4, <1>5, <1>6, <1>7 DEF IInv, TypeOK, NoLimits

\* What each step of a connection does to its own record.
LEMMA ConnStepTypes ==
    ASSUME IInv, NEW k \in Conns,
           ConnStep(k) \/ (\E kind \in Kinds(node.core) : Dispatches(k, kind) \/ HookBegins(k, kind))
               \/ DispatchesLink(k) \/ HookFindsNone(k) \/ Sends(k) \/ Reads(k)
    PROVE  /\ conn' \in [Conns -> Connections]
           /\ \A j \in Conns \ {k} : conn'[j] = conn[j]
           /\ User(k)' = User(k)
  <1> USE DEF IInv, TypeOK, Panics, Goto, Control, User
  <1> DEFINE Goal == /\ conn' \in [Conns -> Connections]
                     /\ \A j \in Conns \ {k} : conn'[j] = conn[j]
                     /\ conn'[k].user = conn[k].user
  <1> SUFFICES Goal OBVIOUS
  <1>k. conn[k] \in Connections OBVIOUS
  <1>e. ASSUME Ends(k) PROVE Goal
    BY <1>e DEF Ends, Idle, Connections, Ats, Kinds
  <1>g. ASSUME NEW l \in Ats, Goto(k, l) PROVE Goal
    <2> DEFINE c == [conn[k] EXCEPT !.at = l]
    <2>1. conn' = [conn EXCEPT ![k] = c] BY <1>g
    <2> HIDE DEF IInv, TypeOK
    <2>2. c \in Connections /\ c.user = conn[k].user BY <1>k DEF Connections
    <2> USE DEF IInv, TypeOK
    <2> QED BY <2>1, <2>2
  <1>u. ASSUME UNCHANGED conn PROVE Goal BY <1>u
  <1>b. ASSUME NEW kind \in Kinds("xray") \cup Kinds("sing"), NEW l \in Limiters \cup {None},
               NEW at \in Ats, Begin(k, kind, l, at)
        PROVE  Goal
    <2> DEFINE due == IF kind = "link" THEN None ELSE Due(k)
               c == [conn[k] EXCEPT !.kind = kind, !.l = l, !.at = at, !.due = due]
    <2>1. due \in Nat \cup {None} BY DueType
    <2>2. conn' = [conn EXCEPT ![k] = c] BY <1>b DEF Begin
    <2> HIDE DEF due, IInv, TypeOK
    <2>3. c \in Connections /\ c.user = conn[k].user BY <1>k, <2>1 DEF Connections
    <2> USE DEF IInv, TypeOK
    <2> QED BY <2>2, <2>3
  <1>1. CASE \E kind \in Kinds(node.core) : Dispatches(k, kind)
    BY <1>1, <1>b DEF Dispatches, Ats, Kinds
  <1>2. CASE \E kind \in Kinds(node.core) : HookBegins(k, kind)
    BY <1>2, <1>b DEF HookBegins, Ats, Kinds
  <1>3. CASE DispatchesLink(k) BY <1>3, <1>b DEF DispatchesLink, Ats, Kinds
  <1>4. CASE HookFindsNone(k) BY <1>4, <1>u DEF HookFindsNone
  <1>5. CASE Sends(k) BY <1>5, <1>u DEF Sends
  <1>6. CASE Reads(k) BY <1>6, <1>u DEF Reads
  <1>7. CASE Admits(k) BY <1>7, <1>g DEF Admits, Ats
  <1>8. CASE Refuses(k) BY <1>8, <1>e DEF Refuses
  <1>9. CASE LoadsLimit(k)
    <2>1. L(k) \in Limiters BY <1>9 DEF LoadsLimit, WhereOK
    <2>2. UserLimit(k) \in Nat
      BY <2>1 DEF UserLimit, Heaps, Objects, Connections
    <2>3. Slower(node.limit, UserLimit(k)) \in Nat BY <2>2, SlowerIsNat
    <2> QED BY <1>9, <2>3 DEF LoadsLimit, Connections, Ats
  <1>10. CASE TakesBucket(k)
    <2>1. L(k) \in Limiters BY <1>10 DEF TakesBucket, WhereOK
    <2>2. heap[L(k)].bucket[User(k)] \in Buckets \cup {None}
      BY <2>1, HeapUpdates DEF Connections
    <2> DEFINE old == heap[L(k)].bucket[User(k)]
               mine == IF conn[k].rate = 0 THEN None
                       ELSE IF old # None THEN old ELSE [rate |-> conn[k].rate, by |-> k]
               hooked == Kind(k) = "hook"
               c == [conn[k] EXCEPT !.bucket = mine, !.at = Past(k), !.rate = 0, !.owes = hooked]
    <2>3. conn' = [conn EXCEPT ![k] = c] BY <1>10 DEF TakesBucket
    <2>4. Past(k) \in Ats BY DEF Past, Ats
    <2>5. hooked \in BOOLEAN OBVIOUS
    <2>6. mine \in Buckets \cup {None}
      <3>1. conn[k].rate \in Nat BY DEF Connections
      <3> QED BY <2>2, <3>1 DEF Buckets
    <2> HIDE DEF mine, hooked, IInv, TypeOK
    <2>7. c \in Connections /\ c.user = conn[k].user BY <1>k, <2>4, <2>5, <2>6 DEF Connections
    <2> USE DEF IInv, TypeOK
    <2> QED BY <2>3, <2>7
  <1>11. CASE Caches(k) BY <1>11, <1>u DEF Caches
  <1>12. CASE Routes(k)
    <2> DEFINE l == IF Kind(k) = "link" THEN registry ELSE conn[k].l
               isTcp == Kind(k) = "tcp"
               c == [conn[k] EXCEPT !.at = "rules", !.owes = isTcp, !.l = l]
    <2>1. conn' = [conn EXCEPT ![k] = c] BY <1>12 DEF Routes
    <2>2. l \in Limiters \cup {None} BY DEF Connections
    <2>3. isTcp \in BOOLEAN OBVIOUS
    <2> HIDE DEF l, isTcp, IInv, TypeOK
    <2>4. c \in Connections /\ c.user = conn[k].user BY <1>k, <2>2, <2>3 DEF Connections, Ats
    <2> USE DEF IInv, TypeOK
    <2> QED BY <2>1, <2>4
  <1>13. CASE RuleRejects(k) BY <1>13, <1>e DEF RuleRejects
  <1>14. CASE RulePanics(k) BY <1>14, <1>u DEF RulePanics
  <1>15. CASE RulesPass(k) BY <1>15, <1>g DEF RulesPass, Ats
  <1>16. CASE NoHandler(k) BY <1>16, <1>e DEF NoHandler
  <1>17. CASE HandlerDispatches(k) BY <1>17, <1>g DEF HandlerDispatches, Ats
  <1>18. CASE ReadsPacket(k) BY <1>18, <1>u DEF ReadsPacket
  <1>19. CASE Closes(k) BY <1>19, <1>e DEF Closes
  <1> QED
    BY <1>1, <1>2, <1>3, <1>4, <1>5, <1>6, <1>7, <1>8, <1>9, <1>10, <1>11, <1>12, <1>13,
       <1>14, <1>15, <1>16, <1>17, <1>18, <1>19 DEF ConnStep

\* The limiters keep their types when a connection takes a step.
LEMMA ConnStepHeap ==
    ASSUME IInv, NEW k \in Conns, ConnStep(k)
    PROVE  heap' \in Heaps
  <1> USE DEF IInv, TypeOK, Panics, Goto, Control, User
  <1>k. conn[k] \in Connections OBVIOUS
  <1>l. L(k) \in Limiters \cup {None} /\ User(k) \in Users BY <1>k DEF L, Connections
  <1>u. ASSUME UNCHANGED heap PROVE heap' \in Heaps BY <1>u
  <1>g. ASSUME GivesBack(k), conn[k].at # "idle" PROVE heap' \in Heaps
    <2>1. CASE UNCHANGED heap BY <2>1
    <2>2. CASE conn[k].owes /\ heap' = [heap EXCEPT ![L(k)].places[User(k)] = @ - 1]
      <3>1. L(k) \in Limiters BY <2>2, <1>g DEF WhereOK
      <3>2. heap[L(k)].places[User(k)] - 1 \in Int BY <1>l, <3>1, HeapUpdates
      <3> QED BY <1>l, <2>2, <3>1, <3>2, HeapUpdates
    <2>3. CASE Kind(k) = "packet" /\ heap' = [heap EXCEPT ![L(k)].leaked[User(k)] = @ + 1]
      <3>1. L(k) \in Limiters BY <2>3, <1>g DEF WhereOK
      <3>2. heap[L(k)].leaked[User(k)] + 1 \in Nat BY <1>l, <3>1, HeapUpdates
      <3> QED BY <1>l, <2>3, <3>1, <3>2, HeapUpdates
    <2> QED BY <1>g, <2>1, <2>2, <2>3 DEF GivesBack
  <1>7. CASE Admits(k)
    <2>1. L(k) \in Limiters BY <1>7 DEF Admits, WhereOK
    <2>2. heap[L(k)].places[User(k)] + 1 \in Int BY <1>l, <2>1, HeapUpdates
    <2>3. [heap EXCEPT ![L(k)].places[User(k)] = @ + 1] \in Heaps
      BY <1>l, <2>1, <2>2, HeapUpdates
    <2> QED BY <1>7, <2>3 DEF Admits
  <1>8. CASE Refuses(k) BY <1>8 DEF Refuses
  <1>9. CASE LoadsLimit(k) BY <1>9 DEF LoadsLimit
  <1>10. CASE TakesBucket(k)
    <2> DEFINE old == heap[L(k)].bucket[User(k)]
               mine == IF conn[k].rate = 0 THEN None
                       ELSE IF old # None THEN old ELSE [rate |-> conn[k].rate, by |-> k]
    <2>1. L(k) \in Limiters BY <1>10 DEF TakesBucket, WhereOK
    <2>2. old \in Buckets \cup {None} BY <1>l, <2>1, HeapUpdates
    <2>3. mine \in Buckets \cup {None} BY <1>k, <2>2 DEF Buckets, Connections
    <2>4. UNCHANGED heap \/ heap' = [heap EXCEPT ![L(k)].bucket[User(k)] = mine]
      BY <1>10 DEF TakesBucket
    <2> HIDE DEF mine
    <2>5. [heap EXCEPT ![L(k)].bucket[User(k)] = mine] \in Heaps
      BY <1>l, <2>1, <2>3, HeapUpdates
    <2> QED BY <2>4, <2>5
  <1>11. CASE Caches(k) BY <1>11 DEF Caches
  <1>12. CASE Routes(k) BY <1>12 DEF Routes
  <1>13. CASE RuleRejects(k) BY <1>13, <1>g DEF RuleRejects
  <1>14. CASE RulePanics(k) BY <1>14 DEF RulePanics
  <1>15. CASE RulesPass(k) BY <1>15 DEF RulesPass
  <1>16. CASE NoHandler(k) BY <1>16, <1>g DEF NoHandler
  <1>17. CASE HandlerDispatches(k) BY <1>17 DEF HandlerDispatches
  <1>18. CASE ReadsPacket(k) BY <1>18 DEF ReadsPacket
  <1>19. CASE Closes(k) BY <1>19, <1>g DEF Closes
  <1> QED
    BY <1>7, <1>8, <1>9, <1>10, <1>11, <1>12, <1>13, <1>14, <1>15, <1>16, <1>17, <1>18, <1>19
       DEF ConnStep

\* The streams keep their types when a connection takes a step.
LEMMA ConnStepStream ==
    ASSUME IInv, NEW k \in Conns,
           ConnStep(k) \/ Sends(k) \/ Reads(k)
    PROVE  stream' \in [Conns -> Streams]
  <1> USE DEF IInv, TypeOK, Panics, Goto, Control
  <1>u. ASSUME UNCHANGED stream PROVE stream' \in [Conns -> Streams] BY <1>u
  <1>e. ASSUME Ends(k) PROVE stream' \in [Conns -> Streams]
    BY <1>e, EmptySeq DEF Ends, NoStream, Streams
  <1>s. stream[k] \in Streams OBVIOUS
  <1>5. CASE Sends(k)
    <2> DEFINE sent == stream[k].sent + 1
               pipe == Append(stream[k].pipe, sent)
               new == [stream[k] EXCEPT !.pipe = pipe, !.sent = sent]
    <2>1. sent \in Nat BY <1>s DEF Streams
    <2>2. pipe \in Seq(Nat) BY <1>s, <2>1, AppendProperties DEF Streams
    <2>3. stream' = [stream EXCEPT ![k] = new] BY <1>5 DEF Sends
    <2> HIDE DEF sent, pipe
    <2>4. new \in Streams BY <1>s, <2>1, <2>2 DEF Streams
    <2> QED BY <2>3, <2>4
  <1>6. CASE Reads(k)
    <2>1. /\ stream[k].got \o stream[k].cache \in Seq(Nat)
          /\ stream[k].got \o stream[k].pipe \in Seq(Nat)
      BY <1>s, ConcatProperties DEF Streams
    <2> DEFINE s == stream[k]
               new == IF s.cache # <<>> THEN [s EXCEPT !.got = @ \o s.cache, !.cache = <<>>]
                                        ELSE [s EXCEPT !.got = @ \o s.pipe, !.pipe = <<>>]
    <2>2. stream' = [stream EXCEPT ![k] = new] BY <1>6 DEF Reads
    <2>3. <<>> \in Seq(Nat) BY EmptySeq
    <2>4. new \in Streams BY <1>s, <2>1, <2>3 DEF Streams
    <2> QED BY <2>2, <2>4
  <1>11. CASE Caches(k)
    <2>1. stream[k].cache \o stream[k].pipe \in Seq(Nat)
      BY <1>s, ConcatProperties DEF Streams
    <2> QED BY <1>11, <1>s, <2>1, EmptySeq DEF Caches, Streams
  <1>7. CASE Refuses(k) \/ RuleRejects(k) \/ NoHandler(k) \/ Closes(k)
    BY <1>7, <1>e DEF Refuses, RuleRejects, NoHandler, Closes
  <1>8. CASE \/ Admits(k) \/ LoadsLimit(k) \/ TakesBucket(k) \/ Routes(k) \/ RulePanics(k)
             \/ RulesPass(k) \/ HandlerDispatches(k) \/ ReadsPacket(k)
    BY <1>8 DEF Admits, LoadsLimit, TakesBucket, Routes, RulePanics, RulesPass,
                HandlerDispatches, ReadsPacket
  <1> QED BY <1>5, <1>6, <1>7, <1>8, <1>11 DEF ConnStep

\* A step of the controller.
Controls ==
    \/ \E u \in Users, limit \in Limits : AddsUsers(u, limit)
    \/ DeletesLimiter \/ KeepsLimiter \/ ClosesController \/ CtlStep

\* The controller changes no more of a connection than what is due to it.
LEMMA ControlsConn ==
    ASSUME IInv, Controls
    PROVE  /\ conn' \in [Conns -> Connections]
           /\ \A k \in Conns : /\ conn'[k].at = conn[k].at /\ conn'[k].kind = conn[k].kind
                               /\ conn'[k].user = conn[k].user /\ conn'[k].l = conn[k].l
                               /\ conn'[k].owes = conn[k].owes
                               /\ conn'[k].bucket = conn[k].bucket
           /\ UNCHANGED stream
  <1> DEFINE Same == \A k \in Conns :
                       /\ conn'[k].at = conn[k].at /\ conn'[k].kind = conn[k].kind
                       /\ conn'[k].user = conn[k].user /\ conn'[k].l = conn[k].l
                       /\ conn'[k].owes = conn[k].owes
                       /\ conn'[k].bucket = conn[k].bucket
             Goal == conn' \in [Conns -> Connections] /\ Same
  <1>1. conn \in [Conns -> Connections] BY DEF IInv, TypeOK
  <1>2. ASSUME NEW u \in Users, NEW limit \in Limits, Relimits(u, limit)
        PROVE  Goal
    <2>1. \A k \in Conns : [conn[k] EXCEPT !.due = None] \in Connections
      BY <1>1 DEF Connections
    <2>2. \A k \in Conns : conn'[k] = conn[k] \/ conn'[k] = [conn[k] EXCEPT !.due = None]
      BY <1>2 DEF Relimits
    <2>3. conn' \in [Conns -> Connections] BY <1>1, <1>2, <2>1 DEF Relimits
    <2>4. Same
      <3> SUFFICES ASSUME NEW k \in Conns
                   PROVE  /\ conn'[k].at = conn[k].at /\ conn'[k].kind = conn[k].kind
                          /\ conn'[k].user = conn[k].user /\ conn'[k].l = conn[k].l
                          /\ conn'[k].owes = conn[k].owes
                          /\ conn'[k].bucket = conn[k].bucket
        OBVIOUS
      <3>1. conn[k] \in Connections BY <1>1
      <3>2. conn'[k] = conn[k] \/ conn'[k] = [conn[k] EXCEPT !.due = None] BY <2>2
      <3> QED BY <3>1, <3>2 DEF Connections
    <2> QED BY <2>3, <2>4
  <1>3. ASSUME UNCHANGED conn PROVE Goal BY <1>1, <1>3
  <1>4. CASE \E u \in Users, limit \in Limits : AddsUsers(u, limit)
    BY <1>2, <1>4 DEF AddsUsers
  <1>5. CASE DeletesLimiter BY <1>2, <1>3, <1>5 DEF DeletesLimiter
  <1>6. CASE KeepsLimiter BY <1>2, <1>3, <1>6 DEF KeepsLimiter
  <1>7. CASE ClosesController BY <1>3, <1>7 DEF ClosesController, Conn
  <1>8. CASE CtlStep
    BY <1>3, <1>8 DEF CtlStep, DeletesLimits, StoresLimits, AddsLimiter, MakesRules, FillsRules, Conn
  <1> QED BY <1>4, <1>5, <1>6, <1>7, <1>8 DEF Controls

\* The controller replaces limiters nobody holds; of the others it changes limits and rules.
LEMMA ControlsHeap ==
    ASSUME IInv, Controls
    PROVE  /\ heap' \in Heaps
           /\ \A l \in Limiters :
                \/ \E k \in Conns : L(k) = l
                \/ heap'[l].places = heap[l].places /\ heap'[l].leaked = heap[l].leaked
                \/ \A u \in Users : heap'[l].places[u] = 0 /\ heap'[l].leaked[u] = 0
           /\ \A k \in Conns : L(k) \in Limiters =>
                /\ heap'[L(k)].places = heap[L(k)].places
                /\ heap'[L(k)].leaked = heap[L(k)].leaked
                /\ heap'[L(k)].bucket = heap[L(k)].bucket
  <1> USE DEF IInv, TypeOK
  <1> DEFINE Kept(l) == /\ heap'[l].places = heap[l].places
                        /\ heap'[l].leaked = heap[l].leaked
                        /\ heap'[l].bucket = heap[l].bucket
             Goal == /\ heap' \in Heaps
                     /\ \A l \in Limiters :
                          \/ Kept(l)
                          \/ /\ \A k \in Conns : L(k) # l
                             /\ \A u \in Users : heap'[l].places[u] = 0 /\ heap'[l].leaked[u] = 0
  <1>1. Goal => /\ heap' \in Heaps
                /\ \A l \in Limiters :
                     \/ \E k \in Conns : L(k) = l
                     \/ heap'[l].places = heap[l].places /\ heap'[l].leaked = heap[l].leaked
                     \/ \A u \in Users : heap'[l].places[u] = 0 /\ heap'[l].leaked[u] = 0
                /\ \A k \in Conns : L(k) \in Limiters => Kept(L(k))
    OBVIOUS
  <1>2. \A l \in Limiters : heap[l] \in Objects BY DEF Heaps
  <1>3. ASSUME NEW o \in Objects, registry \in Limiters,
               heap' = [heap EXCEPT ![registry] = o],
               o.places = heap[registry].places, o.leaked = heap[registry].leaked,
               o.bucket = heap[registry].bucket
        PROVE  Goal
    <2>1. heap' \in Heaps BY <1>3 DEF Heaps
    <2>2. \A l \in Limiters : heap'[l] = IF l = registry THEN o ELSE heap[l] BY <1>3 DEF Heaps
    <2> QED BY <1>3, <2>1, <2>2
  <1>4. ASSUME UNCHANGED heap PROVE Goal BY <1>4
  <1>5. ASSUME NEW u \in Users, NEW limit \in Limits, AddsUsers(u, limit) PROVE Goal
    <2> DEFINE o == [heap[registry] EXCEPT !.others = @ \cup {u}, !.missed = @ \ {u}]
    <2>1. registry \in Limiters BY <1>5 DEF AddsUsers
    <2>2. heap' = [heap EXCEPT ![registry] = o] BY <1>5 DEF AddsUsers
    <2>3. /\ o \in Objects /\ o.places = heap[registry].places
          /\ o.leaked = heap[registry].leaked /\ o.bucket = heap[registry].bucket
      BY <1>2, <2>1 DEF Objects
    <2> QED BY <1>3, <2>1, <2>2, <2>3
  <1>6. CASE DeletesLimiter BY <1>4, <1>6 DEF DeletesLimiter
  <1>7. CASE KeepsLimiter
    <2>1. registry \in Limiters BY <1>7 DEF KeepsLimiter
    <2>2. CASE UNCHANGED heap BY <1>4, <2>2
    <2>3. ASSUME NEW u \in Users, heap' = [heap EXCEPT ![registry].missed = @ \cup {u}]
          PROVE  Goal
      <3> DEFINE o == [heap[registry] EXCEPT !.missed = @ \cup {u}]
      <3>1. heap' = [heap EXCEPT ![registry] = o] BY <2>3
      <3>2. /\ o \in Objects /\ o.places = heap[registry].places
            /\ o.leaked = heap[registry].leaked /\ o.bucket = heap[registry].bucket
        BY <1>2, <2>1 DEF Objects
      <3> QED BY <1>3, <2>1, <3>1, <3>2
    <2> QED BY <1>7, <2>2, <2>3 DEF KeepsLimiter
  <1>8. CASE ClosesController BY <1>4, <1>8 DEF ClosesController
  <1>9. ASSUME registry \in Limiters, NEW n \in Nat,
               heap' = [heap EXCEPT ![registry].limits[who] = n]
        PROVE  Goal
    <2> DEFINE o == [heap[registry] EXCEPT !.limits = [@ EXCEPT ![who] = n]]
    <2>1. heap' = [heap EXCEPT ![registry] = o] BY <1>9
    <2>2. /\ o \in Objects /\ o.places = heap[registry].places
          /\ o.leaked = heap[registry].leaked /\ o.bucket = heap[registry].bucket
      BY <1>2, <1>9 DEF Objects
    <2> QED BY <1>3, <1>9, <2>1, <2>2
  <1>10. ASSUME registry \in Limiters, NEW r \in {"nil", "set"},
                heap' = [heap EXCEPT ![registry].rules = r]
         PROVE  Goal
    <2> DEFINE o == [heap[registry] EXCEPT !.rules = r]
    <2>1. heap' = [heap EXCEPT ![registry] = o] BY <1>10
    <2>2. /\ o \in Objects /\ o.places = heap[registry].places
          /\ o.leaked = heap[registry].leaked /\ o.bucket = heap[registry].bucket
      BY <1>2, <1>10 DEF Objects
    <2> QED BY <1>3, <1>10, <2>1, <2>2
  <1>11. CASE AddsLimiter
    <2> DEFINE new == [l \in Limiters |-> Fresh(IF l = registry' THEN panel ELSE NoLimits)]
    <2>1. \A l \in Limiters : new[l] \in Objects
      BY DEF Fresh, Objects, NoLimits
    <2>2. \A l \in Limiters, u \in Users : new[l].places[u] = 0 /\ new[l].leaked[u] = 0
      BY DEF Fresh
    <2>3. heap' = [l \in Limiters |-> IF l \notin FreeLimiters THEN heap[l] ELSE new[l]]
      BY <1>11 DEF AddsLimiter
    <2> HIDE DEF new
    <2>4. heap' \in Heaps BY <1>2, <2>1, <2>3 DEF Heaps
    <2>5. \A l \in Limiters : heap'[l] = heap[l] \/ (l \in FreeLimiters /\ heap'[l] = new[l])
      BY <2>3
    <2> QED BY <2>2, <2>4, <2>5 DEF FreeLimiters
  <1>12. CASE DeletesLimits BY <1>9, <1>12 DEF DeletesLimits, ControlOK
  <1>13. CASE StoresLimits
    <2>1. registry \in Limiters /\ panel[who] \in Nat BY <1>13 DEF StoresLimits, ControlOK
    <2> QED BY <1>9, <1>13, <2>1 DEF StoresLimits
  <1>14. CASE MakesRules BY <1>10, <1>14 DEF MakesRules, ControlOK
  <1>15. CASE FillsRules BY <1>10, <1>15 DEF FillsRules, ControlOK
  <1> QED
    BY <1>1, <1>5, <1>6, <1>7, <1>8, <1>11, <1>12, <1>13, <1>14, <1>15 DEF Controls, CtlStep

\* The rest of the state keeps its types when the controller takes a step.
LEMMA ControlsRest ==
    ASSUME IInv, Controls
    PROVE  /\ up' \in BOOLEAN /\ node' = node
           /\ registry' \in Limiters \cup {None}
           /\ panel' \in [Users -> Nat]
           /\ ctl' \in {"idle", "added", "deleted", "add", "rules", "fill", "closed"}
           /\ who' \in Users \cup {None}
           /\ changes' \in Nat
           /\ ControlOK'
  <1> USE DispatchAssumption DEF IInv, TypeOK, ControlOK, CtlGoto, Change
  <1>1. ASSUME NEW u \in Users, NEW limit \in Limits, Relimits(u, limit)
        PROVE  panel' \in [Users -> Nat]
    BY <1>1 DEF Relimits
  <1>4. CASE \E u \in Users, limit \in Limits : AddsUsers(u, limit)
    BY <1>1, <1>4 DEF AddsUsers
  <1>5. CASE DeletesLimiter BY <1>1, <1>5 DEF DeletesLimiter
  <1>6. CASE KeepsLimiter BY <1>1, <1>6 DEF KeepsLimiter
  <1>7. CASE ClosesController BY <1>7 DEF ClosesController
  <1>8. CASE AddsLimiter
    <2>1. registry' \in Limiters
      <3>1. FreeLimiters # {} /\ FreeLimiters \subseteq Limiters
        BY <1>8 DEF AddsLimiter, FreeLimiters
      <3>2. registry' = CHOOSE l \in FreeLimiters : TRUE BY <1>8 DEF AddsLimiter
      <3> QED BY <3>1, <3>2
    <2> QED BY <1>8, <2>1 DEF AddsLimiter
  <1>9. CASE DeletesLimits BY <1>9 DEF DeletesLimits
  <1>10. CASE StoresLimits BY <1>10 DEF StoresLimits
  <1>11. CASE MakesRules BY <1>11 DEF MakesRules
  <1>12. CASE FillsRules BY <1>12 DEF FillsRules
  <1> QED
    BY <1>4, <1>5, <1>6, <1>7, <1>8, <1>9, <1>10, <1>11, <1>12 DEF Controls, CtlStep

-----------------------------------------------------------------------------
(* Steps *)

\* A step of connection k.
Connects(k) ==
    \/ \E kind \in Kinds(node.core) : Dispatches(k, kind) \/ HookBegins(k, kind)
    \/ DispatchesLink(k) \/ HookFindsNone(k) \/ Sends(k) \/ Reads(k) \/ ConnStep(k)

\* A step is one of the controller or of one connection.
LEMMA NextSplit == Next => Controls \/ \E k \in Conns : Connects(k)
  BY DEF Next, Controls, Connects

\* A connection changes none of the controller's variables.
LEMMA ConnectsRest ==
    ASSUME IInv, NEW k \in Conns, Connects(k)
    PROVE  UNCHANGED Control /\ up' \in BOOLEAN
  <1> USE DEF Control, Panics, IInv, TypeOK
  <1>1. CASE \E kind \in Kinds(node.core) : Dispatches(k, kind) \/ HookBegins(k, kind)
    BY <1>1 DEF Dispatches, HookBegins
  <1>2. CASE DispatchesLink(k) \/ HookFindsNone(k) \/ Sends(k) \/ Reads(k)
    BY <1>2 DEF DispatchesLink, HookFindsNone, Sends, Reads
  <1>3. CASE ConnStep(k)
    BY <1>3 DEF ConnStep, Admits, Refuses, LoadsLimit, TakesBucket, Caches, Routes, RuleRejects,
                RulePanics, RulesPass, NoHandler, HandlerDispatches, ReadsPacket, Closes
  <1> QED BY <1>1, <1>2, <1>3 DEF Connects

\* How a step moves a connection: what it owes and holds is settled on the way.
LEMMA ConnectsWhere ==
    ASSUME IInv, NEW k \in Conns, Connects(k)
    PROVE  WhereOK'
  <1> USE DEF IInv, TypeOK, Panics, Goto, Control
  <1>0. /\ conn' \in [Conns -> Connections]
        /\ \A j \in Conns \ {k} : conn'[j] = conn[j]
    BY ConnStepTypes DEF Connects
  <1> DEFINE Fine(c) == /\ c.kind # "link" /\ c.at # "idle" => c.l \in Limiters
                        /\ c.kind = "link" => c.at \in {"route", "rules", "live"}
                        /\ c.kind \in {"hook", "packet"} => c.at \notin {"sniff", "route"}
                        /\ c.owes <=> \/ c.kind = "tcp" /\ c.at \in {"rules", "live"}
                                      \/ c.kind = "hook" /\ c.at = "live"
  <1>w. \A j \in Conns : Fine(conn[j]) BY DEF WhereOK, Kind, L, ByHook
  <1> SUFFICES Fine(conn'[k]) BY <1>0, <1>w DEF WhereOK, Kind, L, ByHook
  <1>e. ASSUME Ends(k) PROVE Fine(conn'[k]) BY <1>e DEF Ends, Idle
  <1>u. ASSUME UNCHANGED conn PROVE Fine(conn'[k]) BY <1>u, <1>w
  <1>k. conn[k] \in Connections OBVIOUS
  <1>b. ASSUME NEW kind \in Kinds("xray") \cup Kinds("sing"), NEW l \in Limiters \cup {None},
               NEW at \in {"check", "route", "rules"}, Begin(k, kind, l, at),
               conn[k].at = "idle",
               kind # "link" => l \in Limiters, kind = "link" <=> at = "route",
               kind = "tcp" => at = "check"
        PROVE  Fine(conn'[k])
    <2> DEFINE due == IF kind = "link" THEN None ELSE Due(k)
               c == [conn[k] EXCEPT !.kind = kind, !.l = l, !.at = at, !.due = due]
    <2>1. conn'[k] = c BY <1>b, <1>k DEF Begin
    <2> HIDE DEF due
    <2>2. c.kind = kind /\ c.l = l /\ c.at = at /\ c.owes = conn[k].owes
      BY <1>k DEF Connections
    <2>3. ~conn[k].owes BY <1>b, <1>w, <1>k DEF Connections
    <2> HIDE DEF c
    <2> QED BY <1>b, <2>1, <2>2, <2>3
  <1>g. ASSUME NEW l \in Ats \ {"idle"}, Goto(k, l), conn[k].at # "idle"
        PROVE  /\ conn'[k].at = l /\ conn'[k].kind = conn[k].kind
               /\ conn'[k].l = conn[k].l /\ conn'[k].owes = conn[k].owes
    BY <1>g, <1>k DEF Connections
  <1>1. CASE \E kind \in Kinds(node.core) : Dispatches(k, kind)
    BY <1>1, <1>b DEF Dispatches, Kinds
  <1>2. CASE \E kind \in Kinds(node.core) : HookBegins(k, kind)
    BY <1>2, <1>b DEF HookBegins, Kinds
  <1>3. CASE DispatchesLink(k) BY <1>3, <1>b DEF DispatchesLink, Kinds
  <1>4. CASE HookFindsNone(k) \/ Sends(k) \/ Reads(k) \/ Caches(k) \/ RulePanics(k) \/ ReadsPacket(k)
    BY <1>4, <1>u DEF HookFindsNone, Sends, Reads, Caches, RulePanics, ReadsPacket
  <1>5. CASE Refuses(k) \/ RuleRejects(k) \/ NoHandler(k) \/ Closes(k)
    BY <1>5, <1>e DEF Refuses, RuleRejects, NoHandler, Closes
  <1>6. CASE Admits(k) BY <1>6, <1>g, <1>w DEF Admits, Ats
  <1>7. CASE LoadsLimit(k)
    <2>1. /\ conn[k].at = "limit" /\ conn'[k].at = "bucket" /\ conn'[k].kind = conn[k].kind
          /\ conn'[k].l = conn[k].l /\ conn'[k].owes = conn[k].owes
      BY <1>7, <1>k DEF LoadsLimit, Connections
    <2> QED BY <1>w, <2>1
  <1>8. CASE TakesBucket(k)
    <2>1. /\ conn[k].at = "bucket" /\ conn'[k].at = Past(k) /\ conn'[k].kind = conn[k].kind
          /\ conn'[k].l = conn[k].l /\ conn'[k].owes = (Kind(k) = "hook")
      BY <1>8, <1>k DEF TakesBucket, Connections
    <2> QED BY <1>w, <2>1 DEF Past, ByHook, Kind
  <1>9. CASE Routes(k)
    <2>1. /\ conn[k].at \in {"sniff", "route"} /\ conn'[k].at = "rules"
          /\ conn'[k].kind = conn[k].kind
          /\ Kind(k) # "link" => conn'[k].l = conn[k].l
          /\ conn'[k].owes = (Kind(k) = "tcp")
      BY <1>9, <1>k DEF Routes, Connections
    <2> QED BY <1>w, <2>1 DEF Kind
  <1>10. CASE RulesPass(k) BY <1>10, <1>g, <1>w DEF RulesPass, Ats, ByHook, Kind
  <1>11. CASE HandlerDispatches(k) BY <1>11, <1>g, <1>w DEF HandlerDispatches, Ats, ByHook, Kind
  <1> QED
    BY <1>1, <1>2, <1>3, <1>4, <1>5, <1>6, <1>7, <1>8, <1>9, <1>10, <1>11 DEF Connects, ConnStep

\* Every step keeps the types, and what IInv says of connections and controller.
LEMMA NextIInv == IInv /\ [Next]_vars => IInv'
  <1> SUFFICES ASSUME IInv, [Next]_vars PROVE IInv' OBVIOUS
  <1>1. CASE Controls
    <2>1. TypeOK' BY <1>1, ControlsConn, ControlsHeap, ControlsRest DEF IInv, TypeOK
    <2>2. WhereOK' BY <1>1, ControlsConn DEF IInv, WhereOK, Kind, L, ByHook
    <2> QED BY <1>1, <2>1, <2>2, ControlsRest DEF IInv
  <1>2. ASSUME NEW k \in Conns, Connects(k) PROVE IInv'
    <2>1. UNCHANGED Control /\ up' \in BOOLEAN BY <1>2, ConnectsRest
    <2>2. conn' \in [Conns -> Connections] BY <1>2, ConnStepTypes DEF Connects
    <2>3. heap' \in Heaps
      <3>1. CASE ConnStep(k) BY <3>1, ConnStepHeap
      <3>2. CASE \/ \E kind \in Kinds(node.core) : Dispatches(k, kind) \/ HookBegins(k, kind)
                 \/ DispatchesLink(k) \/ HookFindsNone(k) \/ Sends(k) \/ Reads(k)
        BY <3>2 DEF Dispatches, HookBegins, DispatchesLink, HookFindsNone, Panics, Sends, Reads,
                    IInv, TypeOK
      <3> QED BY <1>2, <3>1, <3>2 DEF Connects
    <2>4. stream' \in [Conns -> Streams]
      <3>1. CASE ConnStep(k) \/ Sends(k) \/ Reads(k) BY <3>1, ConnStepStream
      <3>2. CASE \/ \E kind \in Kinds(node.core) : Dispatches(k, kind) \/ HookBegins(k, kind)
                 \/ DispatchesLink(k) \/ HookFindsNone(k)
        BY <3>2 DEF Dispatches, HookBegins, DispatchesLink, HookFindsNone, Panics, IInv, TypeOK
      <3> QED BY <1>2, <3>1, <3>2 DEF Connects
    <2>5. TypeOK' BY <2>1, <2>2, <2>3, <2>4 DEF IInv, TypeOK, Control
    <2>6. ControlOK' BY <2>1 DEF IInv, ControlOK, Control
    <2> QED BY <1>2, <2>5, <2>6, ConnectsWhere DEF IInv
  <1>3. CASE UNCHANGED vars
    BY <1>3 DEF vars, IInv, TypeOK, WhereOK, ControlOK, Kind, L, ByHook
  <1> QED BY <1>1, <1>2, <1>3, NextSplit

\* The state of the dispatcher, its limiters and connections keeps its types.
THEOREM TypeCorrect == Spec => []TypeOK
  <1>1. Init => IInv BY InitIInv
  <1>2. IInv /\ [Next]_vars => IInv' BY NextIInv
  <1>3. IInv => TypeOK BY DEF IInv
  <1> QED BY <1>1, <1>2, <1>3, PTL DEF Spec

-----------------------------------------------------------------------------
(* One bucket *)

\* Only TakesBucket puts a bucket in a limiter.
LEMMA ConnectsHeap ==
    ASSUME IInv, NEW k \in Conns, Connects(k), ~TakesBucket(k)
    PROVE  \A l \in Limiters : heap'[l].bucket = heap[l].bucket
  <1> USE DEF IInv, TypeOK, Panics, Control
  <1>0. \A l \in Limiters : heap[l] \in Objects BY DEF Heaps
  <1> DEFINE Same == \A l \in Limiters : heap'[l].bucket = heap[l].bucket
  <1>u. ASSUME UNCHANGED heap PROVE Same BY <1>u
  <1>p. ASSUME NEW n, heap' = [heap EXCEPT ![L(k)].places[User(k)] = n] PROVE Same
    BY <1>0, <1>p DEF Heaps, Objects
  <1>l. ASSUME NEW n, heap' = [heap EXCEPT ![L(k)].leaked[User(k)] = n] PROVE Same
    BY <1>0, <1>l DEF Heaps, Objects
  <1>g. ASSUME GivesBack(k) PROVE Same BY <1>g, <1>u, <1>p, <1>l DEF GivesBack
  <1>1. CASE \/ \E kind \in Kinds(node.core) : Dispatches(k, kind) \/ HookBegins(k, kind)
             \/ DispatchesLink(k) \/ HookFindsNone(k) \/ Sends(k) \/ Reads(k)
    BY <1>1 DEF Dispatches, HookBegins, DispatchesLink, HookFindsNone, Sends, Reads
  <1>2. CASE Admits(k) BY <1>2, <1>u, <1>p DEF Admits
  <1>3. CASE RuleRejects(k) \/ NoHandler(k) \/ Closes(k)
    BY <1>3, <1>g DEF RuleRejects, NoHandler, Closes
  <1>4. CASE \/ Refuses(k) \/ LoadsLimit(k) \/ Caches(k) \/ Routes(k) \/ RulePanics(k)
             \/ RulesPass(k) \/ HandlerDispatches(k) \/ ReadsPacket(k)
    BY <1>4 DEF Refuses, LoadsLimit, Caches, Routes, RulePanics, RulesPass, HandlerDispatches,
                ReadsPacket
  <1> QED BY <1>1, <1>2, <1>3, <1>4 DEF Connects, ConnStep

\* A connection gets past its bucket by TakesBucket alone, and keeps it.
LEMMA ConnectsPast ==
    ASSUME IInv, NEW k \in Conns, Connects(k), ~TakesBucket(k),
           PastBucket(k)', conn'[k].bucket # None
    PROVE  PastBucket(k) /\ conn'[k].bucket = conn[k].bucket /\ L(k)' = L(k)
  <1> USE DEF IInv, TypeOK, Panics, Control, PastBucket, ByHook, Kind, L
  <1>k. conn[k] \in Connections OBVIOUS
  <1> DEFINE Goal == PastBucket(k) /\ conn'[k].bucket = conn[k].bucket /\ L(k)' = L(k)
  <1>e. ASSUME Ends(k) PROVE FALSE BY <1>e DEF Ends, Idle
  <1>b. ASSUME NEW kind, NEW l, NEW at, Begin(k, kind, l, at),
               \/ kind = "link" /\ at = "route"
               \/ kind \in {"hook", "packet"} /\ at = "rules"
               \/ kind \in {"tcp", "udp"} /\ at = "check"
        PROVE  FALSE
    <2>1. conn'[k].kind = kind /\ conn'[k].at = at BY <1>b, <1>k DEF Begin, Connections
    <2> QED BY <1>b, <2>1
  <1>g. ASSUME NEW l, Goto(k, l)
        PROVE  /\ conn'[k].at = l /\ conn'[k].kind = conn[k].kind
               /\ conn'[k].bucket = conn[k].bucket /\ conn'[k].l = conn[k].l
    BY <1>g, <1>k DEF Goto, Connections
  <1>1. CASE \E kind \in Kinds(node.core) : Dispatches(k, kind) BY <1>1, <1>b DEF Dispatches
  <1>2. CASE \E kind \in Kinds(node.core) : HookBegins(k, kind) BY <1>2, <1>b DEF HookBegins
  <1>3. CASE DispatchesLink(k) BY <1>3, <1>b DEF DispatchesLink
  <1>4. CASE HookFindsNone(k) \/ Sends(k) \/ Reads(k) \/ Caches(k) \/ RulePanics(k) \/ ReadsPacket(k)
    BY <1>4 DEF HookFindsNone, Sends, Reads, Caches, RulePanics, ReadsPacket
  <1>5. CASE Refuses(k) \/ RuleRejects(k) \/ NoHandler(k) \/ Closes(k)
    BY <1>5, <1>e DEF Refuses, RuleRejects, NoHandler, Closes
  <1>6. CASE Admits(k) BY <1>6, <1>g DEF Admits
  <1>7. CASE LoadsLimit(k)
    <2>1. conn'[k].at = "bucket" BY <1>7, <1>k DEF LoadsLimit, Connections
    <2> QED BY <2>1
  <1>9. CASE Routes(k)
    <2>1. /\ conn[k].at \in {"sniff", "route"} /\ conn'[k].at = "rules"
          /\ conn'[k].kind = conn[k].kind /\ conn'[k].bucket = conn[k].bucket
          /\ Kind(k) # "link" => conn'[k].l = conn[k].l
      BY <1>9, <1>k DEF Routes, Connections
    <2> QED BY <2>1
  <1>10. CASE RulesPass(k) BY <1>10, <1>g DEF RulesPass
  <1>11. CASE HandlerDispatches(k) BY <1>11, <1>g DEF HandlerDispatches
  <1> QED
    BY <1>1, <1>2, <1>3, <1>4, <1>5, <1>6, <1>7, <1>9, <1>10, <1>11 DEF Connects, ConnStep

\* At first no bucket is in use.
LEMMA InitBucket == Init => BucketStored
  BY DEF Init, BucketStored, PastBucket, Idle, ByHook, Kind

\* A bucket in use stays the one its limiter has: LoadOrStore keeps the first, and only
\* limiters that nobody holds are replaced.
LEMMA NextBucket == IInv /\ BucketStored /\ [Next]_vars => BucketStored'
  <1> SUFFICES ASSUME IInv, BucketStored, [Next]_vars PROVE BucketStored' OBVIOUS
  <1> USE DEF IInv, TypeOK, BucketStored, PastBucket, ByHook, Kind, L, User
  <1>1. CASE Controls
    <2> SUFFICES ASSUME NEW j \in Conns, PastBucket(j)', conn'[j].bucket # None
                 PROVE  conn'[j].bucket = heap'[L(j)'].bucket[User(j)']
      OBVIOUS
    <2>1. PastBucket(j) /\ L(j)' = L(j) /\ User(j)' = User(j) /\ conn'[j].bucket = conn[j].bucket
      BY <1>1, ControlsConn
    <2>2. L(j) \in Limiters BY <2>1 DEF WhereOK
    <2> QED BY <1>1, <2>1, <2>2, ControlsHeap
  <1>2. ASSUME NEW k \in Conns, Connects(k) PROVE BucketStored'
    <2>0. /\ conn' \in [Conns -> Connections]
          /\ \A j \in Conns \ {k} : conn'[j] = conn[j]
          /\ conn'[k].user = conn[k].user
      BY <1>2, ConnStepTypes DEF Connects
    <2>k. conn[k] \in Connections OBVIOUS
    <2>1. CASE TakesBucket(k)
      <3> DEFINE old == heap[L(k)].bucket[User(k)]
                 mine == IF conn[k].rate = 0 THEN None
                         ELSE IF old # None THEN old ELSE [rate |-> conn[k].rate, by |-> k]
      <3>1. L(k) \in Limiters /\ User(k) \in Users
        BY <2>1, <2>k DEF TakesBucket, WhereOK, Connections
      <3>2. /\ conn'[k].bucket = mine /\ conn'[k].l = conn[k].l
        BY <2>1, <2>k DEF TakesBucket, Connections
      <3>3. \A l \in Limiters, u \in Users :
              heap'[l].bucket[u] = IF mine # None /\ l = L(k) /\ u = User(k) THEN mine
                                   ELSE heap[l].bucket[u]
        <4>1. heap' = IF mine = None THEN heap
                      ELSE [heap EXCEPT ![L(k)].bucket[User(k)] = mine]
          BY <2>1 DEF TakesBucket
        <4> HIDE DEF mine
        <4>2. \A l \in Limiters : heap[l] \in Objects BY DEF Heaps
        <4> QED BY <3>1, <4>1, <4>2 DEF Heaps, Objects
      <3>4. old # None => mine \in {None, old} OBVIOUS
      <3> HIDE DEF mine
      <3> SUFFICES ASSUME NEW j \in Conns, PastBucket(j)', conn'[j].bucket # None
                   PROVE  conn'[j].bucket = heap'[L(j)'].bucket[User(j)']
        OBVIOUS
      <3>5. CASE j = k BY <2>0, <3>1, <3>2, <3>3, <3>5
      <3>6. CASE j # k
        <4>1. conn'[j] = conn[j] BY <2>0, <3>6
        <4>2. L(j) \in Limiters /\ User(j) \in Users
          <5>1. conn[j] \in Connections OBVIOUS
          <5> QED BY <4>1, <5>1 DEF WhereOK, Connections
        <4>3. conn[j].bucket = heap[L(j)].bucket[User(j)] BY <4>1
        <4> QED BY <3>3, <3>4, <4>1, <4>2, <4>3
      <3> QED BY <3>5, <3>6
    <2>2. CASE ~TakesBucket(k)
      <3>1. \A l \in Limiters : heap'[l].bucket = heap[l].bucket
        BY <1>2, <2>2, ConnectsHeap DEF Heaps
      <3>2. PastBucket(k)' /\ conn'[k].bucket # None =>
              /\ PastBucket(k) /\ conn'[k].bucket = conn[k].bucket /\ L(k)' = L(k)
        BY <1>2, <2>2, ConnectsPast
      <3> SUFFICES ASSUME NEW j \in Conns, PastBucket(j)', conn'[j].bucket # None
                   PROVE  conn'[j].bucket = heap'[L(j)'].bucket[User(j)']
        OBVIOUS
      <3>3. /\ PastBucket(j) /\ conn'[j].bucket = conn[j].bucket
            /\ L(j)' = L(j) /\ User(j)' = User(j)
        BY <2>0, <3>2
      <3>4. L(j) \in Limiters BY <3>3 DEF WhereOK
      <3> QED BY <3>1, <3>3, <3>4
    <2> QED BY <2>1, <2>2
  <1>3. CASE UNCHANGED vars BY <1>3 DEF vars
  <1> QED BY <1>1, <1>2, <1>3, NextSplit

\* Connections of a user share the bucket of their limiter.
THEOREM SharesBucket == Spec => []OneBucket
  <1>1. Init => IInv /\ BucketStored BY InitIInv, InitBucket
  <1>2. IInv /\ BucketStored /\ [Next]_vars => (IInv /\ BucketStored)'
    BY NextIInv, NextBucket
  <1>3. BucketStored => OneBucket BY DEF BucketStored, OneBucket
  <1> QED BY <1>1, <1>2, <1>3, PTL DEF Spec

-----------------------------------------------------------------------------
(* Places *)

\* Connection k has a place of limiter l as user u.
Has(k, l, u) == L(k) = l /\ User(k) = u /\ Holds(k)
Holders(l, u) == {k \in Conns : Has(k, l, u)}

\* The places of u that somebody may give back.
Net(l, u) == heap[l].places[u] - heap[l].leaked[u]
One(b) == IF b THEN 1 ELSE 0

\* The holders of a place can be counted.
LEMMA HoldersFinite ==
    ASSUME NEW l, NEW u PROVE IsFiniteSet(Holders(l, u)) /\ Cardinality(Holders(l, u)) \in Nat
  BY DispatchAssumption, FS_Subset, FS_CardinalityType DEF Holders

\* When connection k alone moves, the number of holders changes by what k has and had.
LEMMA HoldersMove ==
    ASSUME NEW k \in Conns, NEW l, NEW u, \A j \in Conns \ {k} : conn'[j] = conn[j]
    PROVE  Cardinality(Holders(l, u)')
               = Cardinality(Holders(l, u)) + One(Has(k, l, u)') - One(Has(k, l, u))
  <1> DEFINE H == Holders(l, u)
  <1>1. \A j \in Conns \ {k} : Has(j, l, u)' <=> Has(j, l, u)
    BY DEF Has, L, User, Holds, Kind, ByHook
  <1>2. k \in H <=> Has(k, l, u) BY DEF Holders
  <1>3. CASE Has(k, l, u)'
    <2>1. Holders(l, u)' = H \cup {k} BY <1>1, <1>3 DEF Holders
    <2>2. Cardinality(H \cup {k}) = IF k \in H THEN Cardinality(H) ELSE Cardinality(H) + 1
      BY HoldersFinite, FS_AddElement
    <2> QED BY <1>2, <1>3, <2>1, <2>2, HoldersFinite DEF One
  <1>4. CASE ~Has(k, l, u)'
    <2>1. Holders(l, u)' = H \ {k} BY <1>1, <1>4 DEF Holders
    <2>2. Cardinality(H \ {k}) = IF k \in H THEN Cardinality(H) - 1 ELSE Cardinality(H)
      BY HoldersFinite, FS_RemoveElement
    <2> QED BY <1>2, <1>4, <2>1, <2>2, HoldersFinite DEF One
  <1> QED BY <1>3, <1>4

\* On each path of a connection the places change by what it has got or had.
LEMMA ConnectsNet ==
    ASSUME IInv, NEW k \in Conns, Connects(k), NEW l \in Limiters, NEW u \in Users
    PROVE  Net(l, u)' = Net(l, u) + One(Has(k, l, u)') - One(Has(k, l, u))
  <1> USE DEF IInv, TypeOK, Panics, Control, Net
  <1> DEFINE Goal == Net(l, u)' = Net(l, u) + One(Has(k, l, u)') - One(Has(k, l, u))
  <1>k. conn[k] \in Connections /\ heap[l] \in Objects BY DEF Heaps
  <1>n. heap[l].places[u] \in Int /\ heap[l].leaked[u] \in Nat BY <1>k DEF Objects
  <1>s. ASSUME Has(k, l, u)' <=> Has(k, l, u),
               heap'[l].places[u] = heap[l].places[u], heap'[l].leaked[u] = heap[l].leaked[u]
        PROVE  Goal
    BY <1>n, <1>s DEF One
  <1>u. ASSUME UNCHANGED heap, Has(k, l, u)' <=> Has(k, l, u) PROVE Goal BY <1>u, <1>s
  <1>f. ASSUME UNCHANGED heap, ~Has(k, l, u)', ~Has(k, l, u) PROVE Goal BY <1>f, <1>u
  <1>e. ASSUME Ends(k) PROVE ~Has(k, l, u)' BY <1>e DEF Ends, Idle, Has, Holds, Kind, ByHook
  <1>b. ASSUME NEW kind, NEW m, NEW at, Begin(k, kind, m, at), conn[k].at = "idle", UNCHANGED heap,
               \/ kind = "link"
               \/ kind \in {"hook", "packet"} /\ at = "rules"
               \/ kind \in {"tcp", "udp"} /\ at = "check"
        PROVE  Goal
    <2>1. conn'[k].kind = kind /\ conn'[k].at = at BY <1>b, <1>k DEF Begin, Connections
    <2> QED BY <1>b, <1>f, <2>1 DEF Has, Holds, Kind, ByHook
  <1>m. ASSUME conn'[k].kind = conn[k].kind, conn'[k].user = conn[k].user,
               Holds(k)' <=> Holds(k), Holds(k) => conn'[k].l = conn[k].l, UNCHANGED heap
        PROVE  Goal
    BY <1>m, <1>u DEF Has, L, User
  <1>g. ASSUME NEW a, Goto(k, a)
        PROVE  /\ conn'[k].at = a /\ conn'[k].kind = conn[k].kind /\ conn'[k].l = conn[k].l
               /\ conn'[k].user = conn[k].user
    BY <1>g, <1>k DEF Goto, Connections
  <1>1. CASE \E kind \in Kinds(node.core) : Dispatches(k, kind) BY <1>1, <1>b DEF Dispatches
  <1>2. CASE \E kind \in Kinds(node.core) : HookBegins(k, kind) BY <1>2, <1>b DEF HookBegins
  <1>3. CASE DispatchesLink(k) BY <1>3, <1>b DEF DispatchesLink
  <1>4. CASE HookFindsNone(k) \/ Sends(k) \/ Reads(k) \/ Caches(k) \/ RulePanics(k) \/ ReadsPacket(k)
    BY <1>4, <1>m DEF HookFindsNone, Sends, Reads, Caches, RulePanics, ReadsPacket, Holds, Kind, ByHook
  <1>5. CASE Refuses(k)
    BY <1>5, <1>e, <1>f DEF Refuses, Has, Holds, Kind, ByHook
  <1>6. CASE Admits(k)
    <2>1. conn[k].at = "check" /\ Goto(k, "limit") BY <1>6 DEF Admits
    <2>2. L(k) \in Limiters /\ User(k) \in Users /\ Kind(k) # "link"
      BY <1>k, <2>1 DEF WhereOK, Connections, User
    <2>3. ~Holds(k) BY <2>1 DEF Holds, Kind, ByHook
    <2>4. Holds(k)' <=> Counts(k)
      BY <1>g, <1>k, <2>1, <2>2 DEF Holds, Kind, ByHook, Counts, Connections, Kinds
    <2>5. L(k)' = L(k) /\ User(k)' = User(k) BY <1>g, <2>1 DEF L, User
    <2>6. CASE Counts(k)
      <3>1. heap' = [heap EXCEPT ![L(k)].places[User(k)] = @ + 1] BY <1>6, <2>6 DEF Admits
      <3>2. /\ heap'[l].leaked[u] = heap[l].leaked[u]
            /\ heap'[l].places[u] = IF l = L(k) /\ u = User(k) THEN heap[l].places[u] + 1
                                    ELSE heap[l].places[u]
        BY <1>k, <2>2, <3>1 DEF Heaps, Objects
      <3> QED BY <1>n, <2>3, <2>4, <2>5, <2>6, <3>2 DEF Has, One
    <2>7. CASE ~Counts(k)
      BY <1>6, <1>u, <2>3, <2>4, <2>7 DEF Admits, Has
    <2> QED BY <2>6, <2>7
  <1>7. CASE LoadsLimit(k)
    <2>1. /\ conn[k].at = "limit" /\ conn'[k].at = "bucket" /\ conn'[k].kind = conn[k].kind
          /\ conn'[k].l = conn[k].l /\ conn'[k].user = conn[k].user
      BY <1>7, <1>k DEF LoadsLimit, Connections
    <2> QED BY <1>7, <1>m, <2>1 DEF LoadsLimit, Holds, Kind, ByHook
  <1>8. CASE TakesBucket(k)
    <2> DEFINE old == heap[L(k)].bucket[User(k)]
               mine == IF conn[k].rate = 0 THEN None
                       ELSE IF old # None THEN old ELSE [rate |-> conn[k].rate, by |-> k]
    <2>1. /\ conn[k].at = "bucket" /\ conn'[k].at = Past(k) /\ conn'[k].kind = conn[k].kind
          /\ conn'[k].l = conn[k].l /\ conn'[k].user = conn[k].user
      BY <1>8, <1>k DEF TakesBucket, Connections
    <2>2. Has(k, l, u)' <=> Has(k, l, u)
      BY <2>1 DEF Has, L, User, Holds, Kind, ByHook, Past
    <2>3. UNCHANGED heap \/ heap' = [heap EXCEPT ![L(k)].bucket[User(k)] = mine]
      BY <1>8 DEF TakesBucket
    <2> HIDE DEF mine
    <2>4. heap'[l].places[u] = heap[l].places[u] /\ heap'[l].leaked[u] = heap[l].leaked[u]
      <3>1. L(k) \in Limiters BY <1>8 DEF TakesBucket, WhereOK
      <3>2. heap[L(k)] \in Objects BY <3>1 DEF Heaps
      <3>3. [heap[L(k)] EXCEPT !.bucket[User(k)] = mine].places = heap[L(k)].places
        BY <3>2 DEF Objects
      <3>4. [heap[L(k)] EXCEPT !.bucket[User(k)] = mine].leaked = heap[L(k)].leaked
        BY <3>2 DEF Objects
      <3> QED BY <2>3, <3>1, <3>3, <3>4 DEF Heaps
    <2> QED BY <1>s, <2>2, <2>4
  <1>9. CASE Routes(k)
    <2>1. /\ conn[k].at \in {"sniff", "route"} /\ conn'[k].at = "rules"
          /\ conn'[k].kind = conn[k].kind /\ conn'[k].user = conn[k].user
          /\ Kind(k) # "link" => conn'[k].l = conn[k].l
      BY <1>9, <1>k DEF Routes, Connections
    <2> QED BY <1>9, <1>m, <2>1 DEF Routes, Holds, Kind, ByHook
  <1>10. CASE RulesPass(k)
    BY <1>10, <1>g, <1>m DEF RulesPass, Holds, Kind, ByHook
  <1>11. CASE HandlerDispatches(k)
    BY <1>11, <1>g, <1>m DEF HandlerDispatches, Holds, Kind, ByHook
  <1>12. CASE RuleRejects(k) \/ NoHandler(k) \/ Closes(k)
    <2>1. GivesBack(k) /\ Ends(k) /\ conn[k].at \in {"rules", "live"}
      BY <1>12 DEF RuleRejects, NoHandler, Closes
    <2>2. ~Has(k, l, u)' BY <1>e, <2>1
    <2>3. Holds(k) <=> conn[k].owes \/ (Kind(k) = "packet" /\ conn[k].at = "live")
      BY <2>1 DEF WhereOK, Holds, Kind, ByHook
    <2>4. Holds(k) => L(k) \in Limiters /\ User(k) \in Users
      BY <1>k, <2>1 DEF WhereOK, Holds, ByHook, User, Connections
    <2>5. CASE conn[k].owes
      <3>1. heap' = [heap EXCEPT ![L(k)].places[User(k)] = @ - 1] BY <2>1, <2>5 DEF GivesBack
      <3>2. /\ heap'[l].leaked[u] = heap[l].leaked[u]
            /\ heap'[l].places[u] = IF l = L(k) /\ u = User(k) THEN heap[l].places[u] - 1
                                    ELSE heap[l].places[u]
        BY <1>k, <2>3, <2>4, <2>5, <3>1 DEF Heaps, Objects
      <3> QED BY <1>n, <2>2, <2>3, <2>5, <3>2 DEF Has, One
    <2>6. CASE ~conn[k].owes /\ Kind(k) = "packet" /\ conn[k].at = "live"
      <3>1. heap' = [heap EXCEPT ![L(k)].leaked[User(k)] = @ + 1] BY <2>1, <2>6 DEF GivesBack
      <3>2. /\ heap'[l].places[u] = heap[l].places[u]
            /\ heap'[l].leaked[u] = IF l = L(k) /\ u = User(k) THEN heap[l].leaked[u] + 1
                                    ELSE heap[l].leaked[u]
        BY <1>k, <2>3, <2>4, <2>6, <3>1 DEF Heaps, Objects
      <3> QED BY <1>n, <2>2, <2>3, <2>6, <3>2 DEF Has, One
    <2>7. CASE ~conn[k].owes /\ ~(Kind(k) = "packet" /\ conn[k].at = "live")
      BY <1>f, <2>1, <2>2, <2>3, <2>7 DEF GivesBack, Has
    <2> QED BY <2>5, <2>6, <2>7
  <1> QED
    BY <1>1, <1>2, <1>3, <1>4, <1>5, <1>6, <1>7, <1>8, <1>9, <1>10, <1>11, <1>12
       DEF Connects, ConnStep

\* PlacesMatch, said of the net places of each user.
LEMMA PlacesNet ==
    PlacesMatch <=> \A l \in Limiters, u \in Users : Net(l, u) = Cardinality(Holders(l, u))
  BY DEF PlacesMatch, Net, Holders, Has

\* At first nobody has a place, and none is taken.
LEMMA InitPlaces == Init => PlacesMatch
  <1> SUFFICES ASSUME Init, NEW l \in Limiters, NEW u \in Users
               PROVE  Net(l, u) = Cardinality(Holders(l, u))
    BY PlacesNet
  <1>1. Holders(l, u) = {} BY DEF Init, Holders, Has, Holds, Idle, Kind, ByHook
  <1>2. heap[l].places[u] = 0 /\ heap[l].leaked[u] = 0 BY DEF Init, Fresh
  <1> QED BY <1>1, <1>2, FS_EmptySet DEF Net

\* Every step keeps the places equal to the connections that hold one.
LEMMA NextPlaces == IInv /\ PlacesMatch /\ [Next]_vars => PlacesMatch'
  <1> SUFFICES ASSUME IInv, PlacesMatch, [Next]_vars, NEW l \in Limiters, NEW u \in Users
               PROVE  Net(l, u)' = Cardinality(Holders(l, u)')
    BY DEF PlacesMatch, Net, Holders, Has
  <1>0. Net(l, u) = Cardinality(Holders(l, u)) BY PlacesNet
  <1>1. CASE Controls
    <2>1. \A k \in Conns : Has(k, l, u)' <=> Has(k, l, u)
      BY <1>1, ControlsConn DEF Has, L, User, Holds, Kind, ByHook
    <2>2. Holders(l, u)' = Holders(l, u) BY <2>1 DEF Holders
    <2>3. CASE \E k \in Conns : L(k) = l
      BY <1>0, <1>1, <2>2, <2>3, ControlsHeap DEF Net
    <2>4. CASE ~\E k \in Conns : L(k) = l
      <3>1. Holders(l, u) = {} BY <2>4 DEF Holders, Has
      <3> QED BY <1>0, <1>1, <2>2, <2>4, <3>1, ControlsHeap, FS_EmptySet DEF Net
    <2> QED BY <2>3, <2>4
  <1>2. ASSUME NEW k \in Conns, Connects(k)
        PROVE  Net(l, u)' = Cardinality(Holders(l, u)')
    <2>1. \A j \in Conns \ {k} : conn'[j] = conn[j] BY <1>2, ConnStepTypes DEF Connects
    <2> QED BY <1>0, <1>2, <2>1, ConnectsNet, HoldersMove
  <1>3. CASE UNCHANGED vars
    BY <1>0, <1>3 DEF vars, Net, Holders, Has, L, User, Holds, Kind, ByHook
  <1> QED BY <1>1, <1>2, <1>3, NextSplit

\* Each connection gives its place back once, to the limiter it had it from.
THEOREM PlacesCorrect == Spec => []PlacesMatch
  <1>1. Init => IInv /\ PlacesMatch BY InitIInv, InitPlaces
  <1>2. IInv /\ PlacesMatch /\ [Next]_vars => (IInv /\ PlacesMatch)'
    BY NextIInv, NextPlaces
  <1> QED BY <1>1, <1>2, PTL DEF Spec

-----------------------------------------------------------------------------
(* The stream *)

Sent(n) == [i \in 1..n |-> i]
All(s) == s.got \o s.cache \o s.pipe

\* Two sequences of the same elements are equal.
LEMMA SameSeq ==
    ASSUME NEW s \in Seq(Nat), NEW t \in Seq(Nat), Len(s) = Len(t),
           \A i \in 1..Len(s) : s[i] = t[i]
    PROVE  s = t
  BY SeqEqual

\* Concatenation is associative.
LEMMA Reassociate ==
    \A s, t, u \in Seq(Nat) : (s \o t) \o u = s \o (t \o u)
  BY ConcatAssociative, SMTT(30)

\* What n chunks make is a sequence of n.
LEMMA SentSeq == ASSUME NEW n \in Nat PROVE Sent(n) \in Seq(Nat) /\ Len(Sent(n)) = n
  BY DEF Sent

\* The next chunk is appended to what has been sent.
LEMMA SentNext == ASSUME NEW n \in Nat PROVE Sent(n) \o <<n + 1>> = Sent(n + 1)
  <1>1. Sent(n) \in Seq(Nat) /\ Sent(n + 1) \in Seq(Nat) BY SentSeq
  <1>2. Append(Sent(n), n + 1) = Sent(n) \o <<n + 1>> BY <1>1, AppendIsConcat
  <1>3. Append(Sent(n), n + 1) \in Seq(Nat) BY <1>1, AppendProperties
  <1>4. Len(Append(Sent(n), n + 1)) = Len(Sent(n + 1)) BY <1>1, AppendProperties, SentSeq
  <1>5. \A i \in 1..n + 1 : Append(Sent(n), n + 1)[i] = Sent(n + 1)[i]
    BY <1>1, AppendProperties, SentSeq DEF Sent
  <1>6. Append(Sent(n), n + 1) = Sent(n + 1)
    <2> DEFINE a == Append(Sent(n), n + 1)
               b == Sent(n + 1)
    <2>1. a \in Seq(Nat) /\ b \in Seq(Nat) BY <1>1, <1>3
    <2>2. Len(a) = Len(b) /\ Len(a) = n + 1 BY <1>4, SentSeq
    <2>3. \A i \in 1..Len(a) : a[i] = b[i] BY <1>5, <2>2
    <2> HIDE DEF a, b
    <2>4. a = b BY <2>1, <2>2, <2>3, SameSeq
    <2> QED BY <2>4 DEF a, b
  <1> QED BY <1>2, <1>6

\* No step takes anything out of a stream, puts anything else in, or changes its order.
LEMMA NextStream == IInv /\ StreamKept /\ [Next]_vars => StreamKept'
  <1> SUFFICES ASSUME IInv, StreamKept, [Next]_vars PROVE StreamKept' OBVIOUS
  <1> USE DEF IInv, TypeOK, Panics, Control
  <1> DEFINE Good(k) == All(stream[k]) = Sent(stream[k].sent)
  <1>0. \A k \in Conns : Good(k) BY DEF StreamKept, All, Sent
  <1> SUFFICES \A k \in Conns : Good(k)' BY DEF StreamKept, All, Sent
  <1>1. CASE UNCHANGED stream BY <1>0, <1>1
  <1>2. ASSUME NEW k \in Conns, Connects(k) PROVE \A j \in Conns : Good(j)'
    <2> DEFINE s == stream[k]
               t == stream'[k]
    <2>s. /\ s.got \in Seq(Nat) /\ s.cache \in Seq(Nat) /\ s.pipe \in Seq(Nat)
          /\ s.sent \in Nat /\ s \in Streams
      <3>1. s \in Streams OBVIOUS
      <3> QED BY <3>1 DEF Streams
    <2>a. All(s) = Sent(s.sent) BY <1>0
    <2>b. ASSUME NEW new, stream' = [stream EXCEPT ![k] = new], All(new) = Sent(new.sent)
          PROVE  \A j \in Conns : Good(j)'
      BY <1>0, <2>b DEF All
    <2>1. CASE Sends(k)
      <3> DEFINE e == s.sent + 1
                 pipe == Append(s.pipe, e)
                 new == [s EXCEPT !.pipe = pipe, !.sent = e]
      <3>1. stream' = [stream EXCEPT ![k] = new] BY <2>1 DEF Sends
      <3>2. e \in Nat /\ <<e>> \in Seq(Nat) BY <2>s
      <3>3. pipe = s.pipe \o <<e>> BY <2>s, <3>2, AppendIsConcat
      <3>4. new.got = s.got /\ new.cache = s.cache /\ new.pipe = pipe /\ new.sent = e
        BY <2>s DEF Streams
      <3>5. s.got \o s.cache \in Seq(Nat) BY <2>s, ConcatProperties
      <3>6. (s.got \o s.cache) \o (s.pipe \o <<e>>) = ((s.got \o s.cache) \o s.pipe) \o <<e>>
        <4> HIDE DEF s, e, IInv, TypeOK
        <4> QED BY <2>s, <3>2, <3>5, Reassociate, Zenon
      <3>7. Sent(s.sent) \o <<e>> = Sent(e) BY <2>s, SentNext
      <3> HIDE DEF new, pipe, e
      <3>8. All(new) = Sent(new.sent) BY <2>a, <3>3, <3>4, <3>6, <3>7 DEF All
      <3> QED BY <2>b, <3>1, <3>8
    <2>2. CASE Caches(k)
      <3> DEFINE cache == s.cache \o s.pipe
                 new == [s EXCEPT !.cache = cache, !.pipe = <<>>]
      <3>1. stream' = [stream EXCEPT ![k] = new] BY <2>2 DEF Caches
      <3>2. new.got = s.got /\ new.cache = cache /\ new.pipe = <<>> /\ new.sent = s.sent
        BY <2>s DEF Streams
      <3>3. s.got \o cache \in Seq(Nat) BY <2>s, ConcatProperties
      <3>4. (s.got \o cache) \o <<>> = s.got \o cache BY <3>3, ConcatEmptySeq
      <3>5. s.got \o cache = (s.got \o s.cache) \o s.pipe
        <4> HIDE DEF s, IInv, TypeOK
        <4> QED BY <2>s, Reassociate, Zenon
      <3> HIDE DEF new, cache
      <3>6. All(new) = Sent(new.sent) BY <2>a, <3>2, <3>4, <3>5 DEF All
      <3> QED BY <2>b, <3>1, <3>6
    <2>3. CASE Reads(k) /\ s.cache # <<>>
      <3> DEFINE got == s.got \o s.cache
                 new == [s EXCEPT !.got = got, !.cache = <<>>]
      <3>1. stream' = [stream EXCEPT ![k] = new] BY <2>3 DEF Reads
      <3>2. new.got = got /\ new.cache = <<>> /\ new.pipe = s.pipe /\ new.sent = s.sent
        BY <2>s DEF Streams
      <3>3. got \in Seq(Nat) BY <2>s, ConcatProperties
      <3>4. got \o <<>> = got BY <3>3, ConcatEmptySeq
      <3>5. All(s) = got \o s.pipe BY DEF All
      <3> HIDE DEF new, got
      <3>6. All(new) = Sent(new.sent) BY <2>a, <3>2, <3>4, <3>5 DEF All
      <3> QED BY <2>b, <3>1, <3>6
    <2>4. CASE Reads(k) /\ s.cache = <<>>
      <3> DEFINE got == s.got \o s.pipe
                 new == [s EXCEPT !.got = got, !.pipe = <<>>]
      <3>1. stream' = [stream EXCEPT ![k] = new] BY <2>4 DEF Reads
      <3>2. new.got = got /\ new.cache = <<>> /\ new.pipe = <<>> /\ new.sent = s.sent
        BY <2>s, <2>4 DEF Streams
      <3>3. got \in Seq(Nat) BY <2>s, ConcatProperties
      <3>4. (got \o <<>>) \o <<>> = got BY <3>3, ConcatEmptySeq
      <3>5. s.got \o <<>> = s.got BY <2>s, ConcatEmptySeq
      <3>6. All(s) = got BY <2>4, <3>5 DEF All
      <3> HIDE DEF new, got
      <3>7. All(new) = Sent(new.sent) BY <2>a, <3>2, <3>4, <3>6 DEF All
      <3> QED BY <2>b, <3>1, <3>7
    <2>5. CASE Ends(k)
      <3>1. stream' = [stream EXCEPT ![k] = NoStream] BY <2>5 DEF Ends
      <3>2. All(NoStream) = <<>> BY EmptySeq, ConcatEmptySeq DEF All, NoStream
      <3>3. Sent(NoStream.sent) = <<>> BY DEF Sent, NoStream
      <3> QED BY <2>b, <3>1, <3>2, <3>3
    <2>6. \/ Sends(k) \/ Caches(k) \/ Reads(k) \/ Ends(k) \/ UNCHANGED stream
      BY <1>2 DEF Connects, ConnStep, Dispatches, HookBegins, DispatchesLink, HookFindsNone,
                  Admits, Refuses, LoadsLimit, TakesBucket, Routes, RuleRejects, RulePanics,
                  RulesPass, NoHandler, HandlerDispatches, ReadsPacket, Closes
    <2> QED BY <1>1, <2>1, <2>2, <2>3, <2>4, <2>5, <2>6
  <1>3. CASE Controls BY <1>1, <1>3, ControlsConn
  <1>4. CASE UNCHANGED vars BY <1>1, <1>4 DEF vars
  <1> QED BY <1>2, <1>3, <1>4, NextSplit

\* At first nothing has been sent.
LEMMA InitStream == Init => StreamKept
  <1> SUFFICES ASSUME Init, NEW k \in Conns PROVE All(NoStream) = Sent(0)
    BY DEF Init, StreamKept, NoStream, All, Sent
  <1>1. All(NoStream) = <<>> BY EmptySeq, ConcatEmptySeq DEF All, NoStream
  <1>2. Sent(0) = <<>> BY DEF Sent
  <1> QED BY <1>1, <1>2

\* What the handler reads, with cache and pipe, is what the client has sent, in its order.
THEOREM StreamCorrect == Spec => []StreamKept
  <1>1. Init => IInv /\ StreamKept BY InitIInv, InitStream
  <1>2. IInv /\ StreamKept /\ [Next]_vars => (IInv /\ StreamKept)'
    BY NextIInv, NextStream
  <1> QED BY <1>1, <1>2, PTL DEF Spec

-----------------------------------------------------------------------------
(* Limits *)

\* The limit of a user in a limiter, as a connection would load it now.
LimitIn(l, u) ==
    Slower(node.limit, IF node.core = "xray" THEN heap[l].limits[u] ELSE 0)

\* The controller is between AddUsers and UpdateUser for user u of limiter l.
Relimiting(l, u) == ctl \in {"added", "deleted"} /\ l = registry /\ u = who

\* A connection that has not loaded its limit yet, and one that has just.
Before(k) == \/ Kind(k) # "link" /\ conn[k].at \in {"check", "limit"}
             \/ ByHook(k) /\ conn[k].at = "rules"
Loaded(k) == Kind(k) # "link" /\ conn[k].at = "bucket"

\* The limiter in use has the limits of the panel, but for those it has missed.
PanelStored ==
    registry \in Limiters =>
        \A u \in Users \ heap[registry].missed :
            Relimiting(registry, u) \/ heap[registry].limits[u] = panel[u]

OthersKnown == \A l \in Limiters, u \in Users : Relimiting(l, u) => u \in heap[l].others

\* While a user has had one limit in a limiter, his bucket there has that rate.
BucketRate ==
    \A l \in Limiters, u \in Users :
        (heap[l].bucket[u] # None /\ u \notin heap[l].others)
            => heap[l].bucket[u].rate = LimitIn(l, u)

\* What is due to a connection, and can be had from its limiter.
IsDue(k) == conn[k].due # None /\ ~Overlooked(k)

\* What is due to a connection is what it will load, has loaded, or has taken.
DueKept ==
    \A k \in Conns :
        /\ (Before(k) /\ IsDue(k))
              => conn[k].due = LimitIn(L(k), User(k)) /\ ~Relimiting(L(k), User(k))
        /\ Loaded(k) => /\ IsDue(k) => conn[k].due = conn[k].rate
                        /\ User(k) \notin heap[L(k)].others => conn[k].rate = LimitIn(L(k), User(k))
        /\ (PastBucket(k) /\ IsDue(k))
              => /\ conn[k].bucket # None <=> conn[k].due # 0
                 /\ User(k) \notin heap[L(k)].others => conn[k].due = LimitIn(L(k), User(k))

LimitInv == PanelStored /\ OthersKnown /\ BucketRate /\ DueKept

\* LimitedInForce follows from what is said of limiters and connections apart.
LEMMA LimitInvSuffices == IInv /\ BucketStored /\ LimitInv => LimitedInForce
  <1> SUFFICES ASSUME IInv, BucketStored, LimitInv,
                      NEW k \in Conns, PastBucket(k), conn[k].due # None, ~Overlooked(k)
               PROVE  /\ conn[k].bucket # None <=> conn[k].due # 0
                      /\ (conn[k].bucket # None /\ User(k) \notin heap[L(k)].others)
                            => conn[k].bucket.rate = conn[k].due
    BY DEF LimitedInForce
  <1>1. conn[k] \in Connections BY DEF IInv, TypeOK
  <1>2. L(k) \in Limiters /\ User(k) \in Users
    BY <1>1 DEF IInv, WhereOK, PastBucket, ByHook, Connections, User
  <1> QED BY <1>2 DEF LimitInv, DueKept, IsDue, BucketRate, BucketStored

\* At first the limiter has the limits of the panel, and nothing is due.
LEMMA InitLimit == Init => LimitInv
  <1> SUFFICES ASSUME Init PROVE LimitInv OBVIOUS
  <1>1. \A k \in Conns : conn[k].at = "idle" BY DEF Init, Idle
  <1>2. \A l \in Limiters, u \in Users :
          heap[l].bucket[u] = None /\ heap[l].limits[u] = panel[u]
    BY DEF Init, Fresh
  <1>3. PanelStored BY <1>2 DEF PanelStored
  <1>4. OthersKnown BY DEF OthersKnown, Relimiting, Init
  <1>5. BucketRate BY <1>2 DEF BucketRate
  <1>6. DueKept BY <1>1 DEF DueKept, Before, Loaded, PastBucket, ByHook
  <1> QED BY <1>3, <1>4, <1>5, <1>6 DEF LimitInv

\* A connection changes no limits.
LEMMA ConnectsLimits ==
    ASSUME IInv, NEW k \in Conns, Connects(k)
    PROVE  \A l \in Limiters : /\ heap'[l].limits = heap[l].limits
                               /\ heap'[l].others = heap[l].others
                               /\ heap'[l].missed = heap[l].missed
  <1> USE DEF IInv, TypeOK, Panics, Control
  <1>0. \A l \in Limiters : heap[l] \in Objects BY DEF Heaps
  <1> DEFINE Same == \A l \in Limiters : /\ heap'[l].limits = heap[l].limits
                                         /\ heap'[l].others = heap[l].others
                                         /\ heap'[l].missed = heap[l].missed
  <1>u. ASSUME UNCHANGED heap PROVE Same BY <1>u
  <1>p. ASSUME NEW n, heap' = [heap EXCEPT ![L(k)].places[User(k)] = n] PROVE Same
    BY <1>0, <1>p DEF Heaps, Objects
  <1>l. ASSUME NEW n, heap' = [heap EXCEPT ![L(k)].leaked[User(k)] = n] PROVE Same
    BY <1>0, <1>l DEF Heaps, Objects
  <1>b. ASSUME NEW b, heap' = [heap EXCEPT ![L(k)].bucket[User(k)] = b] PROVE Same
    BY <1>0, <1>b DEF Heaps, Objects
  <1>g. ASSUME GivesBack(k) PROVE Same BY <1>g, <1>u, <1>p, <1>l DEF GivesBack
  <1>1. CASE \/ \E kind \in Kinds(node.core) : Dispatches(k, kind) \/ HookBegins(k, kind)
             \/ DispatchesLink(k) \/ HookFindsNone(k) \/ Sends(k) \/ Reads(k)
    BY <1>1 DEF Dispatches, HookBegins, DispatchesLink, HookFindsNone, Sends, Reads
  <1>2. CASE Admits(k) BY <1>2, <1>u, <1>p DEF Admits
  <1>3. CASE RuleRejects(k) \/ NoHandler(k) \/ Closes(k)
    BY <1>3, <1>g DEF RuleRejects, NoHandler, Closes
  <1>4. CASE \/ Refuses(k) \/ LoadsLimit(k) \/ Caches(k) \/ Routes(k) \/ RulePanics(k)
             \/ RulesPass(k) \/ HandlerDispatches(k) \/ ReadsPacket(k)
    BY <1>4 DEF Refuses, LoadsLimit, Caches, Routes, RulePanics, RulesPass, HandlerDispatches,
                ReadsPacket
  <1>5. CASE TakesBucket(k) BY <1>5, <1>u, <1>b DEF TakesBucket
  <1> QED BY <1>1, <1>2, <1>3, <1>4, <1>5 DEF Connects, ConnStep

\* A connection keeps what is due to it.
LEMMA ConnectsDue ==
    ASSUME IInv, BucketStored, LimitInv, NEW k \in Conns, Connects(k)
    PROVE  LimitInv'
  <1> USE DispatchAssumption DEF IInv, TypeOK, Panics, Control, Kind, ByHook
  <1>0. /\ conn' \in [Conns -> Connections]
        /\ \A j \in Conns \ {k} : conn'[j] = conn[j]
        /\ User(k)' = User(k) /\ UNCHANGED Control
    BY ConnStepTypes, ConnectsRest DEF Connects
  <1>k. conn[k] \in Connections /\ User(k) \in Users BY DEF User, Connections
  <1>1. /\ \A l \in Limiters, u \in Users : LimitIn(l, u)' = LimitIn(l, u)
        /\ \A l, u : Relimiting(l, u)' <=> Relimiting(l, u)
    BY <1>0, ConnectsLimits DEF LimitIn, Relimiting
  <1>2. PanelStored' BY <1>0, <1>1, ConnectsLimits DEF LimitInv, PanelStored
  <1>3. OthersKnown' BY <1>1, ConnectsLimits DEF LimitInv, OthersKnown
  <1> DEFINE old == heap[L(k)].bucket[User(k)]
             mine == IF conn[k].rate = 0 THEN None
                     ELSE IF old # None THEN old ELSE [rate |-> conn[k].rate, by |-> k]
  <1>4. BucketRate'
    <2>1. CASE ~TakesBucket(k)
      BY <1>1, <2>1, ConnectsHeap, ConnectsLimits DEF LimitInv, BucketRate
    <2>2. CASE TakesBucket(k)
      <3> SUFFICES ASSUME NEW l \in Limiters, NEW u \in Users,
                          heap'[l].bucket[u] # None, u \notin heap'[l].others
                   PROVE  heap'[l].bucket[u].rate = LimitIn(l, u)'
        BY DEF BucketRate
      <3>1. L(k) \in Limiters BY <2>2 DEF TakesBucket, WhereOK
      <3>2. UNCHANGED heap \/ heap' = [heap EXCEPT ![L(k)].bucket[User(k)] = mine]
        BY <2>2 DEF TakesBucket
      <3>m. mine # None => mine = old \/ mine.rate = conn[k].rate BY <1>k DEF Connections
      <3> HIDE DEF mine
      <3>3. \/ heap'[l].bucket[u] = heap[l].bucket[u]
            \/ l = L(k) /\ u = User(k) /\ heap'[l].bucket[u] = mine
        <4>1. heap[l] \in Objects /\ heap[L(k)] \in Objects BY <3>1 DEF Heaps
        <4> QED BY <1>k, <3>1, <3>2, <4>1 DEF Heaps, Objects
      <3>4. u \notin heap[l].others BY ConnectsLimits
      <3>5. Loaded(k) BY <2>2 DEF TakesBucket, Loaded, WhereOK
      <3> QED BY <1>1, <3>3, <3>4, <3>5, <3>m DEF LimitInv, BucketRate, DueKept
    <2> QED BY <2>1, <2>2
  <1>5. DueKept'
    <2> DEFINE Had(c) == c.due # None /\ ~(node.core = "sing" /\ c.due # node.limit)
               Fine(c) ==
                 /\ (\/ c.kind # "link" /\ c.at \in {"check", "limit"}
                     \/ c.kind \in {"hook", "packet"} /\ c.at = "rules") /\ Had(c)
                       => c.due = LimitIn(c.l, c.user) /\ ~Relimiting(c.l, c.user)
                 /\ c.kind # "link" /\ c.at = "bucket" =>
                       /\ Had(c) => c.due = c.rate
                       /\ c.user \notin heap[c.l].others => c.rate = LimitIn(c.l, c.user)
                 /\ (IF c.kind \in {"hook", "packet"} THEN c.at = "live"
                     ELSE c.kind # "link" /\ c.at \in {"sniff", "route", "rules", "live"})
                    /\ Had(c)
                       => /\ c.bucket # None <=> c.due # 0
                          /\ c.user \notin heap[c.l].others => c.due = LimitIn(c.l, c.user)
    <2>1. \A j \in Conns : Fine(conn[j])
      BY DEF LimitInv, DueKept, IsDue, Overlooked, Before, Loaded, PastBucket, L, User
    <2>2. ASSUME Fine(conn'[k]) PROVE DueKept'
      <3>1. \A j \in Conns : Fine(conn'[j]) BY <1>0, <2>1, <2>2
      <3>2. WhereOK' BY ConnectsWhere
      <3> SUFFICES ASSUME NEW j \in Conns
                   PROVE  /\ (Before(j)' /\ IsDue(j)')
                               => conn'[j].due = LimitIn(L(j), User(j))' /\ ~Relimiting(L(j), User(j))'
                          /\ Loaded(j)' =>
                               /\ IsDue(j)' => conn'[j].due = conn'[j].rate
                               /\ User(j)' \notin heap'[L(j)'].others
                                    => conn'[j].rate = LimitIn(L(j), User(j))'
                          /\ (PastBucket(j)' /\ IsDue(j)') =>
                               /\ conn'[j].bucket # None <=> conn'[j].due # 0
                               /\ User(j)' \notin heap'[L(j)'].others
                                    => conn'[j].due = LimitIn(L(j), User(j))'
        BY DEF DueKept
      <3>3. Before(j)' \/ Loaded(j)' \/ PastBucket(j)' => L(j)' \in Limiters /\ User(j)' \in Users
        <4>1. conn'[j] \in Connections BY <1>0
        <4> QED BY <3>2, <4>1 DEF WhereOK, Before, Loaded, PastBucket, User, Connections
      <3>4. L(j)' \in Limiters /\ User(j)' \in Users =>
              /\ LimitIn(L(j), User(j))' = LimitIn(L(j)', User(j)')
              /\ heap'[L(j)'].others = heap[L(j)'].others
        <4>1. ASSUME L(j)' \in Limiters, User(j)' \in Users
              PROVE  LimitIn(L(j), User(j))' = LimitIn(L(j)', User(j)')
          BY <1>0, <4>1, ConnectsLimits DEF LimitIn
        <4> QED BY <4>1, ConnectsLimits
      <3>5. Relimiting(L(j), User(j))' <=> Relimiting(L(j)', User(j)') BY <1>0 DEF Relimiting
      <3>6. /\ L(j)' = conn'[j].l /\ User(j)' = conn'[j].user
            /\ IsDue(j)' <=> Had(conn'[j])
            /\ Before(j)' <=> \/ conn'[j].kind # "link" /\ conn'[j].at \in {"check", "limit"}
                              \/ conn'[j].kind \in {"hook", "packet"} /\ conn'[j].at = "rules"
            /\ Loaded(j)' <=> conn'[j].kind # "link" /\ conn'[j].at = "bucket"
            /\ PastBucket(j)' <=>
                 IF conn'[j].kind \in {"hook", "packet"} THEN conn'[j].at = "live"
                 ELSE conn'[j].kind # "link" /\ conn'[j].at \in {"sniff", "route", "rules", "live"}
        BY <1>0 DEF L, User, IsDue, Overlooked, Before, Loaded, PastBucket
      <3>7. Fine(conn'[j]) BY <3>1
      <3> QED BY <3>3, <3>4, <3>5, <3>6, <3>7
    <2> SUFFICES Fine(conn'[k]) BY <2>2
    <2>k. Fine(conn[k]) BY <2>1
    <2> DEFINE Same == /\ conn'[k].kind = conn[k].kind /\ conn'[k].user = conn[k].user
                       /\ conn'[k].due = conn[k].due
               Kept == Same /\ conn'[k].l = conn[k].l /\ conn'[k].rate = conn[k].rate
                            /\ conn'[k].bucket = conn[k].bucket
    <2>e. ASSUME Ends(k) PROVE Fine(conn'[k]) BY <2>e DEF Ends, Idle
    <2>u. ASSUME UNCHANGED conn PROVE Fine(conn'[k]) BY <2>u, <2>k
    <2>g. ASSUME NEW a, Goto(k, a) PROVE conn'[k].at = a /\ Kept
      BY <1>k, <2>g DEF Goto, Connections
    <2>b. ASSUME NEW kind, NEW m, NEW at, Begin(k, kind, m, at),
                 \/ kind = "link" /\ at = "route"
                 \/ at \in {"rules", "check"} /\ m = registry /\ registry # None,
                 kind \in {"link", "hook", "packet"} \/ at = "check"
          PROVE  Fine(conn'[k])
      <3>1. /\ conn'[k].kind = kind /\ conn'[k].at = at /\ conn'[k].l = m
            /\ conn'[k].user = conn[k].user
            /\ conn'[k].due = IF kind = "link" THEN None ELSE Due(k)
        BY <1>k, <2>b DEF Begin, Connections
      <3>2. ASSUME registry # None, Due(k) # None,
                   ~(node.core = "sing" /\ Due(k) # node.limit)
            PROVE  Due(k) = LimitIn(registry, User(k)) /\ ~Relimiting(registry, User(k))
        <4>1. ~Relimiting(registry, User(k)) /\ Due(k) = Slower(node.limit, panel[User(k)])
          BY <3>2 DEF Due, Stored, Relimiting
        <4>2. CASE node.core = "xray"
          <5>1. heap[registry].limits[User(k)] = panel[User(k)]
            BY <1>k, <3>2, <4>1 DEF Due, LimitInv, PanelStored
          <5> QED BY <4>1, <4>2, <5>1 DEF LimitIn
        <4>3. CASE node.core = "sing"
          <5>1. Slower(node.limit, 0) = node.limit BY DEF Slower
          <5> QED BY <3>2, <4>1, <4>3, <5>1 DEF LimitIn
        <4> QED BY <4>1, <4>2, <4>3
      <3> QED BY <2>b, <3>1, <3>2 DEF User
    <2>3. CASE \E kind \in Kinds(node.core) : Dispatches(k, kind)
      BY <2>3, <2>b DEF Dispatches
    <2>4. CASE \E kind \in Kinds(node.core) : HookBegins(k, kind)
      BY <2>4, <2>b DEF HookBegins, Kinds
    <2>5. CASE DispatchesLink(k) BY <2>5, <2>b DEF DispatchesLink
    <2>6. CASE HookFindsNone(k) \/ Sends(k) \/ Reads(k) \/ Caches(k) \/ RulePanics(k) \/ ReadsPacket(k)
      BY <2>6, <2>u DEF HookFindsNone, Sends, Reads, Caches, RulePanics, ReadsPacket
    <2>7. CASE Refuses(k) \/ RuleRejects(k) \/ NoHandler(k) \/ Closes(k)
      BY <2>7, <2>e DEF Refuses, RuleRejects, NoHandler, Closes
    <2>8. CASE Admits(k) BY <2>8, <2>g, <2>k DEF Admits
    <2>9. CASE LoadsLimit(k)
      <3>1. /\ Same /\ conn[k].at = "limit" /\ conn'[k].at = "bucket" /\ conn'[k].l = conn[k].l
            /\ conn'[k].rate = Slower(node.limit, UserLimit(k))
        BY <1>k, <2>9 DEF LoadsLimit, Connections
      <3>2. conn'[k].rate = LimitIn(L(k), User(k)) BY <3>1 DEF UserLimit, LimitIn
      <3> QED BY <2>k, <3>1, <3>2 DEF L, User
    <2>10. CASE TakesBucket(k)
      <3>1. /\ Same /\ conn[k].at = "bucket" /\ conn'[k].at = Past(k) /\ conn'[k].l = conn[k].l
            /\ conn'[k].bucket = mine /\ conn[k].kind # "link"
        BY <1>k, <2>10 DEF TakesBucket, Connections, WhereOK
      <3>2. mine # None <=> conn[k].rate # 0 BY <1>k DEF Connections
      <3> HIDE DEF mine
      <3> QED BY <2>k, <3>1, <3>2 DEF Past
    <2>11. CASE Routes(k)
      <3>1. /\ conn[k].at \in {"sniff", "route"} /\ conn'[k].at = "rules"
            /\ Same /\ conn'[k].bucket = conn[k].bucket
            /\ Kind(k) # "link" => conn'[k].l = conn[k].l
        BY <1>k, <2>11 DEF Routes, Connections
      <3>2. Kind(k) \notin {"hook", "packet"} BY <3>1 DEF WhereOK
      <3> QED BY <2>k, <3>1, <3>2
    <2>12. CASE RulesPass(k) BY <2>12, <2>g, <2>k DEF RulesPass
    <2>13. CASE HandlerDispatches(k) BY <2>13, <2>g, <2>k DEF HandlerDispatches
    <2> QED
      BY <2>3, <2>4, <2>5, <2>6, <2>7, <2>8, <2>9, <2>10, <2>11, <2>12, <2>13
         DEF Connects, ConnStep
  <1> QED BY <1>2, <1>3, <1>4, <1>5 DEF LimitInv

\* What a step of the controller does to the limits: those of a limiter that stays
\* change for the user it is working for, those of a new one are the panel's.
LEMMA ControlsLimits ==
    ASSUME IInv, Controls, NEW l \in Limiters
    PROVE  \/ /\ heap'[l].bucket = heap[l].bucket
              /\ heap[l].others \subseteq heap'[l].others
              /\ \A u \in Users : heap'[l].limits[u] = heap[l].limits[u] \/ Relimiting(l, u)
           \/ /\ \A k \in Conns : L(k) # l
              /\ \A u \in Users : heap'[l].bucket[u] = None
  <1> USE DEF IInv, TypeOK
  <1> DEFINE Stays == /\ heap'[l].bucket = heap[l].bucket
                      /\ heap[l].others \subseteq heap'[l].others
                      /\ \A u \in Users : heap'[l].limits[u] = heap[l].limits[u] \/ Relimiting(l, u)
             IsNew == /\ \A k \in Conns : L(k) # l
                      /\ \A u \in Users : heap'[l].bucket[u] = None
  <1> SUFFICES Stays \/ IsNew OBVIOUS
  <1>0. heap[l] \in Objects BY DEF Heaps
  <1>u. ASSUME UNCHANGED heap PROVE Stays BY <1>u
  <1>1. CASE \E u \in Users, limit \in Limits : AddsUsers(u, limit)
    <2>1. PICK u \in Users : heap' = [heap EXCEPT ![registry].others = @ \cup {u},
                                                 ![registry].missed = @ \ {u}]
      BY <1>1 DEF AddsUsers
    <2> QED BY <1>0, <2>1 DEF Heaps, Objects
  <1>2. CASE DeletesLimiter \/ ClosesController
    BY <1>2, <1>u DEF DeletesLimiter, ClosesController
  <1>3. CASE KeepsLimiter
    <2>1. ASSUME NEW u \in Users, heap' = [heap EXCEPT ![registry].missed = @ \cup {u}]
          PROVE  Stays
      BY <1>0, <2>1 DEF Heaps, Objects
    <2> QED BY <1>3, <1>u, <2>1 DEF KeepsLimiter
  <1>4. ASSUME ctl \in {"added", "deleted"}, NEW n,
               heap' = [heap EXCEPT ![registry].limits[who] = n]
        PROVE  Stays
    BY <1>0, <1>4 DEF Heaps, Objects, Relimiting
  <1>5. CASE DeletesLimits \/ StoresLimits BY <1>4, <1>5 DEF DeletesLimits, StoresLimits
  <1>6. ASSUME NEW r, heap' = [heap EXCEPT ![registry].rules = r] PROVE Stays
    BY <1>0, <1>6 DEF Heaps, Objects
  <1>7. CASE MakesRules \/ FillsRules BY <1>6, <1>7 DEF MakesRules, FillsRules
  <1>8. CASE AddsLimiter
    <2>1. l \notin FreeLimiters => heap'[l] = heap[l] BY <1>8 DEF AddsLimiter
    <2>2. l \in FreeLimiters => IsNew BY <1>8 DEF AddsLimiter, Fresh, FreeLimiters
    <2> QED BY <2>1, <2>2
  <1> QED BY <1>1, <1>2, <1>3, <1>5, <1>7, <1>8 DEF Controls, CtlStep

\* What is due to a connection that has not loaded its limit is taken back when the
\* panel's list, and then the limiter, gets another.
LEMMA ControlsDue ==
    ASSUME IInv, Controls, NEW k \in Conns
    PROVE  /\ conn'[k].rate = conn[k].rate
           /\ conn'[k].due = conn[k].due \/ conn'[k].due = None
           /\ (Before(k) /\ Relimiting(L(k), User(k))')
                 => conn'[k].due = None \/ Relimiting(L(k), User(k))
  <1> USE DEF IInv, TypeOK
  <1> DEFINE Part == /\ conn'[k].rate = conn[k].rate
                     /\ conn'[k].due = conn[k].due \/ conn'[k].due = None
             Rest == (Before(k) /\ Relimiting(L(k), User(k))')
                        => conn'[k].due = None \/ Relimiting(L(k), User(k))
  <1>k. conn[k] \in Connections OBVIOUS
  <1>l. L(k)' = L(k) /\ User(k)' = User(k) BY ControlsConn DEF L, User
  <1>r. ASSUME NEW u \in Users, NEW limit \in Limits, Relimits(u, limit)
        PROVE  Part /\ (User(k) = u /\ Before(k) => conn'[k].due = None)
    <2>1. conn'[k] = IF User(k) = u /\ conn[k].at \in {"rules", "check", "limit"}
                     THEN [conn[k] EXCEPT !.due = None] ELSE conn[k]
      BY <1>r DEF Relimits
    <2>2. Before(k) => conn[k].at \in {"rules", "check", "limit"} BY DEF Before
    <2> QED BY <1>k, <2>1, <2>2 DEF Connections
  <1>u. ASSUME UNCHANGED conn PROVE Part BY <1>u
  <1>1. ASSUME NEW u \in Users, NEW limit \in Limits, AddsUsers(u, limit) PROVE Part /\ Rest
    BY <1>1, <1>l, <1>r DEF AddsUsers, Relimiting, CtlGoto
  <1>2. CASE DeletesLimiter \/ KeepsLimiter
    BY <1>2, <1>u, <1>r DEF DeletesLimiter, KeepsLimiter, Relimiting, CtlGoto
  <1>3. CASE DeletesLimits
    BY <1>3, <1>u, <1>l DEF DeletesLimits, Relimiting, CtlGoto, Conn
  <1>4. CASE ClosesController \/ StoresLimits \/ AddsLimiter \/ MakesRules \/ FillsRules
    BY <1>4, <1>u DEF ClosesController, StoresLimits, AddsLimiter, MakesRules, FillsRules,
                     Relimiting, CtlGoto, Conn
  <1> QED BY <1>1, <1>2, <1>3, <1>4 DEF Controls, CtlStep

\* The controller keeps what is due to the connections.
LEMMA ControlsLimitInv ==
    ASSUME IInv, BucketStored, LimitInv, Controls
    PROVE  LimitInv'
  <1> USE DispatchAssumption DEF IInv, TypeOK, CtlGoto
  <1>0. \A l \in Limiters : heap[l] \in Objects BY DEF Heaps
  <1>n. node' = node BY ControlsRest
  <1>1. PanelStored'
    <2> DEFINE Good == PanelStored'
    <2>s. ctl = "idle" /\ registry \in Limiters =>
            \A u \in Users \ heap[registry].missed : heap[registry].limits[u] = panel[u]
      BY DEF LimitInv, PanelStored, Relimiting
    <2>1. ASSUME NEW u \in Users, NEW limit \in Limits, AddsUsers(u, limit) PROVE Good
      <3>1. /\ registry \in Limiters /\ registry' = registry /\ who' = u /\ ctl' = "added"
            /\ ctl = "idle" /\ panel' = [panel EXCEPT ![u] = limit]
            /\ heap' = [heap EXCEPT ![registry].others = @ \cup {u}, ![registry].missed = @ \ {u}]
        BY <2>1 DEF AddsUsers, Relimits
      <3>2. /\ heap'[registry].missed = heap[registry].missed \ {u}
            /\ heap'[registry].limits = heap[registry].limits
        BY <1>0, <3>1 DEF Heaps, Objects
      <3> QED BY <2>s, <3>1, <3>2 DEF PanelStored, Relimiting
    <2>2. CASE DeletesLimiter \/ ClosesController
      BY <2>2 DEF DeletesLimiter, ClosesController, PanelStored
    <2>3. CASE KeepsLimiter
      <3>1. registry \in Limiters /\ registry' = registry /\ ctl = "idle"
        BY <2>3 DEF KeepsLimiter
      <3>2. CASE UNCHANGED <<panel, heap>>
        BY <2>s, <3>1, <3>2 DEF PanelStored
      <3>3. ASSUME NEW u \in Users, NEW limit \in Limits, panel' = [panel EXCEPT ![u] = limit],
                   heap' = [heap EXCEPT ![registry].missed = @ \cup {u}]
            PROVE  Good
        <4>1. /\ heap'[registry].missed = heap[registry].missed \cup {u}
              /\ heap'[registry].limits = heap[registry].limits
          BY <1>0, <3>1, <3>3 DEF Heaps, Objects
        <4> QED BY <2>s, <3>1, <3>3, <4>1 DEF PanelStored
      <3> QED BY <2>3, <3>2, <3>3 DEF KeepsLimiter, Relimits
    <2>4. ASSUME registry \in Limiters, registry' = registry, panel' = panel, who \in Users,
                 NEW n, heap' = [heap EXCEPT ![registry].limits[who] = n],
                 ctl \in {"added", "deleted"},
                 (ctl' = "deleted" /\ who' = who) \/ n = panel[who]
          PROVE  Good
      <3>1. heap'[registry].missed = heap[registry].missed BY <1>0, <2>4 DEF Heaps, Objects
      <3>2. \A u \in Users :
              heap'[registry].limits[u] = IF u = who THEN n ELSE heap[registry].limits[u]
        BY <1>0, <2>4 DEF Heaps, Objects
      <3> QED BY <2>4, <3>1, <3>2 DEF LimitInv, PanelStored, Relimiting
    <2>5. CASE DeletesLimits
      BY <2>4, <2>5 DEF DeletesLimits, ControlOK, Relimiting
    <2>6. CASE StoresLimits
      BY <2>4, <2>6 DEF StoresLimits, ControlOK
    <2>7. ASSUME registry \in Limiters, UNCHANGED <<registry, panel>>, ctl \in {"rules", "fill"},
                 NEW r, heap' = [heap EXCEPT ![registry].rules = r]
          PROVE  Good
      <3>1. /\ heap'[registry].missed = heap[registry].missed
            /\ heap'[registry].limits = heap[registry].limits
        BY <1>0, <2>7 DEF Heaps, Objects
      <3> QED BY <2>7, <3>1 DEF LimitInv, PanelStored, Relimiting
    <2>8. CASE MakesRules \/ FillsRules
      BY <2>7, <2>8 DEF MakesRules, FillsRules, ControlOK
    <2>9. CASE AddsLimiter
      <3>1. registry' \in FreeLimiters /\ FreeLimiters \subseteq Limiters
        <4>1. FreeLimiters # {} /\ registry' = CHOOSE l \in FreeLimiters : TRUE
          BY <2>9 DEF AddsLimiter
        <4> QED BY <4>1 DEF FreeLimiters
      <3>2. heap'[registry'] = Fresh(panel) /\ panel' = panel BY <2>9, <3>1 DEF AddsLimiter
      <3> QED BY <3>1, <3>2 DEF PanelStored, Fresh
    <2> QED BY <2>1, <2>2, <2>3, <2>5, <2>6, <2>8, <2>9 DEF Controls, CtlStep
  <1>2. OthersKnown'
    <2>1. ASSUME NEW u \in Users, NEW limit \in Limits, AddsUsers(u, limit) PROVE OthersKnown'
      <3>1. /\ registry \in Limiters /\ registry' = registry /\ who' = u
            /\ heap' = [heap EXCEPT ![registry].others = @ \cup {u}, ![registry].missed = @ \ {u}]
        BY <2>1 DEF AddsUsers
      <3>2. heap'[registry].others = heap[registry].others \cup {u}
        BY <1>0, <3>1 DEF Heaps, Objects
      <3> QED BY <3>1, <3>2 DEF OthersKnown, Relimiting
    <2>2. CASE DeletesLimits
      <3>1. \A l \in Limiters : heap'[l].others = heap[l].others
        BY <1>0, <2>2 DEF DeletesLimits, Heaps, Objects
      <3> QED BY <2>2, <3>1 DEF DeletesLimits, LimitInv, OthersKnown, Relimiting
    <2>3. CASE \/ DeletesLimiter \/ KeepsLimiter \/ ClosesController \/ StoresLimits
               \/ AddsLimiter \/ MakesRules \/ FillsRules
      BY <2>3 DEF DeletesLimiter, KeepsLimiter, ClosesController, StoresLimits, AddsLimiter,
                  MakesRules, FillsRules, OthersKnown, Relimiting
    <2> QED BY <2>1, <2>2, <2>3 DEF Controls, CtlStep
  <1>3. BucketRate'
    <2> SUFFICES ASSUME NEW l \in Limiters, NEW u \in Users,
                        heap'[l].bucket[u] # None, u \notin heap'[l].others
                 PROVE  heap'[l].bucket[u].rate = LimitIn(l, u)'
      BY DEF BucketRate
    <2>1. /\ heap'[l].bucket = heap[l].bucket /\ heap[l].others \subseteq heap'[l].others
          /\ heap'[l].limits[u] = heap[l].limits[u] \/ Relimiting(l, u)
      BY ControlsLimits
    <2>2. ~Relimiting(l, u) BY <2>1 DEF LimitInv, OthersKnown
    <2> QED BY <1>n, <2>1, <2>2 DEF LimitInv, BucketRate, LimitIn
  <1>4. DueKept'
    <2> SUFFICES ASSUME NEW k \in Conns
                 PROVE  /\ (Before(k)' /\ IsDue(k)')
                             => conn'[k].due = LimitIn(L(k), User(k))' /\ ~Relimiting(L(k), User(k))'
                        /\ Loaded(k)' =>
                             /\ IsDue(k)' => conn'[k].due = conn'[k].rate
                             /\ User(k)' \notin heap'[L(k)'].others
                                  => conn'[k].rate = LimitIn(L(k), User(k))'
                        /\ (PastBucket(k)' /\ IsDue(k)') =>
                             /\ conn'[k].bucket # None <=> conn'[k].due # 0
                             /\ User(k)' \notin heap'[L(k)'].others
                                  => conn'[k].due = LimitIn(L(k), User(k))'
      BY DEF DueKept
    <2>1. /\ L(k)' = L(k) /\ User(k)' = User(k) /\ conn'[k].bucket = conn[k].bucket
          /\ Before(k)' <=> Before(k)
          /\ Loaded(k)' <=> Loaded(k)
          /\ PastBucket(k)' <=> PastBucket(k)
      BY ControlsConn DEF L, User, Before, Loaded, PastBucket, ByHook, Kind
    <2>2. Before(k) \/ Loaded(k) \/ PastBucket(k) => L(k) \in Limiters /\ User(k) \in Users
      <3>1. conn[k] \in Connections OBVIOUS
      <3> QED BY <3>1 DEF WhereOK, Before, Loaded, PastBucket, ByHook, User, Connections
    <2>3. L(k) \in Limiters /\ User(k) \in Users =>
            /\ heap[L(k)].others \subseteq heap'[L(k)].others
            /\ LimitIn(L(k), User(k))' = LimitIn(L(k), User(k)) \/ Relimiting(L(k), User(k))
            /\ Relimiting(L(k), User(k)) => User(k) \in heap[L(k)].others
      <3> SUFFICES ASSUME L(k) \in Limiters, User(k) \in Users
                   PROVE  /\ heap[L(k)].others \subseteq heap'[L(k)].others
                          /\ LimitIn(L(k), User(k))' = LimitIn(L(k), User(k)) \/ Relimiting(L(k), User(k))
                          /\ Relimiting(L(k), User(k)) => User(k) \in heap[L(k)].others
        OBVIOUS
      <3>1. /\ heap[L(k)].others \subseteq heap'[L(k)].others
            /\ \/ heap'[L(k)].limits[User(k)] = heap[L(k)].limits[User(k)]
               \/ Relimiting(L(k), User(k))
        BY ControlsLimits
      <3>2. heap'[L(k)].limits[User(k)] = heap[L(k)].limits[User(k)]
              => LimitIn(L(k), User(k))' = LimitIn(L(k), User(k))
        BY <1>n, <2>1 DEF LimitIn
      <3> QED BY <3>1, <3>2 DEF LimitInv, OthersKnown
    <2>4. IsDue(k)' => IsDue(k) /\ conn'[k].due = conn[k].due /\ conn'[k].due # None
      BY <1>n, ControlsDue DEF IsDue, Overlooked
    <2> QED BY <2>1, <2>2, <2>3, <2>4, ControlsDue DEF LimitInv, DueKept
  <1> QED BY <1>1, <1>2, <1>3, <1>4 DEF LimitInv

\* Every step keeps the limits in force.
LEMMA NextLimit == IInv /\ BucketStored /\ LimitInv /\ [Next]_vars => LimitInv'
  <1> SUFFICES ASSUME IInv, BucketStored, LimitInv, [Next]_vars PROVE LimitInv' OBVIOUS
  <1>1. CASE Controls BY <1>1, ControlsLimitInv
  <1>2. CASE \E k \in Conns : Connects(k) BY <1>2, ConnectsDue
  <1>3. CASE UNCHANGED vars
    BY <1>3 DEF vars, LimitInv, PanelStored, OthersKnown, BucketRate, DueKept, Relimiting, LimitIn,
                IsDue, Overlooked, Before, Loaded, PastBucket, ByHook, Kind, L, User
  <1> QED BY <1>1, <1>2, <1>3, NextSplit

\* A connection is limited if and only if the panel has set a limit for its user or the
\* node, and to that limit; but for a limit of his own that a user of sing-box has.
THEOREM LimitCorrect == Spec => []LimitedInForce
  <1>1. Init => IInv /\ BucketStored /\ LimitInv BY InitIInv, InitBucket, InitLimit
  <1>2. IInv /\ BucketStored /\ LimitInv /\ [Next]_vars => (IInv /\ BucketStored /\ LimitInv)'
    BY NextIInv, NextBucket, NextLimit
  <1>3. IInv /\ BucketStored /\ LimitInv => LimitedInForce BY LimitInvSuffices
  <1> QED BY <1>1, <1>2, <1>3, PTL DEF Spec
=============================================================================
