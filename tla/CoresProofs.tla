------------------------------ MODULE CoresProofs ------------------------------
(***************************************************************************)
(* Theorems about Cores for every number of nodes, cores, users, changes   *)
(* and failures: the types, that what listens for a node was asked for,    *)
(* and that a node that was added without an error is served as the panel  *)
(* says.                                                                   *)
(***************************************************************************)
EXTENDS Cores, FiniteSetTheorems, TLAPS

PCs == {"new", "add", "build", "open", "store", "attach", "users", "idle", "del", "delUsers",
        "addUsers"}
Options == [core : {"", "xray", "sing"}, XrayOptions : BOOLEAN, SingOptions : BOOLEAN,
            raw : BOOLEAN]

TypeOK ==
    /\ up \in BOOLEAN
    /\ cores \in SUBSET CoreNames /\ cores # {}
    /\ file \in [Tags -> Files]
    /\ opts \in [Tags -> Options]
    /\ info \in [Tags -> NodeInfos]
    /\ list \in [Tags -> SUBSET Users] /\ newU \in [Tags -> SUBSET Users]
    /\ running \in SUBSET Tags
    /\ changes \in Nat /\ faults \in Nat
    /\ nodes \in [Tags -> CoreNames \cup {None}]
    /\ inbounds \in [CoreNames -> [Tags -> Listeners \cup {None}]]
    /\ attached \in [CoreNames -> SUBSET Tags]
    /\ pc \in [Tags -> PCs]
    /\ on \in [Tags -> CoreNames]
    /\ asked \in [Tags -> NodeInfos \cup {None}]
    /\ trouble \in [Tags -> {"", "failed", "half"}]

Open(t) == In(t) # None /\ In(t).state = "open"
Built(t) == IF Kind(t) = "xray" THEN XrayInbound(info[t], file[t]) ELSE SingInbound(info[t], file[t])

\* A node is in the core that is called for it and in no other; what listens there fits
\* where its controller is.
Placed(t) ==
    /\ on[t] \in cores
    /\ \A c \in CoreNames \ {on[t]} : inbounds[c][t] = None
    /\ (Multi /\ pc[t] \in {"new", "add"}) => In(t) = None
    /\ pc[t] = "new" \/ (Multi /\ pc[t] \in {"add", "build", "open", "store", "attach"})
         => t \notin running
    /\ pc[t] \in {"new", "add", "build", "open", "store"} => ~Open(t) /\ asked[t] = None
    /\ pc[t] = "attach" => /\ asked[t] = None /\ Open(t)
                           /\ In(t).built = Built(t) /\ In(t).users = {}
    /\ pc[t] \in {"del", "delUsers", "addUsers"} => t \in running
    /\ (Multi /\ t \in running) => nodes[t] = on[t]
    /\ pc[t] = "users" => asked[t] # None /\ trouble[t] = ""
    /\ (asked[t] # None /\ trouble[t] = "" /\ pc[t] # "users") => asked[t].type # "socks"
    /\ (asked[t] = None /\ Open(t) /\ pc[t] # "attach") => trouble[t] = "half"

\* The users let in, when nothing has failed.
Due(t) == IF pc[t] = "users" THEN {} ELSE IF pc[t] = "addUsers" THEN list[t] \cap newU[t] ELSE list[t]

\* A node that was added is served, with the users that are due where its controller is.
Served(t) ==
    asked[t] # None =>
        /\ Open(t) /\ t \in attached[on[t]]
        /\ Multi => nodes[t] = on[t]
        /\ Fits(In(t).built, asked[t], file[t], Kind(t))
        /\ trouble[t] = "" => In(t).users = Due(t)

Good(t) == Placed(t) /\ Served(t)
IInv == TypeOK /\ \A t \in Tags : Good(t)

\* Nothing that Good(k) is about has changed.
Frame(k) ==
    /\ UNCHANGED <<cores, file>>
    /\ pc'[k] = pc[k] /\ on'[k] = on[k] /\ nodes'[k] = nodes[k]
    /\ asked'[k] = asked[k] /\ trouble'[k] = trouble[k]
    /\ info'[k] = info[k] /\ list'[k] = list[k] /\ newU'[k] = newU[k]
    /\ k \in running' <=> k \in running
    /\ \A c \in CoreNames : /\ inbounds'[c][k] = inbounds[c][k]
                            /\ k \in attached'[c] <=> k \in attached[c]

\* Only one core is called when there is only one.
LEMMA OneCore == ASSUME TypeOK, ~Multi, NEW c \in cores, NEW d \in cores PROVE c = d
  <1>1. IsFiniteSet(cores) /\ Cardinality(cores) \in Nat
    BY CoresAssumption, FS_Subset, FS_CardinalityType DEF TypeOK
  <1>2. Cardinality(cores) = 0 \/ Cardinality(cores) = 1 BY <1>1 DEF Multi
  <1>3. Cardinality(cores) # 0 BY <1>1, FS_EmptySet DEF TypeOK
  <1> QED BY <1>1, <1>2, <1>3, FS_Singleton

\* What a core builds for a node fits it.
LEMMA BuiltFits ==
    ASSUME NEW n \in NodeInfos, NEW f \in Files
    PROVE  /\ XrayInbound(n, f) \in NodeInfos /\ SingInbound(n, f) \in NodeInfos
           /\ Fits(XrayInbound(n, f), n, f, "xray") /\ Fits(SingInbound(n, f), n, f, "sing")
  BY DEF XrayInbound, SingInbound, Inbound, Security, V2ray, Fits, NodeInfos, Files

\* What one update of the inbounds does to each of them.
LEMMA InboundsUpdate ==
    ASSUME TypeOK, NEW c \in CoreNames, NEW t \in Tags, NEW x \in Listeners \cup {None},
           inbounds' = [inbounds EXCEPT ![c][t] = x]
    PROVE  /\ inbounds' \in [CoreNames -> [Tags -> Listeners \cup {None}]]
           /\ \A d \in CoreNames, k \in Tags :
                inbounds'[d][k] = IF d = c /\ k = t THEN x ELSE inbounds[d][k]
  BY DEF TypeOK

\* A node that a step does not touch stays as good as it is.
LEMMA FrameKeeps == ASSUME TypeOK, NEW k \in Tags, Good(k), Frame(k) PROVE Good(k)'
  <1>1. on[k] \in CoreNames BY DEF TypeOK
  <1>2. /\ In(k)' = In(k)
        /\ Open(k)' <=> Open(k)
        /\ Kind(k)' = Kind(k) /\ Built(k)' = Built(k)
        /\ Multi' <=> Multi
        /\ k \in attached'[on[k]'] <=> k \in attached[on[k]]
    BY <1>1 DEF Frame, In, Open, Kind, Built, Multi
  <1>3. Placed(k)'
    <2>1. Placed(k) BY DEF Good
    <2>2. on'[k] = on[k] /\ UNCHANGED cores /\ pc'[k] = pc[k] /\ asked'[k] = asked[k]
          /\ trouble'[k] = trouble[k] /\ nodes'[k] = nodes[k] /\ (k \in running' <=> k \in running)
      BY DEF Frame
    <2>3. \A c \in CoreNames \ {on'[k]} : inbounds'[c][k] = None
      BY <2>1, <2>2 DEF Frame, Placed
    <2> QED BY <1>2, <2>1, <2>2, <2>3 DEF Placed
  <1>4. Served(k)' BY <1>1, <1>2 DEF Frame, Good, Served, Due
  <1> QED BY <1>3, <1>4 DEF Good

\* At first no node is in a core.
LEMMA InitIInv == Init => IInv
  <1> SUFFICES ASSUME Init PROVE IInv OBVIOUS
  <1> USE CoresAssumption DEF Init
  <1>1. cores \in SUBSET CoreNames /\ cores # {} OBVIOUS
  <1>2. file \in [Tags -> Files]
    <2>1. PICK f \in [Tags -> UNION {Configs[t] : t \in Tags}] :
            file = f /\ \A t \in Tags : f[t] \in Configs[t]
      OBVIOUS
    <2> QED BY <2>1
  <1>3. info \in [Tags -> NodeInfos]
    <2>1. PICK f \in [Tags -> UNION {Infos[t] : t \in Tags}] :
            info = f /\ \A t \in Tags : f[t] \in Infos[t]
      OBVIOUS
    <2> QED BY <2>1
  <1>4. opts \in [Tags -> Options] BY DEF Parse, Options
  <1>5. (CHOOSE c \in cores : TRUE) \in cores BY <1>1
  <1>6. TypeOK BY <1>1, <1>2, <1>3, <1>4, <1>5 DEF TypeOK, PCs
  <1>7. ASSUME NEW t \in Tags PROVE Good(t)
    <2>1. /\ pc[t] = "new" /\ asked[t] = None /\ t \notin running /\ on[t] \in cores
          /\ \A c \in CoreNames : inbounds[c][t] = None
      BY <1>5
    <2>2. on[t] \in CoreNames BY <1>1, <2>1
    <2> HIDE DEF Init
    <2> QED BY <2>1, <2>2 DEF Good, Placed, Served, Open, In
  <1> QED BY <1>6, <1>7 DEF IInv

\* What a step of the controller of t keeps.
Kept(t) == TypeOK' /\ Good(t)' /\ \A k \in Tags \ {t} : Frame(k)

\* A panic leaves everything as it was.
LEMMA PanicsKeeps == ASSUME IInv, NEW t \in Tags, Panics PROVE Kept(t)
  <1>1. UNCHANGED <<cores, file, opts, panel, core, pc, on, faults, asked, trouble>> BY DEF Panics
  <1>2. TypeOK' BY <1>1 DEF Panics, IInv, TypeOK, panel, core
  <1>3. \A k \in Tags : Frame(k) BY <1>1 DEF Frame, panel, core
  <1> QED BY <1>2, <1>3, FrameKeeps DEF IInv, Kept

\* A step that only moves the controller, or fails, without touching the cores.
LEMMA MovesKeeps ==
    ASSUME IInv, NEW t \in Tags, NEW p \in PCs, NEW r \in {"", "failed", "half"},
           pc' = [pc EXCEPT ![t] = p], trouble' = [trouble EXCEPT ![t] = r],
           up' \in BOOLEAN, faults' \in Nat,
           UNCHANGED <<cores, file, opts, panel, core, on, asked>>,
           Good(t)'
    PROVE  Kept(t)
  <1>1. TypeOK' BY DEF IInv, TypeOK, panel, core
  <1>2. \A k \in Tags \ {t} : Frame(k) BY DEF Frame, panel, core, IInv, TypeOK
  <1> QED BY <1>1, <1>2 DEF Kept

\* What stays of the node of t when neither cores nor panel change.
LEMMA SameNode ==
    ASSUME TypeOK, NEW t \in Tags, UNCHANGED <<cores, file, panel, core, on>>
    PROVE  /\ In(t)' = In(t)
           /\ Open(t)' <=> Open(t)
           /\ Kind(t)' = Kind(t) /\ Built(t)' = Built(t)
           /\ Multi' <=> Multi
  BY DEF In, Open, Kind, Built, Multi, panel, core

\* Starts, Builds, StartsInbound: on the way to an inbound.
LEMMA OnTheWay ==
    ASSUME IInv, NEW t \in Tags, NEW p \in {"add", "build", "open", "store"},
           pc[t] \in {"new", "build", "open"},
           p = "add" => pc[t] = "new",
           pc' = [pc EXCEPT ![t] = p], trouble' = trouble, up' = up, faults' \in Nat,
           UNCHANGED <<cores, file, opts, panel, core, on, asked>>
    PROVE  Kept(t)
  <1>1. TypeOK BY DEF IInv
  <1>2. pc'[t] = p /\ trouble' = [trouble EXCEPT ![t] = trouble[t]] BY DEF IInv, TypeOK
  <1>3. Placed(t) BY DEF IInv, Good
  <1>4. asked'[t] = None BY <1>3 DEF Placed
  <1>5. Placed(t)'
    <2>1. /\ on'[t] = on[t] /\ UNCHANGED <<nodes, running, inbounds>> BY DEF panel, core
    <2> QED BY <1>1, <1>2, <1>3, <1>4, <2>1, SameNode DEF Placed
  <1>6. Good(t)' BY <1>4, <1>5 DEF Good, Served
  <1> QED BY <1>1, <1>2, <1>6, MovesKeeps DEF TypeOK, PCs

\* A call that fails and has changed nothing.
LEMMA FailsKeeps ==
    ASSUME IInv, NEW t \in Tags, Fails(t), pc[t] \notin {"new", "attach"},
           up' = up, faults' \in Nat,
           UNCHANGED <<cores, file, opts, panel, core, on, asked>>
    PROVE  Kept(t)
  <1> DEFINE r == IF trouble[t] = "half" THEN "half" ELSE "failed"
  <1>1. TypeOK BY DEF IInv
  <1>2. /\ pc' = [pc EXCEPT ![t] = "idle"] /\ trouble' = [trouble EXCEPT ![t] = r]
    BY DEF Fails, FailsAs, Goto
  <1>3. pc'[t] = "idle" /\ trouble'[t] = r /\ r # "" BY <1>1, <1>2 DEF TypeOK
  <1>4. Placed(t) /\ Served(t) BY DEF IInv, Good
  <1>5. /\ on'[t] = on[t] /\ UNCHANGED <<nodes, running, inbounds, attached>> BY DEF panel, core
  <1>6. Placed(t)' BY <1>1, <1>3, <1>4, <1>5, SameNode DEF Placed
  <1>7. Served(t)' BY <1>1, <1>3, <1>4, <1>5, SameNode DEF Served
  <1> QED BY <1>1, <1>2, <1>6, <1>7, MovesKeeps DEF TypeOK, PCs, Good

\* The selector takes a core that has nothing under the tag yet.
LEMMA SelectsKeeps == ASSUME IInv, NEW t \in Tags, Selects(t) PROVE Kept(t)
  <1>1. PICK c \in IF Multi THEN Candidates(t) ELSE cores :
          /\ on' = [on EXCEPT ![t] = c]
          /\ opts' = IF ~Multi \/ opts[t].core # "" THEN opts
                     ELSE [opts EXCEPT ![t] = Reparse(file[t].Core, TypeOf[c])]
    BY DEF Selects
  <1>2. c \in cores BY <1>1 DEF Candidates
  <1>3. TypeOK /\ Placed(t) /\ pc[t] = "add" BY DEF IInv, Good, Selects
  <1>4. c \in CoreNames BY <1>2, <1>3 DEF TypeOK
  <1>5. /\ pc' = [pc EXCEPT ![t] = "build"]
        /\ UNCHANGED <<up, cores, file, panel, core, faults, asked, trouble>>
    BY DEF Selects, Goto
  <1>6. Reparse(file[t].Core, TypeOf[c]) \in Options
    <2>1. TypeOf[c] \in {"xray", "sing"} BY <1>4, CoresAssumption
    <2> QED BY <2>1 DEF Reparse, Parse, Options
  <1>7. opts' \in [Tags -> Options] BY <1>1, <1>3, <1>6 DEF TypeOK
  <1>8. TypeOK' BY <1>1, <1>3, <1>4, <1>5, <1>7 DEF TypeOK, PCs, panel, core
  <1>9. \A k \in Tags \ {t} : Frame(k) BY <1>1, <1>3, <1>5 DEF Frame, panel, core, TypeOK
  <1>10. /\ \A d \in CoreNames \ {c} : inbounds[d][t] = None
         /\ ~Open(t)'
    <2>1. on'[t] = c /\ In(t)' = inbounds[c][t] BY <1>1, <1>3, <1>5 DEF TypeOK, In, core
    <2>2. CASE Multi
      <3>1. \A d \in CoreNames : inbounds[d][t] = None BY <1>3, <2>2 DEF Placed, In
      <3> QED BY <1>4, <2>1, <3>1 DEF Open
    <2>3. CASE ~Multi
      <3>1. on[t] = c BY <1>2, <1>3, <2>3, OneCore DEF Placed
      <3> QED BY <1>3, <2>1, <3>1 DEF Placed, Open, In
    <2> QED BY <2>2, <2>3
  <1>11. /\ asked'[t] = None /\ pc'[t] = "build" /\ on'[t] = c
         /\ UNCHANGED <<inbounds, nodes, running, cores>>
    BY <1>1, <1>3, <1>5 DEF TypeOK, Placed, panel, core
  <1>12. Multi /\ t \in running => FALSE
    BY <1>3 DEF Placed
  <1>13. Multi' <=> Multi BY <1>5 DEF Multi
  <1>14. Placed(t)' BY <1>2, <1>10, <1>11, <1>12, <1>13 DEF Placed
  <1>15. Good(t)' BY <1>11, <1>14 DEF Good, Served
  <1> QED BY <1>8, <1>9, <1>15 DEF Kept

\* What is there of the node of t after its listener has been replaced by x.
LEMMA PutKeeps ==
    ASSUME TypeOK, NEW t \in Tags, NEW x \in Listeners \cup {None},
           inbounds' = [inbounds EXCEPT ![on[t]][t] = x],
           UNCHANGED <<cores, file, info, on>>
    PROVE  /\ inbounds' \in [CoreNames -> [Tags -> Listeners \cup {None}]]
           /\ \A d \in CoreNames, k \in Tags \ {t} : inbounds'[d][k] = inbounds[d][k]
           /\ \A d \in CoreNames \ {on[t]} : inbounds'[d][t] = inbounds[d][t]
           /\ In(t)' = x
           /\ Open(t)' <=> x # None /\ x.state = "open"
           /\ Kind(t)' = Kind(t) /\ Built(t)' = Built(t)
           /\ Multi' <=> Multi
  <1>1. on[t] \in CoreNames BY DEF TypeOK
  <1>2. /\ inbounds' \in [CoreNames -> [Tags -> Listeners \cup {None}]]
        /\ \A d \in CoreNames, k \in Tags :
             inbounds'[d][k] = IF d = on[t] /\ k = t THEN x ELSE inbounds[d][k]
    BY <1>1, InboundsUpdate
  <1>3. In(t)' = x BY <1>1, <1>2 DEF In
  <1> QED BY <1>1, <1>2, <1>3 DEF Open, Kind, Built, Multi

\* The listener of a node as its core builds it.
LEMMA ListenerType ==
    ASSUME TypeOK, NEW t \in Tags, NEW state \in {"open", "closed"}
    PROVE  /\ Listener(t, state) \in Listeners
           /\ Listener(t, state).state = state /\ Listener(t, state).users = {}
           /\ Listener(t, state).built = Built(t)
           /\ Fits(Built(t), info[t], file[t], Kind(t))
  <1>1. info[t] \in NodeInfos /\ file[t] \in Files /\ Kind(t) \in {"xray", "sing"}
    BY CoresAssumption DEF TypeOK, Kind
  <1>2. Built(t) \in NodeInfos /\ Fits(Built(t), info[t], file[t], Kind(t))
    BY <1>1, BuiltFits DEF Built
  <1>3. Listener(t, state) = [state |-> state, users |-> {}, built |-> Built(t)]
    BY DEF Listener, Built
  <1> QED BY <1>2, <1>3 DEF Listeners

\* A failure is counted.
LEMMA FaultCounted == ASSUME TypeOK, Fault PROVE faults' \in Nat
  <1>1. faults \in Nat BY DEF TypeOK
  <1> QED BY <1>1 DEF Fault

\* AddsInbound, Stores: the listener is there, the routing is not.
LEMMA OpensKeeps ==
    ASSUME IInv, NEW t \in Tags, pc[t] \in {"open", "store"},
           inbounds' = [inbounds EXCEPT ![on[t]][t] = Listener(t, "open")],
           pc' = [pc EXCEPT ![t] = "attach"],
           UNCHANGED <<up, cores, file, opts, panel, nodes, attached, on, faults, asked, trouble>>
    PROVE  Kept(t)
  <1> DEFINE x == Listener(t, "open")
  <1>1. TypeOK /\ Placed(t) BY DEF IInv, Good
  <1>2. /\ x \in Listeners /\ x.state = "open" /\ x.users = {} /\ x.built = Built(t) /\ x # None
    BY <1>1, ListenerType, CoresAssumption
  <1> HIDE DEF x
  <1>3. /\ inbounds' \in [CoreNames -> [Tags -> Listeners \cup {None}]]
        /\ \A d \in CoreNames, k \in Tags \ {t} : inbounds'[d][k] = inbounds[d][k]
        /\ \A d \in CoreNames \ {on[t]} : inbounds'[d][t] = inbounds[d][t]
        /\ In(t)' = x /\ Open(t)' /\ Built(t)' = Built(t)
        /\ Multi' <=> Multi
    <2>1. inbounds' = [inbounds EXCEPT ![on[t]][t] = x] BY DEF x
    <2> QED BY <1>1, <1>2, <2>1, PutKeeps DEF panel
  <1>4. TypeOK' BY <1>1, <1>3 DEF TypeOK, PCs, panel
  <1>5. ASSUME NEW k \in Tags \ {t} PROVE Frame(k)
    <2>1. pc'[k] = pc[k] BY <1>1 DEF TypeOK
    <2> QED BY <1>3, <2>1 DEF Frame, panel
  <1>6. pc'[t] = "attach" /\ asked[t] = None BY <1>1 DEF TypeOK, Placed
  <1>7. Placed(t)' BY <1>1, <1>2, <1>3, <1>6 DEF Placed, panel
  <1>8. Served(t)' BY <1>6 DEF Served
  <1> QED BY <1>4, <1>5, <1>7, <1>8 DEF Kept, Good

\* AddInboundFails: what the manager keeps does not listen.
LEMMA AddInboundFailsKeeps == ASSUME IInv, NEW t \in Tags, AddInboundFails(t) PROVE Kept(t)
  <1> DEFINE x == Listener(t, "closed")
  <1>1. TypeOK /\ Placed(t) /\ pc[t] = "open" BY DEF IInv, Good, AddInboundFails
  <1>2. /\ Fails(t) /\ faults' \in Nat
        /\ UNCHANGED <<up, cores, file, opts, panel, nodes, attached, on, asked>>
    BY <1>1, FaultCounted DEF AddInboundFails
  <1>3. CASE UNCHANGED inbounds
    BY <1>1, <1>2, <1>3, FailsKeeps DEF AddInboundFails, core
  <1>4. CASE Put(t, x)
    <2>1. x \in Listeners /\ x.state = "closed" BY <1>1, ListenerType
    <2> HIDE DEF x
    <2>2. /\ inbounds' \in [CoreNames -> [Tags -> Listeners \cup {None}]]
          /\ \A d \in CoreNames, k \in Tags \ {t} : inbounds'[d][k] = inbounds[d][k]
          /\ \A d \in CoreNames \ {on[t]} : inbounds'[d][t] = inbounds[d][t]
          /\ ~Open(t)'
          /\ Multi' <=> Multi
      BY <1>1, <1>2, <1>4, <2>1, PutKeeps DEF panel, Put
    <2>3. PICK r \in {"failed", "half"} :
            pc' = [pc EXCEPT ![t] = "idle"] /\ trouble' = [trouble EXCEPT ![t] = r]
      BY <1>2 DEF Fails, FailsAs, Goto
    <2>4. TypeOK' BY <1>1, <1>2, <2>2, <2>3 DEF TypeOK, PCs, panel
    <2>5. \A k \in Tags \ {t} : Frame(k) BY <1>1, <1>2, <2>2, <2>3 DEF Frame, panel, TypeOK
    <2>6. pc'[t] = "idle" /\ asked'[t] = None BY <1>1, <1>2, <2>3 DEF TypeOK, Placed
    <2>7. Placed(t)' BY <1>1, <1>2, <2>2, <2>6 DEF Placed, panel
    <2>8. Served(t)' BY <2>6 DEF Served
    <2> QED BY <2>4, <2>5, <2>7, <2>8 DEF Kept, Good
  <1> QED BY <1>2, <1>3, <1>4 DEF AddInboundFails

\* Attaches: the node is added as it was asked for.
LEMMA AttachesKeeps == ASSUME IInv, NEW t \in Tags, Attaches(t) PROVE Kept(t)
  <1>1. TypeOK /\ Placed(t) /\ pc[t] = "attach" BY DEF IInv, Good, Attaches
  <1>2. /\ attached' = [attached EXCEPT ![on[t]] = @ \cup {t}]
        /\ nodes' = IF Multi THEN [nodes EXCEPT ![t] = on[t]] ELSE nodes
        /\ asked' = [asked EXCEPT ![t] = info[t]]
        /\ trouble' = [trouble EXCEPT ![t] = ""]
        /\ pc' = [pc EXCEPT ![t] = "users"]
        /\ UNCHANGED <<up, cores, file, opts, panel, inbounds, on, faults>>
    BY DEF Attaches, Goto
  <1>3. on[t] \in CoreNames /\ info[t] \in NodeInfos BY <1>1 DEF TypeOK
  <1>4. TypeOK' BY <1>1, <1>2, <1>3 DEF TypeOK, PCs, panel
  <1>5. \A k \in Tags \ {t} : Frame(k) BY <1>1, <1>2, <1>3 DEF Frame, panel, TypeOK
  <1>6. /\ In(t)' = In(t) /\ (Open(t)' <=> Open(t)) /\ Kind(t)' = Kind(t) /\ (Multi' <=> Multi)
    BY <1>2 DEF In, Open, Kind, Multi
  <1>7. /\ pc'[t] = "users" /\ asked'[t] = info[t] /\ trouble'[t] = "" /\ info[t] # None
        /\ t \in attached'[on[t]] /\ on'[t] = on[t]
        /\ Multi => nodes'[t] = on[t]
    BY <1>1, <1>2, <1>3, CoresAssumption DEF TypeOK
  <1>8. Placed(t)' BY <1>1, <1>2, <1>6, <1>7 DEF Placed, panel
  <1>9. Fits(In(t).built, info[t], file[t], Kind(t)) /\ In(t).users = {} /\ Open(t)
    BY <1>1, ListenerType DEF Placed
  <1>10. Served(t)' BY <1>2, <1>6, <1>7, <1>9 DEF Served, Due
  <1> QED BY <1>4, <1>5, <1>8, <1>10 DEF Kept, Good

\* AttachFails: half an AddNode.
LEMMA AttachFailsKeeps == ASSUME IInv, NEW t \in Tags, AttachFails(t) PROVE Kept(t)
  <1>1. TypeOK /\ Placed(t) /\ pc[t] = "attach" BY DEF IInv, Good, AttachFails
  <1>2. /\ trouble' = [trouble EXCEPT ![t] = "half"]
        /\ pc' = [pc EXCEPT ![t] = "idle"]
        /\ faults' \in Nat
        /\ UNCHANGED <<up, cores, file, opts, panel, core, on, asked>>
    BY <1>1, FaultCounted DEF AttachFails, Goto, FailsAs
  <1>3. pc'[t] = "idle" /\ trouble'[t] = "half" /\ asked'[t] = None /\ on'[t] = on[t]
    BY <1>1, <1>2 DEF TypeOK, Placed
  <1>4. Placed(t)' BY <1>1, <1>2, <1>3, SameNode DEF Placed, panel, core
  <1>5. Good(t)' BY <1>3, <1>4 DEF Served, Good
  <1> QED BY <1>1, <1>2, <1>5, MovesKeeps DEF TypeOK, PCs

\* NodeChanges: what has been added is not touched yet.
LEMMA NodeChangesKeeps == ASSUME IInv, NEW t \in Tags, NodeChanges(t) PROVE Kept(t)
  <1>1. TypeOK /\ Placed(t) /\ Served(t) /\ pc[t] = "idle" /\ t \in running
    BY DEF IInv, Good, NodeChanges
  <1>2. PICK n \in Infos[t] : info' = [info EXCEPT ![t] = n] BY DEF NodeChanges
  <1>3. n \in NodeInfos BY CoresAssumption
  <1>4. changes' \in Nat
    <2>1. changes \in Nat BY <1>1 DEF TypeOK
    <2> QED BY <2>1 DEF NodeChanges
  <1>5. /\ pc' = [pc EXCEPT ![t] = "del"]
        /\ UNCHANGED <<up, cores, file, opts, list, newU, running, core, on, faults, asked, trouble>>
    BY DEF NodeChanges, Goto
  <1>6. TypeOK' BY <1>1, <1>2, <1>3, <1>4, <1>5 DEF TypeOK, PCs, core
  <1>7. \A k \in Tags \ {t} : Frame(k) BY <1>1, <1>2, <1>5 DEF Frame, TypeOK, core
  <1>8. pc'[t] = "del" BY <1>1, <1>5 DEF TypeOK
  <1>9. In(t)' = In(t) /\ (Open(t)' <=> Open(t)) /\ Kind(t)' = Kind(t) /\ (Multi' <=> Multi)
    BY <1>5 DEF In, Open, Kind, Multi, core
  <1>10. Placed(t)' BY <1>1, <1>5, <1>8, <1>9 DEF Placed, core
  <1>11. Served(t)' BY <1>1, <1>5, <1>8, <1>9 DEF Served, Due, core
  <1> QED BY <1>6, <1>7, <1>10, <1>11 DEF Kept, Good

\* UsersChange: the users that are due are still those of the old list.
LEMMA UsersChangeKeeps == ASSUME IInv, NEW t \in Tags, UsersChange(t) PROVE Kept(t)
  <1>1. TypeOK /\ Placed(t) /\ Served(t) /\ pc[t] = "idle" /\ t \in running
    BY DEF IInv, Good, UsersChange
  <1>2. PICK us \in SUBSET Users : /\ newU' = [newU EXCEPT ![t] = us]
                                  /\ Goto(t, IF list[t] \subseteq us THEN "addUsers" ELSE "delUsers")
    BY DEF UsersChange
  <1>3. changes' \in Nat
    <2>1. changes \in Nat BY <1>1 DEF TypeOK
    <2> QED BY <2>1 DEF UsersChange
  <1>4. UNCHANGED <<up, cores, file, opts, info, list, running, core, on, faults, asked, trouble>>
    BY DEF UsersChange
  <1>5. TypeOK' BY <1>1, <1>2, <1>3, <1>4 DEF TypeOK, PCs, Goto, core
  <1>6. \A k \in Tags \ {t} : Frame(k) BY <1>1, <1>2, <1>4 DEF Frame, TypeOK, Goto, core
  <1>7. /\ newU'[t] = us
        /\ pc'[t] = IF list[t] \subseteq us THEN "addUsers" ELSE "delUsers"
    BY <1>1, <1>2 DEF TypeOK, Goto
  <1>8. In(t)' = In(t) /\ (Open(t)' <=> Open(t)) /\ Kind(t)' = Kind(t) /\ (Multi' <=> Multi)
    BY <1>4 DEF In, Open, Kind, Multi, core
  <1>9. Placed(t)' BY <1>1, <1>4, <1>7, <1>8 DEF Placed, core
  <1>10. Due(t)' = Due(t) BY <1>1, <1>4, <1>7 DEF Due
  <1>11. Served(t)' BY <1>1, <1>4, <1>8, <1>10 DEF Served, core
  <1> QED BY <1>5, <1>6, <1>9, <1>11 DEF Kept, Good

\* XrayDelNode, SingDelNode: the node is not served any longer.
LEMMA DelNodeKeeps ==
    ASSUME IInv, NEW t \in Tags, pc[t] = "del", ~Multi,
           NEW x \in Listeners \cup {None}, x = None \/ x.state = "closed",
           NEW p \in {"add", "idle"}, NEW r \in {"", "failed"},
           inbounds' = [inbounds EXCEPT ![on[t]][t] = x],
           attached' = [attached EXCEPT ![on[t]] = @ \ {t}],
           asked' = [asked EXCEPT ![t] = None],
           pc' = [pc EXCEPT ![t] = p], trouble' = [trouble EXCEPT ![t] = r],
           UNCHANGED <<up, cores, file, opts, panel, nodes, on, faults>>
    PROVE  Kept(t)
  <1>1. TypeOK /\ Placed(t) BY DEF IInv, Good
  <1>2. /\ inbounds' \in [CoreNames -> [Tags -> Listeners \cup {None}]]
        /\ \A d \in CoreNames, k \in Tags \ {t} : inbounds'[d][k] = inbounds[d][k]
        /\ \A d \in CoreNames \ {on[t]} : inbounds'[d][t] = inbounds[d][t]
        /\ ~Open(t)' /\ ~Multi'
    BY <1>1, PutKeeps DEF panel
  <1>3. /\ attached' \in [CoreNames -> SUBSET Tags]
        /\ \A d \in CoreNames, k \in Tags \ {t} : k \in attached'[d] <=> k \in attached[d]
    BY <1>1 DEF TypeOK
  <1>4. TypeOK' BY <1>1, <1>2, <1>3 DEF TypeOK, PCs, panel
  <1>5. ASSUME NEW k \in Tags \ {t} PROVE Frame(k)
    <2>1. pc'[k] = pc[k] /\ trouble'[k] = trouble[k] /\ asked'[k] = asked[k] BY <1>1 DEF TypeOK
    <2> QED BY <1>2, <1>3, <2>1 DEF Frame, panel
  <1>6. pc'[t] = p /\ asked'[t] = None BY <1>1 DEF TypeOK
  <1>7. Placed(t)' BY <1>1, <1>2, <1>6 DEF Placed, panel
  <1>8. Served(t)' BY <1>6 DEF Served
  <1> QED BY <1>4, <1>5, <1>7, <1>8 DEF Kept, Good

\* The core that is asked for the users is the one that has the node.
LEMMA TargetIsOn ==
    ASSUME IInv, NEW t \in Tags, pc[t] \in {"users", "delUsers", "addUsers"}
    PROVE  Target(t) = on[t] /\ (Found(t) <=> Manages(In(t)))
  <1>1. TypeOK /\ Placed(t) /\ Served(t) BY DEF IInv, Good
  <1>2. Target(t) = on[t] BY <1>1 DEF Target, Placed, Served
  <1>3. on[t] # None
    <2>1. on[t] \in CoreNames BY <1>1 DEF TypeOK
    <2> QED BY <2>1, CoresAssumption
  <1> QED BY <1>2, <1>3 DEF Found, In

\* AddsAllUsers, DelsUsers, AddsUsers: the users that are let in change.
LEMMA LetsKeeps ==
    ASSUME IInv, NEW t \in Tags, pc[t] \in {"users", "delUsers", "addUsers"}, Found(t),
           NEW us \in SUBSET Users, Lets(t, us),
           NEW p \in {"idle", "addUsers"}, p = "addUsers" => t \in running,
           NEW r \in {"", "failed", "half"}, trouble[t] = "half" <=> r = "half",
           NEW l \in SUBSET Users,
           (asked[t] # None /\ r = "") => us = IF p = "addUsers" THEN l \cap newU[t] ELSE l,
           pc' = [pc EXCEPT ![t] = p], trouble' = [trouble EXCEPT ![t] = r],
           list' = [list EXCEPT ![t] = l], running' \in {running, running \cup {t}},
           faults' \in Nat,
           UNCHANGED <<up, cores, file, opts, info, newU, changes, nodes, attached, on, asked>>
    PROVE  Kept(t)
  <1> DEFINE x == [In(t) EXCEPT !.users = us]
  <1>1. TypeOK /\ Placed(t) /\ Served(t) BY DEF IInv, Good
  <1>2. Target(t) = on[t] /\ In(t) # None /\ In(t).built.type # "socks"
    BY TargetIsOn DEF Manages
  <1>3. on[t] \in CoreNames /\ In(t) \in Listeners
    <2>1. on[t] \in CoreNames /\ inbounds \in [CoreNames -> [Tags -> Listeners \cup {None}]]
      BY <1>1 DEF TypeOK
    <2> QED BY <1>2, <2>1 DEF In
  <1>4. /\ x \in Listeners /\ x.users = us /\ x.state = In(t).state /\ x.built = In(t).built
        /\ x # None
    <2>1. /\ x \in Listeners /\ x.users = us /\ x.state = In(t).state /\ x.built = In(t).built
      BY <1>3 DEF Listeners
    <2> QED BY <2>1, CoresAssumption
  <1>5. inbounds' = [inbounds EXCEPT ![on[t]][t] = x]
    BY <1>1, <1>2, <1>3 DEF Lets, In, TypeOK
  <1> HIDE DEF x
  <1>6. /\ inbounds' \in [CoreNames -> [Tags -> Listeners \cup {None}]]
        /\ \A d \in CoreNames, k \in Tags \ {t} : inbounds'[d][k] = inbounds[d][k]
        /\ \A d \in CoreNames \ {on[t]} : inbounds'[d][t] = inbounds[d][t]
        /\ In(t)' = x /\ (Open(t)' <=> Open(t)) /\ Kind(t)' = Kind(t) /\ (Multi' <=> Multi)
    BY <1>1, <1>2, <1>4, <1>5, PutKeeps DEF Open
  <1>7. TypeOK' BY <1>1, <1>6 DEF TypeOK, PCs
  <1>8. ASSUME NEW k \in Tags \ {t} PROVE Frame(k)
    <2>1. /\ pc'[k] = pc[k] /\ trouble'[k] = trouble[k] /\ list'[k] = list[k]
          /\ k \in running' <=> k \in running
      BY <1>1 DEF TypeOK
    <2> QED BY <1>6, <2>1 DEF Frame
  <1>9. pc'[t] = p /\ trouble'[t] = r /\ list'[t] = l BY <1>1 DEF TypeOK
  <1>10. (Multi /\ t \in running') => nodes'[t] = on'[t] BY <1>2 DEF Target
  <1>s. asked'[t] # None => asked'[t].type # "socks" BY <1>1, <1>2 DEF Served, Fits
  <1>11. Placed(t)' BY <1>1, <1>6, <1>9, <1>10, <1>s DEF Placed
  <1>12. Served(t)' BY <1>1, <1>4, <1>6, <1>9 DEF Served, Due
  <1> QED BY <1>7, <1>8, <1>11, <1>12 DEF Kept, Good

\* AddsAllUsers: after AddNode nobody is let in yet.
LEMMA AddsAllUsersKeeps == ASSUME IInv, NEW t \in Tags, AddsAllUsers(t) PROVE Kept(t)
  <1>1. TypeOK /\ Placed(t) /\ Served(t) /\ pc[t] = "users" /\ Found(t)
    BY DEF IInv, Good, AddsAllUsers
  <1>2. Target(t) = on[t] /\ In(t) # None BY <1>1, TargetIsOn DEF Manages
  <1>3. trouble[t] = "" /\ asked[t] # None /\ Has(t) = {}
    BY <1>1, <1>2 DEF Placed, Served, Due, Has, In
  <1>4. UNCHANGED <<up, cores, file, opts, info, list, newU, changes, nodes, attached, on, asked>>
    BY DEF AddsAllUsers
  <1>5. list[t] \in SUBSET Users /\ list' = [list EXCEPT ![t] = list[t]] BY <1>1, <1>4 DEF TypeOK
  <1>6. CASE /\ Lets(t, Has(t) \cup list[t])
             /\ Goto(t, "idle") /\ running' = running \cup {t} /\ UNCHANGED <<faults, trouble>>
    <2>1. /\ trouble' = [trouble EXCEPT ![t] = ""] /\ faults' \in Nat
          /\ pc' = [pc EXCEPT ![t] = "idle"]
      BY <1>1, <1>3, <1>6 DEF TypeOK, Goto
    <2>2. Lets(t, list[t]) BY <1>3, <1>6
    <2> QED BY <1>1, <1>3, <1>4, <1>5, <1>6, <2>1, <2>2, LetsKeeps
  <1>7. ASSUME NEW some \in SUBSET list[t],
               Fault, Lets(t, Has(t) \cup some), Fails(t), UNCHANGED running
        PROVE  Kept(t)
    <2>1. faults' \in Nat BY <1>1, <1>7, FaultCounted
    <2>2. /\ trouble' = [trouble EXCEPT ![t] = "failed"]
          /\ pc' = [pc EXCEPT ![t] = "idle"]
      BY <1>3, <1>7 DEF Fails, FailsAs, Goto
    <2>3. some \in SUBSET Users /\ Lets(t, some) BY <1>3, <1>5, <1>7
    <2> QED BY <1>1, <1>3, <1>4, <1>5, <1>7, <2>1, <2>2, <2>3, LetsKeeps
  <1> QED BY <1>6, <1>7 DEF AddsAllUsers

\* DelsUsers: those who stay remain.
LEMMA DelsUsersKeeps == ASSUME IInv, NEW t \in Tags, DelsUsers(t) PROVE Kept(t)
  <1> DEFINE deleted == list[t] \ newU[t]
  <1>1. TypeOK /\ Placed(t) /\ Served(t) /\ pc[t] = "delUsers" /\ Found(t) /\ t \in running
    BY DEF IInv, Good, DelsUsers, Placed
  <1>2. Target(t) = on[t] /\ In(t) # None BY <1>1, TargetIsOn DEF Manages
  <1>3. Has(t) = In(t).users BY <1>2 DEF Has, In
  <1>4. Has(t) \in SUBSET Users
    <2>1. on[t] \in CoreNames /\ inbounds \in [CoreNames -> [Tags -> Listeners \cup {None}]]
      BY <1>1 DEF TypeOK
    <2>2. In(t) \in Listeners BY <1>2, <2>1 DEF In
    <2> QED BY <1>3, <2>2 DEF Listeners
  <1>5. UNCHANGED <<up, cores, file, opts, info, list, newU, running, changes, nodes, attached, on, asked>>
    BY DEF DelsUsers, panel
  <1>6. list[t] \in SUBSET Users /\ list' = [list EXCEPT ![t] = list[t]] BY <1>1, <1>5 DEF TypeOK
  <1>7. (asked[t] # None /\ trouble[t] = "") => Has(t) \ deleted = list[t] \cap newU[t]
    BY <1>1, <1>3 DEF Served, Due
  <1> HIDE DEF deleted
  <1>8. CASE Lets(t, Has(t) \ deleted) /\ Goto(t, "addUsers") /\ UNCHANGED <<faults, trouble>>
    <2>1. /\ trouble' = [trouble EXCEPT ![t] = trouble[t]] /\ faults' \in Nat
          /\ trouble[t] \in {"", "failed", "half"}
          /\ pc' = [pc EXCEPT ![t] = "addUsers"]
      BY <1>1, <1>8 DEF TypeOK, Goto
    <2>2. Has(t) \ deleted \in SUBSET Users BY <1>4
    <2> QED BY <1>1, <1>5, <1>6, <1>7, <1>8, <2>1, <2>2, LetsKeeps
  <1>9. ASSUME NEW some \in SUBSET deleted, Fault, Lets(t, Has(t) \ some), Fails(t)
        PROVE  Kept(t)
    <2> DEFINE r == IF trouble[t] = "half" THEN "half" ELSE "failed"
    <2>1. faults' \in Nat BY <1>1, <1>9, FaultCounted
    <2>2. /\ trouble' = [trouble EXCEPT ![t] = r] /\ r # "" /\ r \in {"", "failed", "half"}
          /\ trouble[t] = "half" <=> r = "half"
          /\ pc' = [pc EXCEPT ![t] = "idle"]
      BY <1>9 DEF Fails, FailsAs, Goto
    <2>3. Has(t) \ some \in SUBSET Users BY <1>4
    <2> HIDE DEF r
    <2> QED BY <1>1, <1>5, <1>6, <1>9, <2>1, <2>2, <2>3, LetsKeeps
  <1> QED BY <1>8, <1>9 DEF DelsUsers, deleted

\* AddsUsers: with the new users the list is complete.
LEMMA AddsUsersKeeps == ASSUME IInv, NEW t \in Tags, AddsUsers(t) PROVE Kept(t)
  <1> DEFINE added == newU[t] \ list[t]
  <1>1. TypeOK /\ Placed(t) /\ Served(t) /\ pc[t] = "addUsers" /\ Found(t)
    BY DEF IInv, Good, AddsUsers
  <1>2. Target(t) = on[t] /\ In(t) # None BY <1>1, TargetIsOn DEF Manages
  <1>3. Has(t) = In(t).users BY <1>2 DEF Has, In
  <1>4. Has(t) \in SUBSET Users
    <2>1. on[t] \in CoreNames /\ inbounds \in [CoreNames -> [Tags -> Listeners \cup {None}]]
      BY <1>1 DEF TypeOK
    <2>2. In(t) \in Listeners BY <1>2, <2>1 DEF In
    <2> QED BY <1>3, <2>2 DEF Listeners
  <1>5. UNCHANGED <<up, cores, file, opts, info, newU, running, changes, nodes, attached, on, asked>>
    BY DEF AddsUsers
  <1>6. list[t] \in SUBSET Users /\ newU[t] \in SUBSET Users BY <1>1 DEF TypeOK
  <1>7. (asked[t] # None /\ trouble[t] = "") => Has(t) \cup added = newU[t]
    BY <1>1, <1>3 DEF Served, Due
  <1>8. added \in SUBSET Users BY <1>6
  <1> HIDE DEF added
  <1>9. CASE /\ Lets(t, Has(t) \cup added) /\ list' = [list EXCEPT ![t] = newU[t]]
             /\ Goto(t, "idle") /\ UNCHANGED <<faults, trouble>>
    <2>1. /\ trouble' = [trouble EXCEPT ![t] = trouble[t]] /\ faults' \in Nat
          /\ trouble[t] \in {"", "failed", "half"}
          /\ pc' = [pc EXCEPT ![t] = "idle"]
      BY <1>1, <1>9 DEF TypeOK, Goto
    <2>2. Has(t) \cup added \in SUBSET Users BY <1>4, <1>8
    <2> QED BY <1>1, <1>5, <1>6, <1>7, <1>9, <2>1, <2>2, LetsKeeps
  <1>10. ASSUME NEW some \in SUBSET added, Fault, Lets(t, Has(t) \cup some), Fails(t), UNCHANGED list
         PROVE  Kept(t)
    <2> DEFINE r == IF trouble[t] = "half" THEN "half" ELSE "failed"
    <2>1. faults' \in Nat BY <1>1, <1>10, FaultCounted
    <2>2. /\ trouble' = [trouble EXCEPT ![t] = r] /\ r # "" /\ r \in {"", "failed", "half"}
          /\ trouble[t] = "half" <=> r = "half"
          /\ pc' = [pc EXCEPT ![t] = "idle"]
      BY <1>10 DEF Fails, FailsAs, Goto
    <2>3. Has(t) \cup some \in SUBSET Users BY <1>4, <1>8
    <2>4. list' = [list EXCEPT ![t] = list[t]] BY <1>1, <1>10 DEF TypeOK
    <2> HIDE DEF r
    <2> QED BY <1>1, <1>5, <1>6, <1>10, <2>1, <2>2, <2>3, <2>4, LetsKeeps
  <1> QED BY <1>9, <1>10 DEF AddsUsers, added

\* Every step of a controller keeps its node, and leaves the others alone.
LEMMA StepKeeps ==
    ASSUME IInv, NEW t \in Tags,
           \/ Starts(t) \/ Selects(t) \/ SelectsNone(t) \/ BuildFails(t) \/ BuildPanics(t) \/ Builds(t)
           \/ AddsInbound(t) \/ AddInboundFails(t) \/ StartsInbound(t) \/ Stores(t)
           \/ Attaches(t) \/ AttachFails(t)
           \/ NodeChanges(t) \/ SelectorDelNodePanics(t) \/ XrayDelNode(t) \/ SingDelNode(t)
           \/ DelNodeFails(t)
           \/ AddsAllUsers(t) \/ UsersChange(t) \/ DelsUsers(t) \/ AddsUsers(t) \/ UsersFail(t)
           \/ MapOverlaps(t)
    PROVE  Kept(t)
  <1>1. TypeOK /\ faults \in Nat BY DEF IInv, TypeOK
  <1>2. CASE Starts(t)
    <2>1. /\ pc[t] = "new" /\ pc' = [pc EXCEPT ![t] = "add"]
          /\ UNCHANGED <<up, cores, file, opts, panel, core, on, faults, asked, trouble>>
      BY <1>2 DEF Starts, Goto
    <2> QED BY <1>1, <2>1, OnTheWay
  <1>3. CASE Builds(t)
    <2>1. /\ pc[t] = "build" /\ pc' = [pc EXCEPT ![t] = "open"]
          /\ UNCHANGED <<up, cores, file, opts, panel, core, on, faults, asked, trouble>>
      BY <1>3 DEF Builds, Goto
    <2> QED BY <1>1, <2>1, OnTheWay
  <1>4. CASE StartsInbound(t)
    <2>1. /\ pc[t] = "open"
          /\ UNCHANGED <<up, cores, file, opts, panel, core, on, asked>>
      BY <1>4 DEF StartsInbound
    <2>2. CASE Goto(t, "store") /\ UNCHANGED <<faults, trouble>>
      <3>1. pc' = [pc EXCEPT ![t] = "store"] /\ faults' \in Nat /\ trouble' = trouble
        BY <1>1, <2>2 DEF Goto
      <3> QED BY <2>1, <3>1, OnTheWay
    <2>3. CASE Fault /\ Fails(t)
      <3>1. faults' \in Nat BY <1>1, <2>3, FaultCounted
      <3> QED BY <2>1, <2>3, <3>1, FailsKeeps
    <2> QED BY <1>4, <2>2, <2>3 DEF StartsInbound
  <1>5. CASE SelectsNone(t) \/ BuildFails(t) \/ DelNodeFails(t) \/ UsersFail(t)
    <2>1. /\ Fails(t) /\ pc[t] \notin {"new", "attach"}
          /\ UNCHANGED <<up, cores, file, opts, panel, core, on, faults, asked>>
      BY <1>5 DEF SelectsNone, BuildFails, DelNodeFails, UsersFail
    <2> QED BY <1>1, <2>1, FailsKeeps
  <1>6. CASE BuildPanics(t) \/ SelectorDelNodePanics(t) \/ MapOverlaps(t)
    <2>1. Panics BY <1>6 DEF BuildPanics, SelectorDelNodePanics, MapOverlaps
    <2> QED BY <2>1, PanicsKeeps
  <1>7. CASE AddsInbound(t)
    <2>1. /\ pc[t] = "open" /\ pc' = [pc EXCEPT ![t] = "attach"]
          /\ inbounds' = [inbounds EXCEPT ![on[t]][t] = Listener(t, "open")]
          /\ UNCHANGED <<up, cores, file, opts, panel, nodes, attached, on, faults, asked, trouble>>
      BY <1>7 DEF AddsInbound, Put, Goto
    <2> QED BY <2>1, OpensKeeps
  <1>8. CASE Stores(t)
    <2>1. /\ pc[t] = "store" /\ pc' = [pc EXCEPT ![t] = "attach"]
          /\ inbounds' = [inbounds EXCEPT ![on[t]][t] = Listener(t, "open")]
          /\ UNCHANGED <<up, cores, file, opts, panel, nodes, attached, on, faults, asked, trouble>>
      BY <1>8 DEF Stores, Put, Goto
    <2> QED BY <2>1, OpensKeeps
  <1>9. CASE XrayDelNode(t)
    <2>1. /\ pc[t] = "del" /\ ~Multi
          /\ inbounds' = [inbounds EXCEPT ![on[t]][t] = None]
          /\ attached' = [attached EXCEPT ![on[t]] = @ \ {t}]
          /\ asked' = [asked EXCEPT ![t] = None]
          /\ pc' = [pc EXCEPT ![t] = "add"] /\ trouble' = [trouble EXCEPT ![t] = ""]
          /\ UNCHANGED <<up, cores, file, opts, panel, nodes, on, faults>>
      BY <1>9 DEF XrayDelNode, Put, Goto
    <2> QED BY <2>1, DelNodeKeeps
  <1>10. CASE SingDelNode(t)
    <2> DEFINE x == [In(t) EXCEPT !.state = "closed"]
    <2>1. /\ pc[t] = "del" /\ ~Multi /\ In(t) # None
          /\ inbounds' = [inbounds EXCEPT ![on[t]][t] = x]
          /\ attached' = [attached EXCEPT ![on[t]] = @ \ {t}]
          /\ asked' = [asked EXCEPT ![t] = None]
          /\ UNCHANGED <<up, cores, file, opts, panel, nodes, on, faults>>
      BY <1>10 DEF SingDelNode, Put
    <2>2. PICK p \in {"add", "idle"}, r \in {"", "failed"} :
            pc' = [pc EXCEPT ![t] = p] /\ trouble' = [trouble EXCEPT ![t] = r]
      BY <1>10 DEF SingDelNode, Goto, FailsAs
    <2>3. x \in Listeners /\ x.state = "closed"
      <3>1. on[t] \in CoreNames /\ inbounds \in [CoreNames -> [Tags -> Listeners \cup {None}]]
        BY <1>1 DEF TypeOK
      <3>2. In(t) \in Listeners BY <2>1, <3>1 DEF In
      <3> QED BY <3>2 DEF Listeners
    <2> HIDE DEF x
    <2> QED BY <2>1, <2>2, <2>3, DelNodeKeeps
  <1> QED
    BY <1>2, <1>3, <1>4, <1>5, <1>6, <1>7, <1>8, <1>9, <1>10, SelectsKeeps, AddInboundFailsKeeps,
       AttachesKeeps, AttachFailsKeeps, NodeChangesKeeps, UsersChangeKeeps, AddsAllUsersKeeps,
       DelsUsersKeeps, AddsUsersKeeps

\* The invariant is inductive.
LEMMA NextIInv == IInv /\ [Next]_vars => IInv'
  <1> SUFFICES ASSUME IInv, [Next]_vars PROVE IInv' OBVIOUS
  <1>1. ASSUME NEW t \in Tags, Kept(t) PROVE IInv'
    <2>1. \A k \in Tags \ {t} : Good(k)' BY <1>1, FrameKeeps DEF Kept, IInv
    <2> QED BY <1>1, <2>1 DEF Kept, IInv
  <1>2. CASE UNCHANGED vars
    <2>1. TypeOK' BY <1>2 DEF vars, panel, core, IInv, TypeOK
    <2>2. \A k \in Tags : Frame(k) BY <1>2 DEF vars, panel, core, Frame
    <2> QED BY <2>1, <2>2, FrameKeeps DEF IInv
  <1>3. CASE Next
    <2>1. \E t \in Tags : Kept(t) BY <1>3, StepKeeps DEF Next
    <2> QED BY <1>1, <2>1
  <1> QED BY <1>2, <1>3

\* It holds in every state.
LEMMA Inductive == Spec => []IInv
  <1> QED BY InitIInv, NextIInv, PTL DEF Spec

\* The variables have their types, in whatever state the selector, the cores and their
\* maps are left by calls that fail.
THEOREM TypeCorrect == Spec => []TypeOK
  <1>1. IInv => TypeOK BY DEF IInv
  <1> QED BY <1>1, Inductive, PTL

\* A node that AddNode has added is served by the one core that the selector asks for
\* it, as the panel says and to the users of the list, however many controllers call
\* the cores and whatever has failed for other nodes: Selector.AddNode, Core.AddNode,
\* Box.AddNode and their counterparts.  No call for the node has failed since, as AddUsers
\* does for every node of socks, whose server is no proxy.UserManager: that is not served.
THEOREM ServesCorrect == Spec => []ServesAsAsked
  <1>1. IInv => ServesAsAsked
    <2> SUFFICES ASSUME IInv, NEW t \in Tags, pc[t] = "idle", asked[t] # None, trouble[t] = ""
                 PROVE  \E c \in cores :
                          /\ Listening(t) = {c} /\ t \in attached[c]
                          /\ Multi => nodes[t] = c
                          /\ inbounds[c][t].users = list[t]
                          /\ Fits(inbounds[c][t].built, asked[t], file[t], TypeOf[c])
                          /\ asked[t].type # "socks"
      BY DEF ServesAsAsked
    <2>1. Placed(t) /\ Served(t) /\ on[t] \in cores /\ on[t] \in CoreNames
      BY DEF IInv, Good, TypeOK, Placed
    <2>2. Listening(t) = {on[t]} BY <2>1 DEF Placed, Served, Listening, Open, In
    <2>3. asked[t].type # "socks" BY <2>1 DEF Placed
    <2> QED BY <2>1, <2>2, <2>3 DEF Served, Due, In, Kind
  <1> QED BY <1>1, Inductive, PTL

\* Nothing listens for a node that is in no core, unless AddNode has failed half way,
\* after addInbound or in.Start: removeInbound and in.Close leave nothing behind.
THEOREM NoStrayCorrect == Spec => []NoStrayListener
  <1>1. IInv => NoStrayListener
    <2> SUFFICES ASSUME IInv, NEW t \in Tags, pc[t] = "idle", asked[t] = None, Listening(t) # {}
                 PROVE  trouble[t] = "half"
      BY DEF NoStrayListener
    <2>1. Placed(t) BY DEF IInv, Good
    <2>2. Open(t) BY <2>1 DEF Placed, Listening, Open, In
    <2> QED BY <2>1, <2>2 DEF Placed
  <1> QED BY <1>1, Inductive, PTL
=============================================================================
