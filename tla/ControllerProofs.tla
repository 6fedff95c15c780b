-------------------------- MODULE ControllerProofs --------------------------
(***************************************************************************)
(* Theorems about the life of the controllers: about Reload, which makes   *)
(* and closes them, for every set of configurations, slices, cores and     *)
(* goroutines and any number of edits and failures; and about the two      *)
(* tasks each of them runs (ControllerTasks), for every set of timers and  *)
(* intervals.                                                              *)
(*                                                                         *)
(* While reloads come one at a time, the place of the reload that is under *)
(* way tells what there is: Alone.  Once two have overlapped little more   *)
(* than the types is left, and the properties promise nothing either.      *)
(***************************************************************************)
EXTENDS Reload, ControllerTasks, TLAPS

PCs == {"idle", "sleep", "awake", "load", "closeNodes", "closing", "stuck", "closeCore",
        "newCore", "startCore", "makeNodes", "starting"}

Positions == [slice : Slices \cup {None}, i : Nat, nodes : Seq(NodeConfigs),
              box : Boxes \cup {None}]

\* The variables keep their types, however reloads overlap.
Types ==
    /\ disk \in Contents
    /\ conf \in Configs
    /\ nodes \in Slices \cup {None}
    /\ slices \in [Slices -> Seq(Controllers \cup {None})]
    /\ vc \in Boxes \cup {None}
    /\ box \in [Boxes -> [state : {"free", "new", "up", "closed"}, cores : Seq(Kinds)]]
    /\ pc \in [Reloads -> PCs]
    /\ at \in [Reloads -> Positions]
    /\ \A r \in Reloads : pc[r] \in {"closing", "starting"} => at[r].i >= 1

\* What is read last is what is on disk, unless an event is waiting or was lost.
Fresh ==
    /\ up /\ ~event /\ went \cap {"lost", "unread"} = {}
    /\ \A r \in Reloads : ~Reads(r)
    => disk.ok /\ conf = disk.conf

\* A failure or a configuration that is none.
Excused == went \cap {"failed", "invalid"} # {}

Solo == \A q, r \in Reloads : pc[q] # "idle" /\ pc[r] # "idle" => q = r

\* Controller j of Node.controllers serves node j of the list ns.
Serving(ns, j) ==
    \E state \in {"up", "hung"} : slices[nodes][j] = Controller(ns[j], vc, state)

Stopped(c) == c = None \/ c.state \notin {"up", "hung"}

\* Each limiter belongs to a controller of Node.controllers that is not before k.
LimitersFrom(k) ==
    \A t \in limiters :
        /\ nodes # None
        /\ \E j \in DOMAIN slices[nodes] :
             j >= k /\ slices[nodes][j] # None /\ slices[nodes][j].tag = t

\* What runs is on vc, in Node.controllers.
LeftNothing ==
    /\ \A s \in Slices : \A c \in Running(s) : s = nodes /\ c.box = vc /\ box[vc].state = "up"
    /\ \A b \in Boxes : box[b].state = "up" => b = vc

\* Without a failure there is a core, and no controller is missing.
Whole ==
    /\ vc = None => Excused
    /\ nodes # None /\ (\A r \in Reloads : pc[r] # "starting")
         /\ (\E j \in DOMAIN slices[nodes] : slices[nodes][j] = None) => Excused

\* Nothing has gone wrong since the last reload that completed, and none runs.
Served ==
    (\A r \in Reloads : pc[r] = "idle") /\ went \cap {"failed", "invalid", "cores"} = {} =>
        /\ vc # None /\ box[vc] = [state |-> "up", cores |-> conf.cores]
        /\ nodes # None /\ Len(slices[nodes]) = Len(conf.nodes)
        /\ \A j \in DOMAIN conf.nodes : Serving(conf.nodes, j)
        /\ limiters = Tags(conf)

\* Before the file is read, and from Node.Close to Node.Start.
Reading == {"idle", "sleep", "awake", "load"}
Emptied == {"closeCore", "newCore", "startCore", "makeNodes"}

\* Node.Close has stopped the controllers before the one it has come to.
ClosingInv(r) ==
    /\ at[r].slice = nodes
    /\ LimitersFrom(at[r].i)
    /\ nodes # None =>
         \A j \in DOMAIN slices[nodes] : j < at[r].i => Stopped(slices[nodes][j])

\* Node.Start has started the controllers before the one it has come to.
StartingInv(r) ==
    /\ at[r].box = vc /\ at[r].nodes = conf.nodes /\ at[r].i <= Len(conf.nodes) + 1
    /\ nodes # None /\ Len(slices[nodes]) = Len(conf.nodes)
    /\ \A j \in DOMAIN conf.nodes :
         IF j < at[r].i THEN Serving(conf.nodes, j) ELSE slices[nodes][j] = None
    /\ limiters = {conf.nodes[j].tag : j \in {k \in DOMAIN conf.nodes : k < at[r].i}}

CoreInv(r) ==
    /\ pc[r] = "newCore" => \A b \in Boxes : box[b].state # "up"
    /\ pc[r] = "startCore" => vc # None /\ box[vc] = [state |-> "new", cores |-> conf.cores]
    /\ pc[r] \in {"makeNodes", "starting"} =>
         vc # None /\ box[vc] = [state |-> "up", cores |-> conf.cores]

\* What a reload that is alone has done so far.
Progress(r) ==
    /\ pc[r] \in Emptied => nodes = None
    /\ pc[r] \notin Reading /\ conf.cores = <<>> => "invalid" \in went
    /\ pc[r] = "closing" => ClosingInv(r)
    /\ pc[r] = "starting" => StartingInv(r)
    /\ CoreInv(r)

Alone == Solo /\ LimitersFrom(1) /\ LeftNothing /\ Whole /\ Served /\ \A r \in Reloads : Progress(r)

IInv == Types /\ Fresh /\ PanicsHaveCause /\ (up /\ "overlap" \notin went => Alone)

-----------------------------------------------------------------------------
\* A fresh object is one of those there are.
LEMMA AnyOfIn == ASSUME NEW S, S # {} PROVE AnyOf(S) \in S
  BY DEF AnyOf

\* A controller that changes its state stays where it is, what it is.
LEMMA StateChanges ==
    ASSUME slices \in [Slices -> Seq(Controllers \cup {None})],
           NEW s \in Slices, NEW i \in DOMAIN slices[s], slices[s][i] # None,
           NEW st \in {"up", "hung", "closed", "failed"},
           slices' = [slices EXCEPT ![s][i].state = st]
    PROVE  /\ slices' \in [Slices -> Seq(Controllers \cup {None})]
           /\ \A q \in Slices \ {s} : slices'[q] = slices[q]
           /\ DOMAIN slices'[s] = DOMAIN slices[s] /\ Len(slices'[s]) = Len(slices[s])
           /\ \A j \in DOMAIN slices[s] \ {i} : slices'[s][j] = slices[s][j]
           /\ slices'[s][i] = [slices[s][i] EXCEPT !.state = st]
           /\ slices'[s][i] \in Controllers
  <1> DEFINE c == [slices[s][i] EXCEPT !.state = st]
  <1>1. slices[s][i] \in Controllers OBVIOUS
  <1>2. c \in Controllers BY <1>1 DEF Controllers
  <1>3. slices' = [slices EXCEPT ![s] = [slices[s] EXCEPT ![i] = c]] OBVIOUS
  <1> HIDE DEF c
  <1>4. [slices[s] EXCEPT ![i] = c] \in Seq(Controllers \cup {None}) BY <1>2
  <1>5. slices'[s] = [slices[s] EXCEPT ![i] = c] BY <1>3
  <1>6. slices' \in [Slices -> Seq(Controllers \cup {None})] BY <1>3, <1>4
  <1>7. DOMAIN slices'[s] = DOMAIN slices[s] /\ Len(slices'[s]) = Len(slices[s]) BY <1>4, <1>5
  <1> QED BY <1>2, <1>3, <1>5, <1>6, <1>7 DEF c

\* So does a slice where a controller is put.
LEMMA ControllerPut ==
    ASSUME slices \in [Slices -> Seq(Controllers \cup {None})],
           NEW s \in Slices, NEW i \in DOMAIN slices[s],
           NEW n \in NodeConfigs, NEW b \in Boxes \cup {None},
           NEW st \in {"up", "hung", "closed", "failed"},
           slices' = [slices EXCEPT ![s][i] = Controller(n, b, st)]
    PROVE  /\ slices' \in [Slices -> Seq(Controllers \cup {None})]
           /\ \A q \in Slices \ {s} : slices'[q] = slices[q]
           /\ DOMAIN slices'[s] = DOMAIN slices[s] /\ Len(slices'[s]) = Len(slices[s])
           /\ \A j \in DOMAIN slices[s] \ {i} : slices'[s][j] = slices[s][j]
           /\ slices'[s][i] = Controller(n, b, st)
           /\ Controller(n, b, st) \in Controllers
  <1> DEFINE c == Controller(n, b, st)
  <1>1. c \in Controllers BY DEF Controller, Controllers, NodeConfigs
  <1>2. slices' = [slices EXCEPT ![s] = [slices[s] EXCEPT ![i] = c]] OBVIOUS
  <1> HIDE DEF c
  <1>3. [slices[s] EXCEPT ![i] = c] \in Seq(Controllers \cup {None}) BY <1>1
  <1>4. slices'[s] = [slices[s] EXCEPT ![i] = c] BY <1>2
  <1>5. slices' \in [Slices -> Seq(Controllers \cup {None})] BY <1>2, <1>3
  <1>6. DOMAIN slices'[s] = DOMAIN slices[s] /\ Len(slices'[s]) = Len(slices[s]) BY <1>3, <1>4
  <1> QED BY <1>1, <1>2, <1>4, <1>5, <1>6 DEF c

\* The configurations that may be saved are ones.
LEMMA ConfOfContent ==
    ASSUME NEW c \in Contents
    PROVE  /\ c.ok \in BOOLEAN /\ c.conf \in Configs
           /\ c.conf.cores \in Seq(Kinds) /\ c.conf.nodes \in Seq(NodeConfigs)
  BY ReloadAssumption DEF Configs

\* The controllers of a list of nodes.
LEMMA ControllersOf ==
    ASSUME NEW ns \in Seq(NodeConfigs), NEW b \in Boxes \cup {None},
           NEW st \in {"up", "hung", "closed", "failed"}
    PROVE  [i \in DOMAIN ns |-> Controller(ns[i], b, st)] \in Seq(Controllers \cup {None})
  <1>1. DOMAIN ns = 1..Len(ns) /\ Len(ns) \in Nat OBVIOUS
  <1>2. ASSUME NEW i \in DOMAIN ns PROVE Controller(ns[i], b, st) \in Controllers
    <2>1. ns[i] \in NodeConfigs BY <1>1
    <2> QED BY <2>1 DEF Controller, Controllers, NodeConfigs
  <1> QED BY <1>1, <1>2

\* Nothing has its types too.
LEMMA EmptyTypes ==
    /\ <<>> \in Seq(NodeConfigs) /\ <<>> \in Seq(Kinds)
    /\ Nowhere \in Positions /\ EmptyConf \in Configs
  <1>1. <<>> \in Seq(NodeConfigs) /\ <<>> \in Seq(Kinds) OBVIOUS
  <1> QED BY <1>1 DEF Nowhere, Positions, EmptyConf, Configs

\* The initial state has its types.
LEMMA InitTypes == Init => Types
  <1> SUFFICES ASSUME Init PROVE Types OBVIOUS
  <1>1. nodes \in Slices /\ vc \in Boxes BY AnyOfIn, ReloadAssumption DEF Init
  <1>2. First \in Contents BY ReloadAssumption
  <1>3. slices \in [Slices -> Seq(Controllers \cup {None})]
    <2>1. [i \in DOMAIN First.conf.nodes |-> Controller(First.conf.nodes[i], vc, "up")]
              \in Seq(Controllers \cup {None})
      BY <1>1, <1>2, ConfOfContent, ControllersOf
    <2>2. <<>> \in Seq(Controllers \cup {None}) OBVIOUS
    <2> QED BY <2>1, <2>2 DEF Init
  <1>4. box \in [Boxes -> [state : {"free", "new", "up", "closed"}, cores : Seq(Kinds)]]
    <2>1. <<>> \in Seq(Kinds) OBVIOUS
    <2> QED BY <1>2, <2>1, ConfOfContent DEF Init, Free
  <1>5. at \in [Reloads -> Positions] BY EmptyTypes DEF Init
  <1>6. /\ pc \in [Reloads -> PCs]
        /\ \A r \in Reloads : pc[r] \in {"closing", "starting"} => at[r].i >= 1
    BY DEF Init, PCs
  <1>7. disk \in Contents /\ conf \in Configs BY <1>2, ConfOfContent DEF Init
  <1> QED BY <1>1, <1>3, <1>4, <1>5, <1>6, <1>7 DEF Types

-----------------------------------------------------------------------------
\* The steps up to the core's Close keep the types.
LEMMA CloseTypes ==
    ASSUME Types, NEW r \in Reloads,
           \/ Resets(r) \/ Loads(r)
           \/ ClosesNodes(r) \/ ClosesController(r) \/ WaitsForMonitor(r) \/ ClosesNil(r)
           \/ NodesClosed(r) \/ ClosesCore(r) \/ CloseReturnsError(r) \/ ClosesNoCore(r)
    PROVE  Types'
  <1> USE DEF Types, Positions, files, shared, locals, Goto, PCs
  <1>1. CASE Resets(r) BY <1>1, EmptyTypes DEF Resets
  <1>2. CASE Loads(r)
    <2>1. disk.conf \in Configs BY ConfOfContent
    <2>2. EmptyConf \in Configs /\ [disk.conf EXCEPT !.nodes = <<>>] \in Configs
      BY <2>1, EmptyTypes DEF Configs
    <2> QED BY <1>2, <2>1, <2>2 DEF Loads
  <1>3. CASE ClosesNodes(r) 
    <2>1. [Nowhere EXCEPT !.slice = nodes, !.i = 1] \in Positions
      BY EmptyTypes DEF Positions
    <2> QED BY <1>3, <2>1, EmptyTypes DEF ClosesNodes
  <1>4. CASE ClosesController(r)
    <2>1. /\ at[r].slice \in Slices /\ at[r].i \in DOMAIN slices[at[r].slice]
          /\ at[r].i + 1 \in Nat /\ at[r].i + 1 >= 1
      BY <1>4 DEF ClosesController, HasController
    <2>2. slices' \in [Slices -> Seq(Controllers \cup {None})]
      BY <1>4, <2>1, StateChanges DEF ClosesController, Here
    <2>3. at[r] \in Positions /\ [at[r] EXCEPT !.i = @ + 1] \in Positions BY <2>1
    <2>4. at' = [at EXCEPT ![r] = [at[r] EXCEPT !.i = @ + 1]] BY <1>4 DEF ClosesController, Advance
    <2>5. at' \in [Reloads -> Positions] /\ at'[r].i >= 1 BY <2>1, <2>3, <2>4
    <2> QED BY <1>4, <2>1, <2>2, <2>4, <2>5 DEF ClosesController
  <1>5. CASE WaitsForMonitor(r) BY <1>5 DEF WaitsForMonitor
  <1>6. CASE ClosesNil(r) BY <1>6 DEF ClosesNil, Panics
  <1>7. CASE NodesClosed(r)
    <2>1. slices' \in [Slices -> Seq(Controllers \cup {None})]
      <3>1. <<>> \in Seq(Controllers \cup {None}) OBVIOUS
      <3> QED BY <1>7, <3>1 DEF NodesClosed
    <2>2. UNCHANGED <<disk, conf, vc, box>> /\ nodes' = None BY <1>7 DEF NodesClosed
    <2>3. at' = [at EXCEPT ![r] = Nowhere] /\ pc' = [pc EXCEPT ![r] = "closeCore"]
      BY <1>7 DEF NodesClosed
    <2> QED BY <2>1, <2>2, <2>3, EmptyTypes
  <1>8. CASE ClosesCore(r) BY <1>8 DEF ClosesCore
  <1>9. CASE CloseReturnsError(r) 
    <2>1. box' \in [Boxes -> [state : {"free", "new", "up", "closed"}, cores : Seq(Kinds)]]
      BY <1>9 DEF CloseReturnsError
    <2>2. at' = [at EXCEPT ![r] = Nowhere] /\ pc' = [pc EXCEPT ![r] = "idle"]
      BY <1>9 DEF CloseReturnsError, Ends
    <2>3. UNCHANGED <<disk, conf, nodes, slices, vc>> BY <1>9 DEF CloseReturnsError
    <2> QED BY <2>1, <2>2, <2>3, EmptyTypes
  <1>10. CASE ClosesNoCore(r) BY <1>10 DEF ClosesNoCore, Panics
  <1> QED BY <1>1, <1>2, <1>3, <1>4, <1>5, <1>6, <1>7, <1>8, <1>9, <1>10

\* So do those from NewCore on.
LEMMA StartTypes ==
    ASSUME Types, NEW r \in Reloads,
           \/ IndexesNoCore(r) \/ MakesCore(r) \/ NewCoreFails(r) \/ GetCorePanics(r)
           \/ StartsCore(r) \/ StartsNoCore(r) \/ StartFails(r)
           \/ MakesNodes(r) \/ StartsNode(r) \/ NodeFails(r) \/ StartPanics(r) \/ Completes(r)
    PROVE  Types'
  <1> USE DEF Types, Positions, files, shared, locals, Goto, PCs
  <1>1. CASE IndexesNoCore(r) BY <1>1 DEF IndexesNoCore, Panics
  <1>2. CASE MakesCore(r)
    <2>1. vc' \in Boxes BY <1>2, AnyOfIn DEF MakesCore, FreeBoxes
    <2>2. conf.cores \in Seq(Kinds) /\ <<>> \in Seq(Kinds) BY DEF Configs
    <2>3. box' \in [Boxes -> [state : {"free", "new", "up", "closed"}, cores : Seq(Kinds)]]
      BY <1>2, <2>2 DEF MakesCore, Free
    <2> QED BY <1>2, <2>1, <2>3 DEF MakesCore
  <1>3. CASE NewCoreFails(r) BY <1>3, EmptyTypes DEF NewCoreFails, Ends
  <1>4. CASE GetCorePanics(r) BY <1>4 DEF GetCorePanics, Panics
  <1>5. CASE StartsCore(r) BY <1>5 DEF StartsCore
  <1>6. CASE StartsNoCore(r) BY <1>6 DEF StartsNoCore, Panics
  <1>7. CASE StartFails(r) BY <1>7, EmptyTypes DEF StartFails, Ends
  <1>8. CASE MakesNodes(r)
    <2>1. nodes' \in Slices BY <1>8, AnyOfIn DEF MakesNodes, FreeSlices
    <2>2. conf.nodes \in Seq(NodeConfigs) BY DEF Configs
    <2>3. slices' \in [Slices -> Seq(Controllers \cup {None})]
      <3>1. /\ [i \in DOMAIN conf.nodes |-> None] \in Seq(Controllers \cup {None})
            /\ <<>> \in Seq(Controllers \cup {None})
        BY <2>2
      <3> QED BY <1>8, <3>1 DEF MakesNodes
    <2>4. PICK p \in Positions : at' = [at EXCEPT ![r] = p] /\ p.i = 1
      <3>1. [Nowhere EXCEPT !.i = 1, !.nodes = conf.nodes, !.box = vc] \in Positions
        BY <2>2, EmptyTypes DEF Positions
      <3> QED BY <1>8, <3>1, EmptyTypes DEF MakesNodes, Positions
    <2>5. UNCHANGED <<disk, conf, vc, box>> /\ pc' = [pc EXCEPT ![r] = "starting"]
      BY <1>8 DEF MakesNodes
    <2> QED BY <2>1, <2>2, <2>3, <2>4, <2>5
  <1>9. ASSUME NEW st \in {"up", "failed"}, HasNode(r), InRange(r), Puts(r, st), pc[r] = "starting"
        PROVE  slices' \in [Slices -> Seq(Controllers \cup {None})]
    <2>1. nodes \in Slices /\ at[r].i \in DOMAIN slices[nodes] BY <1>9 DEF InRange
    <2>2. Node(r) \in NodeConfigs BY <1>9 DEF HasNode, Node
    <2> QED BY <1>9, <2>1, <2>2, ControllerPut DEF Puts
  <1>10. CASE StartsNode(r)
    <2>1. slices' \in [Slices -> Seq(Controllers \cup {None})] BY <1>9, <1>10 DEF StartsNode
    <2>2. at[r].i + 1 \in Nat /\ at[r].i + 1 >= 1 OBVIOUS
    <2> QED BY <1>10, <2>1, <2>2 DEF StartsNode
  <1>11. CASE NodeFails(r)
    <2>1. slices' \in [Slices -> Seq(Controllers \cup {None})] BY <1>9, <1>11 DEF NodeFails
    <2> QED BY <1>11, <2>1, EmptyTypes DEF NodeFails, Ends
  <1>12. CASE StartPanics(r) BY <1>12 DEF StartPanics, Panics
  <1>13. CASE Completes(r) BY <1>13, EmptyTypes DEF Completes, Ends
  <1> QED
    BY <1>1, <1>2, <1>3, <1>4, <1>5, <1>6, <1>7, <1>8, <1>10, <1>11, <1>12, <1>13

\* Every step of the files, the watcher and the reloads keeps the types.
LEMMA NextTypes == Types /\ [Next]_vars => Types'
  <1> SUFFICES ASSUME Types, [Next]_vars PROVE Types' OBVIOUS
  <1> USE DEF Types, Positions, files, shared, locals, Goto, PCs
  <1>1. ASSUME NEW c \in Contents, Edit(c) PROVE Types' BY <1>1 DEF Edit
  <1>2. CASE FiveSeconds BY <1>2 DEF FiveSeconds
  <1>3. CASE Drops BY <1>3 DEF Drops
  <1>4. ASSUME NEW r \in Reloads, Takes(r) PROVE Types' BY <1>4 DEF Takes
  <1>5. ASSUME NEW r \in Reloads, ReloadStep(r) PROVE Types'
    BY <1>5, CloseTypes, StartTypes DEF ReloadStep
  <1>6. ASSUME NEW s \in Slices, NEW i \in DOMAIN slices[s], Hangs(s, i) PROVE Types'
    <2>1. slices' \in [Slices -> Seq(Controllers \cup {None})]
      BY <1>6, StateChanges DEF Hangs
    <2> QED BY <1>6, <2>1 DEF Hangs
  <1>7. CASE UNCHANGED vars BY <1>7 DEF vars
  <1> QED BY <1>1, <1>2, <1>3, <1>4, <1>5, <1>6, <1>7 DEF Next

-----------------------------------------------------------------------------
\* A step that reads nothing and forgets no event leaves what was read last.
LEMMA FreshKept ==
    ASSUME Fresh, UNCHANGED <<disk, conf>>, up' => up, event => event',
           went \cap {"lost", "unread"} \subseteq went',
           \A r \in Reloads : Reads(r) => Reads(r)'
    PROVE  Fresh'
  BY DEF Fresh

\* The configuration in hand is the file's whenever no event waits, whoever reads.
LEMMA NextFresh == Types /\ Fresh /\ [Next]_vars => Fresh'
  <1> SUFFICES ASSUME Types, Fresh, [Next]_vars PROVE Fresh' OBVIOUS
  <1> USE DEF files, shared, locals, Goto
  <1>0. pc \in [Reloads -> PCs] BY DEF Types
  <1>1. ASSUME NEW c \in Contents, Edit(c) PROVE Fresh' BY <1>1 DEF Edit, Fresh
  <1>2. CASE FiveSeconds
    <2>1. \A r \in Reloads : Reads(r) => Reads(r)' BY <1>0, <1>2 DEF FiveSeconds, Reads
    <2> QED BY <1>2, <2>1, FreshKept DEF FiveSeconds
  <1>3. CASE Drops
    <2>1. \A r \in Reloads : Reads(r)' <=> Reads(r) BY <1>3 DEF Drops, Reads
    <2> QED BY <1>3, <2>1 DEF Drops, Fresh
  <1>4. ASSUME NEW r \in Reloads, Takes(r) PROVE Fresh'
    <2>1. Reads(r)' BY <1>0, <1>4 DEF Takes, Reads
    <2> QED BY <2>1 DEF Fresh
  <1>5. ASSUME NEW r \in Reloads, ReloadStep(r) PROVE Fresh'
    <2>1. CASE Resets(r)
      <3>1. Reads(r)' BY <1>0, <2>1 DEF Resets, Reads
      <3> QED BY <3>1 DEF Fresh
    <2>2. CASE Loads(r) BY <2>2 DEF Loads, Fresh
    <2>3. CASE ~Resets(r) /\ ~Loads(r)
      <3>1. UNCHANGED <<disk, conf>> /\ (up' => up)
        BY <1>5, <2>3
        DEF ReloadStep, Panics, ClosesNodes, ClosesController, WaitsForMonitor, ClosesNil,
            NodesClosed, ClosesCore, CloseReturnsError, ClosesNoCore, IndexesNoCore,
            MakesCore, NewCoreFails, GetCorePanics, StartsCore, StartsNoCore, StartFails,
            MakesNodes, StartsNode, NodeFails, StartPanics, Completes
      <3>2. event => event'
        BY <1>5, <2>3
        DEF ReloadStep, Panics, ClosesNodes, ClosesController, WaitsForMonitor, ClosesNil,
            NodesClosed, ClosesCore, CloseReturnsError, ClosesNoCore, IndexesNoCore,
            MakesCore, NewCoreFails, GetCorePanics, StartsCore, StartsNoCore, StartFails,
            MakesNodes, StartsNode, NodeFails, StartPanics, Completes, WritesDns
      <3>3. went \cap {"lost", "unread"} \subseteq went'
        BY <1>5, <2>3
        DEF ReloadStep, Panics, ClosesNodes, ClosesController, WaitsForMonitor, ClosesNil,
            NodesClosed, ClosesCore, CloseReturnsError, ClosesNoCore, IndexesNoCore,
            MakesCore, NewCoreFails, GetCorePanics, StartsCore, StartsNoCore, StartFails,
            MakesNodes, StartsNode, NodeFails, StartPanics, Completes
      <3>4. ~Reads(r) /\ \A q \in Reloads \ {r} : pc'[q] = pc[q]
        BY <1>0, <1>5, <2>3
        DEF ReloadStep, Reads, Ends, Panics, ClosesNodes, ClosesController, WaitsForMonitor,
            ClosesNil, NodesClosed, ClosesCore, CloseReturnsError, ClosesNoCore,
            IndexesNoCore, MakesCore, NewCoreFails, GetCorePanics, StartsCore, StartsNoCore,
            StartFails, MakesNodes, StartsNode, NodeFails, StartPanics, Completes
      <3>5. \A q \in Reloads : Reads(q) => Reads(q)' BY <3>4 DEF Reads
      <3> QED BY <3>1, <3>2, <3>3, <3>5, FreshKept
    <2> QED BY <2>1, <2>2, <2>3
  <1>6. ASSUME NEW s \in Slices, NEW i \in DOMAIN slices[s], Hangs(s, i) PROVE Fresh'
    BY <1>6 DEF Hangs, Fresh, Reads
  <1>7. CASE UNCHANGED vars BY <1>7 DEF vars, Fresh, Reads
  <1> QED BY <1>1, <1>2, <1>3, <1>4, <1>5, <1>6, <1>7 DEF Next

-----------------------------------------------------------------------------
(* One reload at a time *)

\* The other reloads do nothing while one is under way.
LEMMA OthersIdle ==
    ASSUME Solo, NEW r \in Reloads, pc[r] # "idle"
    PROVE  \A q \in Reloads \ {r} : pc[q] = "idle"
  BY DEF Solo

\* A reload that is alone stays alone, and the others have nothing to show.
LEMMA StaysSolo ==
    ASSUME Types, Solo, NEW r \in Reloads, pc[r] # "idle",
           \A q \in Reloads \ {r} : pc'[q] = pc[q],
           Progress(r)'
    PROVE  Solo' /\ \A q \in Reloads : Progress(q)'
  <1>1. \A q \in Reloads \ {r} : pc'[q] = "idle" BY OthersIdle
  <1>2. Solo' BY <1>1 DEF Solo
  <1>3. ASSUME NEW q \in Reloads \ {r} PROVE Progress(q)'
    BY <1>1, <1>3 DEF Progress, Reading, Emptied, CoreInv
  <1> QED BY <1>2, <1>3

\* What runs still runs where it did, if nothing is touched.
LEMMA SameRunning ==
    ASSUME LeftNothing, UNCHANGED <<nodes, slices, vc, box>>
    PROVE  LeftNothing'
  BY DEF LeftNothing, Running

\* The limiters still have their controllers.
LEMMA SameLimiters ==
    ASSUME NEW k, LimitersFrom(k), UNCHANGED <<nodes, slices>>, limiters' \subseteq limiters
    PROVE  LimitersFrom(k)'
  BY DEF LimitersFrom

\* What is there stays whole, if nothing is touched and no excuse is taken back.
LEMMA SameWhole ==
    ASSUME Solo, Whole, NEW r \in Reloads, pc[r] \notin {"idle", "starting"},
           UNCHANGED <<nodes, slices, vc>>, Excused => Excused'
    PROVE  Whole'
  <1>1. \A q \in Reloads : pc[q] # "starting" BY OthersIdle
  <1> QED BY <1>1 DEF Whole

\* Nothing is claimed to be served while a reload is under way.
LEMMA NotServed == ASSUME NEW r \in Reloads, pc'[r] # "idle" PROVE Served'
  BY DEF Served

\* What is found in a slice.
LEMMA SlicesTypes ==
    ASSUME Types
    PROVE  /\ \A s \in Slices : DOMAIN slices[s] = 1..Len(slices[s]) /\ Len(slices[s]) \in Nat
           /\ \A s \in Slices : \A j \in DOMAIN slices[s] : slices[s][j] \in Controllers \cup {None}
           /\ conf.nodes \in Seq(NodeConfigs)
           /\ DOMAIN conf.nodes = 1..Len(conf.nodes) /\ Len(conf.nodes) \in Nat
  <1>1. slices \in [Slices -> Seq(Controllers \cup {None})] /\ conf.nodes \in Seq(NodeConfigs)
    BY DEF Types, Configs
  <1> QED BY <1>1

\* Without Node.controllers nothing runs, and nothing is limited.
LEMMA NothingRuns ==
    ASSUME LeftNothing, LimitersFrom(1), nodes = None
    PROVE  limiters = {} /\ \A s \in Slices : Running(s) = {}
  BY ReloadAssumption DEF LeftNothing, LimitersFrom

\* The file is read: what runs is not touched.
LEMMA ReadingKeepsAlone ==
    ASSUME Types, Alone, NEW r \in Reloads, Resets(r) \/ Loads(r)
    PROVE  Alone'
  <1> USE DEF Alone
  <1>1. /\ UNCHANGED <<nodes, slices, vc, box, limiters>> /\ pc[r] \in {"awake", "load"}
        /\ pc'[r] \in {"load", "closeNodes"}
        /\ \A q \in Reloads \ {r} : pc'[q] = pc[q]
    BY DEF Resets, Loads, Goto, Types
  <1>2. Excused => Excused' BY DEF Resets, Loads, Excused
  <1>3. Progress(r)'
    BY <1>1 DEF Progress, Reading, Emptied, CoreInv, Resets, Loads, Types, EmptyConf, Goto
  <1> QED BY <1>1, <1>2, <1>3, StaysSolo, SameRunning, SameLimiters, SameWhole, NotServed

\* Node.Close: each controller is stopped after its limiter has gone.
LEMMA ClosingKeepsAlone ==
    ASSUME Types, Types', Alone, NEW r \in Reloads,
           \/ ClosesNodes(r) \/ ClosesController(r) \/ WaitsForMonitor(r) \/ NodesClosed(r)
    PROVE  Alone'
  <1> USE DEF Alone
  <1>1. CASE ClosesNodes(r)
    <2>1. /\ UNCHANGED <<conf, nodes, slices, vc, box, limiters, went>> /\ pc[r] = "closeNodes"
          /\ pc'[r] = "closing" /\ at'[r].slice = nodes /\ at'[r].i = 1
          /\ \A q \in Reloads \ {r} : pc'[q] = pc[q]
      BY <1>1 DEF ClosesNodes, Goto, Types, Positions, Nowhere, shared
    <2>2. LimitersFrom(at[r].i)' BY <2>1 DEF LimitersFrom
    <2>3. nodes # None => \A j \in DOMAIN slices[nodes] : ~(j < 1)
      BY SlicesTypes DEF Types
    <2>4. ClosingInv(r)' BY <2>1, <2>2, <2>3 DEF ClosingInv
    <2>5. Progress(r)' BY <2>1, <2>4 DEF Progress, Reading, Emptied, CoreInv
    <2> QED
      BY <2>1, <2>5, StaysSolo, SameRunning, SameLimiters, SameWhole, NotServed DEF Excused
  <1>2. CASE ClosesController(r)
    <2> DEFINE i == at[r].i
    <2>1. ClosingInv(r) /\ pc[r] = "closing" BY <1>2 DEF ClosesController, Progress
    <2>2. nodes \in Slices /\ i \in DOMAIN slices[nodes] /\ i \in Nat /\ i >= 1
      BY <1>2, <2>1, SlicesTypes DEF ClosesController, HasController, ClosingInv, Types, Positions
    <2>3. PICK s \in Slices : s = nodes BY <2>2
    <2>4. PICK k \in DOMAIN slices[s] : k = i BY <2>2, <2>3
    <2>5. /\ slices[s][k] # None /\ limiters' = limiters \ {slices[s][k].tag}
          /\ slices' = [slices EXCEPT ![s][k].state = "closed"]
      BY <1>2, <2>1, <2>3, <2>4 DEF ClosesController, Here, ClosingInv
    <2>6. /\ \A q \in Slices \ {s} : slices'[q] = slices[q]
          /\ DOMAIN slices'[s] = DOMAIN slices[s]
          /\ \A j \in DOMAIN slices[s] \ {k} : slices'[s][j] = slices[s][j]
          /\ slices'[s][k] = [slices[s][k] EXCEPT !.state = "closed"]
          /\ slices'[s][k] \in Controllers
      BY <2>5, StateChanges DEF Types
    <2>7. slices'[s][k].state = "closed"
      BY <2>5, <2>6, SlicesTypes DEF Controllers
    <2>8. /\ UNCHANGED <<conf, nodes, vc, box, pc, went>>
          /\ at' = [at EXCEPT ![r].i = @ + 1]
      BY <1>2 DEF ClosesController, Advance
    <2>9. at'[r].i = k + 1 /\ at'[r].slice = s
      BY <2>1, <2>3, <2>4, <2>8 DEF Types, Positions, ClosingInv
    <2>10. k \in Nat /\ \A j \in DOMAIN slices[s] : j \in Nat BY <2>2, <2>4, SlicesTypes
    <2>11. LimitersFrom(k + 1)'
      <3> SUFFICES ASSUME NEW t \in limiters'
                   PROVE  /\ s # None
                          /\ \E j \in DOMAIN slices'[s] :
                               j >= k + 1 /\ slices'[s][j] # None /\ slices'[s][j].tag = t
        BY <2>3, <2>8 DEF LimitersFrom
      <3>1. PICK j \in DOMAIN slices[s] : j >= k /\ slices[s][j] # None /\ slices[s][j].tag = t
        BY <2>1, <2>3, <2>4, <2>5 DEF ClosingInv, LimitersFrom
      <3>2. j # k BY <2>5, <3>1
      <3> QED BY <2>6, <2>10, <3>1, <3>2, ReloadAssumption
    <2>12. LimitersFrom(1)'
      <3>1. \A j \in DOMAIN slices[s] : j >= k + 1 => j >= 1 BY <2>10
      <3> QED BY <2>3, <2>6, <2>8, <2>11, <3>1 DEF LimitersFrom
    <2>13. \A q \in Slices : Running(q)' \subseteq Running(q)
      <3>1. ASSUME NEW q \in Slices, q # s PROVE Running(q)' \subseteq Running(q)
        BY <2>6, <3>1 DEF Running
      <3>2. Running(s)' \subseteq Running(s)
        <4> SUFFICES ASSUME NEW c \in Running(s)' PROVE c \in Running(s) OBVIOUS
        <4>1. PICK j \in DOMAIN slices'[s] : slices'[s][j] = c BY DEF Running, Members
        <4>2. c # None /\ c.state \in {"up", "hung"} BY DEF Running
        <4>3. slices[s][j] = c /\ j \in DOMAIN slices[s] BY <2>6, <2>7, <4>1, <4>2
        <4> QED BY <4>2, <4>3 DEF Running, Members
      <3> QED BY <3>1, <3>2
    <2>14. LeftNothing' BY <2>8, <2>13 DEF LeftNothing
    <2>15. \A j \in DOMAIN slices'[s] : j < k + 1 => Stopped(slices'[s][j])
      <3> SUFFICES ASSUME NEW j \in DOMAIN slices'[s], j < k + 1 PROVE Stopped(slices'[s][j])
        OBVIOUS
      <3>1. CASE j = k BY <2>7, <3>1 DEF Stopped
      <3>2. CASE j # k
        <4>1. j < k BY <2>6, <2>10, <3>2
        <4>2. Stopped(slices[s][j]) BY <2>1, <2>3, <2>4, <2>6, <4>1, ReloadAssumption DEF ClosingInv
        <4> QED BY <2>6, <3>2, <4>2
      <3> QED BY <3>1, <3>2
    <2>16. ClosingInv(r)' BY <2>3, <2>8, <2>9, <2>11, <2>15 DEF ClosingInv
    <2>17. Progress(r)' BY <2>1, <2>8, <2>16 DEF Progress, Reading, Emptied, CoreInv
    <2>18. Whole'
      <3>1. \A q \in Reloads : pc[q] # "starting" BY <2>1, OthersIdle
      <3>2. (\E j \in DOMAIN slices'[s] : slices'[s][j] = None)
               => \E j \in DOMAIN slices[s] : slices[s][j] = None
        BY <2>6, ReloadAssumption
      <3> QED BY <2>3, <2>8, <3>1, <3>2 DEF Whole, Excused
    <2> QED BY <2>1, <2>8, <2>12, <2>14, <2>17, <2>18, StaysSolo, NotServed
  <1>3. CASE WaitsForMonitor(r)
    <2>1. /\ UNCHANGED <<conf, nodes, slices, vc, box, went>> /\ pc[r] = "closing"
          /\ limiters' \subseteq limiters /\ pc'[r] = "stuck"
          /\ \A q \in Reloads \ {r} : pc'[q] = pc[q]
      BY <1>3 DEF WaitsForMonitor, Goto, Types
    <2>2. Progress(r)' BY <2>1 DEF Progress, Reading, Emptied, CoreInv
    <2> QED
      BY <2>1, <2>2, StaysSolo, SameRunning, SameLimiters, SameWhole, NotServed DEF Excused
  <1>4. CASE NodesClosed(r)
    <2>1. /\ UNCHANGED <<conf, vc, box, limiters, went>> /\ pc[r] = "closing" /\ nodes' = None
          /\ pc'[r] = "closeCore" /\ \A q \in Reloads \ {r} : pc'[q] = pc[q]
      BY <1>4 DEF NodesClosed, Goto, Types
    <2>2. ClosingInv(r) BY <2>1 DEF Progress
    <2>3. nodes # None => nodes \in Slices /\ \A j \in DOMAIN slices[nodes] : j < at[r].i
      <3> SUFFICES ASSUME nodes # None
                   PROVE  nodes \in Slices /\ \A j \in DOMAIN slices[nodes] : j < at[r].i
        OBVIOUS
      <3>1. nodes \in Slices BY DEF Types
      <3>2. ~(at[r].i <= Len(slices[nodes])) /\ at[r].i \in Nat
        BY <1>4, <2>2 DEF NodesClosed, HasController, ClosingInv, Types, Positions
      <3> QED BY <3>1, <3>2, SlicesTypes
    <2>4. limiters = {}
      BY <2>2, <2>3, SlicesTypes DEF ClosingInv, LimitersFrom, Types, Positions
    <2>5. \A s \in Slices : Running(s) = {}
      <3> SUFFICES ASSUME NEW s \in Slices, NEW c \in Running(s) PROVE FALSE OBVIOUS
      <3>1. s = nodes /\ nodes # None BY ReloadAssumption DEF LeftNothing
      <3>2. PICK j \in DOMAIN slices[nodes] : slices[nodes][j] = c
        BY <3>1 DEF Running, Members
      <3>3. Stopped(c) BY <2>2, <2>3, <3>1, <3>2 DEF ClosingInv
      <3> QED BY <3>3 DEF Stopped, Running
    <2>6. \A s \in Slices : Running(s)' = {}
      <3> SUFFICES ASSUME NEW s \in Slices PROVE Running(s)' = {} OBVIOUS
      <3>1. slices'[s] = <<>> \/ slices'[s] = slices[s] BY <1>4 DEF NodesClosed
      <3>2. CASE slices'[s] = <<>> BY <3>2 DEF Running, Members
      <3>3. CASE slices'[s] = slices[s] BY <2>5, <3>3 DEF Running
      <3> QED BY <3>1, <3>2, <3>3
    <2>7. LeftNothing' BY <2>1, <2>6 DEF LeftNothing
    <2>8. LimitersFrom(1)' BY <2>1, <2>4 DEF LimitersFrom
    <2>9. Whole' BY <2>1 DEF Whole, Excused
    <2>10. Progress(r)' BY <2>1 DEF Progress, Reading, Emptied, CoreInv
    <2> QED BY <2>1, <2>7, <2>8, <2>9, <2>10, StaysSolo, NotServed
  <1> QED BY <1>1, <1>2, <1>3, <1>4

\* The core is closed, with no controller left, made anew and started.
LEMMA CoreKeepsAlone ==
    ASSUME Types, Types', Alone, NEW r \in Reloads,
           \/ ClosesCore(r) \/ CloseReturnsError(r) \/ MakesCore(r) \/ NewCoreFails(r)
           \/ StartsCore(r) \/ StartFails(r)
    PROVE  Alone'
  <1> USE DEF Alone
  <1>0. /\ pc \in [Reloads -> PCs]
        /\ box \in [Boxes -> [state : {"free", "new", "up", "closed"}, cores : Seq(Kinds)]]
    BY DEF Types
  <1>1. /\ pc[r] \in Emptied /\ UNCHANGED <<conf, nodes, slices, limiters>>
        /\ pc'[r] \in {"idle", "newCore", "startCore", "makeNodes"}
        /\ \A q \in Reloads \ {r} : pc'[q] = pc[q]
    BY <1>0 DEF ClosesCore, CloseReturnsError, MakesCore, NewCoreFails, StartsCore, StartFails,
              Goto, Ends, Emptied
  <1>2. nodes = None /\ (conf.cores = <<>> => "invalid" \in went)
    BY <1>1 DEF Progress, Emptied, Reading
  <1>3. limiters = {} /\ \A s \in Slices : Running(s) = {} BY <1>2, NothingRuns
  <1>4. LimitersFrom(1)' BY <1>1, <1>3 DEF LimitersFrom
  <1>5. went \subseteq went'
    BY DEF ClosesCore, CloseReturnsError, MakesCore, NewCoreFails, StartsCore, StartFails
  <1>6. Excused => Excused' BY <1>5 DEF Excused
  <1>7. ASSUME \A b \in Boxes : box'[b].state = "up" => b = vc' PROVE LeftNothing'
    <2>1. \A s \in Slices : Running(s)' = {} BY <1>1, <1>3 DEF Running
    <2> QED BY <1>7, <2>1 DEF LeftNothing
  <1>8. ASSUME vc' = None => Excused', CoreInv(r)',
               pc'[r] = "idle" => went' \cap {"failed", "invalid", "cores"} # {},
               \A b \in Boxes : box'[b].state = "up" => b = vc'
        PROVE  Alone'
    <2>1. Whole' BY <1>1, <1>2, <1>8 DEF Whole
    <2>2. Progress(r)' BY <1>1, <1>2, <1>5, <1>8 DEF Progress, Reading, Emptied
    <2>3. Served' BY <1>8 DEF Served
    <2> QED BY <1>1, <1>4, <1>7, <1>8, <2>1, <2>2, <2>3, StaysSolo DEF Emptied
  <1>9. \A b \in Boxes : box[b].state = "up" => b = vc BY DEF LeftNothing
  <1>10. vc = None => Excused BY DEF Whole
  <1>11. CASE ClosesCore(r)
    <2>1. /\ vc' = vc /\ vc \in Boxes /\ pc'[r] = "newCore"
          /\ \A b \in Boxes \ {vc} : box'[b] = box[b]
          /\ box'[vc].state = "closed"
      BY <1>0, <1>11 DEF ClosesCore, Goto, Types
    <2>2. \A b \in Boxes : box'[b].state # "up" BY <1>9, <2>1
    <2>3. CoreInv(r)' BY <2>1, <2>2 DEF CoreInv
    <2> QED BY <1>6, <1>8, <1>10, <2>1, <2>2, <2>3
  <1>12. CASE CloseReturnsError(r)
    <2>1. /\ vc' = vc /\ vc \in Boxes /\ pc'[r] = "idle"
          /\ \A b \in Boxes \ {vc} : box'[b] = box[b]
          /\ went' \cap {"failed", "invalid", "cores"} # {}
      BY <1>0, <1>12 DEF CloseReturnsError, Goto, Ends, Types
    <2>2. \A b \in Boxes : box'[b].state = "up" => b = vc' BY <1>9, <2>1
    <2>3. CoreInv(r)' BY <2>1 DEF CoreInv
    <2> QED BY <1>6, <1>8, <1>10, <2>1, <2>2, <2>3
  <1>13. CASE MakesCore(r)
    <2>1. vc' \in FreeBoxes /\ vc' \in Boxes /\ pc'[r] = "startCore"
      BY <1>0, <1>13, AnyOfIn DEF MakesCore, FreeBoxes, Goto
    <2>2. \A b \in Boxes : box[b].state # "up"
      BY <1>13 DEF MakesCore, Progress, CoreInv
    <2>3. /\ box'[vc'] = [state |-> "new", cores |-> conf.cores]
          /\ \A b \in Boxes \ {vc'} : box'[b] = Free \/ box'[b] = box[b]
      BY <1>13, <2>1 DEF MakesCore
    <2>4. \A b \in Boxes : box'[b].state # "up" BY <2>2, <2>3 DEF Free
    <2>5. CoreInv(r)' BY <1>1, <2>1, <2>3, ReloadAssumption DEF CoreInv
    <2> QED BY <1>8, <2>1, <2>4, <2>5, ReloadAssumption
  <1>14. CASE NewCoreFails(r)
    <2>1. pc'[r] = "idle" /\ box' = box /\ Excused'
      BY <1>0, <1>14 DEF NewCoreFails, Ends, Goto, Excused
    <2>2. \A b \in Boxes : box[b].state # "up"
      BY <1>14 DEF NewCoreFails, Progress, CoreInv
    <2>3. CoreInv(r)' BY <2>1 DEF CoreInv
    <2> QED BY <1>8, <2>1, <2>2, <2>3 DEF Excused
  <1>15. CASE StartsCore(r)
    <2>1. vc' = vc /\ vc \in Boxes /\ pc'[r] = "makeNodes"
      BY <1>0, <1>15 DEF StartsCore, Goto, Types
    <2>2. box[vc] = [state |-> "new", cores |-> conf.cores]
      BY <1>15 DEF StartsCore, Progress, CoreInv
    <2>3. box' = [box EXCEPT ![vc] = [state |-> "up", cores |-> conf.cores]]
      <3>1. [box[vc] EXCEPT !.state = "up"] = [state |-> "up", cores |-> conf.cores] BY <2>2
      <3>2. box' = [box EXCEPT ![vc] = [box[vc] EXCEPT !.state = "up"]] BY <1>15 DEF StartsCore
      <3> QED BY <3>1, <3>2
    <2>4. /\ box'[vc] = [state |-> "up", cores |-> conf.cores]
          /\ \A b \in Boxes \ {vc} : box'[b] = box[b]
      BY <1>0, <2>1, <2>3
    <2>5. \A b \in Boxes : box'[b].state = "up" => b = vc' BY <1>9, <2>1, <2>4
    <2>6. CoreInv(r)' BY <1>1, <2>1, <2>4, ReloadAssumption DEF CoreInv
    <2> QED BY <1>8, <2>1, <2>5, <2>6, ReloadAssumption
  <1>16. CASE StartFails(r)
    <2>1. /\ vc' = vc /\ vc \in Boxes /\ pc'[r] = "idle" /\ Excused'
          /\ \A b \in Boxes \ {vc} : box'[b] = box[b]
      BY <1>0, <1>16 DEF StartFails, Goto, Ends, Types, Excused
    <2>2. \A b \in Boxes : box'[b].state = "up" => b = vc' BY <1>9, <2>1
    <2>3. CoreInv(r)' BY <2>1 DEF CoreInv
    <2> QED BY <1>8, <2>1, <2>2, <2>3 DEF Excused
  <1> QED BY <1>11, <1>12, <1>13, <1>14, <1>15, <1>16

\* Node.Start makes an empty slice.
LEMMA MakesNodesKeepsAlone ==
    ASSUME Types, Types', Alone, NEW r \in Reloads, MakesNodes(r)
    PROVE  Alone'
  <1> USE DEF Alone
  <1>1. /\ pc[r] = "makeNodes" /\ pc'[r] = "starting"
        /\ \A q \in Reloads \ {r} : pc'[q] = pc[q]
        /\ UNCHANGED <<conf, vc, box, limiters, went>>
    BY DEF MakesNodes, Goto, Types
  <1>2. nodes = None /\ vc # None /\ box[vc] = [state |-> "up", cores |-> conf.cores]
    BY <1>1 DEF Progress, Emptied, CoreInv
  <1>3. limiters = {} /\ \A s \in Slices : Running(s) = {} BY <1>2, NothingRuns
  <1>4. PICK s \in Slices : s = nodes'
    BY AnyOfIn DEF MakesNodes, FreeSlices
  <1>5. /\ slices'[s] = [i \in DOMAIN conf.nodes |-> None]
        /\ \A q \in Slices \ {s} : slices'[q] = <<>> \/ slices'[q] = slices[q]
    BY <1>4 DEF MakesNodes
  <1>6. at'[r].i = 1 /\ at'[r].nodes = conf.nodes /\ at'[r].box = vc
    BY DEF MakesNodes, Types, Positions, Nowhere
  <1>7. \A q \in Slices : Running(q)' = {}
    <2> SUFFICES ASSUME NEW q \in Slices PROVE Running(q)' = {} OBVIOUS
    <2>1. CASE q = s BY <1>5, <2>1 DEF Running, Members
    <2>2. CASE slices'[q] = <<>> BY <2>2 DEF Running, Members
    <2>3. CASE slices'[q] = slices[q] BY <1>3, <2>3 DEF Running
    <2> QED BY <1>5, <2>1, <2>2, <2>3
  <1>8. LeftNothing' BY <1>1, <1>7 DEF LeftNothing
  <1>9. LimitersFrom(1)' BY <1>1, <1>3 DEF LimitersFrom
  <1>10. Whole' BY <1>1, <1>2 DEF Whole
  <1>11. StartingInv(r)'
    <2>1. Len(conf.nodes) \in Nat /\ DOMAIN conf.nodes = 1..Len(conf.nodes) BY SlicesTypes
    <2>2. Len(slices'[s]) = Len(conf.nodes) BY <1>5, <2>1
    <2>3. \A j \in DOMAIN conf.nodes : slices'[s][j] = None /\ ~(j < 1) BY <1>5, <2>1
    <2>4. s # None BY ReloadAssumption
    <2> QED BY <1>1, <1>3, <1>4, <1>6, <2>1, <2>2, <2>3, <2>4 DEF StartingInv
  <1>12. Progress(r)'
    BY <1>1, <1>2, <1>11 DEF Progress, Reading, Emptied, CoreInv
  <1> QED BY <1>1, <1>8, <1>9, <1>10, <1>12, StaysSolo, NotServed

\* What Node.Start finds: its slice, and its core, up.
LEMMA StartingFinds ==
    ASSUME Types, Alone, NEW r \in Reloads, pc[r] = "starting"
    PROVE  /\ StartingInv(r) /\ nodes \in Slices /\ vc \in Boxes /\ at[r].i \in Nat /\ at[r].i >= 1
           /\ box[vc] = [state |-> "up", cores |-> conf.cores] /\ CoreIsUp(r)
           /\ DOMAIN slices[nodes] = DOMAIN conf.nodes
           /\ HasNode(r) => /\ InRange(r) /\ at[r].i \in DOMAIN conf.nodes
                            /\ Node(r) = conf.nodes[at[r].i] /\ Node(r) \in NodeConfigs
                            /\ slices[nodes][at[r].i] = None
  <1>1. StartingInv(r) BY DEF Alone, Progress
  <1>2. vc # None /\ box[vc] = [state |-> "up", cores |-> conf.cores]
    BY DEF Alone, Progress, CoreInv
  <1>3. nodes \in Slices /\ vc \in Boxes /\ at[r].i \in Nat /\ at[r].i >= 1
    BY <1>1, <1>2 DEF StartingInv, Types, Positions
  <1>4. CoreIsUp(r) BY <1>1, <1>2 DEF CoreIsUp, StartingInv
  <1>5. DOMAIN slices[nodes] = DOMAIN conf.nodes BY <1>1, <1>3, SlicesTypes DEF StartingInv
  <1>6. HasNode(r) => /\ InRange(r) /\ at[r].i \in DOMAIN conf.nodes
                      /\ Node(r) = conf.nodes[at[r].i] /\ Node(r) \in NodeConfigs
                      /\ slices[nodes][at[r].i] = None
    <2> SUFFICES ASSUME HasNode(r) PROVE
              /\ InRange(r) /\ at[r].i \in DOMAIN conf.nodes
              /\ Node(r) = conf.nodes[at[r].i] /\ Node(r) \in NodeConfigs
              /\ slices[nodes][at[r].i] = None
      OBVIOUS
    <2>1. at[r].i <= Len(conf.nodes) /\ at[r].nodes = conf.nodes /\ nodes # None
          /\ Len(slices[nodes]) = Len(conf.nodes)
      BY <1>1 DEF HasNode, StartingInv
    <2>2. at[r].i \in DOMAIN conf.nodes BY <1>3, <2>1, SlicesTypes
    <2>3. conf.nodes[at[r].i] \in NodeConfigs BY <2>2, SlicesTypes
    <2>4. ~(at[r].i < at[r].i) BY <1>3
    <2>5. slices[nodes][at[r].i] = None BY <1>1, <2>2, <2>4 DEF StartingInv
    <2> QED BY <2>1, <2>2, <2>3, <2>5 DEF InRange, Node
  <1> QED BY <1>1, <1>2, <1>3, <1>4, <1>5, <1>6

\* A controller put in a slice where there was none leaves the others alone.
LEMMA PutKeeps ==
    ASSUME Types, Alone, NEW r \in Reloads, pc[r] = "starting", HasNode(r),
           NEW st \in {"up", "failed"}, Puts(r, st), UNCHANGED <<nodes, vc, box>>,
           limiters' \subseteq limiters \cup {Node(r).tag}
    PROVE  /\ LeftNothing' /\ LimitersFrom(1)'
           /\ DOMAIN slices'[nodes] = DOMAIN slices[nodes]
           /\ Len(slices'[nodes]) = Len(slices[nodes])
           /\ \A j \in DOMAIN slices[nodes] \ {at[r].i} : slices'[nodes][j] = slices[nodes][j]
           /\ slices'[nodes][at[r].i] = Controller(Node(r), vc, st)
  <1>1. PICK s \in Slices : s = nodes BY StartingFinds
  <1>2. PICK k \in DOMAIN slices[s] : k = at[r].i BY <1>1, StartingFinds
  <1>3. PICK n \in NodeConfigs : n = Node(r) BY StartingFinds
  <1>4. PICK b \in Boxes : b = vc BY StartingFinds
  <1>5. at[r].box = b BY <1>4, StartingFinds DEF StartingInv
  <1>6. slices' = [slices EXCEPT ![s][k] = Controller(n, b, st)]
    BY <1>1, <1>2, <1>3, <1>5 DEF Puts
  <1>7. /\ \A q \in Slices \ {s} : slices'[q] = slices[q]
        /\ DOMAIN slices'[s] = DOMAIN slices[s] /\ Len(slices'[s]) = Len(slices[s])
        /\ \A j \in DOMAIN slices[s] \ {k} : slices'[s][j] = slices[s][j]
        /\ slices'[s][k] = Controller(n, b, st)
        /\ Controller(n, b, st) \in Controllers
    <2>1. slices \in [Slices -> Seq(Controllers \cup {None})] BY DEF Types
    <2> QED BY <1>6, <2>1, ControllerPut
  <1>8. LeftNothing'
    <2>1. ASSUME NEW q \in Slices, NEW c \in Running(q)'
          PROVE  q = s /\ c.box = b
      <3>1. CASE q # s
        <4>1. c \in Running(q) BY <1>7, <2>1, <3>1 DEF Running
        <4> QED BY <1>1, <1>4, <4>1 DEF Alone, LeftNothing
      <3>2. CASE q = s
        <4>1. PICK j \in DOMAIN slices'[s] : slices'[s][j] = c
          BY <2>1, <3>2 DEF Running, Members
        <4>2. CASE j = k BY <1>7, <3>2, <4>1, <4>2 DEF Controller
        <4>3. CASE j # k
          <5>1. c \in Running(s) BY <1>7, <2>1, <3>2, <4>1, <4>3 DEF Running, Members
          <5> QED BY <1>1, <1>4, <3>2, <5>1 DEF Alone, LeftNothing
        <4> QED BY <4>2, <4>3
      <3> QED BY <3>1, <3>2
    <2>2. box[b].state = "up" BY <1>4, StartingFinds
    <2> QED BY <1>1, <1>4, <2>1, <2>2 DEF LeftNothing, Alone
  <1>9. LimitersFrom(1)'
    <2> SUFFICES ASSUME NEW t \in limiters'
                 PROVE  /\ s # None
                        /\ \E j \in DOMAIN slices'[s] :
                             j >= 1 /\ slices'[s][j] # None /\ slices'[s][j].tag = t
      BY <1>1 DEF LimitersFrom
    <2>1. CASE t = n.tag
      <3>1. k >= 1 BY <1>2, StartingFinds
      <3> QED BY <1>7, <2>1, <3>1, ReloadAssumption DEF Controller
    <2>2. CASE t \in limiters
      <3>1. PICK j \in DOMAIN slices[s] : j >= 1 /\ slices[s][j] # None /\ slices[s][j].tag = t
        BY <1>1, <2>2 DEF Alone, LimitersFrom
      <3>2. j # k BY <1>1, <1>2, <3>1, StartingFinds
      <3> QED BY <1>7, <3>1, <3>2, ReloadAssumption
    <2> QED BY <1>3, <2>1, <2>2
  <1> QED BY <1>1, <1>2, <1>3, <1>4, <1>7, <1>8, <1>9

\* Node.Start: a node gets its limiter and its controller, on the core that is up.
LEMMA StartsNodeKeepsAlone ==
    ASSUME Types, Types', Alone, NEW r \in Reloads, StartsNode(r)
    PROVE  Alone'
  <1> USE DEF Alone
  <1>1. /\ pc[r] = "starting" /\ HasNode(r) /\ UNCHANGED <<conf, nodes, vc, box, pc, went>>
        /\ limiters' = limiters \cup {Node(r).tag} /\ Puts(r, "up")
        /\ at' = [at EXCEPT ![r].i = @ + 1]
    BY DEF StartsNode
  <1>2. /\ LeftNothing' /\ LimitersFrom(1)'
        /\ DOMAIN slices'[nodes] = DOMAIN slices[nodes] /\ Len(slices'[nodes]) = Len(slices[nodes])
        /\ \A j \in DOMAIN slices[nodes] \ {at[r].i} : slices'[nodes][j] = slices[nodes][j]
        /\ slices'[nodes][at[r].i] = Controller(Node(r), vc, "up")
    BY <1>1, PutKeeps
  <1>3. Whole'
    <2>1. vc' # None BY <1>1, StartingFinds, ReloadAssumption
    <2>2. pc'[r] = "starting" BY <1>1
    <2> QED BY <2>1, <2>2 DEF Whole
  <1>4. StartingInv(r)'
    <2>1. PICK k \in DOMAIN conf.nodes : k = at[r].i BY <1>1, StartingFinds
    <2>2. at'[r].i = k + 1 /\ at'[r].box = vc /\ at'[r].nodes = conf.nodes
      BY <1>1, <2>1, StartingFinds DEF Types, Positions, StartingInv
    <2>3. k \in Nat /\ k <= Len(conf.nodes) /\ \A j \in DOMAIN conf.nodes : j \in Nat
      BY SlicesTypes
    <2>4. ASSUME NEW j \in DOMAIN conf.nodes, j < k + 1
          PROVE  \E state \in {"up", "hung"} :
                    slices'[nodes][j] = Controller(conf.nodes[j], vc, state)
      <3>1. CASE j = k BY <1>1, <1>2, <2>1, <3>1, StartingFinds
      <3>2. CASE j # k
        <4>1. j < k BY <2>3, <2>4, <3>2
        <4>2. Serving(conf.nodes, j) BY <1>1, <2>1, <4>1, StartingFinds DEF StartingInv
        <4> QED BY <1>1, <1>2, <2>1, <3>2, <4>2, StartingFinds DEF Serving
      <3> QED BY <3>1, <3>2
    <2>5. ASSUME NEW j \in DOMAIN conf.nodes, ~(j < k + 1)
          PROVE  slices'[nodes][j] = None
      <3>1. j # k /\ ~(j < k) BY <2>3, <2>5
      <3>2. slices[nodes][j] = None BY <1>1, <2>1, <3>1, StartingFinds DEF StartingInv
      <3> QED BY <1>1, <1>2, <2>1, <3>1, <3>2, StartingFinds
    <2>6. limiters' = {conf.nodes[j].tag : j \in {q \in DOMAIN conf.nodes : q < k + 1}}
      <3>1. limiters = {conf.nodes[j].tag : j \in {q \in DOMAIN conf.nodes : q < k}}
        BY <1>1, <2>1, StartingFinds DEF StartingInv
      <3>2. {q \in DOMAIN conf.nodes : q < k + 1} = {q \in DOMAIN conf.nodes : q < k} \cup {k}
        BY <2>3
      <3>3. Node(r) = conf.nodes[k] BY <1>1, <2>1, StartingFinds
      <3> QED BY <1>1, <3>1, <3>2, <3>3
    <2>7. nodes # None /\ Len(slices'[nodes]) = Len(conf.nodes) /\ k + 1 <= Len(conf.nodes) + 1
      BY <1>1, <1>2, <2>3, StartingFinds, SlicesTypes DEF StartingInv
    <2> QED BY <1>1, <2>2, <2>4, <2>5, <2>6, <2>7 DEF StartingInv, Serving
  <1>5. Progress(r)'
    BY <1>1, <1>4 DEF Progress, Reading, Emptied, CoreInv
  <1> QED BY <1>1, <1>2, <1>3, <1>5, StaysSolo, NotServed

\* Node.Start fails, and says so.
LEMMA NodeFailsKeepsAlone ==
    ASSUME Types, Types', Alone, NEW r \in Reloads, NodeFails(r)
    PROVE  Alone'
  <1> USE DEF Alone
  <1>1. /\ pc[r] = "starting" /\ HasNode(r) /\ UNCHANGED <<conf, nodes, vc, box>>
        /\ pc' = [pc EXCEPT ![r] = "idle"]
    BY DEF NodeFails, Ends, Goto
  <1>2. Excused'
    BY <1>1, StartingFinds DEF NodeFails, Excused
  <1>3. LeftNothing' /\ LimitersFrom(1)'
    <2>1. CASE UNCHANGED <<slices, limiters>> BY <1>1, <2>1, SameRunning, SameLimiters
    <2>2. CASE Puts(r, "failed") /\ limiters' \subseteq limiters \cup {Node(r).tag}
      BY <1>1, <2>2, PutKeeps
    <2> QED BY <2>1, <2>2 DEF NodeFails
  <1>4. Whole' BY <1>2 DEF Whole
  <1>5. Served' BY <1>2 DEF Served, Excused
  <1>6. pc'[r] = "idle" /\ \A q \in Reloads \ {r} : pc'[q] = pc[q] BY <1>1 DEF Types
  <1>7. Progress(r)' BY <1>6 DEF Progress, Reading, Emptied, CoreInv
  <1> QED BY <1>1, <1>3, <1>4, <1>5, <1>6, <1>7, StaysSolo

\* Node.Start comes to its end: every node is served.
LEMMA CompletesKeepsAlone ==
    ASSUME Types, Types', Alone, NEW r \in Reloads, Completes(r)
    PROVE  Alone'
  <1> USE DEF Alone
  <1>1. /\ pc[r] = "starting" /\ ~HasNode(r)
        /\ UNCHANGED <<conf, nodes, slices, vc, box, limiters>>
        /\ pc' = [pc EXCEPT ![r] = "idle"]
    BY DEF Completes, Ends, Goto, shared
  <1>2. \A j \in DOMAIN conf.nodes : j < at[r].i
    <2>1. ~(at[r].i <= Len(conf.nodes)) /\ at[r].i \in Nat
      BY <1>1, StartingFinds DEF HasNode, StartingInv
    <2> QED BY <2>1, SlicesTypes
  <1>3. \A j \in DOMAIN conf.nodes : Serving(conf.nodes, j)
    BY <1>1, <1>2, StartingFinds DEF StartingInv
  <1>4. limiters = Tags(conf)
    <2>1. limiters = {conf.nodes[j].tag : j \in DOMAIN conf.nodes}
      BY <1>1, <1>2, StartingFinds DEF StartingInv
    <2> QED BY <2>1 DEF Tags, Members
  <1>5. Served'
    <2>1. /\ vc # None /\ box[vc] = [state |-> "up", cores |-> conf.cores]
          /\ nodes # None /\ Len(slices[nodes]) = Len(conf.nodes)
      BY <1>1, StartingFinds, ReloadAssumption DEF StartingInv
    <2>2. \A j \in DOMAIN conf.nodes : Serving(conf.nodes, j)' BY <1>1, <1>3 DEF Serving
    <2> QED BY <1>1, <1>4, <2>1, <2>2 DEF Served, Tags
  <1>6. \A j \in DOMAIN slices[nodes] : slices[nodes][j] # None
    <2> SUFFICES ASSUME NEW j \in DOMAIN slices[nodes] PROVE slices[nodes][j] # None OBVIOUS
    <2>1. j \in DOMAIN conf.nodes BY <1>1, StartingFinds
    <2>2. conf.nodes[j] \in NodeConfigs BY <2>1, SlicesTypes
    <2>3. PICK st \in {"up", "hung"} : slices[nodes][j] = Controller(conf.nodes[j], vc, st)
      BY <1>3, <2>1 DEF Serving
    <2>4. slices[nodes][j] \in Controllers
      BY <1>1, <2>2, <2>3, StartingFinds DEF Controller, Controllers, NodeConfigs
    <2> QED BY <2>4, ReloadAssumption
  <1>7. Whole' BY <1>1, <1>6, StartingFinds, ReloadAssumption DEF Whole
  <1>8. pc'[r] = "idle" /\ \A q \in Reloads \ {r} : pc'[q] = pc[q] BY <1>1 DEF Types
  <1>9. Progress(r)' BY <1>8 DEF Progress, Reading, Emptied, CoreInv
  <1> QED BY <1>1, <1>5, <1>7, <1>8, <1>9, StaysSolo, SameRunning, SameLimiters

\* The steps of the files, the watcher and time.
LEMMA WatcherKeepsAlone ==
    ASSUME Types, Alone, "overlap" \notin went',
           \/ \E c \in Contents : Edit(c)
           \/ FiveSeconds \/ Drops \/ \E r \in Reloads : Takes(r)
           \/ UNCHANGED vars
    PROVE  Alone'
  <1> USE DEF Alone
  <1>1. UNCHANGED <<conf, nodes, slices, vc, box, limiters, at>> /\ went \subseteq went'
    BY DEF Edit, FiveSeconds, Drops, Takes, vars, shared, locals
  <1>2. Excused' <=> Excused
    BY DEF Edit, FiveSeconds, Drops, Takes, vars, Excused
  <1>3. LeftNothing' /\ LimitersFrom(1)' BY <1>1, SameRunning, SameLimiters
  <1>4. ASSUME pc' = pc PROVE Alone'
    <2>1. Solo' BY <1>4 DEF Solo
    <2>2. Whole' BY <1>1, <1>2, <1>4 DEF Whole
    <2>3. Served' BY <1>1, <1>4 DEF Served, Serving
    <2>4. \A r \in Reloads : Progress(r)'
      BY <1>1, <1>4
      DEF Progress, Reading, Emptied, CoreInv, ClosingInv, StartingInv, LimitersFrom,
          Stopped, Serving
    <2> QED BY <1>3, <2>1, <2>2, <2>3, <2>4
  <1>5. CASE \E c \in Contents : Edit(c) BY <1>4, <1>5 DEF Edit, locals
  <1>6. CASE Drops BY <1>4, <1>6 DEF Drops, locals
  <1>7. CASE UNCHANGED vars BY <1>4, <1>7 DEF vars, locals
  <1>8. CASE FiveSeconds
    <2>1. \A r \in Reloads :
            \/ pc'[r] = pc[r]
            \/ pc[r] = "sleep" /\ pc'[r] = "awake"
      BY <1>8 DEF FiveSeconds
    <2>2. Solo' BY <2>1 DEF Solo
    <2>3. Whole' BY <1>1, <1>2, <2>1 DEF Whole
    <2>4. Served' BY <1>1, <1>8, <2>1 DEF Served, Serving, FiveSeconds
    <2>5. ASSUME NEW r \in Reloads PROVE Progress(r)'
      <3>1. CASE pc'[r] = "awake" BY <3>1 DEF Progress, Reading, Emptied, CoreInv
      <3>2. CASE pc'[r] = pc[r]
        BY <1>1, <3>2
        DEF Progress, Reading, Emptied, CoreInv, ClosingInv, StartingInv, LimitersFrom,
            Stopped, Serving
      <3> QED BY <2>1, <3>1, <3>2
    <2> QED BY <1>3, <2>2, <2>3, <2>4, <2>5
  <1>9. ASSUME NEW r \in Reloads, Takes(r) PROVE Alone'
    <2>1. pc[r] = "idle" /\ pc'[r] = "sleep" /\ \A q \in Reloads \ {r} : pc'[q] = pc[q]
      BY <1>9 DEF Takes, Goto, Types
    <2>2. \A q \in Reloads \ {r} : pc[q] = "idle" BY <1>9 DEF Takes
    <2>3. Solo' BY <2>1, <2>2 DEF Solo
    <2>4. Whole' BY <1>1, <1>2, <2>1, <2>2 DEF Whole
    <2>5. Served' BY <2>1, NotServed
    <2>6. \A q \in Reloads : Progress(q)'
      BY <2>1, <2>2 DEF Progress, Reading, Emptied, CoreInv
    <2> QED BY <1>3, <2>3, <2>4, <2>5, <2>6
  <1> QED BY <1>5, <1>6, <1>7, <1>8, <1>9

\* A monitor that hangs is still one that runs.
LEMMA HangsKeepsAlone ==
    ASSUME Types, Types', Alone, NEW s \in Slices, NEW i \in DOMAIN slices[s], Hangs(s, i)
    PROVE  Alone'
  <1> USE DEF Alone
  <1>1. /\ slices[s][i] # None /\ slices[s][i].state = "up"
        /\ slices' = [slices EXCEPT ![s][i].state = "hung"]
        /\ UNCHANGED <<conf, nodes, vc, box, limiters, pc, at, went>>
    BY DEF Hangs, locals
  <1>2. /\ \A q \in Slices \ {s} : slices'[q] = slices[q]
        /\ DOMAIN slices'[s] = DOMAIN slices[s] /\ Len(slices'[s]) = Len(slices[s])
        /\ \A j \in DOMAIN slices[s] \ {i} : slices'[s][j] = slices[s][j]
        /\ slices'[s][i] = [slices[s][i] EXCEPT !.state = "hung"]
        /\ slices'[s][i] \in Controllers
    BY <1>1, StateChanges DEF Types
  <1>3. slices[s][i] \in Controllers BY <1>1, SlicesTypes
  <1>4. slices[s][i] \in Running(s) BY <1>1 DEF Running, Members
  <1>5. s = nodes /\ slices[s][i].box = vc /\ box[vc].state = "up" BY <1>4 DEF LeftNothing
  <1>6. /\ slices'[s][i].state = "hung" /\ slices'[s][i].box = vc
        /\ slices'[s][i].tag = slices[s][i].tag /\ slices'[s][i] # None
    BY <1>2, <1>3, <1>5, ReloadAssumption DEF Controllers
  <1>7. LeftNothing'
    <2>1. ASSUME NEW q \in Slices, NEW c \in Running(q)'
          PROVE  q = nodes /\ c.box = vc /\ box[vc].state = "up"
      <3>1. CASE q # s
        <4>1. c \in Running(q) BY <1>2, <2>1, <3>1 DEF Running
        <4> QED BY <4>1 DEF LeftNothing
      <3>2. CASE q = s
        <4>1. PICK j \in DOMAIN slices'[s] : slices'[s][j] = c
          BY <2>1, <3>2 DEF Running, Members
        <4>2. CASE j = i BY <1>5, <1>6, <3>2, <4>1, <4>2
        <4>3. CASE j # i
          <5>1. c \in Running(s) BY <1>2, <2>1, <3>2, <4>1, <4>3 DEF Running, Members
          <5> QED BY <3>2, <5>1 DEF LeftNothing
        <4> QED BY <4>2, <4>3
      <3> QED BY <3>1, <3>2
    <2> QED BY <1>1, <2>1 DEF LeftNothing
  <1>8. ASSUME NEW k, LimitersFrom(k) PROVE LimitersFrom(k)'
    <2> SUFFICES ASSUME NEW t \in limiters
                 PROVE  /\ nodes # None
                        /\ \E j \in DOMAIN slices'[nodes] :
                             j >= k /\ slices'[nodes][j] # None /\ slices'[nodes][j].tag = t
      BY <1>1 DEF LimitersFrom
    <2>1. PICK j \in DOMAIN slices[nodes] :
               nodes # None /\ j >= k /\ slices[nodes][j] # None /\ slices[nodes][j].tag = t
      BY <1>8 DEF LimitersFrom
    <2>2. CASE j = i BY <1>2, <1>5, <1>6, <2>1, <2>2
    <2>3. CASE j # i BY <1>2, <1>5, <2>1, <2>3
    <2> QED BY <2>2, <2>3
  <1>9. ASSUME NEW j \in DOMAIN slices[s], Serving(conf.nodes, j) PROVE Serving(conf.nodes, j)'
    <2>1. CASE j # i BY <1>1, <1>2, <1>5, <1>9, <2>1 DEF Serving
    <2>2. CASE j = i
      <3>1. PICK st \in {"up", "hung"} : slices[s][i] = Controller(conf.nodes[i], vc, st)
        BY <1>5, <1>9, <2>2 DEF Serving
      <3>2. slices'[s][i] = Controller(conf.nodes[i], vc, "hung")
        BY <1>2, <3>1 DEF Controller
      <3> QED BY <1>1, <1>5, <2>2, <3>2 DEF Serving
    <2> QED BY <2>1, <2>2
  <1>10. \A j \in DOMAIN slices[s] :
            /\ (slices'[s][j] = None) <=> (slices[s][j] = None)
            /\ Stopped(slices[s][j]) => Stopped(slices'[s][j])
    <2> SUFFICES ASSUME NEW j \in DOMAIN slices[s]
                 PROVE  /\ (slices'[s][j] = None) <=> (slices[s][j] = None)
                        /\ Stopped(slices[s][j]) => Stopped(slices'[s][j])
      OBVIOUS
    <2>1. CASE j # i BY <1>2, <2>1
    <2>2. CASE j = i BY <1>1, <1>6, <2>2 DEF Stopped
    <2> QED BY <2>1, <2>2
  <1>11. Solo' BY <1>1 DEF Solo
  <1>12. Whole' BY <1>1, <1>2, <1>5, <1>10 DEF Whole, Excused
  <1>13. ASSUME Len(slices[s]) = Len(conf.nodes) PROVE DOMAIN slices[s] = DOMAIN conf.nodes
    BY <1>13, SlicesTypes
  <1>14. Served'
    BY <1>1, <1>2, <1>5, <1>9, <1>13 DEF Served
  <1>15. ASSUME NEW r \in Reloads PROVE Progress(r)'
    <2>1. pc[r] = "closing" => ClosingInv(r)'
      <3> SUFFICES ASSUME ClosingInv(r) PROVE ClosingInv(r)' BY DEF Progress
      <3>1. LimitersFrom(at[r].i)'
        <4> DEFINE k == at[r].i
        <4>1. LimitersFrom(k) BY DEF ClosingInv
        <4>2. PICK m : m = at[r].i OBVIOUS
        <4>3. LimitersFrom(m)' BY <1>8, <4>1, <4>2
        <4> QED BY <1>1, <4>2, <4>3 DEF LimitersFrom
      <3> QED BY <1>1, <1>2, <1>5, <1>10, <3>1 DEF ClosingInv
    <2>2. pc[r] = "starting" => StartingInv(r)'
      <3> SUFFICES ASSUME StartingInv(r) PROVE StartingInv(r)' BY DEF Progress
      <3>1. DOMAIN slices[s] = DOMAIN conf.nodes BY <1>5, <1>13 DEF StartingInv
      <3>2. \A j \in DOMAIN conf.nodes :
              IF j < at[r].i THEN Serving(conf.nodes, j)' ELSE slices'[nodes][j] = None
        BY <1>5, <1>9, <1>10, <3>1 DEF StartingInv
      <3> QED BY <1>1, <1>2, <1>5, <3>1, <3>2 DEF StartingInv
    <2> QED BY <1>1, <2>1, <2>2 DEF Progress, Reading, Emptied, CoreInv
  <1> QED BY <1>7, <1>8, <1>11, <1>12, <1>14, <1>15

-----------------------------------------------------------------------------
\* What a reload that is alone may panic of: a failure, or no configuration.
LEMMA PanicsExcused ==
    ASSUME Types, Alone, NEW r \in Reloads,
           \/ ClosesNil(r) \/ ClosesNoCore(r) \/ IndexesNoCore(r) \/ GetCorePanics(r)
           \/ StartsNoCore(r) \/ StartPanics(r)
    PROVE  Excused'
  <1> USE DEF Alone
  <1>1. CASE ClosesNil(r)
    <2>1. pc[r] = "closing" /\ ClosingInv(r) /\ went' = went BY <1>1 DEF ClosesNil, Progress
    <2>2. nodes \in Slices /\ nodes # None /\ at[r].i \in DOMAIN slices[nodes]
      BY <1>1, <2>1, SlicesTypes DEF ClosesNil, HasController, ClosingInv, Types, Positions
    <2>3. slices[nodes][at[r].i] = None BY <1>1, <2>1 DEF ClosesNil, Here, ClosingInv
    <2>4. \A q \in Reloads : pc[q] # "starting" BY <2>1, OthersIdle
    <2> QED BY <2>1, <2>2, <2>3, <2>4 DEF Whole, Excused
  <1>2. CASE ClosesNoCore(r) BY <1>2 DEF ClosesNoCore, Whole, Excused
  <1>3. CASE IndexesNoCore(r) BY <1>3 DEF IndexesNoCore, Progress, Reading, Excused
  <1>4. CASE GetCorePanics(r) BY <1>4 DEF GetCorePanics, Excused
  <1>5. CASE StartsNoCore(r) BY <1>5 DEF StartsNoCore, Progress, CoreInv
  <1>6. CASE StartPanics(r) BY <1>6, StartingFinds DEF StartPanics
  <1> QED BY <1>1, <1>2, <1>3, <1>4, <1>5, <1>6

\* Every step keeps what holds while one reload at a time is under way, or ends the
\* process with a cause.
LEMMA NextAlone ==
    ASSUME Types, Types', Alone, up, "overlap" \notin went', [Next]_vars
    PROVE  (up' => Alone') /\ (~up' => Excused')
  <1>1. CASE \/ \E c \in Contents : Edit(c)
             \/ FiveSeconds \/ Drops \/ \E r \in Reloads : Takes(r)
             \/ UNCHANGED vars
    <2>1. up' BY <1>1 DEF Edit, FiveSeconds, Drops, Takes, vars
    <2> QED BY <1>1, <2>1, WatcherKeepsAlone
  <1>2. ASSUME NEW s \in Slices, NEW i \in DOMAIN slices[s], Hangs(s, i)
        PROVE  (up' => Alone') /\ (~up' => Excused')
    <2>1. up' BY <1>2 DEF Hangs
    <2> QED BY <1>2, <2>1, HangsKeepsAlone
  <1>3. ASSUME NEW r \in Reloads, ReloadStep(r)
        PROVE  (up' => Alone') /\ (~up' => Excused')
    <2>1. CASE \/ ClosesNil(r) \/ ClosesNoCore(r) \/ IndexesNoCore(r) \/ GetCorePanics(r)
               \/ StartsNoCore(r) \/ StartPanics(r)
      <3>1. ~up' BY <2>1 DEF ClosesNil, ClosesNoCore, IndexesNoCore, GetCorePanics,
                             StartsNoCore, StartPanics, Panics
      <3> QED BY <2>1, <3>1, PanicsExcused
    <2>2. CASE Resets(r) \/ Loads(r)
      <3>1. up' BY <2>2 DEF Resets, Loads
      <3> QED BY <2>2, <3>1, ReadingKeepsAlone
    <2>3. CASE \/ ClosesNodes(r) \/ ClosesController(r) \/ WaitsForMonitor(r) \/ NodesClosed(r)
      <3>1. up' BY <2>3 DEF ClosesNodes, ClosesController, WaitsForMonitor, NodesClosed
      <3> QED BY <2>3, <3>1, ClosingKeepsAlone
    <2>4. CASE \/ ClosesCore(r) \/ CloseReturnsError(r) \/ MakesCore(r) \/ NewCoreFails(r)
               \/ StartsCore(r) \/ StartFails(r)
      <3>1. up' BY <2>4 DEF ClosesCore, CloseReturnsError, MakesCore, NewCoreFails,
                            StartsCore, StartFails
      <3> QED BY <2>4, <3>1, CoreKeepsAlone
    <2>5. CASE MakesNodes(r) \/ StartsNode(r) \/ NodeFails(r) \/ Completes(r)
      <3>1. up' BY <2>5 DEF MakesNodes, StartsNode, NodeFails, Completes
      <3> QED
        BY <2>5, <3>1, MakesNodesKeepsAlone, StartsNodeKeepsAlone, NodeFailsKeepsAlone,
           CompletesKeepsAlone
    <2> QED BY <1>3, <2>1, <2>2, <2>3, <2>4, <2>5 DEF ReloadStep
  <1> QED BY <1>1, <1>2, <1>3 DEF Next

\* Nothing happens in a process that has ended.
LEMMA DeadIsDead == ASSUME ~up, [Next]_vars PROVE UNCHANGED <<up, went>>
  BY DEF Next, vars, Edit, FiveSeconds, Drops, Takes, Hangs, ReloadStep, Resets, Loads,
         ClosesNodes, ClosesController, WaitsForMonitor, ClosesNil, NodesClosed, ClosesCore,
         CloseReturnsError, ClosesNoCore, IndexesNoCore, MakesCore, NewCoreFails,
         GetCorePanics, StartsCore, StartsNoCore, StartFails, MakesNodes, StartsNode,
         NodeFails, StartPanics, Completes

\* Two reloads that have overlapped are remembered.
LEMMA OverlapStays == ASSUME "overlap" \in went, [Next]_vars PROVE "overlap" \in went'
  BY DEF Next, vars, Edit, FiveSeconds, Drops, Takes, Hangs, ReloadStep, Resets, Loads,
         ClosesNodes, ClosesController, WaitsForMonitor, ClosesNil, NodesClosed, ClosesCore,
         CloseReturnsError, ClosesNoCore, IndexesNoCore, MakesCore, NewCoreFails,
         GetCorePanics, StartsCore, StartsNoCore, StartFails, MakesNodes, StartsNode,
         NodeFails, StartPanics, Completes

\* A step keeps the invariant.
LEMMA NextIInv == IInv /\ [Next]_vars => IInv'
  <1> SUFFICES ASSUME IInv, [Next]_vars PROVE IInv' OBVIOUS
  <1>1. Types' /\ Fresh' BY NextTypes, NextFresh DEF IInv
  <1>2. CASE "overlap" \in went'
    BY <1>1, <1>2 DEF IInv, PanicsHaveCause
  <1>3. CASE "overlap" \notin went' /\ ~up
    BY <1>1, <1>3, DeadIsDead DEF IInv, PanicsHaveCause
  <1>4. CASE "overlap" \notin went' /\ up
    <2>1. Alone BY <1>4, OverlapStays DEF IInv
    <2>2. (up' => Alone') /\ (~up' => Excused') BY <1>1, <1>4, <2>1, NextAlone DEF IInv
    <2> QED BY <1>1, <2>2 DEF IInv, PanicsHaveCause, Excused
  <1> QED BY <1>2, <1>3, <1>4

\* What serverHandle has started satisfies the invariant.
LEMMA InitIInv == Init => IInv
  <1> SUFFICES ASSUME Init PROVE IInv OBVIOUS
  <1>1. Types BY InitTypes
  <1>2. Fresh /\ PanicsHaveCause /\ Solo
    BY ReloadAssumption DEF Init, Fresh, PanicsHaveCause, Solo
  <1>3. nodes \in Slices /\ vc \in Boxes BY AnyOfIn, ReloadAssumption DEF Init
  <1>4. PICK ns \in Seq(NodeConfigs) : ns = First.conf.nodes /\ ns = conf.nodes
    BY ReloadAssumption, ConfOfContent DEF Init
  <1>5. /\ slices[nodes] = [i \in DOMAIN ns |-> Controller(ns[i], vc, "up")]
        /\ \A s \in Slices \ {nodes} : slices[s] = <<>>
    BY <1>3, <1>4 DEF Init
  <1>6. /\ box[vc] = [state |-> "up", cores |-> conf.cores]
        /\ \A b \in Boxes \ {vc} : box[b] = Free
    BY <1>3 DEF Init
  <1>7. DOMAIN ns = 1..Len(ns) /\ Len(ns) \in Nat /\ \A j \in DOMAIN ns : ns[j] \in NodeConfigs
    OBVIOUS
  <1>8. ASSUME NEW j \in DOMAIN ns
        PROVE  /\ slices[nodes][j] = Controller(ns[j], vc, "up")
               /\ slices[nodes][j] \in Controllers
    <2>1. ns[j] \in NodeConfigs BY <1>7
    <2>2. Controller(ns[j], vc, "up") \in Controllers
      BY <1>3, <2>1 DEF Controller, Controllers, NodeConfigs
    <2> QED BY <1>5, <2>2
  <1>9. DOMAIN slices[nodes] = DOMAIN ns /\ Len(slices[nodes]) = Len(ns) BY <1>5, <1>7
  <1>10. limiters = {ns[j].tag : j \in DOMAIN ns} BY <1>4 DEF Init, Members
  <1>11. LimitersFrom(1)
    <2> SUFFICES ASSUME NEW t \in limiters
                 PROVE  /\ nodes # None
                        /\ \E j \in DOMAIN slices[nodes] :
                             j >= 1 /\ slices[nodes][j] # None /\ slices[nodes][j].tag = t
      BY DEF LimitersFrom
    <2>1. PICK j \in DOMAIN ns : ns[j].tag = t BY <1>10
    <2>2. slices[nodes][j].tag = t /\ slices[nodes][j] # None
      <3>1. slices[nodes][j] = Controller(ns[j], vc, "up") /\ slices[nodes][j] \in Controllers
        BY <1>8
      <3>2. Controller(ns[j], vc, "up").tag = ns[j].tag BY DEF Controller
      <3> QED BY <2>1, <3>1, <3>2, ReloadAssumption
    <2> QED BY <1>3, <1>7, <1>9, <2>2, ReloadAssumption
  <1>12. LeftNothing
    <2>1. ASSUME NEW s \in Slices, NEW c \in Running(s)
          PROVE  s = nodes /\ c.box = vc
      <3>1. CASE s # nodes BY <1>5, <3>1, <2>1 DEF Running, Members
      <3>2. CASE s = nodes
        <4>1. PICK j \in DOMAIN ns : slices[nodes][j] = c
          BY <1>9, <2>1, <3>2 DEF Running, Members
        <4>2. c = Controller(ns[j], vc, "up") BY <1>8, <4>1
        <4> QED BY <3>2, <4>2 DEF Controller
      <3> QED BY <3>1, <3>2
    <2> QED BY <1>6, <2>1 DEF LeftNothing, Free
  <1>13. \A j \in DOMAIN slices[nodes] : slices[nodes][j] # None
    BY <1>8, <1>9, ReloadAssumption
  <1>14. Whole BY <1>3, <1>13, ReloadAssumption DEF Whole
  <1>15. Served
    <2>1. limiters = Tags(conf) BY <1>4, <1>10 DEF Tags, Members
    <2>2. \A j \in DOMAIN conf.nodes : Serving(conf.nodes, j) BY <1>4, <1>8 DEF Serving
    <2> QED BY <1>3, <1>4, <1>6, <1>9, <2>1, <2>2, ReloadAssumption DEF Served
  <1>16. \A r \in Reloads : Progress(r)
    BY DEF Init, Progress, Reading, Emptied, CoreInv
  <1> QED BY <1>1, <1>2, <1>11, <1>12, <1>14, <1>15, <1>16 DEF IInv, Alone

\* No state of a run escapes the invariant.
LEMMA SpecIInv == Spec => []IInv
  BY InitIInv, NextIInv, PTL DEF Spec

-----------------------------------------------------------------------------
\* The variables keep their types, however many reloads overlap.
THEOREM TypeCorrect == Spec => []Types
  <1>1. IInv => Types BY DEF IInv
  <1> QED BY <1>1, SpecIInv, PTL

\* However the files are edited and whatever fails, the process does not end by a
\* panic unless something failed, what was loaded is no configuration, or two
\* reloads overlapped.
THEOREM NoPanicWithoutCause == Spec => []PanicsHaveCause
  <1>1. IInv => PanicsHaveCause BY DEF IInv
  <1> QED BY <1>1, SpecIInv, PTL

\* After any number of reloads, one at a time, what runs is what Node.controllers
\* and vc say.
THEOREM LeavesNothingBehind == Spec => []NothingLeftBehind
  <1>1. IInv => NothingLeftBehind
    BY DEF IInv, Alone, LeftNothing, NothingLeftBehind
  <1> QED BY <1>1, SpecIInv, PTL

\* After any number of reloads, one at a time and none of them failed, the file on
\* disk is what is served.
THEOREM ServesDisk == Spec => []QuietServesDisk
  <1>1. IInv => QuietServesDisk
    <2> SUFFICES ASSUME IInv, up, Quiet, went = {}
                 PROVE  /\ disk.ok /\ conf = disk.conf
                        /\ vc # None /\ box[vc] = [state |-> "up", cores |-> disk.conf.cores]
                        /\ nodes # None /\ Len(slices[nodes]) = Len(disk.conf.nodes)
                        /\ \A i \in DOMAIN slices[nodes] :
                             \E state \in {"up", "hung"} :
                                slices[nodes][i] = Controller(disk.conf.nodes[i], vc, state)
                        /\ limiters = Tags(disk.conf)
      BY DEF QuietServesDisk
    <2>1. disk.ok /\ conf = disk.conf
      BY DEF IInv, Fresh, Quiet, Reads
    <2>2. Alone /\ Types BY DEF IInv
    <2>3. /\ vc # None /\ box[vc] = [state |-> "up", cores |-> conf.cores]
          /\ nodes # None /\ Len(slices[nodes]) = Len(conf.nodes)
          /\ \A j \in DOMAIN conf.nodes : Serving(conf.nodes, j)
          /\ limiters = Tags(conf)
      BY <2>2 DEF Alone, Served, Quiet
    <2>4. DOMAIN slices[nodes] = DOMAIN conf.nodes
      BY <2>2, <2>3, SlicesTypes DEF Types
    <2> QED BY <2>1, <2>3, <2>4 DEF Serving
  <1> QED BY <1>1, SpecIInv, PTL

-----------------------------------------------------------------------------
(* The tasks of a controller *)

\* What a step of the controller is to the monitor's Task.
LEMMA StepOfMonitor == [TasksNext]_tasksVars => [M!Next]_(M!vars)
  <1> SUFFICES ASSUME [TasksNext]_tasksVars PROVE [M!Next]_(M!vars) OBVIOUS
  <1> USE DEF control, mvars
  <1>1. ASSUME UNCHANGED mvars PROVE [M!Next]_(M!vars) BY <1>1 DEF M!vars
  <1>2. ASSUME NEW c \in {Main, Body}, M!CallStart(c, FALSE) \/ M!CallClose(c) \/ M!CallerStep(c)
        PROVE  M!Next
    BY <1>2 DEF M!Next
  <1>3. ASSUME NEW t \in MTimers, M!TimerFires(t) \/ M!LockedStep(t) PROVE M!Next
    BY <1>3 DEF M!Next
  <1>4. ASSUME NEW g \in M!Goroutines, M!ExecuteReturns(g) PROVE M!Next
    BY <1>4 DEF M!Next, M!BodyStep
  <1>5. CASE MainStarts \/ MainCloses
    BY <1>1, <1>2, <1>5
    DEF MainStarts, MainCloses, MainStartsMonitor, MainStartsReport, MainClosesMonitor,
        MainClosesReport, MainCalls
  <1>6. CASE BodyStep
    <2>1. CASE BodyChangesNothing \/ BodyTakesNode \/ BodyChecksPush
      BY <1>1, <2>1 DEF BodyChangesNothing, BodyTakesNode, BodyChecksPush
    <2>2. CASE BodyChecksPull BY <1>1, <1>2, <2>2 DEF BodyChecksPull
    <2>3. CASE BodyRestarts BY <1>1, <1>2, <2>3 DEF BodyRestarts
    <2>4. CASE BodyReturns BY <1>4, <2>4 DEF BodyReturns
    <2> QED BY <1>6, <2>1, <2>2, <2>3, <2>4 DEF BodyStep
  <1>7. ASSUME NEW c \in {Main, Body}, MCall(c) \/ RCall(c) PROVE [M!Next]_(M!vars)
    BY <1>1, <1>2, <1>7 DEF MCall, RCall
  <1>8. CASE MCallback \/ MFires BY <1>3, <1>8 DEF MCallback, MFires
  <1>9. CASE RCallback \/ RFires BY <1>1, <1>9 DEF RCallback, RFires
  <1>10. CASE Ended \/ UNCHANGED tasksVars BY <1>1, <1>10 DEF Ended, tasksVars
  <1> QED BY <1>5, <1>6, <1>7, <1>8, <1>9, <1>10 DEF TasksNext

\* And to the report's.
LEMMA StepOfReport == [TasksNext]_tasksVars => [R!Next]_(R!vars)
  <1> SUFFICES ASSUME [TasksNext]_tasksVars PROVE [R!Next]_(R!vars) OBVIOUS
  <1> USE DEF control, rvars
  <1>1. ASSUME UNCHANGED rvars PROVE [R!Next]_(R!vars) BY <1>1 DEF R!vars
  <1>2. ASSUME NEW c \in {Main, Body}, R!CallStart(c, FALSE) \/ R!CallClose(c) \/ R!CallerStep(c)
        PROVE  R!Next
    BY <1>2 DEF R!Next
  <1>3. ASSUME NEW t \in RTimers, R!TimerFires(t) \/ R!LockedStep(t) \/ R!BodyStep(t)
        PROVE  R!Next
    BY <1>3 DEF R!Next, R!Goroutines
  <1>4. CASE MainStarts \/ MainCloses
    BY <1>1, <1>2, <1>4
    DEF MainStarts, MainCloses, MainStartsMonitor, MainStartsReport, MainClosesMonitor,
        MainClosesReport, MainCalls
  <1>5. CASE BodyStep
    <2>1. CASE BodyChangesNothing \/ BodyTakesNode \/ BodyChecksPull \/ BodyReturns
      BY <1>1, <2>1 DEF BodyChangesNothing, BodyTakesNode, BodyChecksPull, BodyReturns
    <2>2. CASE BodyChecksPush BY <1>1, <1>2, <2>2 DEF BodyChecksPush
    <2>3. CASE BodyRestarts BY <1>1, <1>2, <2>3 DEF BodyRestarts
    <2> QED BY <1>5, <2>1, <2>2, <2>3 DEF BodyStep
  <1>6. ASSUME NEW c \in {Main, Body}, MCall(c) \/ RCall(c) PROVE [R!Next]_(R!vars)
    BY <1>1, <1>2, <1>6 DEF MCall, RCall
  <1>7. CASE MCallback \/ MFires BY <1>1, <1>7 DEF MCallback, MFires
  <1>8. CASE RCallback \/ RFires BY <1>3, <1>8 DEF RCallback, RFires
  <1>9. CASE Ended \/ UNCHANGED tasksVars BY <1>1, <1>9 DEF Ended, tasksVars
  <1> QED BY <1>4, <1>5, <1>6, <1>7, <1>8, <1>9 DEF TasksNext

\* A step of the monitor's Task keeps its types.
LEMMA MonitorTypes == M!TypeOK /\ [M!Next]_(M!vars) => M!TypeOK'
  <1> SUFFICES ASSUME M!TypeOK, [M!Next]_(M!vars) PROVE M!TypeOK' OBVIOUS
  <1> USE ControllerTasksAssumption
      DEF M!TypeOK, M!Goroutines, M!CallerPC, M!TimerPC, M!Goto, M!Done
  <1>1. ASSUME NEW g \in M!Goroutines, M!ArmAndReturn(g), mOwner' \in {Nobody, mOwner},
               UNCHANGED <<mRunning, mFirst, mStarts>>
        PROVE  M!TypeOK'
    BY <1>1 DEF M!ArmAndReturn
  <1>2. ASSUME NEW g \in M!Goroutines, M!LockedStep(g) PROVE M!TypeOK'
    <2>1. CASE M!HasClosed(g) BY <2>1 DEF M!HasClosed
    <2>2. CASE M!ExecuteBegin(g) BY <2>2 DEF M!ExecuteBegin
    <2>3. CASE M!SkipFirst(g) BY <1>1, <2>3 DEF M!SkipFirst
    <2> QED BY <1>2, <2>1, <2>2, <2>3 DEF M!LockedStep
  <1>3. ASSUME NEW c \in {Main, Body}, M!CallClose(c) \/ M!CallerStep(c) PROVE M!TypeOK'
    <2>1. CASE M!CallClose(c) BY <2>1 DEF M!CallClose
    <2>2. CASE M!StartLocked(c) BY <2>2 DEF M!StartLocked
    <2>3. CASE M!StartFailed(c) BY <2>3 DEF M!StartFailed
    <2>4. CASE M!CloseLocked(c) BY <2>4 DEF M!CloseLocked
    <2> QED BY <1>2, <1>3, <2>1, <2>2, <2>3, <2>4 DEF M!CallerStep
  <1>4. ASSUME NEW c \in {Main, Body}, M!CallStart(c, FALSE) PROVE M!TypeOK'
    BY <1>4 DEF M!CallStart
  <1>5. ASSUME NEW t \in MTimers, M!TimerFires(t) PROVE M!TypeOK'
    BY <1>5 DEF M!TimerFires
  <1>6. ASSUME NEW g \in M!Goroutines, M!BodyStep(g) PROVE M!TypeOK'
    BY <1>1, <1>6 DEF M!BodyStep, M!ExecuteReturns, M!ExecuteFails
  <1>7. CASE UNCHANGED M!vars BY <1>7 DEF M!vars
  <1> QED BY <1>2, <1>3, <1>4, <1>5, <1>6, <1>7 DEF M!Next

\* So does a step of the report's.
LEMMA ReportTypes == R!TypeOK /\ [R!Next]_(R!vars) => R!TypeOK'
  <1> SUFFICES ASSUME R!TypeOK, [R!Next]_(R!vars) PROVE R!TypeOK' OBVIOUS
  <1> USE ControllerTasksAssumption
      DEF R!TypeOK, R!Goroutines, R!CallerPC, R!TimerPC, R!Goto, R!Done
  <1>1. ASSUME NEW g \in R!Goroutines, R!ArmAndReturn(g), rOwner' \in {Nobody, rOwner},
               UNCHANGED <<rRunning, rFirst, rStarts>>
        PROVE  R!TypeOK'
    BY <1>1 DEF R!ArmAndReturn
  <1>2. ASSUME NEW g \in R!Goroutines, R!LockedStep(g) PROVE R!TypeOK'
    <2>1. CASE R!HasClosed(g) BY <2>1 DEF R!HasClosed
    <2>2. CASE R!ExecuteBegin(g) BY <2>2 DEF R!ExecuteBegin
    <2>3. CASE R!SkipFirst(g) BY <1>1, <2>3 DEF R!SkipFirst
    <2> QED BY <1>2, <2>1, <2>2, <2>3 DEF R!LockedStep
  <1>3. ASSUME NEW c \in {Main, Body}, R!CallClose(c) \/ R!CallerStep(c) PROVE R!TypeOK'
    <2>1. CASE R!CallClose(c) BY <2>1 DEF R!CallClose
    <2>2. CASE R!StartLocked(c) BY <2>2 DEF R!StartLocked
    <2>3. CASE R!StartFailed(c) BY <2>3 DEF R!StartFailed
    <2>4. CASE R!CloseLocked(c) BY <2>4 DEF R!CloseLocked
    <2> QED BY <1>2, <1>3, <2>1, <2>2, <2>3, <2>4 DEF R!CallerStep
  <1>4. ASSUME NEW c \in {Main, Body}, R!CallStart(c, FALSE) PROVE R!TypeOK'
    BY <1>4 DEF R!CallStart
  <1>5. ASSUME NEW t \in RTimers, R!TimerFires(t) PROVE R!TypeOK'
    BY <1>5 DEF R!TimerFires
  <1>6. ASSUME NEW g \in R!Goroutines, R!BodyStep(g) PROVE R!TypeOK'
    BY <1>1, <1>6 DEF R!BodyStep, R!ExecuteReturns, R!ExecuteFails
  <1>7. CASE UNCHANGED R!vars BY <1>7 DEF R!vars
  <1> QED BY <1>2, <1>3, <1>4, <1>5, <1>6, <1>7 DEF R!Next

\* What the controller does between two calls of its tasks: nothing else starts or
\* ends Execute of the monitor, and a call of Body begins inside it.
LEMMA CallsKept ==
    ASSUME TasksTypeOK, [TasksNext]_tasksVars
    PROVE  (bodyAt # "fetch" \/ ~Ready(Body) => MonitorRuns)'
  <1> USE ControllerTasksAssumption
  <1>0. /\ mPc \in [M!Goroutines -> M!CallerPC \cup M!TimerPC]
        /\ rPc \in [R!Goroutines -> R!CallerPC \cup R!TimerPC]
        /\ bodyAt # "fetch" \/ ~Ready(Body) => MonitorRuns
        /\ \A c \in {Main, Body} : c \in M!Goroutines /\ c \in R!Goroutines
    BY DEF TasksTypeOK, M!TypeOK, R!TypeOK, M!Goroutines, R!Goroutines
  <1>1. ASSUME UNCHANGED mPc, MonitorRuns PROVE MonitorRuns'
    BY <1>1 DEF MonitorRuns, M!Executing
  <1>2. ASSUME MonitorRuns, NEW c \in {Main, Body},
               M!CallStart(c, FALSE) \/ M!CallClose(c) \/ M!CallerStep(c)
        PROVE  MonitorRuns'
    <2>1. PICK g \in M!Goroutines : mPc[g] = "execute" BY <1>2 DEF MonitorRuns, M!Executing
    <2>2. mPc'[g] = "execute"
      BY <1>0, <1>2, <2>1
      DEF M!CallStart, M!CallClose, M!CallerStep, M!StartLocked, M!StartFailed, M!CloseLocked,
          M!LockedStep, M!HasClosed, M!ExecuteBegin, M!SkipFirst, M!ArmAndReturn, M!Goto, M!Done
    <2> QED BY <2>2 DEF MonitorRuns, M!Executing
  <1>3. ASSUME MonitorRuns, NEW t \in MTimers, M!TimerFires(t) \/ M!LockedStep(t)
        PROVE  MonitorRuns'
    <2>1. PICK g \in M!Goroutines : mPc[g] = "execute" BY <1>3 DEF MonitorRuns, M!Executing
    <2>2. t \in M!Goroutines BY DEF M!Goroutines
    <2>3. mPc'[g] = "execute"
      BY <1>0, <1>3, <2>1, <2>2
      DEF M!TimerFires, M!LockedStep, M!HasClosed, M!ExecuteBegin, M!SkipFirst,
          M!ArmAndReturn, M!Goto, M!Done
    <2> QED BY <2>3 DEF MonitorRuns, M!Executing
  <1>4. CASE MainStarts \/ MainCloses
    <2>1. bodyAt' = bodyAt BY <1>4 DEF MainStarts, MainCloses, MainStartsMonitor,
        MainStartsReport, MainClosesMonitor, MainClosesReport, MainCalls
    <2>2. MonitorRuns => MonitorRuns'
      BY <1>1, <1>2, <1>4 DEF MainStarts, MainCloses, MainStartsMonitor, MainStartsReport,
          MainClosesMonitor, MainClosesReport, MainCalls, mvars
    <2>3. Ready(Body) => Ready(Body)'
      BY <1>0, <1>4 DEF MainStarts, MainCloses, MainStartsMonitor, MainStartsReport,
          MainClosesMonitor, MainClosesReport, MainCalls, mvars, rvars, Ready,
          M!CallStart, M!CallClose, R!CallStart, R!CallClose, M!Goto, R!Goto
    <2> QED BY <1>0, <2>1, <2>2, <2>3
  <1>5. CASE BodyStep
    <2>1. CASE BodyChangesNothing \/ BodyTakesNode
      BY <1>1, <2>1 DEF BodyChangesNothing, BodyTakesNode, mvars
    <2>2. CASE BodyChecksPull
      <3>1. MonitorRuns BY <1>0, <2>2 DEF BodyChecksPull
      <3> QED BY <1>1, <1>2, <2>2, <3>1 DEF BodyChecksPull, mvars
    <2>3. CASE BodyChecksPush
      <3>1. MonitorRuns BY <1>0, <2>3 DEF BodyChecksPush
      <3> QED BY <1>1, <2>3, <3>1 DEF BodyChecksPush, mvars
    <2>4. CASE BodyRestarts
      <3>1. MonitorRuns BY <1>0, <2>4 DEF BodyRestarts
      <3> QED BY <1>1, <1>2, <2>4, <3>1 DEF BodyRestarts, mvars
    <2>5. CASE BodyReturns
      <3>1. bodyAt' = "fetch" /\ rPc' = rPc /\ mPc[Body] = "idle" /\ rPc[Body] = "idle"
        BY <2>5 DEF BodyReturns, rvars, Ready
      <3>2. mPc'[Body] = "idle"
        BY <1>0, <2>5, <3>1 DEF BodyReturns, M!ExecuteReturns, M!ArmAndReturn, M!Goto
      <3> QED BY <3>1, <3>2 DEF Ready
    <2> QED BY <1>5, <2>1, <2>2, <2>3, <2>4, <2>5 DEF BodyStep
  <1>6. ASSUME UNCHANGED bodyAt, MonitorRuns => MonitorRuns',
               mPc[Body] = "idle" => mPc'[Body] = "idle",
               rPc[Body] = "idle" => rPc'[Body] = "idle"
        PROVE  (bodyAt # "fetch" \/ ~Ready(Body) => MonitorRuns)'
    BY <1>0, <1>6 DEF Ready
  <1>7. ASSUME NEW c \in {Main, Body}, MCall(c)
        PROVE  (bodyAt # "fetch" \/ ~Ready(Body) => MonitorRuns)'
    <2>1. UNCHANGED <<bodyAt, rPc>> BY <1>7 DEF MCall, rvars, control
    <2>2. mPc[Body] = "idle" => mPc'[Body] = "idle"
      BY <1>0, <1>7
      DEF MCall, M!CallerStep, M!StartLocked, M!StartFailed, M!CloseLocked, M!LockedStep,
          M!HasClosed, M!ExecuteBegin, M!SkipFirst, M!ArmAndReturn, M!Goto, M!Done
    <2> QED BY <1>2, <1>6, <1>7, <2>1, <2>2 DEF MCall
  <1>8. ASSUME NEW c \in {Main, Body}, RCall(c)
        PROVE  (bodyAt # "fetch" \/ ~Ready(Body) => MonitorRuns)'
    <2>1. UNCHANGED <<bodyAt, mPc>> BY <1>8 DEF RCall, mvars, control
    <2>2. rPc[Body] = "idle" => rPc'[Body] = "idle"
      BY <1>0, <1>8
      DEF RCall, R!CallerStep, R!StartLocked, R!StartFailed, R!CloseLocked, R!LockedStep,
          R!HasClosed, R!ExecuteBegin, R!SkipFirst, R!ArmAndReturn, R!Goto, R!Done
    <2> QED BY <1>1, <1>6, <2>1, <2>2
  <1>9. CASE MCallback \/ MFires
    <2>1. PICK t \in MTimers : M!LockedStep(t) \/ M!TimerFires(t) BY <1>9 DEF MCallback, MFires
    <2>2. UNCHANGED <<bodyAt, rPc>> BY <1>9 DEF MCallback, MFires, rvars, control
    <2>3. t \in M!Goroutines /\ t # Body BY DEF M!Goroutines
    <2>4. mPc[Body] = "idle" => mPc'[Body] = "idle"
      BY <1>0, <2>1, <2>3
      DEF M!TimerFires, M!LockedStep, M!HasClosed, M!ExecuteBegin, M!SkipFirst,
          M!ArmAndReturn, M!Goto, M!Done
    <2> QED BY <1>3, <1>6, <2>1, <2>2, <2>4
  <1>10. CASE RCallback \/ RFires
    <2>1. PICK t \in RTimers : R!LockedStep(t) \/ R!BodyStep(t) \/ R!TimerFires(t)
      BY <1>10 DEF RCallback, RFires
    <2>2. UNCHANGED <<bodyAt, mPc>> BY <1>10 DEF RCallback, RFires, mvars, control
    <2>3. t \in R!Goroutines /\ t # Body BY DEF R!Goroutines
    <2>4. rPc[Body] = "idle" => rPc'[Body] = "idle"
      BY <1>0, <2>1, <2>3
      DEF R!TimerFires, R!LockedStep, R!HasClosed, R!ExecuteBegin, R!SkipFirst, R!BodyStep,
          R!ExecuteReturns, R!ExecuteFails, R!ArmAndReturn, R!Goto, R!Done
    <2> QED BY <1>1, <1>6, <2>2, <2>4
  <1>11. CASE Ended \/ UNCHANGED tasksVars
    BY <1>1, <1>6, <1>11 DEF Ended, tasksVars, mvars, rvars, control
  <1> QED BY <1>4, <1>5, <1>7, <1>8, <1>9, <1>10, <1>11 DEF TasksNext

\* The monitor makes its calls of Close and Start with its own mutex held: types and
\* calls are as TasksTypeOK says, for every number of timers, intervals and changes.
THEOREM TasksTypeCorrect == TasksSpec => []TasksTypeOK
  <1>1. TasksInit => TasksTypeOK
    <2> SUFFICES ASSUME TasksInit PROVE TasksTypeOK OBVIOUS
    <2> USE ControllerTasksAssumption DEF TasksInit
    <2>1. M!TypeOK
      <3> USE DEF M!Init, M!Goroutines
      <3>1. mPc \in [M!Goroutines -> M!CallerPC \cup M!TimerPC]
        BY DEF M!CallerPC, M!TimerPC
      <3>2. /\ \A c \in {Main, Body} : mPc[c] \in M!CallerPC
            /\ \A t \in MTimers : mPc[t] \in M!TimerPC
        BY DEF M!CallerPC, M!TimerPC
      <3>3. mFirst \in [M!Goroutines -> BOOLEAN] /\ \A t \in MTimers : mFirst[t]
        OBVIOUS
      <3>4. /\ mRunning \in BOOLEAN /\ mOwner \in M!Goroutines \cup {Nobody}
            /\ mTimer \in MTimers \cup {NoTimer}
        OBVIOUS
      <3>5. mStarts \in 0..MaxChanges + 1 OBVIOUS
      <3> QED BY <3>1, <3>2, <3>3, <3>4, <3>5 DEF M!TypeOK
    <2>2. R!TypeOK
      <3> USE DEF R!Init, R!Goroutines
      <3>1. rPc \in [R!Goroutines -> R!CallerPC \cup R!TimerPC]
        BY DEF R!CallerPC, R!TimerPC
      <3>2. /\ \A c \in {Main, Body} : rPc[c] \in R!CallerPC
            /\ \A t \in RTimers : rPc[t] \in R!TimerPC
        BY DEF R!CallerPC, R!TimerPC
      <3>3. rFirst \in [R!Goroutines -> BOOLEAN] /\ \A t \in RTimers : rFirst[t]
        OBVIOUS
      <3>4. /\ rRunning \in BOOLEAN /\ rOwner \in R!Goroutines \cup {Nobody}
            /\ rTimer \in RTimers \cup {NoTimer}
        OBVIOUS
      <3>5. rStarts \in 0..MaxChanges + 1 OBVIOUS
      <3> QED BY <3>1, <3>2, <3>3, <3>4, <3>5 DEF R!TypeOK
    <2>3. bodyAt = "fetch" /\ Ready(Body)
      BY DEF Ready, M!Init, R!Init, M!Goroutines, R!Goroutines
    <2>4. /\ info \in [pull : Pulls, push : Pushes] /\ mInterval \in Pulls
          /\ rInterval \in Pulls \cup Pushes /\ changes \in 0..MaxChanges
      OBVIOUS
    <2>5. mainAt = "startMonitor" /\ late \in BOOLEAN OBVIOUS
    <2> QED BY <2>1, <2>2, <2>3, <2>4, <2>5 DEF TasksTypeOK
  <1>2. TasksTypeOK /\ [TasksNext]_tasksVars => TasksTypeOK'
    <2> SUFFICES ASSUME TasksTypeOK, [TasksNext]_tasksVars PROVE TasksTypeOK' OBVIOUS
    <2>1. M!TypeOK' /\ R!TypeOK'
      BY StepOfMonitor, StepOfReport, MonitorTypes, ReportTypes DEF TasksTypeOK
    <2>2. (bodyAt # "fetch" \/ ~Ready(Body) => MonitorRuns)' BY CallsKept
    <2>3. /\ mainAt' \in {"startMonitor", "startReport", "serving", "closeReport", "closed"}
          /\ bodyAt' \in {"fetch", "checkPull", "restartMonitor", "checkPush",
                          "restartReport", "return"}
          /\ info' \in [pull : Pulls, push : Pushes]
          /\ mInterval' \in Pulls
          /\ rInterval' \in Pulls \cup Pushes
          /\ changes' \in 0..MaxChanges
          /\ late' \in BOOLEAN
      <3> USE ControllerTasksAssumption DEF TasksTypeOK, control
      <3>1. CASE MainStarts \/ MainCloses
        BY <3>1 DEF MainStarts, MainCloses, MainStartsMonitor, MainStartsReport,
            MainClosesMonitor, MainClosesReport, MainCalls
      <3>2. CASE BodyStep
        <4>1. CASE BodyChangesNothing BY <4>1 DEF BodyChangesNothing
        <4>2. CASE BodyTakesNode BY <4>2 DEF BodyTakesNode
        <4>3. CASE BodyChecksPull BY <4>3 DEF BodyChecksPull
        <4>4. CASE BodyChecksPush BY <4>4 DEF BodyChecksPush
        <4>5. CASE BodyRestarts BY <4>5 DEF BodyRestarts
        <4>6. CASE BodyReturns BY <4>6 DEF BodyReturns
        <4> QED BY <3>2, <4>1, <4>2, <4>3, <4>4, <4>5, <4>6 DEF BodyStep
      <3>3. CASE \/ Ended \/ UNCHANGED tasksVars
                 \/ \E c \in {Main, Body} : MCall(c) \/ RCall(c)
                 \/ MCallback \/ RCallback \/ MFires \/ RFires
        <4>1. UNCHANGED control
          BY <3>3 DEF Ended, tasksVars, MCall, RCall, MCallback, RCallback, MFires, RFires
        <4>2. late' \in BOOLEAN
          BY <3>3
          DEF Ended, tasksVars, MCall, RCall, MCallback, RCallback, MFires, RFires, Remember
        <4> QED BY <4>1, <4>2
      <3> QED BY <3>1, <3>2, <3>3 DEF TasksNext
    <2> QED BY <2>1, <2>2, <2>3 DEF TasksTypeOK
  <1> QED BY <1>1, <1>2, PTL DEF TasksSpec

\* Who runs the monitor holds its mutex.
OwnerRuns == \A g \in M!Goroutines : M!Executing(g) => mOwner = g

\* Controller.Close calls nothing but Close, of the monitor and then of the report.
MainPlace ==
    /\ mainAt \in {"closeReport", "closed"} => mPc[Main] \in {"idle", "close"}
    /\ mainAt = "closed" => mPc[Main] = "idle" /\ rPc[Main] \in {"idle", "close"}

\* Once the monitor's Close has returned, only a late callback runs the monitor.
MonitorStopped ==
    mainAt \in {"closeReport", "closed"} /\ mPc[Main] = "idle" /\ ~late
        => ~mRunning /\ ~MonitorRuns

ClosingInvariant ==
    TasksTypeOK /\ OwnerRuns /\ MainPlace /\ MonitorStopped /\ CloseStopsReport

\* The monitor's mutex keeps a second run out.
LEMMA OwnerKept ==
    ASSUME M!TypeOK, OwnerRuns, [M!Next]_(M!vars) PROVE OwnerRuns'
  <1> USE ControllerTasksAssumption
      DEF M!TypeOK, M!Goroutines, OwnerRuns, M!Executing, M!Goto, M!Done
  <1>1. ASSUME NEW g \in M!Goroutines, M!ArmAndReturn(g), mPc[g] = "execute", mOwner' = Nobody
        PROVE  OwnerRuns'
    BY <1>1 DEF M!ArmAndReturn
  <1>2. ASSUME NEW g \in M!Goroutines, M!LockedStep(g) PROVE OwnerRuns'
    <2>1. CASE M!HasClosed(g) BY <2>1 DEF M!HasClosed
    <2>2. CASE M!ExecuteBegin(g) BY <2>2 DEF M!ExecuteBegin
    <2>3. CASE M!SkipFirst(g) BY <2>3 DEF M!SkipFirst, M!ArmAndReturn
    <2> QED BY <1>2, <2>1, <2>2, <2>3 DEF M!LockedStep
  <1>3. ASSUME NEW c \in {Main, Body}, M!CallClose(c) \/ M!CallerStep(c) PROVE OwnerRuns'
    <2>1. CASE M!CallClose(c) BY <2>1 DEF M!CallClose
    <2>2. CASE M!StartLocked(c) BY <2>2 DEF M!StartLocked
    <2>3. CASE M!StartFailed(c) BY <2>3 DEF M!StartFailed
    <2>4. CASE M!CloseLocked(c) BY <2>4 DEF M!CloseLocked
    <2> QED BY <1>2, <1>3, <2>1, <2>2, <2>3, <2>4 DEF M!CallerStep
  <1>4. ASSUME NEW c \in {Main, Body}, M!CallStart(c, FALSE) PROVE OwnerRuns'
    BY <1>4 DEF M!CallStart
  <1>5. ASSUME NEW t \in MTimers, M!TimerFires(t) PROVE OwnerRuns'
    BY <1>5 DEF M!TimerFires
  <1>6. ASSUME NEW g \in M!Goroutines, M!BodyStep(g) PROVE OwnerRuns'
    BY <1>1, <1>6 DEF M!BodyStep, M!ExecuteReturns, M!ExecuteFails
  <1>7. CASE UNCHANGED M!vars BY <1>7 DEF M!vars
  <1> QED BY <1>2, <1>3, <1>4, <1>5, <1>6, <1>7 DEF M!Next

\* Every step keeps Controller.Close's order.
LEMMA ClosingKept ==
    ASSUME ClosingInvariant, [TasksNext]_tasksVars
    PROVE  (MainPlace /\ MonitorStopped /\ CloseStopsReport)'
  <1> DEFINE Closing == mainAt \in {"closeReport", "closed"}
             Goal == (MainPlace /\ MonitorStopped /\ CloseStopsReport)'
  <1> USE ControllerTasksAssumption
  <1>0. /\ mPc \in [M!Goroutines -> M!CallerPC \cup M!TimerPC]
        /\ rPc \in [R!Goroutines -> R!CallerPC \cup R!TimerPC]
        /\ bodyAt # "fetch" \/ ~Ready(Body) => MonitorRuns
        /\ \A c \in {Main, Body} : c \in M!Goroutines /\ c \in R!Goroutines
        /\ Nobody \notin M!Goroutines
        /\ MainPlace /\ MonitorStopped /\ CloseStopsReport /\ OwnerRuns
    BY DEF ClosingInvariant, TasksTypeOK, M!TypeOK, R!TypeOK, M!Goroutines, R!Goroutines
  <1> SUFFICES Goal OBVIOUS
  <1> HIDE DEF Goal
  \* A step made while the monitor runs, and not by Main.
  <1>1. ASSUME MonitorRuns, UNCHANGED <<mainAt, late>>,
               mPc'[Main] = mPc[Main], rPc'[Main] = rPc[Main]
        PROVE  Goal
    BY <1>0, <1>1 DEF Goal, MainPlace, MonitorStopped, CloseStopsReport
  \* A step that starts nothing.
  <1>2. ASSUME UNCHANGED mainAt, late => late', ~late' => (MonitorRuns' => MonitorRuns),
               mRunning' => mRunning, rRunning' => rRunning,
               mPc'[Main] = mPc[Main], rPc'[Main] = rPc[Main]
        PROVE  Goal
    BY <1>0, <1>2 DEF Goal, MainPlace, MonitorStopped, CloseStopsReport, Ready
  <1>3. CASE MainStarts
    BY <1>3 DEF Goal, MainStarts, MainStartsMonitor, MainStartsReport, MainCalls, MainPlace,
        MonitorStopped, CloseStopsReport
  <1>4. CASE MainClosesMonitor
    <2>1. mainAt' = "closeReport" /\ mPc'[Main] = "close"
      BY <1>0, <1>4 DEF MainClosesMonitor, MainCalls, M!CallClose, M!Goto
    <2> QED BY <2>1 DEF Goal, MainPlace, MonitorStopped, CloseStopsReport
  <1>5. CASE MainClosesReport
    <2>1. /\ mainAt = "closeReport" /\ mainAt' = "closed" /\ mPc[Main] = "idle"
          /\ UNCHANGED <<mRunning, mPc, late>> /\ rPc'[Main] = "close"
      BY <1>0, <1>5 DEF MainClosesReport, MainCalls, R!CallClose, R!Goto, mvars, Ready
    <2>2. MonitorRuns' <=> MonitorRuns BY <2>1 DEF MonitorRuns, M!Executing
    <2> QED BY <1>0, <2>1, <2>2 DEF Goal, MainPlace, MonitorStopped, CloseStopsReport, Ready
  <1>6. CASE BodyStep
    <2>1. MonitorRuns
      BY <1>0, <1>6 DEF BodyStep, BodyChangesNothing, BodyTakesNode, BodyChecksPull,
          BodyChecksPush, BodyRestarts, BodyReturns, MonitorRuns, M!ExecuteReturns, M!Executing
    <2>2. CASE BodyReturns
      <3>1. CASE ~Closing
        BY <2>2, <3>1 DEF Goal, BodyReturns, MainPlace, MonitorStopped, CloseStopsReport
      <3>2. CASE Closing
        <4>1. mPc[Main] # "execute" /\ mPc[Main] # "free"
          BY <1>0, <3>2 DEF MainPlace
        <4>2. mPc'[Main] = mPc[Main] /\ rPc' = rPc /\ UNCHANGED <<mainAt, late>>
          BY <1>0, <2>2, <4>1
          DEF BodyReturns, M!ExecuteReturns, M!ArmAndReturn, M!Goto, rvars
        <4> QED BY <1>1, <2>1, <4>2
      <3> QED BY <3>1, <3>2
    <2>3. CASE BodyChangesNothing \/ BodyTakesNode
      BY <1>1, <2>1, <2>3 DEF BodyChangesNothing, BodyTakesNode, mvars, rvars
    <2>4. CASE BodyChecksPull \/ BodyChecksPush \/ BodyRestarts
      <3>1. UNCHANGED <<mainAt, late>> /\ mPc'[Main] = mPc[Main] /\ rPc'[Main] = rPc[Main]
        BY <1>0, <2>4 DEF BodyChecksPull, BodyChecksPush, BodyRestarts, M!CallClose, R!CallClose,
            M!CallStart, R!CallStart, M!Goto, R!Goto, mvars, rvars
      <3> QED BY <1>1, <2>1, <3>1
    <2> QED BY <1>6, <2>2, <2>3, <2>4 DEF BodyStep
  <1>7. CASE MCall(Main)
    <2>1. UNCHANGED <<mainAt, rPc, rRunning>> /\ (late => late')
      BY <1>7 DEF MCall, control, rvars, Remember
    <2>2. CASE ~Closing
      BY <2>1, <2>2 DEF Goal, MainPlace, MonitorStopped, CloseStopsReport
    <2>3. CASE Closing
      <3>1. mPc[Main] = "close" /\ mainAt = "closeReport" /\ M!CloseLocked(Main)
        BY <1>0, <1>7, <2>3
        DEF MainPlace, MCall, M!CallerStep, M!StartLocked, M!StartFailed, M!CloseLocked,
            M!LockedStep, M!HasClosed, M!ExecuteBegin, M!SkipFirst
      <3>2. mPc'[Main] = "idle" /\ ~mRunning' /\ mOwner = Nobody
            /\ \A g \in M!Goroutines : mPc'[g] = "execute" => mPc[g] = "execute"
        BY <1>0, <3>1 DEF M!CloseLocked
      <3>3. ~MonitorRuns' BY <1>0, <3>2 DEF OwnerRuns, MonitorRuns, M!Executing
      <3> QED BY <2>1, <3>1, <3>2, <3>3 DEF Goal, MainPlace, MonitorStopped, CloseStopsReport
    <2> QED BY <2>2, <2>3
  <1>8. CASE MCall(Body)
    <2>1. mPc[Body] # "idle"
      BY <1>8 DEF MCall, M!CallerStep, M!StartLocked, M!StartFailed, M!CloseLocked,
          M!LockedStep, M!HasClosed, M!ExecuteBegin, M!SkipFirst
    <2>2. MonitorRuns BY <1>0, <2>1 DEF Ready
    <2>3. UNCHANGED <<mainAt, rPc, rRunning>> /\ (late => late')
      BY <1>8 DEF MCall, control, rvars, Remember
    <2>4. CASE ~Closing
      BY <2>3, <2>4 DEF Goal, MainPlace, MonitorStopped, CloseStopsReport
    <2>5. CASE Closing
      <3>1. mPc'[Main] = mPc[Main]
        <4>1. mPc[Main] # "free" /\ mPc[Main] # "armed" BY <1>0, <2>5 DEF MainPlace
        <4> QED
          BY <1>0, <1>8, <4>1
          DEF MCall, M!CallerStep, M!StartLocked, M!StartFailed, M!CloseLocked, M!LockedStep,
              M!HasClosed, M!ExecuteBegin, M!SkipFirst, M!ArmAndReturn, M!Goto
      <3>2. mPc[Main] = "idle" => late BY <1>0, <2>2, <2>5 DEF MonitorStopped
      <3> QED
        BY <1>0, <2>3, <3>1, <3>2 DEF Goal, MainPlace, MonitorStopped, CloseStopsReport
    <2> QED BY <2>4, <2>5
  <1>9. CASE RCall(Main)
    <2>1. UNCHANGED <<mainAt, mPc, mRunning, late>> BY <1>9 DEF RCall, control, mvars
    <2>2. MonitorRuns' <=> MonitorRuns BY <2>1 DEF MonitorRuns, M!Executing
    <2>3. CASE mainAt # "closed"
      BY <1>0, <2>1, <2>2, <2>3 DEF Goal, MainPlace, MonitorStopped, CloseStopsReport
    <2>4. CASE mainAt = "closed"
      <3>1. R!CloseLocked(Main)
        BY <1>0, <1>9, <2>4
        DEF MainPlace, RCall, R!CallerStep, R!StartLocked, R!StartFailed, R!CloseLocked,
            R!LockedStep, R!HasClosed, R!ExecuteBegin, R!SkipFirst
      <3>2. rPc'[Main] = "idle" /\ ~rRunning' BY <1>0, <3>1 DEF R!CloseLocked
      <3> QED
        BY <1>0, <2>1, <2>2, <3>2 DEF Goal, MainPlace, MonitorStopped, CloseStopsReport
    <2> QED BY <2>3, <2>4
  <1>10. CASE RCall(Body)
    <2>1. rPc[Body] # "idle"
      BY <1>10 DEF RCall, R!CallerStep, R!StartLocked, R!StartFailed, R!CloseLocked,
          R!LockedStep, R!HasClosed, R!ExecuteBegin, R!SkipFirst
    <2>2. MonitorRuns BY <1>0, <2>1 DEF Ready
    <2>3. UNCHANGED <<mainAt, mPc, late>> BY <1>10 DEF RCall, control, mvars
    <2>4. rPc'[Main] = rPc[Main] \/ mainAt # "closed"
      BY <1>0, <1>10
      DEF MainPlace, RCall, R!CallerStep, R!StartLocked, R!StartFailed, R!CloseLocked,
          R!LockedStep, R!HasClosed, R!ExecuteBegin, R!SkipFirst, R!ArmAndReturn, R!Goto
    <2> QED BY <1>0, <2>2, <2>3, <2>4 DEF Goal, MainPlace, MonitorStopped, CloseStopsReport
  <1>11. CASE MCallback \/ MFires
    <2>1. UNCHANGED <<mainAt, rPc, rRunning>> /\ (late => late')
      <3>1. CASE MCallback BY <3>1 DEF MCallback, control, rvars, Remember
      <3>2. CASE MFires BY <3>2 DEF MFires, control, rvars
      <3> QED BY <1>11, <3>1, <3>2
    <2>2. PICK t \in MTimers : M!LockedStep(t) \/ M!TimerFires(t)
      BY <1>11 DEF MCallback, MFires
    <2>3. t # Main /\ t \in M!Goroutines BY DEF M!Goroutines
    <2>4. mRunning' = mRunning
      BY <2>2 DEF M!TimerFires, M!LockedStep, M!HasClosed, M!ExecuteBegin, M!SkipFirst
    <2>5. CASE ~Closing
      BY <2>1, <2>5 DEF Goal, MainPlace, MonitorStopped, CloseStopsReport
    <2>6. CASE Closing
      <3>1. mPc'[Main] = mPc[Main]
        <4>1. mPc[Main] # "free" /\ mPc[Main] # "armed" BY <1>0, <2>6 DEF MainPlace
        <4> QED
          BY <1>0, <2>2, <2>3, <4>1
          DEF M!TimerFires, M!LockedStep, M!HasClosed, M!ExecuteBegin, M!SkipFirst,
              M!ArmAndReturn, M!Goto
      <3>2. MonitorRuns' /\ ~MonitorRuns => MCallback
        <4> SUFFICES ASSUME MFires, MonitorRuns' PROVE MonitorRuns BY <1>11
        <4> QED BY <1>0 DEF MFires, M!TimerFires, M!Goto, MonitorRuns, M!Executing
      <3>3. mPc[Main] = "idle" /\ ~late' => ~mRunning /\ ~MonitorRuns
        BY <1>0, <2>1, <2>6 DEF MonitorStopped
      <3>4. mPc[Main] = "idle" /\ ~late' => ~MonitorRuns'
        BY <3>2, <3>3 DEF MCallback, Remember
      <3> QED
        BY <1>0, <2>1, <2>4, <3>1, <3>3, <3>4
        DEF Goal, MainPlace, MonitorStopped, CloseStopsReport, Ready
    <2> QED BY <2>5, <2>6
  <1>12. CASE RCallback \/ RFires
    <2>1. UNCHANGED <<mainAt, mPc, mRunning, late>>
      BY <1>12 DEF RCallback, RFires, mvars, control
    <2>2. MonitorRuns' <=> MonitorRuns BY <2>1 DEF MonitorRuns, M!Executing
    <2>3. PICK t \in RTimers : R!LockedStep(t) \/ R!BodyStep(t) \/ R!TimerFires(t)
      BY <1>12 DEF RCallback, RFires
    <2>4. t # Main /\ t \in R!Goroutines BY DEF R!Goroutines
    <2>5. rRunning' => rRunning
      BY <2>3 DEF R!TimerFires, R!LockedStep, R!HasClosed, R!ExecuteBegin, R!SkipFirst,
          R!BodyStep, R!ExecuteReturns, R!ExecuteFails
    <2>6. mainAt = "closed" => rPc'[Main] = rPc[Main]
      <3> SUFFICES ASSUME mainAt = "closed" PROVE rPc'[Main] = rPc[Main] OBVIOUS
      <3>1. rPc[Main] # "free" /\ rPc[Main] # "armed" BY <1>0 DEF MainPlace
      <3> QED
        BY <1>0, <2>3, <2>4, <3>1
        DEF R!TimerFires, R!LockedStep, R!HasClosed, R!ExecuteBegin, R!SkipFirst, R!BodyStep,
            R!ExecuteReturns, R!ExecuteFails, R!ArmAndReturn, R!Goto
    <2> QED
      BY <1>0, <2>1, <2>2, <2>5, <2>6
      DEF Goal, MainPlace, MonitorStopped, CloseStopsReport, Ready
  <1>13. CASE Ended \/ UNCHANGED tasksVars
    <2>1. UNCHANGED <<mainAt, mPc, mRunning, rPc, rRunning, late>>
      BY <1>13 DEF Ended, tasksVars, mvars, rvars, control
    <2>2. MonitorRuns' <=> MonitorRuns BY <2>1 DEF MonitorRuns, M!Executing
    <2> QED BY <1>2, <2>1, <2>2
  <1> QED
    BY <1>3, <1>4, <1>5, <1>6, <1>7, <1>8, <1>9, <1>10, <1>11, <1>12, <1>13
    DEF TasksNext, MainCloses

\* Controller.Close stops the report for good, for every number of timers, intervals
\* and changes, unless a callback ran the monitor after it was closed.
THEOREM CloseStops == TasksSpec => []CloseStopsReport
  <1>1. TasksInit => OwnerRuns /\ MainPlace /\ MonitorStopped /\ CloseStopsReport
    BY ControllerTasksAssumption
    DEF TasksInit, M!Init, M!Goroutines, OwnerRuns, M!Executing, MainPlace, MonitorStopped,
        CloseStopsReport
  <1>2. TasksInit /\ TasksTypeOK => ClosingInvariant BY <1>1 DEF ClosingInvariant
  <1>3. ClosingInvariant /\ TasksTypeOK' /\ [TasksNext]_tasksVars => ClosingInvariant'
    <2> SUFFICES ASSUME ClosingInvariant, TasksTypeOK', [TasksNext]_tasksVars
                 PROVE  ClosingInvariant'
      OBVIOUS
    <2>1. OwnerRuns'
      BY StepOfMonitor, OwnerKept DEF ClosingInvariant, TasksTypeOK
    <2> QED BY <2>1, ClosingKept DEF ClosingInvariant
  <1>4. ClosingInvariant => CloseStopsReport BY DEF ClosingInvariant
  <1> QED BY <1>2, <1>3, <1>4, TasksTypeCorrect, PTL DEF TasksSpec
=============================================================================
