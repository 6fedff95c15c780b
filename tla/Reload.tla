-------------------------------- MODULE Reload --------------------------------
(***************************************************************************)
(* How the server follows its files: the watcher (conf/watch.go), the      *)
(* reload callback (cmd/server.go), the list of controllers (node/node.go) *)
(* and the core they run on (core/core.go and both cores' Start and Close).*)
(*                                                                         *)
(* The watcher takes an event and starts a goroutine that sleeps and then  *)
(* reloads.  The goroutines share conf, nodes and vc without a lock, and   *)
(* nothing keeps two of them apart.  A panic in one ends the process.      *)
(*                                                                         *)
(* The panel is assumed to change no node while this is watched: then the  *)
(* runs of the monitors change nothing, but one may hang.  With a change,  *)
(* a run under way when its controller is closed, or one that comes late,  *)
(* may put the limiter back (NodeSync) and use the core after its Close,   *)
(* which for xray is a panic.                                              *)
(***************************************************************************)
EXTENDS Integers, Sequences, FiniteSets

CONSTANTS
    Reloads,    \* goroutines of the watcher that may be alive at once
    Contents,   \* what may be saved as the configuration
    First,      \* the configuration the process was started with
    Slices,     \* slices of controllers
    Boxes,      \* core objects
    MaxEdits,   \* bound of the model: how often the file is saved
    Faults,     \* bound of the model: how often something outside fails
    None        \* nil

Kinds == {"xray", "sing", "other"}
NodeConfigs == [tag : STRING, dns : STRING]
Configs == [cores : Seq(Kinds), nodes : Seq(NodeConfigs)]
Controllers == [tag : STRING, dns : STRING, box : Boxes \cup {None},
                state : {"up", "hung", "closed", "failed"}]

\* A content that does not parse has ok FALSE; a dns of "" is a node without rules
\* for the DNS file.
ASSUME ReloadAssumption ==
    /\ \A c \in Contents : c.ok \in BOOLEAN /\ c.conf \in Configs
    /\ First \in Contents /\ First.ok /\ First.conf.cores # <<>>
    /\ MaxEdits \in Nat /\ Faults \in Nat
    /\ Slices # {} /\ Boxes # {}
    /\ None \notin Slices /\ None \notin Boxes /\ None \notin Controllers

VARIABLES
    up,         \* the process runs
    disk,       \* the configuration file
    dnsFile,    \* the DNS file, in a watched directory
    event,      \* the watcher has an event to take
    age,        \* how long ago an event was accepted: 0 (<5 s), 1 (<10 s), 2
    conf,       \* *p, the configuration all goroutines read
    nodes,      \* Node.controllers
    slices,     \* the slices of controllers
    vc,         \* the core
    box,        \* the core objects
    limiters,   \* tags that have a limiter
    pc,         \* where each reload is
    at,         \* locals of Node.Close and Node.Start: slice, position, nodes, core
    edits, faults,
    went        \* history: what went wrong since the last reload that completed

files == <<disk, dnsFile, event, age>>
shared == <<conf, nodes, slices, vc, box, limiters>>
locals == <<pc, at>>
vars == <<up, files, shared, locals, edits, faults, went>>

EmptyConf == [cores |-> <<>>, nodes |-> <<>>]
Nowhere == [slice |-> None, i |-> 0, nodes |-> <<>>, box |-> None]
Free == [state |-> "free", cores |-> <<>>]
AnyOf(S) == CHOOSE x \in S : TRUE      \* a fresh object
Members(s) == {s[i] : i \in DOMAIN s}

Controller(n, b, state) == [tag |-> n.tag, dns |-> n.dns, box |-> b, state |-> state]
Running(s) == {c \in Members(slices[s]) \ {None} : c.state \in {"up", "hung"}}

\* The rules the DNS file holds once nodes ns have been added one after the other: a
\* node without rules leaves those of the node before it.
LastRules(ns) ==
    LET HasRules(n) == n.dns # ""
        ruled == SelectSeq(ns, HasRules)
    IN IF ruled = <<>> THEN "" ELSE ruled[Len(ruled)].dns

\* serverHandle up to the wait for a signal: core and nodes run, the watcher too.
Init ==
    /\ up = TRUE
    /\ disk = First /\ conf = First.conf
    /\ dnsFile = LastRules(First.conf.nodes)
    /\ event = FALSE /\ age = 2
    /\ nodes = AnyOf(Slices) /\ vc = AnyOf(Boxes)
    /\ slices = [s \in Slices |-> IF s # nodes THEN <<>>
                                  ELSE [i \in DOMAIN First.conf.nodes |->
                                          Controller(First.conf.nodes[i], vc, "up")]]
    /\ box = [b \in Boxes |-> IF b # vc THEN Free
                              ELSE [state |-> "up", cores |-> First.conf.cores]]
    /\ limiters = {n.tag : n \in Members(First.conf.nodes)}
    /\ pc = [r \in Reloads |-> "idle"]
    /\ at = [r \in Reloads |-> Nowhere]
    /\ edits = 0 /\ faults = 0
    /\ went = {}

Goto(r, l) == pc' = [pc EXCEPT ![r] = l]
Ends(r) == Goto(r, "idle") /\ at' = [at EXCEPT ![r] = Nowhere]

\* Something outside fails: the panel, a port, an unreadable file.
Fault == faults < Faults /\ faults' = faults + 1

\* A panic in a goroutine of the process.
Panics ==
    /\ up' = FALSE
    /\ UNCHANGED <<files, shared, locals, edits>>

-----------------------------------------------------------------------------
(* The files and the watcher *)

\* The file is saved, by one event or several: they wait together.
Edit(c) ==
    /\ up /\ edits < MaxEdits
    /\ c # disk
    /\ disk' = c /\ event' = TRUE
    /\ edits' = edits + 1
    /\ UNCHANGED <<up, dnsFile, age, shared, locals, faults, went>>

FiveSeconds ==
    /\ up /\ age < 2
    /\ age' = age + 1
    /\ pc' = [r \in Reloads |-> IF pc[r] = "sleep" THEN "awake" ELSE pc[r]]
    /\ UNCHANGED <<up, disk, dnsFile, event, shared, at, edits, faults, went>>

\* A goroutine that has not yet read the file.
Reads(r) == pc[r] \in {"sleep", "awake", "load"}

\* Bound of the model: once two reloads have overlapped no third one begins.
Takes(r) ==
    /\ up /\ event /\ age = 2
    /\ pc[r] = "idle" /\ "overlap" \notin went
    /\ event' = FALSE /\ age' = 0
    /\ Goto(r, "sleep")
    /\ went' = IF \E q \in Reloads \ {r} : pc[q] # "idle" THEN went \cup {"overlap"} ELSE went
    /\ UNCHANGED <<up, disk, dnsFile, shared, at, edits, faults>>

\* Within 10 s of the last event accepted, whatever that reload has read by now.
Drops ==
    /\ up /\ event /\ age < 2
    /\ event' = FALSE
    /\ went' = IF \E r \in Reloads : Reads(r) THEN went ELSE went \cup {"lost"}
    /\ UNCHANGED <<up, disk, dnsFile, age, shared, locals, edits, faults>>

\* *p = *New()
Resets(r) ==
    /\ up /\ pc[r] = "awake"
    /\ conf' = EmptyConf
    /\ Goto(r, "load")
    /\ UNCHANGED <<up, files, nodes, slices, vc, box, limiters, at, edits, faults, went>>

\* Mutant: Node.Close is forgotten.
LoadsAndClosesCore(r) ==
    /\ up /\ pc[r] = "load"
    /\ \/ /\ disk.ok
          /\ conf' = disk.conf
          /\ went' = (went \ {"lost", "unread"})
                        \cup IF disk.conf.cores = <<>> THEN {"invalid"} ELSE {}
       \/ /\ ~disk.ok
          /\ conf' \in {EmptyConf, [disk.conf EXCEPT !.nodes = <<>>]}
          /\ went' = (went \ {"lost"}) \cup {"invalid", "unread"}
    /\ Goto(r, "closeCore")
    /\ UNCHANGED <<up, files, nodes, slices, vc, box, limiters, at, edits, faults>>

\* LoadFromPath.  Its error is logged and the reload goes on, with whatever has
\* been decoded.  A file without a core is no configuration either: NewCore
\* indexes the first of none.
Loads(r) ==
    /\ up /\ pc[r] = "load"
    /\ \/ /\ disk.ok
          /\ conf' = disk.conf
          /\ went' = (went \ {"lost", "unread"})
                        \cup IF disk.conf.cores = <<>> THEN {"invalid"} ELSE {}
       \/ /\ ~disk.ok
          /\ conf' \in {EmptyConf, [disk.conf EXCEPT !.nodes = <<>>]}
          /\ went' = (went \ {"lost"}) \cup {"invalid", "unread"}
    /\ Goto(r, "closeNodes")
    /\ UNCHANGED <<up, files, nodes, slices, vc, box, limiters, at, edits, faults>>

-----------------------------------------------------------------------------
(* reload: Node.Close and the core's Close *)

\* range over Node.controllers: the slice is read once.
ClosesNodes(r) ==
    /\ up /\ pc[r] = "closeNodes"
    /\ at' = [at EXCEPT ![r] = [Nowhere EXCEPT !.slice = nodes, !.i = 1]]
    /\ Goto(r, "closing")
    /\ UNCHANGED <<up, files, shared, edits, faults, went>>

HasController(r) == at[r].slice # None /\ at[r].i <= Len(slices[at[r].slice])
Here(r) == slices[at[r].slice][at[r].i]
Advance(r) == at' = [at EXCEPT ![r].i = @ + 1]

\* Controller.Close: the limiter goes first; then the tasks are closed, which
\* takes the mutex of a monitor that is running.
ClosesController(r) ==
    /\ up /\ pc[r] = "closing" /\ HasController(r)
    /\ Here(r) # None /\ Here(r).state # "hung"
    /\ limiters' = limiters \ {Here(r).tag}
    /\ slices' = [slices EXCEPT ![at[r].slice][at[r].i].state = "closed"]
    /\ Advance(r)
    /\ UNCHANGED <<up, files, conf, nodes, vc, box, pc, edits, faults, went>>

\* The limiter is gone, the rest waits for ever for the mutex.
WaitsForMonitor(r) ==
    /\ up /\ pc[r] = "closing" /\ HasController(r)
    /\ Here(r) # None /\ Here(r).state = "hung"
    /\ limiters' = limiters \ {Here(r).tag}
    /\ Goto(r, "stuck")
    /\ UNCHANGED <<up, files, conf, nodes, slices, vc, box, at, edits, faults, went>>

\* c.Close() of a controller that was never made.
ClosesNil(r) ==
    /\ up /\ pc[r] = "closing" /\ HasController(r)
    /\ Here(r) = None
    /\ Panics /\ UNCHANGED <<faults, went>>

NodesClosed(r) ==
    /\ up /\ pc[r] = "closing" /\ ~HasController(r)
    /\ nodes' = None
    /\ slices' = [s \in Slices |-> IF s = at[r].slice /\ Running(s) = {} THEN <<>> ELSE slices[s]]
    /\ at' = [at EXCEPT ![r] = Nowhere]
    /\ Goto(r, "closeCore")
    /\ UNCHANGED <<up, files, conf, vc, box, limiters, edits, faults, went>>

\* Selector.Close appends its cores' errors, nil or not, to a multierror, and that is
\* never nil.
ClosesSelector(b) == Len(box[b].cores) > 1

\* Box.Close a second time is ErrClosed.
ClosesAgain(b) == box[b].state = "closed" /\ box[b].cores = <<"sing">>

CloseFails(b) == ClosesSelector(b) \/ ClosesAgain(b)

ClosesCore(r) ==
    /\ up /\ pc[r] = "closeCore"
    /\ vc # None /\ ~CloseFails(vc)
    /\ box' = [box EXCEPT ![vc].state = "closed"]
    /\ Goto(r, "newCore")
    /\ UNCHANGED <<up, files, conf, nodes, slices, vc, limiters, at, edits, faults, went>>

\* "Restart node failed": the reload returns, with everything closed.
CloseReturnsError(r) ==
    /\ up /\ pc[r] = "closeCore"
    /\ vc # None
    /\ \/ CloseFails(vc) /\ went' = went \cup {"cores"} /\ UNCHANGED faults
       \/ Fault /\ went' = went \cup {"failed"}
    /\ box' = [box EXCEPT ![vc].state = "closed"]
    /\ Ends(r)
    /\ UNCHANGED <<up, files, conf, nodes, slices, vc, limiters, edits>>

\* vc.Close() when the last NewCore returned an error, and nil with it.
ClosesNoCore(r) ==
    /\ up /\ pc[r] = "closeCore" /\ vc = None
    /\ Panics /\ UNCHANGED <<faults, went>>

-----------------------------------------------------------------------------
(* reload: NewCore, Start, Node.Start *)

\* Objects nobody refers to any more.
FreeBoxes == {b \in Boxes : /\ b # vc /\ box[b].state # "up"
                            /\ \A r \in Reloads : at[r].box # b
                            /\ \A s \in Slices : \A c \in Running(s) : c.box # b}
FreeSlices == {s \in Slices : /\ s # nodes /\ Running(s) = {}
                              /\ \A r \in Reloads : at[r].slice # s}

\* NewCore indexes the first of no cores: its test for none is len(c) < 0.
IndexesNoCore(r) ==
    /\ up /\ pc[r] = "newCore" /\ conf.cores = <<>>
    /\ Panics /\ UNCHANGED <<faults, went>>

MakesCore(r) ==
    /\ up /\ pc[r] = "newCore" /\ conf.cores # <<>>
    /\ "other" \notin Members(conf.cores)
    /\ FreeBoxes # {}
    /\ vc' = AnyOf(FreeBoxes)
    /\ box' = [b \in Boxes |-> IF b = vc' THEN [state |-> "new", cores |-> conf.cores]
                               ELSE IF b \in FreeBoxes THEN Free ELSE box[b]]
    /\ Goto(r, "startCore")
    /\ UNCHANGED <<up, files, conf, nodes, slices, limiters, at, edits, faults, went>>

\* An unknown type, or sing's New fails: vc is set to nil.
NewCoreFails(r) ==
    /\ up /\ pc[r] = "newCore" /\ conf.cores # <<>>
    /\ \/ "other" \in Members(conf.cores) /\ went' = went \cup {"invalid"} /\ UNCHANGED faults
       \/ "sing" \in Members(conf.cores) /\ Fault /\ went' = went \cup {"failed"}
    /\ vc' = None
    /\ Ends(r)
    /\ UNCHANGED <<up, files, conf, nodes, slices, box, limiters, edits>>

\* getCore panics when a file it is told to read cannot be read or understood.
GetCorePanics(r) ==
    /\ up /\ pc[r] = "newCore" /\ "xray" \in Members(conf.cores)
    /\ Fault /\ went' = went \cup {"failed"}
    /\ Panics

StartsCore(r) ==
    /\ up /\ pc[r] = "startCore" /\ vc # None
    /\ box' = [box EXCEPT ![vc].state = "up"]
    /\ Goto(r, "makeNodes")
    /\ UNCHANGED <<up, files, conf, nodes, slices, vc, limiters, at, edits, faults, went>>

\* Another reload has set vc to nil.
StartsNoCore(r) ==
    /\ up /\ pc[r] = "startCore" /\ vc = None
    /\ Panics /\ UNCHANGED <<faults, went>>

\* Box.Start closes the box it could not start; the instance of xray is left.
StartFails(r) ==
    /\ up /\ pc[r] = "startCore" /\ vc # None
    /\ Fault
    /\ box' = [box EXCEPT ![vc].state = IF box[vc].cores = <<"sing">> THEN "closed" ELSE "new"]
    /\ went' = went \cup {"failed"}
    /\ Ends(r)
    /\ UNCHANGED <<up, files, conf, nodes, slices, vc, limiters, edits>>

\* Mutant: the slice is one longer than the nodes.
MakesTooMany(r) ==
    /\ up /\ pc[r] = "makeNodes"
    /\ FreeSlices # {}
    /\ nodes' = AnyOf(FreeSlices)
    /\ slices' = [s \in Slices |-> IF s = nodes' THEN [i \in 1..(Len(conf.nodes) + 1) |-> None]
                                   ELSE IF s \in FreeSlices THEN <<>> ELSE slices[s]]
    /\ at' = [at EXCEPT ![r] = [Nowhere EXCEPT !.i = 1, !.nodes = conf.nodes, !.box = vc]]
    /\ Goto(r, "starting")
    /\ UNCHANGED <<up, files, conf, vc, box, limiters, edits, faults, went>>

\* nodes.Start(c.NodeConfig, vc): the arguments are evaluated, and n.controllers is a
\* new slice of nils.
MakesNodes(r) ==
    /\ up /\ pc[r] = "makeNodes"
    /\ FreeSlices # {}
    /\ nodes' = AnyOf(FreeSlices)
    /\ slices' = [s \in Slices |-> IF s = nodes' THEN [i \in DOMAIN conf.nodes |-> None]
                                   ELSE IF s \in FreeSlices THEN <<>> ELSE slices[s]]
    /\ at' = [at EXCEPT ![r] = [Nowhere EXCEPT !.i = 1, !.nodes = conf.nodes, !.box = vc]]
    /\ Goto(r, "starting")
    /\ UNCHANGED <<up, files, conf, vc, box, limiters, edits, faults, went>>

\* Mutant: the loop takes the address of its variable.
LastNode(r) == at[r].nodes[Len(at[r].nodes)]

HasNode(r) == at[r].i <= Len(at[r].nodes)
Node(r) == at[r].nodes[at[r].i]

\* n.controllers[i] = ..., in the slice the field has now.
InRange(r) == nodes # None /\ at[r].i <= Len(slices[nodes])
CoreIsUp(r) == IF at[r].box = None THEN FALSE ELSE box[at[r].box].state = "up"
Puts(r, state) == slices' = [slices EXCEPT ![nodes][at[r].i] = Controller(Node(r), at[r].box, state)]

\* Mutant: the file is written whether it differs or not.
WritesDnsAlways(n) ==
    IF n.dns = "" THEN UNCHANGED <<dnsFile, event>> ELSE dnsFile' = n.dns /\ event' = TRUE

\* updateDNSConfig in AddNode of the core writes the file if the node's DNS differs,
\* and its directory is watched.  (Assumed: the rules of a node come in one order.  They
\* are a map, so with several of them the file may differ each time.)
WritesDns(n) ==
    IF n.dns \in {"", dnsFile} THEN UNCHANGED <<dnsFile, event>>
                               ELSE dnsFile' = n.dns /\ event' = TRUE

StartsNode(r) ==
    /\ up /\ pc[r] = "starting" /\ HasNode(r)
    /\ InRange(r) /\ CoreIsUp(r)
    /\ limiters' = limiters \cup {Node(r).tag}
    /\ WritesDns(Node(r))
    /\ Puts(r, "up")
    /\ at' = [at EXCEPT ![r].i = @ + 1]
    /\ UNCHANGED <<up, disk, age, conf, nodes, vc, box, pc, edits, faults, went>>

\* panel.New or Controller.Start fails, the latter before the limiter, between it and
\* the DNS file, or after both: the controllers behind this one stay nil.
NodeFails(r) ==
    /\ up /\ pc[r] = "starting" /\ HasNode(r)
    /\ InRange(r)
    /\ \/ Fault /\ went' = went \cup {"failed"}
       \/ ~CoreIsUp(r) /\ at[r].box # None /\ UNCHANGED <<faults, went>>
    /\ \/ UNCHANGED <<dnsFile, event, slices, limiters>>
       \/ Puts(r, "failed") /\ UNCHANGED <<dnsFile, event, limiters>>
       \/ /\ Puts(r, "failed") /\ limiters' = limiters \cup {Node(r).tag}
          /\ UNCHANGED <<dnsFile, event>> \/ WritesDns(Node(r))
    /\ Ends(r)
    /\ UNCHANGED <<up, disk, age, conf, nodes, vc, box, edits>>

\* The field has become nil or shorter, or AddNode uses the managers of a core that is closed or nil.
StartPanics(r) ==
    /\ up /\ pc[r] = "starting" /\ HasNode(r)
    /\ ~InRange(r) \/ ~CoreIsUp(r)
    /\ Panics /\ UNCHANGED <<faults, went>>

\* "Nodes restarted"
Completes(r) ==
    /\ up /\ pc[r] = "starting" /\ ~HasNode(r)
    /\ Ends(r)
    /\ went' = went \cap {"overlap", "lost", "unread"}
    /\ UNCHANGED <<up, files, shared, edits, faults>>

\* The monitor of a controller closes its own task and keeps the mutex (MonitorHangs).
Hangs(s, i) ==
    /\ up /\ slices[s][i] # None /\ slices[s][i].state = "up"
    /\ Fault
    /\ slices' = [slices EXCEPT ![s][i].state = "hung"]
    /\ UNCHANGED <<up, files, conf, nodes, vc, box, limiters, locals, edits, went>>

ReloadStep(r) ==
    \/ Resets(r) \/ Loads(r)
    \/ ClosesNodes(r) \/ ClosesController(r) \/ WaitsForMonitor(r) \/ ClosesNil(r)
    \/ NodesClosed(r) \/ ClosesCore(r) \/ CloseReturnsError(r) \/ ClosesNoCore(r)
    \/ IndexesNoCore(r) \/ MakesCore(r) \/ NewCoreFails(r) \/ GetCorePanics(r)
    \/ StartsCore(r) \/ StartsNoCore(r) \/ StartFails(r)
    \/ MakesNodes(r) \/ StartsNode(r) \/ NodeFails(r) \/ StartPanics(r) \/ Completes(r)

Next ==
    \/ \E c \in Contents : Edit(c)
    \/ FiveSeconds \/ Drops
    \/ \E r \in Reloads : Takes(r) \/ ReloadStep(r)
    \/ \E s \in Slices : \E i \in DOMAIN slices[s] : Hangs(s, i)

\* Time passes, the watcher and the goroutines it starts run; nobody has to edit.
Fairness ==
    /\ WF_vars(FiveSeconds) /\ WF_vars(Drops)
    /\ WF_vars(\E r \in Reloads : Takes(r))
    /\ \A r \in Reloads : WF_vars(ReloadStep(r))

Spec == Init /\ [][Next]_vars
FairSpec == Spec /\ Fairness

-----------------------------------------------------------------------------
Quiet == ~event /\ \A r \in Reloads : pc[r] = "idle"
Tags(c) == {n.tag : n \in Members(c.nodes)}

\* The process ends by a panic only after something failed, a configuration that is
\* not one, or two reloads at once, and a reload that completes makes good for what
\* came before it: the next failure starts from nothing.  (A panel that changes a node
\* while its controller is being closed is another cause, outside this module.)
PanicsHaveCause == ~up => went \cap {"failed", "invalid", "overlap"} # {}

\* When no reload is under way, what runs is what the file says: every node has its
\* controller on the core of that configuration, and its limiter.  The exceptions are
\* what went says, since the last reload that completed: "failed", something outside
\* failed; "invalid", the file was no configuration; "unread", it did not parse and
\* has not been read since; "cores", the core's Close returned an error (always so for
\* two cores, watch.go's reload then gives up); "overlap", two reloads at once; "lost",
\* an edit came within 10 s of an event whose reload had read the file by then.  (The
\* limiter that a monitor's run puts back after the Close is outside this module.)
QuietServesDisk ==
    up /\ Quiet /\ went = {} =>
        /\ disk.ok /\ conf = disk.conf
        /\ vc # None /\ box[vc] = [state |-> "up", cores |-> disk.conf.cores]
        /\ nodes # None /\ Len(slices[nodes]) = Len(disk.conf.nodes)
        /\ \A i \in DOMAIN slices[nodes] :
             \E state \in {"up", "hung"} :
                slices[nodes][i] = Controller(disk.conf.nodes[i], vc, state)
        /\ limiters = Tags(disk.conf)

\* A reload stops what it replaces before it starts the new: unless two reloads
\* overlap, no controller runs outside Node.controllers, none on a core that is not
\* up, and no core but vc is up.
NothingLeftBehind ==
    up /\ "overlap" \notin went =>
        /\ \A s \in Slices : \A c \in Running(s) :
             s = nodes /\ c.box = vc /\ box[vc].state = "up"
        /\ \A b \in Boxes : box[b].state = "up" => b = vc

\* Two nodes that each want the DNS file for themselves.
DnsConflict(c) == \E m, n \in Members(c.conf.nodes) : "" # m.dns /\ m.dns # n.dns /\ n.dns # ""

\* Reloads come to an end: the DNS file a reload writes starts another reload, but
\* that one finds it written.  Not so for nodes with different DNS rules, if a monitor
\* hangs, or past the bound of two reloads that overlap.
Settles ==
    <>[](~DnsConflict(disk))
        => <>[](~up \/ Quiet \/ "overlap" \in went \/ \E r \in Reloads : pc[r] = "stuck")
=============================================================================
