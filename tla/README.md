# Verification of V2bX

TLA+ models of the node backend, TLC configurations that check them on small
instances, and TLAPS proofs of what matters most for every instance.  Paths are
relative to the repository's `src/`.

Check a model with `tlc -config X.cfg M`, a proof with `tlapm MProofs.tla`.
`PROJECT.json` lists the runs, the source lines of every definition, the
hazards, the findings and the theorems.

## 1. The system

V2bX runs proxy nodes for a panel.  For each node a *controller* fetches the
node's configuration and user list, gives them to a proxy *core* (xray or
sing-box), and from then on follows the panel's changes and reports traffic.
A *limiter* per node bounds the connections, addresses and speed of each user.

| Part | State | Operations | Talks to |
|---|---|---|---|
| Periodic task (`common/task`) | mutex, `running`, `timer` | Start, Close, checkedExecute, callbacks | its owner's Execute, called under the mutex |
| Controller (`node/controller.go`, `task.go`, `user.go`) | `info`, `userList`, `tag`, `limiter`, `traffic`, tasks | Start, Close, nodeInfoMonitor, reportUserTrafficTask | panel client, core, limiter |
| Panel client (`api/panel`) | ETags | GetNodeInfo, GetUserList, ReportUserTraffic | the panel, over HTTP with retries |
| Limiter registry (`limiter/limiter.go`, `clear.go`, `rule.go`, `dynamic.go`) | limiter of each tag; user limits, buckets, rules | AddLimiter, DeleteLimiter, UpdateUser, CheckLimit | called by connections and controllers at once |
| Connection limiter (`limiter/conn.go`) | `count` and `ip`, sync.Maps | AddConnCount, DelConnCount, ClearOnlineIP | connections; a cleaner every 2 minutes |
| xray core (`core/xray`) | inbounds, outbounds, users, counters | AddNode, DelNode, AddUsers, DelUsers, GetUserTraffic | its dispatcher, which asks the limiter |
| sing-box core (`core/sing`) | inbounds, hook, counters | the same | its hook, which asks the limiter |
| Selector (`core/selector.go`) | which core runs which tag | the same, forwarded | the cores |
| Reload (`conf/watch.go`, `cmd/server.go`, `node/node.go`) | file events, controllers, core | Watch, the reload callback, Start, Close | everything above |
| Certificates (`node/cert.go`, `lego.go`) | two files | requestCert, CreateCert, RenewCert | an ACME server, the file system |
| Parsers (`conf`, `common/json5`) | none | decoding of files | - |

What is hard here is what several goroutines do to shared maps without a lock
around the whole operation (the limiter, the counters), callbacks that call back
into what called them (a task that restarts itself), calls that fail half way
through a change, answers kept before they are applied (ETags), and reloads that
race with what they replace.  The list, line by line, is `hazards` in
`PROJECT.json`.

What makes each part correct:

* Task: Execute never overlaps itself; a running task runs again; a closed one dies out.
* Controller: the monitor and the report keep running; Controller.Close leaves no report
  running, and the monitor dies out after it.
* Connection limiter: no connection is forgotten, no place is kept for ever, a
  limit refuses exactly at the limit.
* Node synchronisation: the core runs the node, users and limits the controller
  believes in, and these become the panel's; nobody is let in without a limiter
  until the controller is closed.
* Traffic: no byte is booked twice or for somebody else, and none is lost, but where
  the code is known to give one up.  The counters of sing-box: the same, with
  other places at which bytes are given up.
* Dispatcher and hook: a place is given back once, to the limiter it came from, by
  whichever exit the connection leaves; sniffing does not change the stream.
* Speed limits: the connections of a user share one bucket, at the limit the panel
  has set for him or his node.
* Cores: a node that was added listens as the panel says and lets in its users;
  nothing listens for a node that was not.
* Reload: what runs is what the file says; what a reload replaces is stopped, and
  reloads come to an end.
* Certificates: the pair of files matches; a certificate that is due is renewed.

## 2. Modules

| Module | Models | Composes |
|---|---|---|
| `Task` | `common/task/task.go` | |
| `ControllerTasks` | startTasks, the interval changes of nodeInfoMonitor, Controller.Close | two instances of `Task` |
| `ConnLimiter` | `limiter/conn.go` and its callers | implements `ConnQuota` |
| `ConnQuota` | the promise of the connection limit | |
| `NodeSync` | Controller.Start, nodeInfoMonitor and Controller.Close beside it, the ETag client, the xray core's nodes and users, the limiter's user limits | uses that the monitor is alone (`Task`) |
| `Traffic` | the xray counters, reportUserTrafficTask, the monitor beside it, the POST and its retries | uses that monitor and report are alone |
| `SingTraffic` | the counters of the sing-box core (`core/sing/hook.go`, `user.go`, `common/counter`) | stands where `Traffic` has the xray counters |
| `Dispatch` | the life of a connection in the xray dispatcher and the sing-box hook, CheckLimit, buckets and rules, beside the controller that replaces them | has `ConnLimiter` as one step |
| `Cores` | Selector, and AddNode, DelNode, AddUsers, DelUsers of both cores | several controllers at once |
| `Reload` | the watcher, the reload callback, Node.Start and Close, the life of the cores | has a controller as one object, with the hanging monitor of `ControllerTasks` |
| `Certificates` | `node/cert.go`, `node/lego.go`, with crashes | |
| `MCConnLimiter`, `MCTraffic`, `MCSingTraffic`, `MCDispatch`, `MCCores`, `MCReload`, `MCCertificates` | configurations and symmetry for TLC | |
| `MonitorProofs` | theorems and proofs about `Task` and `NodeSync`, the monitor and its body | |
| `ControllerProofs` | theorems and proofs about `Reload` and `ControllerTasks`, which make and run the controllers | |
| `ConnLimiterProofs`, `TrafficProofs`, `SingTrafficProofs`, `DispatchProofs`, `CoresProofs`, `CertificatesProofs` | theorems and proofs about the module of that name | |

A definition marked *Mutant* is a wrong variant of the definition that follows
it.  No specification uses it: putting it in the other's place must violate the
property `PROJECT.json` names, which shows that the property depends on that code.
Variables marked *history* are written, and read by properties only.

### Task

One action per critical section.  A section that does not call Execute is
atomic, taken when the mutex is free; Execute runs from `ExecuteBegin` to
`ExecuteReturns` or `ExecuteFails` with the mutex held by `owner`.  `HasClosed`
and what follows are separate steps because the code gives the mutex back in
between.  A timer and the goroutine of its callback are one element of `Timers`:
`armed` is the timer, the rest the goroutine; it is free again when the callback
returns.  `timer` is the pointer `Task.timer`: Close stops what it points to and
nothing else, so after Close and Start two chains of callbacks may run side by
side for a while.  Two things a reader of the code may not expect are in the model
without a property of their own: `Start(true)` executes at once instead of
waiting (`task.go:32-39`), and an Execute that fails clears `running` and tells
nobody.

### ControllerTasks

The monitor `M` and the report `R` are instances of `Task`; `Main` is the
goroutine of Controller.Start and Close, `Body` the monitor's Execute, which
calls Start and Close of both.  When the body closes `M` it waits for the mutex
that `M` holds for it.  The assignment of `PullInterval` to the report's interval
is in `BodyChecksPush`, as in the code (`node/task.go:149`).  `late` (history) says
that a callback which had passed its test ran the monitor after its Close
(`common/task/task.go:28`): the one way in which a report runs on after
Controller.Close, which otherwise waits for the monitor before it closes the
report.  The names of the
specification begin with `Tasks` (`TasksSpec`), those of `NodeSync` with `Sync`, because
a proof module extends each together with another specification.

### ConnLimiter

One action per Load, Store, LoadOrStore, Delete and Range of the two sync.Maps;
locals (`v`, `held`) are variables, and so is the configuration (`conf`), which
never changes: one run covers several.  The inner maps are a heap, because a
goroutine may hold one that is no longer in `ip`.  A key of an inner map may be
a *user*: DelConnCount stores under the wrong key (`limiter/conn.go:124`).  A
connection's kind tells who calls what: the dispatcher counts TCP and calls Del
for it (`tcp`), neither for UDP (`udp`); the sing-box hook counts packet
connections as TCP and never gives them back (`packet`).  Range over an inner map
to count the entries is one step; the Range of ClearOnlineIP is one step per key.
An Add that refuses for the address has counted the connection already
(`conn.go:83`), and ClearOnlineIP compares a time with a minute from now
(`conn.go:153-154`): both are in the model.

### NodeSync

Each call of nodeInfoMonitor that can fail or that connections can observe is an
action; its two results are `newN`, `newU` (`None` is nil).  A list is a set of
uuid and speed limit, an ETag is the content it stands for.  `served` is what the
core lets in, `limits` the UserLimitInfo of Controller.limiter, `registered`
whether the tag finds that limiter.  A failure takes one of `Faults` and enters
`failed`; a core that fails half way through a list has done any part of it.
Controller.Start is one step: nothing observes it half done, and one that fails is
not repeated with the same client; it fails for a list of nobody.

The panel may list nobody.  The answer is then nil or an empty slice (`UserAnswers`),
its ETag is kept (`api/panel/user.go:45`), and without a new node it is dropped as
"nothing new" (`node/task.go:159`).  `lost` (history) has the answers that were kept
as fetched and dropped unused, until a later one takes their place: such a list, and
the node fetched before a GetUserList that fails.

Controller.Close runs in another goroutine, in two steps: it deletes the limiter
without the monitor's mutex (`CloseDeletesLimiter`), and then its Close of the monitor
waits for the run in progress (`CloseStopsMonitor`); `closing` is how far it is.
In between that run may add the limiter again, and so may the one callback that comes
`late`.  The module ends where vc.Close would come.

### Traffic

A connection takes the user's counter when it begins (`Connects`), or registers it
(`Registers`); if another has registered it in between, the connection is never
counted (a *stray*).  DelUsers unregisters counters: connections that write to them
become strays too.  The report reads and resets one user's counter (`Takes`), and
reads the list a second time for his id (`Books`); `n` is the length that range
evaluated.  The monitor assigns userList at any moment between two of these steps.
`Answered`, `Refused` and `NoAnswer` are the ends of a request; after no answer
the client sends it again, up to `Retries` times, whether or not the panel has it.

The accounting property is exact: `over` and `under` name the users for whom it is
given up, and the only steps that enlarge them are those that lose or double
traffic in the code: a list replaced in the middle of a walk (any user), a user
deleted or given another speed limit with traffic in his counter, one who leaves
the list with a node change, a connection that loses the race to register a
counter, a report refused or never answered, and a report sent again although it
arrived.  For everybody else the properties say that booked, posted, taken and
counted traffic add up to what was carried.

### SingTraffic

`counter` is the TrafficCounter that `HookServer.counter` has for the node,
`counters` the map of each, `value` the TrafficStorages.  A connection goes
`store`, `find`, `put`, `live`: it loads the TrafficCounter or stores a new one
(`hook.go:77-81`), looks its user up under the read lock, and writes the map
without a lock (`traffic.go:24-31`).  `Adds` and `Sets` are the two ways in which
`ConnCounter` counts: ReadBuffer, WriteBuffer and the count functions add, Read and
Write set the counter to their last length, 0 at the end of a stream
(`conn.go:36-46`).  The report looks up, reads, looks up again in Reset, and clears;
a new storage may be made by Reset too.  `under` has the users of whom the code
gives bytes up: a counter replaced by that of another first connection, one set
when it was not 0, one that has grown between the read and the reset.  A map written while
another goroutine uses it ends the process (`MapOverlaps`).

### Dispatch

A connection is a record with its place in the code (`check`, `limit`, `bucket`,
`sniff`, `route`, `rules`, `live`), the limiter it holds and what it owes; for the
hook the rules come first.  Limiters are a heap, because a connection keeps the
one it found while the controller deletes it from the registry and adds another.
`Kinds` are the ways in: TCP and UDP of xray's Dispatch, its DispatchLink, the
connections and packet connections of the hook.  The controller changes a user's limit in the
three steps of the code (AddUsers of the core, then UpdateUser, which deletes and
stores), a node's limiter in the two around AddNode, and fills the rules after it
has made a slice of nils.  `stream` follows the chunks of a TCP connection from the
pipe over the cache of the sniffer to the handler.  The panics of the code are
actions: a rule that is still nil, the nil limiter of the hook, ReadPacket of a
limited packet connection, which calls itself.  What CheckLimit finds for a user
(`UserLimit`) is his limit in xray, and nothing in sing, whose hook asks by uuid
(`hook.go:67`) for what is stored by tag and uuid (`limiter.go:63`).  History: `due`, the
limit a connection should get by what the panel says, in either core, or None while the
controller is changing it; `others`,
users that had another limit in the same limiter (the first bucket stays); `missed`,
users whose limit changed together with a named node (the limiter stays); `leaked`,
places of packet connections, which the hook never gives back.

### Cores

Each tag has a controller, which goes through AddNode (`Selects`, `Builds`,
`AddsInbound` or `StartsInbound` and `Stores`, `Attaches`), AddUsers, and then changes
of users and nodes.  A node is what decides over success, failure and panic
in buildInbound and getInboundOptions: type, network, whether NetworkSettings are absent, good
or bad, security, and of the file Core, CoreName, a usable CertMode and the
fallback.  `Candidates` is the choice of the selector: by name, by type, or any that
knows the protocol; a range over a map makes it nondeterministic.  `Manages` is the test
of GetUserManager that the inbound's proxy is a `proxy.UserManager`: all that the
program builds are, but for the socks server of xray-core, so that a socks node on
xray listens and its AddUsers is an error.  `Reparse`
is the second UnmarshalJSON of the options.  History: `asked`, the node whose
AddNode returned nil last, and `trouble`, what has failed since.

### Reload

One element of `Reloads` is one goroutine of the watcher; it walks through the
callback of `cmd/server.go` in the order of the code, and shares `conf`, `nodes`
and `vc` with the others, without a lock, as the code does.  Controllers are in slices,
and cores in boxes, both a heap: a goroutine that sleeps in one may find them
replaced.  `age` counts the two periods of 5 s since an event was accepted.  A node with
DNS rules writes the DNS file, whose directory is watched.  History: `went`
has what explains a state in which things are not as they should be: `lost` (an edit
within 10 s of an event whose reload had read the file), `unread` and `invalid`
(a file that does not parse, with which the reload goes on as far as it was decoded, or
one that names no core, which NewCore indexes at 0, `core/core.go:22`), `failed`
(something outside), `cores` (Close of the selector returns an error always), `overlap`
(two reloads at once).  A reload that completes takes back what it made good.  The
nodes' configurations on the panel stay what they are, so that the monitors change
nothing: what a run of a monitor does to the limiter of a controller that is being
closed is in `NodeSync`, and that a late one uses a core after its Close (a panic in
xray) is in neither.

### Certificates

Of each node one goroutine requests (`requestCert`, at the start and when the
monitor finds a new node) and one renews; a step is a call that can fail or an access to a
file.  A pair is a number, an obtained certificate and its key have the same one;
`Empty` is a file that was truncated and not yet written.  A layout tells which
files a node names (`raw`) and which writeCert writes after it has replaced
`{domain}` and `{email}` (`parsed`); nodes may name the same.  `Crash` and `StartFails` end the
process, the files stay.  `hurt` (history) marks a file whose last writing was cut
short, failed, or overlapped with another.

## 3. Runs

| Run | Checks | Bounds |
|---|---|---|
| `MCTask` | TypeOK, ExecuteAlone, RunningIsAlive, ChainsBounded, RunsAgain, ClosedDiesOut, CallsReturn | 2 callers, 3 timers, 2 starts, Execute may fail |
| `MCControllerTasks` | CloseStopsReport, ReportKeepsRunning, CloseReturns, ClosedMonitorDiesOut | 1 node change, PullInterval 1, PushInterval 0-2 |
| `MCLimiterRaces` | TypeOK, CountInRange | 2 connections and the cleaner, all overlapping; 2 connections and 1 address allowed |
| `MCLimiterSerial` | CountCoversLive, LiveIpOnRecord, IpsWithinLimit, RecordsWithinLimit, IsQuota (refinement), IpsGivenBack | 3 connections of a user, 3 addresses, one operation at a time; 3 connections from 2 addresses or 2 connections in real time, or 1 address with times |
| `MCNodeSync` | RunsInfo, NobodyWithoutLimiter, ServesUserList, Converges | 2 nodes, lists of 2 users or fewer, 3 speeds, 2 edits, 2 failures of any call, 1 Close |
| `MCTraffic` | NeverOverbooked, NothingLost, AllBooked | 2 users, 2 connections, 2 bytes, 1 change of the list, 1 failed request, 1 repetition |
| `MCSingTraffic` | Accounted, AllReported | 2 users, 2 connections and the report, all overlapping, 2 bytes |
| `MCDispatch` | PlacesMatch, OneBucket, LimitedInForce, StreamKept | both cores, 2 connections of 1 user, 3 limiters, limits 0 and 2, node limits 0 and 1, 2 places, 2 chunks, 2 changes |
| `MCCores` | ServesAsAsked, NoStrayListener | 1 node of 41 kinds and 8 files beside a plain one; xray, sing or both; 2 users, 2 changes, 2 failures |
| `MCReload` | PanicsHaveCause, QuietServesDisk, NothingLeftBehind, Settles | 2 reloads, 6 contents, 3 slices, 3 cores, 2 edits, 1 failure |
| `MCCertificates` | PairMatches, DueIsRenewed | 2 nodes, the same files or a template, 6 pairs, 1 change, 1 failure, 1 crash |
| `MCMonitorHangs` | violation: MonitorRunsPeriodically | a new PullInterval |

The last run checks what a comment of the code says and the code does not do; it
is quoted under `findings`.

Why the bounds are enough.  Two callers and two starts reach every overlap of a
leftover callback with a new chain, a third timer the moment at which the leftover
arms again.  `MaxChanges = 1` lets one monitor run restart each task; later changes
repeat it.  In the limiter every race is between two operations on one user and
the cleaner; a third connection reaches the limit from below and from above, and
users meet in no map but the outer one.  `MaxEntry` bounds the counts that the
shared-address defect makes grow, `MaxClock` the times.  Two edits are enough for a
change that arrives while another is applied, two failures for one that meets what
another left behind.  In `MCTraffic` two bytes are one that is counted and one that
comes while the first is in the report; two users are one who is deleted or replaced
and one to be confused with; the list begins with a given user because users are
interchangeable.  In `MCSingTraffic` two connections and the report are the three
that can meet in a map, and one connection is of the first user because connections
are interchangeable.  In `MCDispatch` three limiters are one in the registry
and one that each connection still holds; two changes are a replacement
that meets another's leftovers.  In `MCReload` two reloads are enough for one that
reads what the other is replacing (a third one is excluded by a guard, which is
named), three slices and cores for two that are in use and a new one.  In
`MCCertificates` six pairs are never all in use; one crash leaves whatever a crash
can leave, and the processes that follow go on from it.

Deadlock is checked but in the runs whose cfg says otherwise.  `MCMonitorHangs`: the
monitor's self-deadlock (the finding) stops the model as it stops the program.
`MCNodeSync`: a controller that is closed does nothing any more.
`MCSingTraffic`, `MCDispatch`, `MCCores` and `MCReload`: a panic ends the process,
and with it the behaviour; so does, in `MCCores`, a controller with no change left, and in `MCReload` a
configuration that is edited no more.  `MCCertificates`: without renewals
nothing has to happen.  `MCControllerTasks` has a single PullInterval, so that the
monitor never closes itself; a report panic ends `Traffic` in a state that stutters
(`Ended`).

Fairness.  `Task`: timers fire and Execute returns (weak fairness; its HTTP
requests have a timeout); a goroutine that waits for the mutex gets it (strong
fairness: `sync.Mutex` hands itself to a waiter that has starved for 1 ms).
`ControllerTasks` asks less of the callbacks: only that some callback of a task
goes on.  Nothing makes Main close the controller.  `ConnLimiter`: operations end,
connections end, the cleaner runs; the begin of an operation is strongly fair
because the bound `MaxBusy`, not the code, may delay it.  Nobody has to connect.
`NodeSync`: the monitor is run again and its calls return, as `MCTask` and
`MCControllerTasks` show for a task whose interval does not change.  `Traffic`: the
report is run again and again, and a change of the list once begun is finished;
connections owe nothing; the same for `SingTraffic`.  `Reload`: time passes, the
watcher takes or drops an event that waits, and a goroutine that can take a step does
(weak fairness; calls of the panel have a timeout).  Nobody has to edit.  `Certificates`: the
renewals alone, a timer and calls with a timeout; whether the process is started again, or a
node changes, is open.  `Dispatch` and `Cores` are checked for safety only.

Conditions of the passing runs are part of what they show.  `MCLimiterSerial` runs
operations one at a time, because with overlapping ones the limits do not hold;
connections are `tcp` and `udp`, and IpsGivenBack excepts users with several
connections from one address in real time.  ServesUserList speaks of states before a call of
the core fails, and Converges of behaviours in which only the two requests fail, the
controller is not closed, and no answer stays lost, because after the rest the code does
not recover.  RunsInfo and NobodyWithoutLimiter promise the registered limiter only until
Controller.Close begins.  `MCNodeSync` has no fixed
node name: with one, a node change leaves the limits of the former users in place,
and ServesUserList would fail.  `Traffic` has one tag and no failing core calls;
`SingTraffic` has a list that stays, because the core's AddUsers and DelUsers leave
the counters alone.  In `Reload` the DNS rules of a node come in one order: they are a map,
and with several the file may differ each time it is written.

### Known deviations

What the code does and a reader of its names, comments or examples may not expect.
The models have each of these; the properties except them by name.

* `limiter/conn.go:28`: Adds that overlap may all pass ConnLimit.
* `limiter/conn.go:83`: a connection refused for its address keeps its place.
* `limiter/conn.go:103`: with EnableRealtime off counts never go down.
* `limiter/conn.go:124`: with several connections from an address the new count is
  stored under the user, and the address is never given back.
* `limiter/limiter.go:63`, `core/sing/hook.go:67`: a user's own limit is stored by tag and
  uuid and looked up by uuid alone: users of sing-box are kept to the node's limit only.
* `limiter/limiter.go:140`: the first bucket of a user stays, whatever limit comes later.
* `limiter/rule.go:31`: a connection that meets the rules while they are filled
  calls a nil regexp.
* `node/task.go:69`, `api/panel/node.go:256`: a node fetched is lost when GetUserList
  fails, because its ETag is kept.
* `node/task.go:159`, `api/panel/user.go:45`: a list of nobody is fetched once and taken
  for "nothing new": the users who were there are served until the panel has another
  list, or for ever.
* `node/controller.go:99`: Controller.Close deletes the limiter while the core still
  serves the users, until vc.Close; a run of the monitor that is under way, or late, may add
  it again, and a late one may start the report again.
* `node/task.go:90`: a named node keeps the limiter, and the limits, of its former users.
* `node/task.go:144`: the monitor waits for its own mutex (`MCMonitorHangs`).
* `core/sing/hook.go:52`: without a limiter the hook calls a nil one.  Its packet
  connections keep their places for ever.
* `common/rate/conn.go:48`: ReadPacket calls itself.
* `common/counter/conn.go:38`: Read and Write set the counter instead of adding to it.
* `core/selector.go:109`: DelNode of the selector asserts that a Core is a string.
* `core/core.go:14`: the test for no cores is `len < 0`; Selector.Close never
  returns a nil error, so that no reload completes with two cores.
* `core/xray/inbound.go:66`: a vmess or vless node without NetworkSettings meets a nil
  StreamSetting; `:75`: the settings of "ws" are replaced.  A node file without
  "Core" on a single core has no options at all, which xray reads through a nil pointer.
* `core/xray/user.go:23`: the socks server of xray-core is no `proxy.UserManager`, so that
  AddUsers fails for every socks node on xray, though `buildSocks` builds the inbound and
  `SOCKS5_README.md` describes such nodes.  (Read from the library named in `go.mod`,
  which is not in the repository.)
* `core/xray/node.go:31`: an AddNode that fails half way leaves its inbound listening.
* `core/sing/node.go:234`: controllers write the map of inbounds without a lock.
* `conf/watch.go:27`: edits within 10 s of an event are dropped, though their reload
  may have read the file already; `:31`: reloads that take longer overlap.
* `node/cert.go:18`, `node/lego.go:147`: nodes with the same files write them at
  once; a crash leaves an empty certificate that is taken for an existing one, and
  write errors are swallowed (`lego.go:101`, `:122`).  An ACME user file that is empty is
  an error from then on.  A path with `{domain}` or `{email}` is never found by
  requestCert and RenewCert.  A node that gets TLS after its start is never renewed.

## 4. Proofs

* **Task** (`MonitorProofs`).  The invariant is TypeOK, "the mutex has an owner
  exactly while its owner is executing", and RunningIsAlive.  ExecuteRunsAlone follows
  from the second part.  RunningIsAlive is inductive with it: a goroutine that
  leaves while `running` is set has armed another, and nobody clears the mutex
  under Execute.  ChainsBounded needs a stronger count: the goroutines between
  Start and the end of its chain, which `CallStart` raises by one with `starts`
  and in which a goroutine hands its place to the timer it arms.
* **NodeSync** (`MonitorProofs`).  CoreRunsInfo and NobodyIsUnlimited: between
  DelNode and AddNode the core has nothing under the tag and `info` is already
  the new node; outside, what it runs is `info`.  That a limiter is registered is
  claimed until Controller.Close begins and at no later step, whatever the run in progress
  does then.  UserListIsServed assumes that
  the node has no fixed name; each step of the difference of two lists is half of
  it done, and the two lemmas on `compareUserList` and `UpdateUser` say that the
  halves make the new list.  SyncTypeCorrect holds by itself.
* **ControllerTasks** (`ControllerProofs`).  TasksTypeCorrect says, beside the types, that
  the body calls Close and Start while it is Execute, so with the monitor's mutex held.
  CloseStops rests on that: whoever executes owns the mutex (OwnerRuns), so when
  Main's Close of the monitor returns no body is under way and the monitor is not
  running (MonitorStopped).  From there on a body can only begin as `late`, and without
  one nobody but Main touches the report, which its own Close has stopped.
* **ConnLimiter** (`ConnLimiterProofs`).  TypeCorrect and CountStaysInRange hold
  whatever overlaps: what a goroutine has loaded and not yet stored is itself in range
  (below the limit for Add, at least 1 for Del), so that a Store based on an old value
  stays in range too.  The others assume `MaxBusy = 1`, that operations do not overlap,
  as the properties do: with overlaps they are false (section 3).  Their invariant,
  SerialInv, has four parts that the properties do not state.  An operation in progress
  is alone, so what it has loaded is what the maps hold (Loaded, ClearStands).
  Users share no inner map.  The count covers connections that have been counted
  and are not yet given back, and not the live ones only (CountCovers).  The
  entry of an address is at least twice the number of its TCP connections (RecordCovers):
  that is why ClearOnlineIP, which deletes an entry of 1, and DelConnCount, which deletes one of
  2, take no address somebody else is using.  RecordsFit bounds the addresses from
  above; in real time the keys that are users (`conn.go:124`) are left out, since
  they are there in addition.  ImplementsQuota is a step simulation: Add asks when it
  begins, and is answered when it looks at the count (refused) or stores it (admitted),
  where the count must be *exact* and not only cover the connections.  So it assumes
  that every connection counted is given back: no packet connections, and real time
  wherever connections alone are limited; without either, counts stay too high
  (section 3), and Add refuses what the quota admits.
  The instance of `MCLimiterSerial` meets all of these.
* **Reload** (`ControllerProofs`), all three invariants.  None of them is inductive: they
  speak of states between reloads, or of what is up.  The invariant says what one reload
  that is alone has done at each of its positions (Progress): Node.Close has stopped
  the controllers before index `i`; between Node.Close and Node.Start there are none; in
  newCore nothing is up; Node.Start has put and started the controllers before
  `i`, and the others are nil.  With it go who owns the limiters (LimitersFrom), that a nil
  in Node.controllers or no core at all has a cause in `went` (Whole), and that
  nothing wrong since the last completed reload means that everything is served (Served).  All
  this is claimed only while reloads have not overlapped (Alone); after an overlap
  little but the types is left, and the properties promise nothing.  Fresh, that the
  file read last is the one on disk unless an event waits or was lost, holds
  even then.  NoPanicWithoutCause needs both: ClosesNil and ClosesNoCore panic only where
  Whole names the cause, and at the position of StartsNoCore there is a core.  The proof found that a file which parses and names
  no core makes NewCore panic without any of the causes that the property named; such
  a file is `invalid` in the model, and `MCReload` has one.
* **Traffic** (`TrafficProofs`).  NobodyIsOverbooked and EveryByteIsKept: the two
  sums are invariant once it is known that a counted connection has a registered
  counter, that a user with strays is in `under`, and (`Walk`) that in a walk over
  a list that stays, those still to come have no row yet: a row is overwritten by
  `Books`, and would lose what it held.  That the list names each user once is
  what makes `Books` preserve this.  The locals that these do not need (Locals) complete
  TypeOK.
* **SingTraffic** (`SingTrafficProofs`).  Accounted needs: what a goroutine is about to put in
  a map is fresh (no other holds it and it is 0), so that a replaced storage leaves
  nothing to be found; what the report has read or will read is covered by what was
  carried (ReportFits), beside the storage that counts if that is another one; and of a
  user of whom nothing was given up every connection holds the storage that counts.
  No sum is needed: a storage that has been replaced never counts again.
* **Dispatch** (`DispatchProofs`), all four invariants.  The types, where a connection
  of each kind may be, and that it owes a DelConnCount in exactly the states after
  `Routes` (TCP) or `TakesBucket` (hook), are inductive together (IInv); the controller
  touches of a connection only what is due to it, and replaces only limiters nobody
  holds.  PlacesCorrect: a step of one connection changes the places of a user by the
  one it gets or had (ConnectsNet), and the set of holders likewise (HoldersMove).
  SharesBucket: a bucket in use is the one its limiter has, as LoadOrStore keeps the
  first.  LimitCorrect: what the limiters store is what the panel has set, unless it is being
  changed; so what is due is what the connection will load, has loaded, or has taken (in
  sing, where the node's limit is the one due), and the bucket of
  a user who has had one limit in a limiter has that rate.  StreamCorrect: each step
  moves chunks between neighbours of `got`, `cache` and `pipe`, by associativity.
* **Cores** (`CoresProofs`), both invariants.  ServesCorrect says too that what was added is
  no socks node: its AddUsers returns an error, so it is never what was `asked`.  They are inductive with where a node is:
  in the core its controller has called and in no other, listening only from the inbound's
  start to DelNode, which holds because a selector with several cores panics at
  DelNode and one with a single core always calls that one (OneCore).  Served adds the
  users who are due: those of both lists between DelUsers and AddUsers.  Every step
  changes the node of one controller and leaves the others as they are (Frame).
* **Certificates** (`CertificatesProofs`).  PairsMatch needs two facts beside the
  property: a file that is not `hurt` has at most one writer, and between the
  two writes of that one the certificate, once written, is the pair in its hand.  The
  last write brings the key to it; a step that is cut short sets `hurt`.

The assumptions are the `ASSUME`s of each module: types of the constants, and
that names used as nil are not values.  The bounds (`MaxStarts`, `MaxBusy`,
`MaxFaults`, ...) are constants of arbitrary size in the proofs.

Every invariant and every refinement that a passing run checks is proved.  Only
model-checked are the liveness properties, which are out of the prover's reach (RunsAgain,
ClosedDiesOut, CallsReturn, ReportKeepsRunning, CloseReturns, ClosedMonitorDiesOut,
IpsGivenBack, Converges, AllBooked, AllReported, Settles, DueIsRenewed).  `SyncTypeOK` (NodeSync),
`TasksTypeOK` (ControllerTasks) and TypeOK of `Traffic` are proved, and listed in no run.

## 5. Not modelled

What an inbound, outbound or DNS configuration contains beyond what decides over
success and the settings kept (data translation), the order of the outbounds of
sing-box, which are started once, the wire protocols, sniffers' patterns and the
transport of the cores (libraries), the stripping of comments in the configuration,
logging, shell scripts, the one-shot commands, and `api/iprecoder`, which nothing
creates.  The dynamic speed limit task is made by startTasks and never started, so that no
dynamic limit is ever set.  `Options.Name` is not checked for uniqueness.

## 6. Plan

1. Proofs: ImplementsQuota for limits that are not in real time, with an abstract
   quota that never gives back; a second abstract specification for the limit of
   addresses.
2. A composition of `NodeSync` with `Reload`, in which a panel changes a node while its
   controller is being closed, and a late run of the monitor meets the closed core.
3. Pure algorithms: `Json5` (the comment stripper), the destination override of
   the sniffer, compareUserList on sequences with duplicates.
4. A composition of `NodeSync` with `Cores`, in which the monitor of a node
   meets the half-done states of a core.
