----------------------------- MODULE Certificates -----------------------------
(***************************************************************************)
(* The certificate and key files of the nodes: requestCert, when a          *)
(* controller starts and when its monitor finds a new node, and             *)
(* renewCertTask, each day; the user file of the ACME client; crashes at    *)
(* any point.  Controllers may name the same files, and run beside one      *)
(* another.  The files are the state that survives the process.             *)
(***************************************************************************)
EXTENDS Integers, FiniteSets

CONSTANTS
    Tags,       \* nodes, with a controller each: their places in the configuration
    Files,      \* names of a certificate file and its key file
    UserFiles,
    Modes,      \* CertMode of each node: "none" stands for "file", "acme" for "dns" and "http"
    Layouts,    \* which files each node names, and where they are written
    MaxPairs,   \* bound of the model: pairs of certificate and key
    MaxChanges, \* bound of the model: nodes the monitors find changed
    Faults,     \* bound of the model: failed calls and writes
    Crashes     \* bound of the model

\* raw: the path as written; parsed: with {domain} and {email} replaced, which only
\* writeCert does.
ASSUME CertificatesAssumption ==
    /\ Tags \subseteq Nat
    /\ Modes \subseteq [Tags -> {"none", "self", "acme", "bad"}]
    /\ Layouts \subseteq [Tags -> [raw : Files, parsed : Files, user : UserFiles]]
    /\ MaxPairs \in Nat \ {0} /\ MaxChanges \in Nat /\ Faults \in Nat /\ Crashes \in Nat

VARIABLES
    up,
    mode, path,     \* CertConfig of each node
    tls,            \* whether the node has Security Tls
    started,        \* controllers whose Start has returned
    renews,         \* those with a renewCertPeriodic
    pc, hand,       \* of each goroutine: where it is, and the pair it has obtained
    cert, key, due, \* of each file: contents; whether at most 30 days are left
    user,           \* of each user file: "absent", "empty" or "ok"
    changes, faults, crashes,
    hurt            \* history: of each file, whether its last writing was disturbed

config == <<mode, path>>
files == <<cert, key, due, hurt>>
vars == <<up, config, tls, started, renews, pc, hand, files, user, changes, faults, crashes>>

Absent == -1
Empty == 0      \* or cut short
Pairs == 1..MaxPairs

\* requestCert of the start and of the monitor, which follows it; and the renewal.
Procs == Tags \X {"request", "renew"}
Mode(p) == mode[p[1]]
Raw(p) == path[p[1]].raw
File(p) == IF Mode(p) = "self" THEN Raw(p) ELSE path[p[1]].parsed     \* what p writes
User(p) == path[p[1]].user

Resting == [p \in Procs |-> IF p[2] = "request" THEN "new" ELSE "idle"]
Writes(p) == pc[p] \in {"putCert", "openKey", "putKey"}
Writers(f) == {p \in Procs : Writes(p) /\ File(p) = f}

Init ==
    /\ up = TRUE
    /\ mode \in Modes /\ path \in Layouts
    /\ tls \in [Tags -> BOOLEAN]
    /\ started = {} /\ renews = {}
    /\ pc = Resting /\ hand = [p \in Procs |-> Absent]
    /\ cert \in {c \in [Files -> {Absent, 1}] :
                   \A f \in Files : c[f] = 1 => \E p \in Procs : File(p) = f}
    /\ key = cert
    /\ due = [f \in Files |-> FALSE]
    /\ user \in [UserFiles -> {"absent", "ok"}]
    /\ changes = 0 /\ faults = 0 /\ crashes = 0
    /\ hurt = [f \in Files |-> FALSE]

Fault == faults < Faults /\ faults' = faults + 1
Goto(p, l) == pc' = [pc EXCEPT ![p] = l]
Starting(p) == p[2] = "request" /\ p[1] \notin started

\* The call returns nil, or an error, which ends the process in Controller.Start and is
\* logged by the tasks.
Nil(p) == IF Starting(p) THEN "done" ELSE "idle"
Error(p) == IF Starting(p) THEN "failed" ELSE "idle"
Return(p, l) == Goto(p, l) /\ hand' = [hand EXCEPT ![p] = Absent]

-----------------------------------------------------------------------------
(* The process *)

\* Node.Start starts one controller after another; requestCert is called under Tls.
Starts(p) ==
    /\ up /\ pc[p] = "new"
    /\ \A t \in Tags : t < p[1] => t \in started
    /\ Goto(p, IF tls[p[1]] THEN "check" ELSE "done")
    /\ UNCHANGED <<up, config, tls, started, renews, hand, files, user, changes, faults, crashes>>

\* startTasks: whether there is a renewal is decided once.
StartReturns(p) ==
    /\ up /\ pc[p] = "done"
    /\ Goto(p, "idle")
    /\ started' = started \cup {p[1]}
    /\ renews' = IF tls[p[1]] /\ Mode(p) = "acme" THEN renews \cup {p[1]} ELSE renews
    /\ UNCHANGED <<up, config, tls, hand, files, user, changes, faults, crashes>>

Stops ==
    /\ up' = FALSE
    /\ started' = {} /\ renews' = {}
    /\ pc' = Resting /\ hand' = [p \in Procs |-> Absent]
    /\ hurt' = [f \in Files |-> hurt[f] \/ Writers(f) # {}]

StartFails(p) ==
    /\ up /\ pc[p] = "failed"
    /\ Stops
    /\ UNCHANGED <<config, tls, cert, key, due, user, changes, faults, crashes>>

Crash ==
    /\ up /\ crashes < Crashes /\ crashes' = crashes + 1
    /\ Stops
    /\ UNCHANGED <<config, tls, cert, key, due, user, changes, faults>>

Restart ==
    /\ ~up /\ up' = TRUE
    /\ UNCHANGED <<config, tls, started, renews, pc, hand, files, user, changes, faults, crashes>>

\* nodeInfoMonitor finds a new node.
NodeChanges(p) ==
    /\ up /\ pc[p] = "idle" /\ p[2] = "request"
    /\ changes < MaxChanges /\ changes' = changes + 1
    /\ \E x \in BOOLEAN :
         /\ tls' = [tls EXCEPT ![p[1]] = x]
         /\ Goto(p, IF x THEN "check" ELSE "idle")
    /\ UNCHANGED <<up, config, started, renews, hand, files, user, faults, crashes>>

\* The timer of renewCertPeriodic.
RenewBegins(p) ==
    /\ up /\ pc[p] = "idle" /\ p[2] = "renew" /\ p[1] \in renews
    /\ Goto(p, "user")
    /\ UNCHANGED <<up, config, tls, started, renews, hand, files, user, changes, faults, crashes>>

-----------------------------------------------------------------------------
(* requestCert and RenewCert *)

Exists(p) == cert[Raw(p)] # Absent /\ key[Raw(p)] # Absent

Checks(p) ==
    /\ up /\ pc[p] = "check"
    /\ Goto(p, IF Mode(p) = "bad" THEN Error(p)
               ELSE IF Mode(p) = "none" \/ Exists(p) THEN Nil(p)
               ELSE IF Mode(p) = "acme" THEN "user" ELSE "obtain")
    /\ UNCHANGED <<up, config, tls, started, renews, hand, files, user, changes, faults, crashes>>

\* NewLegoUser: a file that is not JSON is an error.
LoadsUser(p) ==
    /\ up /\ pc[p] = "user"
    /\ Goto(p, CASE user[User(p)] = "absent" -> "register"
                 [] user[User(p)] = "empty" -> Error(p)
                 [] user[User(p)] = "ok" -> IF p[2] = "renew" THEN "read" ELSE "obtain")
    /\ UNCHANGED <<up, config, tls, started, renews, hand, files, user, changes, faults, crashes>>

\* registerUser, and User.Save as far as the OpenFile that truncates.
Registers(p) ==
    /\ up /\ pc[p] = "register"
    /\ \/ /\ user' = [user EXCEPT ![User(p)] = "empty"]
          /\ Goto(p, "save") /\ UNCHANGED faults
       \/ Fault /\ Goto(p, Error(p)) /\ UNCHANGED user
    /\ UNCHANGED <<up, config, tls, started, renews, hand, files, changes, crashes>>

SavesUser(p) ==
    /\ up /\ pc[p] = "save"
    /\ \/ /\ user' = [user EXCEPT ![User(p)] = "ok"]
          /\ Goto(p, IF p[2] = "renew" THEN "read" ELSE "obtain") /\ UNCHANGED faults
       \/ Fault /\ Goto(p, Error(p)) /\ UNCHANGED user
    /\ UNCHANGED <<up, config, tls, started, renews, hand, files, changes, crashes>>

\* Mutant: the test of CheckCert is the wrong way round.
ReadsFresh(p) ==
    /\ up /\ pc[p] = "read"
    /\ Goto(p, IF cert[Raw(p)] \notin Pairs \/ due[Raw(p)] THEN Nil(p) ELSE "obtain")
    /\ UNCHANGED <<up, config, tls, started, renews, hand, files, user, changes, faults, crashes>>

\* RenewCert: without a file, with one that does not parse, and with one that has more
\* than 30 days left it returns.
Reads(p) ==
    /\ up /\ pc[p] = "read"
    /\ Goto(p, IF cert[Raw(p)] \notin Pairs \/ ~due[Raw(p)] THEN Nil(p) ELSE "obtain")
    /\ UNCHANGED <<up, config, tls, started, renews, hand, files, user, changes, faults, crashes>>

\* A pair that nothing else in the model holds.
Used(f) == {cert[f], key[f]} \cup {hand[p] : p \in {q \in Procs : File(q) = f}}

\* Obtain and Renew, which makes a new key too; or the certificate of "self".
Obtains(p) ==
    /\ up /\ pc[p] = "obtain"
    /\ \/ /\ \E x \in Pairs \ Used(File(p)) :
                /\ \A y \in Pairs \ Used(File(p)) : x <= y
                /\ hand' = [hand EXCEPT ![p] = x]
          /\ Goto(p, "openCert") /\ UNCHANGED faults
       \/ Fault /\ Goto(p, Error(p)) /\ UNCHANGED hand
    /\ UNCHANGED <<up, config, tls, started, renews, files, user, changes, crashes>>

-----------------------------------------------------------------------------
(* writeCert, and the end of generateSelfSslCertificate *)

\* os.WriteFile truncates; the OpenFile of "self" only makes a file.
Opened(p, content) == IF Mode(p) = "self" /\ content # Absent THEN content ELSE Empty

OpensCert(p) ==
    /\ up /\ pc[p] = "openCert"
    /\ cert' = [cert EXCEPT ![File(p)] = Opened(p, @)]
    /\ due' = [due EXCEPT ![File(p)] = FALSE]
    /\ hurt' = [hurt EXCEPT ![File(p)] = Writers(File(p)) # {}]
    /\ Goto(p, "putCert")
    /\ UNCHANGED <<up, config, tls, started, renews, hand, key, user, changes, faults, crashes>>

PutsCert(p) ==
    /\ up /\ pc[p] = "putCert"
    /\ cert' = [cert EXCEPT ![File(p)] = hand[p]]
    /\ due' = [due EXCEPT ![File(p)] = FALSE]
    /\ Goto(p, "openKey")
    /\ UNCHANGED <<up, config, tls, started, renews, hand, key, hurt, user, changes, faults, crashes>>

\* Mutant: a key that is there is kept.
OpensKeyIfAbsent(p) ==
    /\ up /\ pc[p] = "openKey"
    /\ IF key[File(p)] = Absent
       THEN /\ key' = [key EXCEPT ![File(p)] = Empty]
            /\ Goto(p, "putKey") /\ UNCHANGED hand
       ELSE Return(p, Nil(p)) /\ UNCHANGED key
    /\ UNCHANGED <<up, config, tls, started, renews, cert, due, hurt, user, changes, faults, crashes>>

OpensKey(p) ==
    /\ up /\ pc[p] = "openKey"
    /\ key' = [key EXCEPT ![File(p)] = Opened(p, @)]
    /\ Goto(p, "putKey")
    /\ UNCHANGED <<up, config, tls, started, renews, hand, cert, due, hurt, user, changes, faults, crashes>>

PutsKey(p) ==
    /\ up /\ pc[p] = "putKey"
    /\ key' = [key EXCEPT ![File(p)] = hand[p]]
    /\ Return(p, Nil(p))
    /\ UNCHANGED <<up, config, tls, started, renews, cert, due, hurt, user, changes, faults, crashes>>

\* CreateCert and RenewCert throw the error away.
WriteFails(p) ==
    /\ up
    /\ \/ pc[p] \in {"openCert", "openKey"} /\ UNCHANGED <<cert, key>>
       \/ pc[p] = "putCert" /\ cert' = [cert EXCEPT ![File(p)] = Empty] /\ UNCHANGED key
       \/ pc[p] = "putKey" /\ key' = [key EXCEPT ![File(p)] = Empty] /\ UNCHANGED cert
    /\ due' = [due EXCEPT ![File(p)] = @ /\ pc[p] = "openCert"]
    /\ hurt' = [hurt EXCEPT ![File(p)] = @ \/ Writes(p)]
    /\ Fault
    /\ Return(p, IF Mode(p) = "self" THEN Error(p) ELSE Nil(p))
    /\ UNCHANGED <<up, config, tls, started, renews, user, changes, crashes>>

\* Time passes, while the process is up or not.
Ages(f) ==
    /\ cert[f] \in Pairs /\ ~due[f]
    /\ due' = [due EXCEPT ![f] = TRUE]
    /\ UNCHANGED <<up, config, tls, started, renews, pc, hand, cert, key, hurt, user,
                   changes, faults, crashes>>

FileStep(p) == OpensCert(p) \/ PutsCert(p) \/ OpensKey(p) \/ PutsKey(p) \/ WriteFails(p)
Step(p) ==
    \/ Checks(p) \/ LoadsUser(p) \/ Registers(p) \/ SavesUser(p) \/ Reads(p) \/ Obtains(p)
    \/ FileStep(p)

Next ==
    \/ \E p \in Procs : \/ Starts(p) \/ StartReturns(p) \/ StartFails(p) \/ NodeChanges(p)
                        \/ RenewBegins(p) \/ Step(p)
    \/ \E f \in Files : Ages(f)
    \/ Crash
    \/ Restart

\* The timer of a renewal fires, and its calls return.
Renewal(p) == RenewBegins(p) \/ Step(p)
Fairness == \A p \in Tags \X {"renew"} : WF_vars(Renewal(p))

Spec == Init /\ [][Next]_vars
FairSpec == Spec /\ Fairness

-----------------------------------------------------------------------------
TypeOK ==
    /\ up \in BOOLEAN
    /\ mode \in Modes /\ path \in Layouts
    /\ tls \in [Tags -> BOOLEAN]
    /\ started \subseteq Tags /\ renews \subseteq Tags
    /\ pc \in [Procs -> {"new", "done", "failed", "idle", "check", "user", "register", "save",
                         "read", "obtain", "openCert", "putCert", "openKey", "putKey"}]
    /\ hand \in [Procs -> Pairs \cup {Absent}]
    /\ cert \in [Files -> Pairs \cup {Absent, Empty}]
    /\ key \in [Files -> Pairs \cup {Absent, Empty}]
    /\ due \in [Files -> BOOLEAN] /\ hurt \in [Files -> BOOLEAN]
    /\ user \in [UserFiles -> {"absent", "empty", "ok"}]
    /\ changes \in Nat /\ faults \in Nat /\ crashes \in Nat

\* When nobody writes them, a certificate file and its key file hold a pair, whatever
\* was started, requested, renewed or failed before: but when the last writing was cut by
\* a crash or a failed write, or was not the only one at its time.
PairMatches == \A f \in Files : (Writers(f) = {} /\ ~hurt[f]) => cert[f] = key[f]

\* A certificate with a renewal does not stay due: unless the process keeps stopping, or
\* the ACME client cannot load its user.
DueIsRenewed == \A p \in Tags \X {"renew"} :
    []<>~(p[1] \in renews /\ cert[Raw(p)] \in Pairs /\ due[Raw(p)] /\ user[User(p)] # "empty")
=============================================================================
