-------------------------- MODULE CertificatesProofs --------------------------
(***************************************************************************)
(* Theorems about Certificates for every number of nodes and files, and for *)
(* any number of changes, failed writes and crashes.                        *)
(***************************************************************************)
EXTENDS Certificates, TLAPS

\* The files a goroutine works on are those its node names.
LEMMA Names ==
    ASSUME NEW p \in Procs, path \in Layouts
    PROVE  p[1] \in Tags /\ Raw(p) \in Files /\ File(p) \in Files /\ User(p) \in UserFiles
  BY CertificatesAssumption DEF Procs, Raw, File, Mode, User

\* The initial state has the types.
LEMMA InitTypeOK == Init => TypeOK
  <1> SUFFICES ASSUME Init PROVE TypeOK OBVIOUS
  <1>1. 1 \in Pairs \cup {Absent, Empty} /\ Absent \in Pairs \cup {Absent, Empty}
    BY CertificatesAssumption DEF Pairs
  <1>2. cert \in [Files -> Pairs \cup {Absent, Empty}]
    BY <1>1 DEF Init
  <1>3. user \in [UserFiles -> {"absent", "empty", "ok"}]
    BY DEF Init
  <1>4. pc \in [Procs -> {"new", "idle"}]
    BY DEF Init, Resting
  <1> QED
    BY <1>1, <1>2, <1>3, <1>4 DEF Init, TypeOK

\* Every step keeps the types.
LEMMA NextTypeOK == TypeOK /\ [Next]_vars => TypeOK'
  <1> SUFFICES ASSUME TypeOK, [Next]_vars PROVE TypeOK' OBVIOUS
  <1> USE CertificatesAssumption DEF TypeOK, config, files
  <1>1. ASSUME NEW p \in Procs PROVE Nil(p) \in {"done", "idle"} /\ Error(p) \in {"failed", "idle"}
    BY DEF Nil, Error
  <1>2. Resting \in [Procs -> {"new", "idle"}]
    BY DEF Resting
  <1>3. CASE Stops /\ UNCHANGED <<config, tls, cert, key, due, user, changes, faults>> /\ crashes' \in Nat
    BY <1>2, <1>3 DEF Stops
  <1>4. ASSUME NEW p \in Procs,
               \/ Starts(p) \/ StartReturns(p) \/ StartFails(p) \/ NodeChanges(p)
               \/ RenewBegins(p) \/ Step(p)
        PROVE  TypeOK'
    <2> USE DEF Goto, Return, Fault
    <2>1. p[1] \in Tags /\ Raw(p) \in Files /\ File(p) \in Files /\ User(p) \in UserFiles
      BY Names
    <2>2. CASE Starts(p) BY <2>1, <2>2 DEF Starts
    <2>3. CASE StartReturns(p) BY <2>1, <2>3 DEF StartReturns
    <2>4. CASE StartFails(p) BY <2>4, <1>3 DEF StartFails
    <2>5. CASE NodeChanges(p) BY <2>1, <2>5 DEF NodeChanges
    <2>6. CASE RenewBegins(p) BY <2>6 DEF RenewBegins
    <2>7. CASE Checks(p) BY <2>7, <1>1 DEF Checks
    <2>8. CASE LoadsUser(p) BY <2>1, <2>8, <1>1 DEF LoadsUser
    <2>9. CASE Registers(p) BY <2>1, <2>9, <1>1 DEF Registers
    <2>10. CASE SavesUser(p) BY <2>1, <2>10, <1>1 DEF SavesUser
    <2>11. CASE Reads(p) BY <2>11, <1>1 DEF Reads
    <2>12. CASE Obtains(p) BY <2>12, <1>1 DEF Obtains
    <2>13. CASE OpensCert(p)
      <3>1. Opened(p, cert[File(p)]) \in Pairs \cup {Absent, Empty}
        BY <2>1 DEF Opened
      <3> QED BY <3>1, <2>13 DEF OpensCert
    <2>14. CASE PutsCert(p) BY <2>14 DEF PutsCert
    <2>15. CASE OpensKey(p)
      <3>1. Opened(p, key[File(p)]) \in Pairs \cup {Absent, Empty}
        BY <2>1 DEF Opened
      <3> QED BY <3>1, <2>15 DEF OpensKey
    <2>16. CASE PutsKey(p) BY <2>16, <1>1 DEF PutsKey
    <2>17. CASE WriteFails(p)
      <3>1. (hurt[File(p)] \/ Writes(p)) \in BOOLEAN /\ (due[File(p)] /\ pc[p] = "openCert") \in BOOLEAN
        BY DEF Writes
      <3>2. hurt' \in [Files -> BOOLEAN] /\ due' \in [Files -> BOOLEAN]
        BY <2>17, <3>1, Zenon DEF WriteFails
      <3> QED BY <2>17, <1>1, <3>2 DEF WriteFails
    <2> QED
      BY <1>4, <2>2, <2>3, <2>4, <2>5, <2>6, <2>7, <2>8, <2>9, <2>10, <2>11, <2>12, <2>13,
         <2>14, <2>15, <2>16, <2>17 DEF Step, FileStep
  <1>5. ASSUME NEW f \in Files, Ages(f) PROVE TypeOK'
    BY <1>5 DEF Ages
  <1>6. CASE Crash BY <1>6, <1>3 DEF Crash
  <1>7. CASE Restart BY <1>7 DEF Restart
  <1>8. CASE UNCHANGED vars BY <1>8 DEF vars
  <1> QED
    BY <1>4, <1>5, <1>6, <1>7, <1>8 DEF Next

\* Types and control points: no step takes the files, the goroutines or the history out
\* of their ranges.
THEOREM TypeCorrect == Spec => []TypeOK
  BY InitTypeOK, NextTypeOK, PTL DEF Spec

-----------------------------------------------------------------------------
\* A file whose last writing was not disturbed has at most one writer.
Lone == \A f \in Files : ~hurt[f] => \A p, q \in Writers(f) : p = q

\* He has put his certificate before he turns to the key.
HalfDone == \A p \in Procs :
    (pc[p] \in {"openKey", "putKey"} /\ ~hurt[File(p)]) => cert[File(p)] = hand[p]

IInv == Lone /\ HalfDone /\ PairMatches

\* The initial state satisfies the inductive invariant.
LEMMA InitIInv == Init => IInv
  BY DEF Init, IInv, Lone, HalfDone, PairMatches, Writers, Writes, Resting

\* A step of a goroutine that neither writes before it nor after it leaves the invariant.
LEMMA QuietStep ==
    ASSUME TypeOK, IInv, NEW p \in Procs,
           UNCHANGED <<config, cert, key, hurt>>,
           ~Writes(p), ~Writes(p)',
           \A q \in Procs \ {p} : pc'[q] = pc[q] /\ hand'[q] = hand[q]
    PROVE  IInv'
  <1>1. \A q \in Procs : File(q)' = File(q)
    BY DEF File, Mode, Raw, config
  <1>2. \A f \in Files : Writers(f)' = Writers(f)
    BY <1>1 DEF Writers, Writes
  <1>3. Lone'
    BY <1>2 DEF IInv, Lone
  <1>4. PairMatches'
    BY <1>2 DEF IInv, PairMatches
  <1>5. HalfDone'
    BY <1>1 DEF IInv, HalfDone, Writes
  <1> QED BY <1>3, <1>4, <1>5 DEF IInv

\* When the process stops, what was being written counts as disturbed.
LEMMA StopsStep ==
    ASSUME TypeOK, IInv, Stops, UNCHANGED <<config, cert, key>>
    PROVE  IInv'
  <1>1. \A p \in Procs : pc'[p] \in {"new", "idle"}
    BY DEF Stops, Resting
  <1>2. \A f \in Files : Writers(f)' = {}
    BY <1>1 DEF Writers, Writes
  <1>3. \A f \in Files : ~hurt'[f] => ~hurt[f] /\ Writers(f) = {}
    BY DEF Stops
  <1>4. Lone'
    BY <1>2 DEF Lone
  <1>5. HalfDone'
    BY <1>1 DEF HalfDone
  <1>6. PairMatches'
    BY <1>3 DEF IInv, PairMatches
  <1> QED BY <1>4, <1>5, <1>6 DEF IInv

\* The steps that write.
LEMMA WriteStep ==
    ASSUME TypeOK, IInv, NEW p \in Procs, FileStep(p)
    PROVE  IInv'
  <1> DEFINE F == File(p)
  <1>1. F \in Files
    BY Names DEF TypeOK
  <1>2. \A q \in Procs : File(q)' = File(q)
    BY DEF File, Mode, Raw, config, FileStep, OpensCert, PutsCert, OpensKey, PutsKey, WriteFails
  <1>3. \A q \in Procs \ {p} : pc'[q] = pc[q] /\ hand'[q] = hand[q]
    BY DEF TypeOK, FileStep, OpensCert, PutsCert, OpensKey, PutsKey, WriteFails, Goto, Return
  <1>4. \A q \in Procs \ {p} : Writes(q)' = Writes(q)
    BY <1>3 DEF Writes
  <1>5. \A f \in Files \ {F} : Writers(f)' = Writers(f)
    BY <1>2, <1>4 DEF Writers
  <1>6. \A f \in Files \ {F} : cert'[f] = cert[f] /\ key'[f] = key[f] /\ hurt'[f] = hurt[f]
    BY DEF TypeOK, FileStep, OpensCert, PutsCert, OpensKey, PutsKey, WriteFails
  <1>7. Nil(p) \notin {"putCert", "openKey", "putKey"} /\ Error(p) \notin {"putCert", "openKey", "putKey"}
    BY DEF Nil, Error
  \* It is enough to look at the file that is written.
  <1>8. SUFFICES /\ ~hurt'[F] => \A q, r \in Writers(F)' : q = r
                 /\ \A q \in Procs : (pc'[q] \in {"openKey", "putKey"} /\ File(q) = F /\ ~hurt'[F])
                                        => cert'[F] = hand'[q]
                 /\ (Writers(F)' = {} /\ ~hurt'[F]) => cert'[F] = key'[F]
    <2>1. Lone'
      <3> SUFFICES ASSUME NEW f \in Files, ~hurt'[f] PROVE \A q, r \in Writers(f)' : q = r
        BY DEF Lone
      <3>1. CASE f = F BY <3>1, <1>2, <1>8 DEF Writers
      <3>2. CASE f # F BY <3>2, <1>5, <1>6 DEF IInv, Lone
      <3> QED BY <3>1, <3>2
    <2>2. ASSUME NEW q \in Procs, pc'[q] \in {"openKey", "putKey"}, ~hurt'[File(q)]
          PROVE  cert'[File(q)] = hand'[q]
      <3>1. CASE File(q) = F
        BY <2>2, <3>1, <1>8
      <3>2. CASE File(q) # F
        <4>1. q # p
          BY <3>2
        <4>2. File(q) \in Files
          BY Names DEF TypeOK
        <4> QED BY <2>2, <3>2, <4>1, <4>2, <1>3, <1>6 DEF IInv, HalfDone
      <3> QED BY <3>1, <3>2
    <2>3. HalfDone'
      BY <2>2, <1>2 DEF HalfDone
    <2>4. PairMatches'
      <3> SUFFICES ASSUME NEW f \in Files, ~hurt'[f], Writers(f)' = {} PROVE cert'[f] = key'[f]
        BY DEF PairMatches
      <3>1. CASE f = F BY <3>1, <1>2, <1>8 DEF Writers
      <3>2. CASE f # F BY <3>2, <1>5, <1>6 DEF IInv, PairMatches
      <3> QED BY <3>1, <3>2
    <2> QED BY <2>1, <2>3, <2>4 DEF IInv
  <1>9. CASE OpensCert(p)
    <2>1. pc[p] = "openCert" /\ pc'[p] = "putCert" /\ (hurt'[F] <=> Writers(F) # {})
      BY <1>9, <1>1 DEF OpensCert, Goto, TypeOK
    <2>2. Writers(F)' = Writers(F) \cup {p}
      BY <1>2, <1>4, <2>1 DEF Writers, Writes
    <2>3. \A q \in Procs : pc'[q] \in {"openKey", "putKey"} /\ File(q) = F => q \in Writers(F)
      BY <1>3, <2>1 DEF Writers, Writes
    <2> QED BY <2>1, <2>2, <2>3
  <1>10. CASE PutsCert(p)
    <2>1. /\ pc[p] = "putCert" /\ pc'[p] = "openKey" /\ hurt' = hurt /\ hand' = hand
          /\ cert'[F] = hand[p]
      BY <1>10, <1>1 DEF PutsCert, Goto, TypeOK
    <2>2. Writers(F)' = Writers(F) /\ p \in Writers(F)
      BY <1>2, <1>4, <2>1 DEF Writers, Writes
    <2>3. \A q \in Procs : pc'[q] \in {"openKey", "putKey"} /\ File(q) = F => q \in Writers(F)
      BY <1>3, <2>1, <2>2 DEF Writers, Writes
    <2>4. ~hurt[F] => \A q, r \in Writers(F) : q = r
      BY <1>1 DEF IInv, Lone
    <2> QED BY <2>1, <2>2, <2>3, <2>4
  <1>11. CASE OpensKey(p)
    <2>1. /\ pc[p] = "openKey" /\ pc'[p] = "putKey" /\ hurt' = hurt /\ hand' = hand
          /\ cert' = cert
      BY <1>11, <1>1 DEF OpensKey, Goto, TypeOK
    <2>2. Writers(F)' = Writers(F) /\ p \in Writers(F)
      BY <1>2, <1>4, <2>1 DEF Writers, Writes
    <2>3. ~hurt[F] => \A q, r \in Writers(F) : q = r
      BY <1>1 DEF IInv, Lone
    <2>4. \A q \in Procs : pc'[q] \in {"openKey", "putKey"} => pc[q] \in {"openKey", "putKey"}
      BY <1>3, <2>1
    <2> QED BY <2>1, <2>2, <2>3, <2>4 DEF IInv, HalfDone
  <1>12. CASE PutsKey(p)
    <2>1. /\ pc[p] = "putKey" /\ pc'[p] = Nil(p) /\ hurt' = hurt /\ cert' = cert
          /\ key'[F] = hand[p]
      BY <1>12, <1>1 DEF PutsKey, Return, Goto, TypeOK
    <2>2. Writers(F)' = Writers(F) \ {p} /\ p \in Writers(F)
      BY <1>2, <1>4, <1>7, <2>1 DEF Writers, Writes
    <2>3. ~hurt[F] => \A q, r \in Writers(F) : q = r
      BY <1>1 DEF IInv, Lone
    <2>4. ~hurt[F] => cert[F] = hand[p]
      BY <2>1 DEF IInv, HalfDone
    <2>5. \A q \in Procs : pc'[q] \in {"openKey", "putKey"} /\ File(q) = F => q \in Writers(F)'
      BY <1>2 DEF Writers, Writes
    <2> QED BY <2>1, <2>2, <2>3, <2>4, <2>5
  <1>13. CASE WriteFails(p)
    <2>1. CASE pc[p] = "openCert"
      <3>1. UNCHANGED <<config, cert, key, hurt>>
        <4>1. cert' = cert /\ key' = key /\ config' = config
          BY <1>13, <2>1 DEF WriteFails
        <4>2. hurt' = [hurt EXCEPT ![F] = @ \/ Writes(p)] /\ ~Writes(p)
          BY <1>13, <2>1 DEF WriteFails, Writes
        <4>3. (hurt[F] \/ Writes(p)) = hurt[F]
          BY <4>2, <1>1 DEF TypeOK
        <4>4. hurt' = hurt
          BY <4>2, <4>3, <1>1 DEF TypeOK
        <4> QED BY <4>1, <4>4
      <3>2. ~Writes(p) /\ ~Writes(p)'
        <4>1. pc'[p] \in {Nil(p), Error(p)}
          BY <1>13 DEF WriteFails, Return, Goto, TypeOK
        <4> QED BY <2>1, <4>1, <1>7 DEF Writes
      <3>3. IInv'
        BY <3>1, <3>2, <1>3, QuietStep
      <3> QED BY <3>3, <1>1, <1>2 DEF IInv, Lone, HalfDone, PairMatches
    <2>2. CASE pc[p] # "openCert"
      <3>1. Writes(p) /\ hurt' = [hurt EXCEPT ![F] = @ \/ Writes(p)]
        BY <1>13, <2>2 DEF WriteFails, Writes
      <3>2. hurt'[F]
        BY <3>1, <1>1 DEF TypeOK
      <3> QED BY <3>2
    <2> QED BY <2>1, <2>2
  <1> QED
    BY <1>9, <1>10, <1>11, <1>12, <1>13 DEF FileStep

\* Every step preserves the inductive invariant.
LEMMA NextIInv == TypeOK /\ IInv /\ [Next]_vars => IInv'
  <1> SUFFICES ASSUME TypeOK, IInv, [Next]_vars PROVE IInv' OBVIOUS
  <1>1. ASSUME NEW p \in Procs,
               \/ Starts(p) \/ StartReturns(p) \/ NodeChanges(p) \/ RenewBegins(p)
               \/ Checks(p) \/ LoadsUser(p) \/ Registers(p) \/ SavesUser(p)
               \/ Reads(p) \/ Obtains(p)
        PROVE  IInv'
    <2> DEFINE Other == {"done", "failed", "idle", "check", "user", "register", "save", "read",
                         "obtain", "openCert"}
    <2>1. Nil(p) \in Other /\ Error(p) \in Other
      BY DEF Nil, Error
    <2>2. UNCHANGED <<config, cert, key, hurt>>
      BY <1>1 DEF files, Starts, StartReturns, NodeChanges, RenewBegins, Checks, LoadsUser,
                  Registers, SavesUser, Reads, Obtains
    <2>3. \A q \in Procs \ {p} : pc'[q] = pc[q] /\ hand'[q] = hand[q]
      BY <1>1 DEF TypeOK, Goto, Starts, StartReturns, NodeChanges, RenewBegins, Checks,
                  LoadsUser, Registers, SavesUser, Reads, Obtains
    <2>4. ~Writes(p)
      BY <1>1 DEF Writes, Starts, StartReturns, NodeChanges, RenewBegins, Checks, LoadsUser,
                  Registers, SavesUser, Reads, Obtains
    <2>5. pc'[p] \in Other
      <3> USE <2>1 DEF TypeOK, Goto
      <3>1. CASE Starts(p) BY <3>1 DEF Starts
      <3>2. CASE StartReturns(p) BY <3>2 DEF StartReturns
      <3>3. CASE NodeChanges(p) BY <3>3 DEF NodeChanges
      <3>4. CASE RenewBegins(p) BY <3>4 DEF RenewBegins
      <3>5. CASE Checks(p) BY <3>5 DEF Checks
      <3>6. CASE LoadsUser(p) BY <3>6, Names DEF LoadsUser
      <3>7. CASE Registers(p) BY <3>7 DEF Registers
      <3>8. CASE SavesUser(p) BY <3>8 DEF SavesUser
      <3>9. CASE Reads(p) BY <3>9 DEF Reads
      <3>10. CASE Obtains(p) BY <3>10 DEF Obtains
      <3> QED BY <1>1, <3>1, <3>2, <3>3, <3>4, <3>5, <3>6, <3>7, <3>8, <3>9, <3>10
    <2>6. ~Writes(p)'
      BY <2>5 DEF Writes
    <2> QED BY <2>2, <2>3, <2>4, <2>6, QuietStep
  <1>2. ASSUME NEW p \in Procs, StartFails(p) PROVE IInv'
    BY <1>2, StopsStep DEF StartFails
  <1>3. ASSUME NEW p \in Procs, FileStep(p) PROVE IInv'
    BY <1>3, WriteStep
  <1>4. CASE Crash BY <1>4, StopsStep DEF Crash
  <1>5. CASE UNCHANGED <<config, cert, key, hurt, pc, hand>>
    BY <1>5 DEF config, IInv, Lone, HalfDone, PairMatches, Writers, Writes, File, Mode, Raw
  <1>6. ASSUME NEW f \in Files, Ages(f) PROVE IInv'
    BY <1>5, <1>6 DEF Ages
  <1>7. CASE Restart BY <1>5, <1>7 DEF Restart, files
  <1>8. CASE UNCHANGED vars BY <1>5, <1>8 DEF vars, files
  <1> QED
    BY <1>1, <1>2, <1>3, <1>4, <1>6, <1>7, <1>8 DEF Next, Step

\* Whatever is started, requested and renewed, however often it fails or crashes: a
\* certificate and its key are a pair unless their last writing was disturbed.
THEOREM PairsMatch == Spec => []PairMatches
  <1>1. IInv => PairMatches
    BY DEF IInv
  <1> QED BY <1>1, InitTypeOK, NextTypeOK, InitIInv, NextIInv, PTL DEF Spec
=============================================================================
