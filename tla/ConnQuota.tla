------------------------------ MODULE ConnQuota ------------------------------
(***************************************************************************)
(* What ConnLimiter promises of the connection limit: a connection asks,   *)
(* and is admitted if the user has fewer counted connections than limit,   *)
(* refused if he has not; there is no state but the connections.           *)
(***************************************************************************)
EXTENDS Naturals, FiniteSets

CONSTANTS Conns, Users

VARIABLES
    limit,    \* how many connections a user may have
    phase,    \* "out", "asking" or "in"
    user,     \* whose connection it is
    counted   \* whether it counts

vars == <<limit, phase, user, counted>>

In(u) == {k \in Conns : phase[k] = "in" /\ user[k] = u /\ counted[k]}

Init ==
    /\ limit \in Nat
    /\ phase = [k \in Conns |-> "out"]
    /\ user \in [Conns -> Users]
    /\ counted \in [Conns -> BOOLEAN]

Goto(k, p) ==
    /\ phase' = [phase EXCEPT ![k] = p]
    /\ UNCHANGED <<limit, user, counted>>

Ask(k) == phase[k] = "out" /\ Goto(k, "asking")
Admit(k) == phase[k] = "asking" /\ Cardinality(In(user[k])) < limit /\ Goto(k, "in")
Refuse(k) == phase[k] = "asking" /\ Cardinality(In(user[k])) >= limit /\ Goto(k, "out")
Leave(k) == phase[k] = "in" /\ Goto(k, "out")

Next == \E k \in Conns : Ask(k) \/ Admit(k) \/ Refuse(k) \/ Leave(k)

Spec == Init /\ [][Next]_vars
=============================================================================
