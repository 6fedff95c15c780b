---------------------------- MODULE MCConnLimiter ----------------------------
(***************************************************************************)
(* Values for checking ConnLimiter with TLC.                               *)
(***************************************************************************)
EXTENDS ConnLimiter, TLC

Limits(c, i, r) == [conn |-> c, ip |-> i, realtime |-> r]

\* A limit that two connections reach, and one address for each user.
Tight == {Limits(2, 1, TRUE)}

\* Limits that three connections reach, counted or timed.
Wide == {Limits(3, 2, TRUE)}

\* Connections alone, in real time; addresses alone, with the times.  And all three.
Single == {Limits(2, 0, TRUE), Limits(0, 1, FALSE)}
Both == Single \cup Wide

\* The inner maps are interchangeable, and so are the connections, which start alike.
Symmetry == Permutations(Maps) \cup Permutations(Conns)
=============================================================================
