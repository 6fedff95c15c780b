------------------------------ MODULE MCTraffic ------------------------------
(***************************************************************************)
(* Values for checking Traffic with TLC.                                   *)
(***************************************************************************)
EXTENDS Traffic

CONSTANT First

\* Users are interchangeable: it is enough to begin with lists headed by one of
\* them.
MCInit == Init /\ userList[1] = First
MCSpec == MCInit /\ [][Next]_vars /\ Fairness
=============================================================================
