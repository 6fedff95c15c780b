----------------------------- MODULE MCSingTraffic -----------------------------
(* SingTraffic with two connections, of one user or of two.  The connections are *)
(* interchangeable: one of them belongs to the first user of the list.           *)
EXTENDS SingTraffic

CONSTANT k1

MCInit == Init /\ user[k1] = 1
MCSpec == MCInit /\ [][Next]_vars /\ WF_vars(ReportStep)
=============================================================================
