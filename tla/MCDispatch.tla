------------------------------ MODULE MCDispatch ------------------------------
(* Dispatch with connections that may be exchanged for one another: only a set *)
(* of connections and the buckets they made tell them apart.                   *)
EXTENDS Dispatch, TLC

Symmetry == Permutations(Conns)
=============================================================================
