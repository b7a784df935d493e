------------------------------ MODULE MCQuery ------------------------------
(* A small instance of QueryMerge for TLC. *)
EXTENDS QueryMerge

\* The sums for a rank constant of 1 and ranks up to 2: 1/2 and 1/3, in sixths.
MCFusedScore(dense, sparse) ==
  LET share == <<0, 3, 2>> IN share[dense + 1] + share[sparse + 1]

\* -1 is the largest unsigned ID.
MCId == {-1, 0, 1}

MCRequests ==
  {[mode |-> m, metric |-> d, k |-> k, fetch_k |-> f] :
     m \in {"exact", "sparse", "hybrid"}, d \in {"l2", "dot"}, k \in {1, 2}, f \in {2}}
=============================================================================
