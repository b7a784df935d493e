----------------------------- MODULE MCStorage -----------------------------
(* A small instance of ShardStorage for TLC. *)
EXTENDS ShardStorage, TLC

CONSTANTS q1, m1, m2, k1, k2

MCKeyOf == (m1 :> k1) @@ (m2 :> k2)
MCEntries == {[index |-> 1, req |-> q1, mut |-> m1], [index |-> 2, req |-> q1, mut |-> m2]}
MCConfigs == {<<1, 1>>}
=============================================================================
