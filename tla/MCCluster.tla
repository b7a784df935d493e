----------------------------- MODULE MCCluster -----------------------------
(* Small instances of DistributedCluster for TLC. *)
EXTENDS DistributedCluster

CONSTANTS r1, r2, m1, m2, m3, k1

\* Every mutation writes the one point.
MCOneKey == [m \in Mutation |-> k1]

MCThree == <<1, 2, 3>>
MCTwo == <<1, 2>>

\* Two requests on one point, and the ID of the first reused for the second's
\* mutation, or for one that the collection refuses.
MCCalls == {<<r1, m1>>, <<r2, m2>>, <<r1, m2>>}
MCRefusedCalls == {<<r1, m1>>, <<r2, m2>>, <<r1, m3>>}
MCOneCall == {<<r1, m1>>}
=============================================================================
