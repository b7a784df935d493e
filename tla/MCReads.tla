------------------------------ MODULE MCReads ------------------------------
(* A small instance of ReadGenerations for TLC. *)
EXTENDS ReadGenerations, TLC

\* No point is special.
MCSymmetry == Permutations(Id)
=============================================================================
