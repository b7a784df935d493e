------------------------------ MODULE MCStore ------------------------------
(* Small instances of CollectionStore for TLC. *)
EXTENDS CollectionStore, TLC

MCWrites == [id : Id, val : Value \cup {None}]

\* Every single write, and the batches that delete a point and then write it
\* again or write another one.
MCSingles == {<<w>> : w \in MCWrites}
MCBatches ==
  {<<w, u>> : w \in {x \in MCWrites : x.val = None}, u \in MCWrites}
    \ {<<w, w>> : w \in MCWrites}
MCCalls == MCSingles \cup MCBatches

\* No point is special.
MCSymmetry == Permutations(Id)
=============================================================================
