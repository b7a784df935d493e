----------------------------- MODULE MCRecords -----------------------------
(* A small instance of LogicalRecords for TLC. *)
EXTENDS LogicalRecords, TLC

I(size) == [type |-> "int", size |-> size]
F(size) == [type |-> "float", size |-> size]
T == [type |-> "bool", size |-> ONE]
S == [type |-> "str", size |-> ONE]

E(term, weight) == [term_id |-> term, weight |-> weight]
A(name, type, value) == [name |-> name, type |-> type, value |-> value]

First == [id |-> I(ONE), vector |-> <<F(ONE)>>, fields |-> <<>>, sparse |-> <<>>]

\* What a client may send, most of it refused somewhere.
Vectors == {<<F(TWO)>>, <<F(TINY)>>, <<I(WIDE)>>, <<F(VAST)>>, <<F(HUGE)>>, <<T>>, <<>>,
            <<F(ONE), F(ONE)>>}
Payloads == {<<A("a", "float", I(VAST)), A("b", "string", S)>>, <<A("a", "int", I(WIDE))>>,
             <<A("a", "int", T)>>, <<A("a", "bool", T), A("a", "bool", T)>>,
             <<A("nul", "bool", T)>>, <<A("", "bool", T)>>, <<A("a", "date", S)>>}
Sparses == {<<E(I(ONE), F(ONE)), E(I(TWO), I(WIDE))>>, <<E(I(TWO), F(ONE)), E(I(ONE), F(ONE))>>,
            <<E(I(ONE), F(ONE)), E(I(ONE), F(ONE))>>, <<E(I(ONE), F(ZERO))>>,
            <<E(I(ONE), F(TINY))>>, <<E(I(ZERO), F(VAST))>>, <<E(I(NEGATIVE), F(ONE))>>,
            <<E(I(WIDE), F(ONE))>>, <<E(F(ONE), F(ONE))>>, <<E(I(ONE), F(HUGE))>>}
Points ==
  {First, [First EXCEPT !.id = I(TWO)], [First EXCEPT !.id = I(WIDE)], [First EXCEPT !.id = F(ONE)]}
    \cup {[First EXCEPT !.vector = v] : v \in Vectors}
    \cup {[First EXCEPT !.fields = p] : p \in Payloads}
    \cup {[First EXCEPT !.sparse = s] : s \in Sparses}
    \cup {[First EXCEPT !.vector = <<F(TWO)>>, !.sparse = <<E(I(ONE), F(ZERO))>>]}

MCMutations ==
  {[operation |-> "upsert", id |-> p.id, vector |-> p.vector, fields |-> p.fields,
    sparse |-> p.sparse] : p \in Points}
    \cup {[operation |-> "delete", id |-> i] : i \in {I(ONE), I(WIDE)}}
    \cup {[operation |-> "merge", id |-> I(ONE)]}

\* Exports that were written by hand: no payload whose value is not of its type.
MCFiles ==
  {<<[First EXCEPT !.sparse = s]>> : s \in Sparses} \cup {<<[First EXCEPT !.vector = <<F(VAST)>>]>>}
    \cup {<<[First EXCEPT !.id = F(TINY), !.sparse = <<E(I(ONE), F(ONE))>>],
            [First EXCEPT !.sparse = <<E(I(ONE), F(TINY))>>]>>}

\* Nothing, or the first point with a sparse vector.
MCContents ==
  {Empty, ONE :> [vector |-> <<TWO>>, fields |-> <<>>,
                  sparse |-> <<[term_id |-> ZERO, weight |-> TWO]>>]}
=============================================================================
