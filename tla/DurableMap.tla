----------------------------- MODULE DurableMap -----------------------------
(***************************************************************************)
(* What a persistent collection promises its callers (docs/consistency-    *)
(* model.md): a map of points that survives crashes.  Every call takes     *)
(* effect on the durable map as a whole, before it becomes visible; at     *)
(* most the one call in progress separates the two; a crash loses nothing  *)
(* that was visible, and what is recovered is the durable map.             *)
(*                                                                         *)
(* CollectionStore implements this specification.                          *)
(***************************************************************************)
EXTENDS Naturals, Sequences

CONSTANTS Id, Value, Sparse, None, DenseCalls

VARIABLES
  durable,  \* the map a recovery would restore
  open,     \* whether the collection serves calls
  visible   \* the map it serves them from, Empty while it does not

dvars == <<durable, open, visible>>

Empty == [dense |-> [i \in Id |-> None], sparse |-> [i \in Id |-> None]]

\* A mutation writes a point or, with None, deletes it and its sparse field.
Mutated(map, m) ==
  [dense |-> [map.dense EXCEPT ![m.id] = m.val],
   sparse |-> IF m.val = None THEN [map.sparse EXCEPT ![m.id] = None] ELSE map.sparse]

\* A dense call is a sequence of mutations, all or nothing.
Written(map, muts) ==
  LET upto[n \in 0..Len(muts)] == IF n = 0 THEN map ELSE Mutated(upto[n - 1], muts[n])
  IN upto[Len(muts)]

Results(map) ==
  {Written(map, muts) : muts \in DenseCalls}
    \cup {[map EXCEPT !.sparse[i] = s] : i \in {j \in Id : map.dense[j] # None},
                                         s \in Sparse}

DInit == durable = Empty /\ ~open /\ visible = Empty

\* A call becomes durable, as a whole, on top of everything visible.
Commit ==
  /\ open /\ open' /\ durable' # durable
  /\ visible = durable /\ UNCHANGED visible
  /\ durable' \in Results(durable)

Publish == open /\ visible' = durable /\ UNCHANGED <<durable, open>>

\* A crash decides the fate of the call in progress.
Stop ==
  /\ open /\ ~open' /\ visible' = Empty
  /\ durable' = durable \/ (visible = durable /\ durable' \in Results(durable))

Recover == ~open /\ open' /\ visible' = durable /\ UNCHANGED durable

DNext == Commit \/ Publish \/ Stop \/ Recover

DSpec == DInit /\ [][DNext]_dvars
=============================================================================
