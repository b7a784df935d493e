-------------------------- MODULE ReadGenerations --------------------------
(***************************************************************************)
(* The read publisher of a collection (storage/read_generation.mojo): what *)
(* a snapshot sees while writers go on and sealed runs are merged.         *)
(*                                                                         *)
(* A published root is a chain of immutable runs, oldest first, and a      *)
(* frozen copy of the mutable head.  Nothing is copied out of the writer's *)
(* MemTable once the base is built: the chain has to say the same by the   *)
(* order of its runs and by the slots that newer runs hide.                *)
(*                                                                         *)
(* A run has one slot per ID, so a slot is its ID.  A state of a point is  *)
(* whether it is live and the number of the call that gave it; the sizes   *)
(* in bytes that make a head seal early are left open.  A call holds the   *)
(* writer lock from its write to the MemTable until its record ends        *)
(* (writing); only releases of old roots and the build of a merge go on    *)
(* beside it.                                                              *)
(***************************************************************************)
EXTENDS Naturals, Sequences, FiniteSets

CONSTANTS
  Id,
  HeadMaxPoints,   \* HEAD_MAX_POINTS
  MaxSealedRuns,   \* MAX_SEALED_RUNS
  SealedRunLimit,  \* SEALED_RUN_LIMIT
  MaxSequence,     \* how many calls are accepted (bound)
  MaxGeneration,   \* how many manifests are published (bound)
  MaxViews         \* how many roots readers hold at once (bound)

VARIABLES
  \* the collection: its MemTable, the accepted sequence, its manifest's generation,
  \* and whether it was opened with a maintenance worker
  table, sequence, generation, status, background,
  \* a write between its MemTable change and the end of its record
  writing, todo,
  \* ReadGenerationCache
  layers, head, frozen, recorded, root,
  made,     \* how many runs were made: the identity of the next one
  merge,    \* the runs captured by the worker, or <<>>
  views     \* the roots that readers hold

collection == <<table, sequence, generation, status, background>>
call == <<writing, todo>>
cache == <<layers, head, frozen, recorded, root, made>>
vars == <<collection, call, cache, merge, views>>

State == [live : BOOLEAN, version : Nat]
Absent == [live |-> FALSE, version |-> 0]
Run == [Id -> State]
EmptyRun == [id \in Id |-> Absent]
Layer == [run : Run, key : Nat, hidden : SUBSET Id]

\* Values that are no run and no root.
NoHead == <<>>
NoRoot == <<>>

Holds(run) == {id \in Id : run[id] # Absent}

\* ReadGeneration.find: whether s is the newest state that a chain has of an ID: no newer run than the
\* one that holds it holds any.
Says(chain, id, s) ==
  \/ s = Absent /\ \A i \in DOMAIN chain : chain[i].run[id] = Absent
  \/ /\ s # Absent
     /\ \E i \in DOMAIN chain :
          /\ chain[i].run[id] = s
          /\ \A j \in DOMAIN chain : j > i => chain[j].run[id] = Absent

Newest(chain, id) ==
  CHOOSE s \in {Absent} \cup {chain[i].run[id] : i \in DOMAIN chain} : Says(chain, id, s)

\* ReadLayer.is_visible: the layers in which a scan meets an ID.
Met(chain, id) == {i \in DOMAIN chain : chain[i].run[id].live /\ id \notin chain[i].hidden}

\* _hidden_ordinals and _union: a newer run hides its IDs from the older ones.
Hiding(chain, run) ==
  [i \in DOMAIN chain |->
     [run |-> chain[i].run, key |-> chain[i].key,
      hidden |-> chain[i].hidden \cup (Holds(chain[i].run) \cap Holds(run))]]

Pushed(chain, run, key) ==
  Append(Hiding(chain, run), [run |-> run, key |-> key, hidden |-> {}])

-----------------------------------------------------------------------------
Init ==
  /\ table = EmptyRun /\ sequence = 0 /\ generation = 0 /\ status = "open"
  /\ background \in BOOLEAN
  /\ writing = FALSE /\ todo = {}
  /\ layers = <<>> /\ head = EmptyRun /\ frozen = NoHead /\ recorded = 0
  /\ root = NoRoot /\ made = 0
  /\ merge = <<>> /\ views = {}

\* reset: the next capture builds a new base.
Reset ==
  /\ layers' = <<>> /\ head' = EmptyRun /\ frozen' = NoHead /\ root' = NoRoot
  /\ UNCHANGED <<recorded, made>>

sealed_count == IF layers = <<>> THEN 0 ELSE Len(layers) - 1
merge_due == sealed_count >= MaxSealedRuns

\* The calls in ids' states, as the MemTable gets them.
Written(ids, live) ==
  [id \in Id |-> IF id \in ids THEN [live |-> live[id], version |-> sequence + 1]
                 ELSE table[id]]

\* Mutant: a write that leaves the cached root.
Write_KeepsRoot(ids) ==
  /\ status = "open" /\ ~writing /\ sequence < MaxSequence
  /\ sealed_count < SealedRunLimit
  /\ \E live \in [ids -> BOOLEAN] : table' = Written(ids, live)
  /\ sequence' = sequence + 1
  /\ writing' = (layers # <<>>)
  /\ todo' = IF layers = <<>> THEN {} ELSE ids
  /\ UNCHANGED <<generation, status, background, layers, head, frozen, recorded, root, made,
                 merge, views>>

\* A write that was appended to its log changes the MemTable and begins to be
\* recorded; without a base there is nothing to record.
Write(ids) ==
  /\ status = "open" /\ ~writing /\ sequence < MaxSequence
  /\ sealed_count < SealedRunLimit
  /\ \E live \in [ids -> BOOLEAN] : table' = Written(ids, live)
  /\ sequence' = sequence + 1
  /\ root' = NoRoot
  /\ writing' = (layers # <<>>)
  /\ todo' = IF layers = <<>> THEN {} ELSE ids
  /\ UNCHANGED <<generation, status, background, layers, head, frozen, recorded, made, merge,
                 views>>

\* A batch raises while it is logged or put in the MemTable, which has ids of it by then:
\* the collection refuses every call until it is opened again.
BatchFails(ids) ==
  /\ status = "open" /\ ~writing /\ sequence < MaxSequence
  /\ sealed_count < SealedRunLimit
  /\ \E live \in [ids -> BOOLEAN] : table' = Written(ids, live)
  /\ status' = "failed"
  /\ UNCHANGED <<sequence, generation, background, call, cache, merge, views>>

\* _record_one: the point's state goes to the head, whose frozen copy is stale.
RecordOne(id) ==
  /\ writing /\ id \in todo /\ Cardinality(Holds(head)) < HeadMaxPoints
  /\ head' = [head EXCEPT ![id] = table[id]]
  /\ frozen' = NoHead
  /\ todo' = todo \ {id}
  /\ UNCHANGED <<collection, writing, layers, recorded, root, made, merge, views>>

\* _seal: at the latest when the head is full.
Seal ==
  /\ writing /\ Holds(head) # {}
  /\ layers' = Pushed(layers, head, made + 1)
  /\ made' = made + 1
  /\ head' = EmptyRun /\ frozen' = NoHead
  /\ UNCHANGED <<collection, call, recorded, root, merge, views>>

\* record raises: the write is committed, so the derived state goes.
RecordFails ==
  /\ writing
  /\ Reset
  /\ writing' = FALSE /\ todo' = {}
  /\ UNCHANGED <<collection, merge, views>>

Recorded ==
  /\ writing /\ todo = {} /\ Cardinality(Holds(head)) < HeadMaxPoints
  /\ writing' = FALSE
  /\ UNCHANGED <<collection, todo, merge, views>>

\* record ends; a due merge is left to the worker.
EndRecord ==
  /\ Recorded /\ (merge_due => background)
  /\ recorded' = sequence
  /\ UNCHANGED <<layers, head, frozen, root, made>>

-----------------------------------------------------------------------------
(***************************************************************************)
(* Merging the sealed runs into a new base.                                *)
(***************************************************************************)
\* SealedMerge.build: every run put over the ones before it.
Built(runs) == [id \in Id |-> Newest(runs, id)]

\* Mutant: a base that shows the points of later runs too.
Rebased_Shown(chain, runs, key) ==
  <<[run |-> Built(runs), key |-> key, hidden |-> {}]>>
    \o SubSeq(chain, Len(runs) + 1, Len(chain))

\* publish_merge: the base in place of the runs it was built from, hidden by the
\* runs sealed since.
Rebased(chain, runs, key) ==
  LET base == Built(runs)
      later == SubSeq(chain, Len(runs) + 1, Len(chain))
      hidden == {id \in Holds(base) : \E i \in DOMAIN later : id \in Holds(later[i].run)}
  IN  <<[run |-> base, key |-> key, hidden |-> hidden]>> \o later

\* The capture leads the present chain, run by run.
Current(runs) ==
  /\ Len(runs) <= Len(layers)
  /\ \A i \in DOMAIN runs : layers[i].key = runs[i].key

\* Without a worker the write that made the merge due runs it ...
EndMerging ==
  /\ Recorded /\ merge_due /\ ~background
  /\ recorded' = sequence
  /\ layers' = Rebased(layers, layers, made + 1) /\ made' = made + 1 /\ root' = NoRoot
  /\ UNCHANGED <<head, frozen>>

\* ... and drops the derived state when it raises.
EndMergeFails ==
  /\ Recorded /\ merge_due /\ ~background
  /\ layers' = <<>> /\ head' = EmptyRun /\ frozen' = NoHead /\ root' = NoRoot
  /\ recorded' = sequence
  /\ UNCHANGED made

\* The worker captures under the writer lock, builds outside it ...
CaptureMerge ==
  /\ background /\ ~writing /\ status # "closed" /\ merge = <<>> /\ merge_due
  /\ merge' = layers
  /\ UNCHANGED <<collection, call, cache, views>>

\* ... and publishes under it, unless the publisher was reset or rebuilt meanwhile.
PublishMerge ==
  /\ ~writing /\ merge # <<>>
  /\ IF status # "closed" /\ Current(merge)
     THEN layers' = Rebased(layers, merge, made + 1) /\ made' = made + 1 /\ root' = NoRoot
     ELSE UNCHANGED <<layers, made, root>>
  /\ merge' = <<>>
  /\ UNCHANGED <<collection, call, head, frozen, recorded, views>>

\* The build raises: a failed worker closes every operation of its owner.
MergeFails ==
  /\ merge # <<>> /\ ~writing
  /\ merge' = <<>>
  /\ status' = IF status = "open" THEN "failed" ELSE status
  /\ UNCHANGED <<table, sequence, generation, background, call, cache, views>>

-----------------------------------------------------------------------------
(***************************************************************************)
(* Readers.                                                                *)
(***************************************************************************)
\* The root of a chain and a head.
Rooted(chain, top) ==
  [layers |-> IF Holds(top) = {} THEN chain ELSE Pushed(chain, top, 0),
   generation |-> generation, sequence |-> sequence,
   seen |-> table]     \* history: the MemTable when the root was made

Cached == root # NoRoot /\ root.generation = generation /\ root.sequence = sequence

Room == Cardinality(views) < MaxViews

\* acquire: the cached root if nothing changed.
AcquireCached ==
  /\ status = "open" /\ ~writing /\ Cached /\ Room
  /\ views' = views \cup {root}
  /\ UNCHANGED <<collection, call, cache, merge>>

\* A new root is cached and handed out, unless pinning its manifest's files raises.
Taken(r) ==
  \/ root' = r /\ views' = views \cup {r}
  \/ UNCHANGED <<root, views>>

\* _build_base, and a root of it.
AcquireBase ==
  /\ status = "open" /\ ~writing /\ ~Cached /\ layers = <<>> /\ Room
  /\ layers' = <<[run |-> table, key |-> made + 1, hidden |-> {}]>>
  /\ made' = made + 1
  /\ head' = EmptyRun /\ frozen' = NoHead
  /\ recorded' = sequence
  /\ Taken(Rooted(layers', EmptyRun))
  /\ UNCHANGED <<collection, call, merge>>

\* A root of the runs and of the frozen head, which is copied if it is stale.
AcquireLayers ==
  /\ status = "open" /\ ~writing /\ ~Cached /\ layers # <<>> /\ Room
  /\ recorded = sequence
  /\ LET top == IF Holds(head) # {} /\ frozen # NoHead THEN frozen ELSE head
     IN /\ Taken(Rooted(layers, top))
        /\ frozen' = IF Holds(head) # {} THEN top ELSE frozen
  /\ UNCHANGED <<collection, call, layers, head, recorded, made, merge>>

\* A handle is closed and its last operation ends.
Release(v) ==
  /\ views' = views \ {v}
  /\ UNCHANGED <<collection, call, cache, merge>>

\* A checkpoint or a compaction published a manifest.
Publish ==
  /\ status = "open" /\ ~writing /\ generation < MaxGeneration
  /\ generation' = generation + 1
  /\ root' = NoRoot
  /\ UNCHANGED <<table, sequence, status, background, call, layers, head, frozen, recorded,
                 made, merge, views>>

Close ==
  /\ status # "closed" /\ ~writing
  /\ Reset
  /\ status' = "closed"
  /\ UNCHANGED <<table, sequence, generation, background, call, merge, views>>

Next ==
  \/ \E ids \in SUBSET Id \ {{}} : Write(ids)
  \/ \E ids \in SUBSET Id : BatchFails(ids)
  \/ \E id \in Id : RecordOne(id)
  \/ Seal \/ RecordFails \/ EndRecord \/ EndMerging \/ EndMergeFails
  \/ CaptureMerge \/ PublishMerge \/ MergeFails
  \/ AcquireCached \/ AcquireBase \/ AcquireLayers
  \/ \E v \in views : Release(v)
  \/ Publish \/ Close

Spec == Init /\ [][Next]_vars

-----------------------------------------------------------------------------
(***************************************************************************)
(* Properties.                                                             *)
(***************************************************************************)
\* "The layered view resolves to exactly the writer's committed state": in every
\* root a reader holds, however many writes, seals, merges and resets came after
\* it, find gives each point the state it had in the MemTable, and a scan meets
\* each live point once and no other.
Resolves(v) ==
  \A id \in Id :
    /\ Says(v.layers, id, v.seen[id])
    /\ IF v.seen[id].live
       THEN \E i \in DOMAIN v.layers :
              Met(v.layers, id) = {i} /\ v.layers[i].run[id] = v.seen[id]
       ELSE Met(v.layers, id) = {}

ViewsResolve == \A v \in views : Resolves(v)

\* A snapshot taken now sees every call that returned: the cached root is dropped by
\* every write, and acquire never finds that the publisher missed one.
SnapshotIsCurrent ==
  status = "open" /\ ~writing =>
    /\ root # NoRoot => root.seen = table /\ root.generation = generation
                        /\ root.sequence = sequence
    /\ layers # <<>> => recorded = sequence
=============================================================================
