--------------------------- MODULE LogicalRecords ---------------------------
(***************************************************************************)
(* The records that carry points between collections: the mutations of the *)
(* replicated journal (protocol.py, replica.py), the rows of a shard       *)
(* snapshot (replica.py) and the lines of a logical export (operations.py).*)
(* Each has a validator of its own in Python; the kernel that stores the   *)
(* points has another, behind a conversion to Int64, Float32 and Float64.  *)
(* A point's dense half (vector and payload) and its sparse half go to the *)
(* kernel in two calls, each durable when it returns.                      *)
(*                                                                         *)
(* A number is its Python type and its place on a scale; what the          *)
(* validators and the conversions tell apart are the places below.         *)
(* Python's conversions to int and float move nothing but TINY, or raise.  *)
(*                                                                         *)
(* Commits reach the replica in the order of their indexes here;           *)
(* DistributedCluster has the other orders.                                *)
(***************************************************************************)
EXTENDS Integers, Sequences, FiniteSets

NEGATIVE == -1
ZERO == 0
TINY == 1     \* not zero, but zero as a Float32
ONE == 2
TWO == 3
WIDE == 4     \* too large for an Int64
VAST == 5     \* too large for a Float32
HUGE == 6     \* too large for a Float64: an int no float holds, or infinity

Size == NEGATIVE..HUGE
Number == {v \in [type : {"int", "float", "bool", "str"}, size : Size] :
             v.type = "int" => v.size # TINY}

CONSTANTS
  dimension,
  Mutations,    \* the mutations clients replicate
  Files,        \* logical exports not written by export_ndjson
  Contents,     \* what the collection that receives the copies holds at first
  MaxJournal,   \* how many mutations are committed (bound)
  MaxCopies     \* how many snapshots and imports there are (bound)

Field == [name : STRING, type : STRING, value : Number]
Term == [term_id : Number, weight : Number]
Record == [id : Number, vector : Seq(Number), fields : Seq(Field), sparse : Seq(Term)]

\* What a collection holds of a point, and a collection.
Point == [vector : Seq(Size), fields : Seq([name : STRING, type : STRING, size : Size]),
          sparse : Seq([term_id : Size, weight : Size])]
Collection(c) ==
  /\ DOMAIN c \subseteq NEGATIVE..TWO /\ c = [id \in DOMAIN c |-> c[id]]
  /\ \A id \in DOMAIN c : c[id] \in Point

ASSUME RecordsAssumption ==
  /\ dimension \in Nat \ {0}
  /\ \A m \in Mutations :
       /\ m.operation \in STRING /\ m.id \in Number
       /\ m.operation = "upsert" =>
            /\ m.vector \in Seq(Number) /\ m.fields \in Seq(Field) /\ m.sparse \in Seq(Term)
  /\ Files \subseteq Seq(Record)
  /\ \A c \in Contents : Collection(c)
  /\ MaxJournal \in Nat /\ MaxCopies \in Nat

Numbers(type, seq) == [i \in 1..Len(seq) |-> [type |-> type, size |-> seq[i]]]
All(seq, P(_)) == \A i \in 1..Len(seq) : P(seq[i])
Distinct(seq) == \A i, j \in 1..Len(seq) : seq[i] = seq[j] => i = j

-----------------------------------------------------------------------------
(***************************************************************************)
(* The kernel: what it takes and what it then holds.  A collection maps    *)
(* point IDs to points; a point without a sparse vector has the empty one. *)
(***************************************************************************)
Float32(size) ==
  CASE size = TINY -> ZERO
    [] size >= VAST -> HUGE
    [] OTHER -> size

TakesId(v) == v.size < WIDE

TakesField(f) ==
  /\ f.name \notin {"", "nul"}   \* "nul" stands for a name with a NUL in it
  /\ f.type \in {"string", "int", "float", "bool"}
  /\ f.type = "int" => f.value.size < WIDE

TakesPoint(p) ==
  /\ TakesId(p.id)
  /\ Len(p.vector) = dimension /\ All(p.vector, LAMBDA v : Float32(v.size) < HUGE)
  /\ All(p.fields, TakesField)
  /\ Distinct([i \in 1..Len(p.fields) |-> p.fields[i].name])

\* validate_sparse
TakesSparse(elements) ==
  /\ elements # <<>>
  /\ \A i \in 1..Len(elements) :
       /\ elements[i].term_id.size \in ZERO..TWO
       /\ i > 1 => elements[i - 1].term_id.size < elements[i].term_id.size
       /\ Float32(elements[i].weight.size) \notin {ZERO, HUGE}

Empty == [id \in {} |-> <<>>]

StoredField(f) == [name |-> f.name, type |-> f.type, size |-> f.value.size]
StoredTerm(e) == [term_id |-> e.term_id.size, weight |-> Float32(e.weight.size)]

\* Replacing the default dense vector and the payload keeps the sparse vector.
Upserted(c, p) ==
  [id \in DOMAIN c \cup {p.id.size} |->
     IF id # p.id.size THEN c[id]
     ELSE [vector |-> [i \in 1..Len(p.vector) |-> Float32(p.vector[i].size)],
           fields |-> [i \in 1..Len(p.fields) |-> StoredField(p.fields[i])],
           sparse |-> IF id \in DOMAIN c THEN c[id].sparse ELSE <<>>]]

WithSparse(c, id, elements) ==
  [c EXCEPT ![id.size].sparse = [i \in 1..Len(elements) |-> StoredTerm(elements[i])]]

Deleted(c, id) == [i \in DOMAIN c \ {id.size} |-> c[i]]

\* apply_batch takes every point or none; a later row of an ID replaces an earlier.
TakesBatch(rows) == All(rows, TakesPoint)
Batched(c, rows) ==
  LET upserts[n \in 0..Len(rows)] ==
        IF n = 0 THEN c ELSE Upserted(upserts[n - 1], rows[n])
  IN  upserts[Len(rows)]

\* export_records: the points in the order of their IDs, as Python numbers.
PythonType(kind) == IF kind = "string" THEN "str" ELSE kind
Row(c, id) ==
  [id |-> [type |-> "int", size |-> id],
   vector |-> Numbers("float", c[id].vector),
   fields |-> [i \in 1..Len(c[id].fields) |->
                 LET f == c[id].fields[i]
                 IN  [name |-> f.name, type |-> f.type,
                      value |-> [type |-> PythonType(f.type), size |-> f.size]]],
   sparse |-> [i \in 1..Len(c[id].sparse) |->
                 [term_id |-> [type |-> "int", size |-> c[id].sparse[i].term_id],
                  weight |-> [type |-> "float", size |-> c[id].sparse[i].weight]]]]

export_records(c) ==
  LET Nth(n) == CHOOSE id \in DOMAIN c : Cardinality({i \in DOMAIN c : i < id}) = n - 1
  IN  [n \in 1..Cardinality(DOMAIN c) |-> Row(c, Nth(n))]

-----------------------------------------------------------------------------
(***************************************************************************)
(* The validators.                                                         *)
(***************************************************************************)
exact_int(v) == v.type = "int"

\* bool is not a number here: types are compared exactly.
finite_number(v) == v.type \in {"int", "float"} /\ v.size < HUGE

\* The payload of a mutation, and of a snapshot row.
ValidPayload(fields) ==
  /\ \A i \in 1..Len(fields) :
       LET f == fields[i]
       IN  /\ f.name # ""
           /\ f.type \in {"string", "int", "float", "bool"}
           /\ IF f.type = "float" THEN finite_number(f.value)
              ELSE f.value.type = PythonType(f.type)
  /\ Distinct([i \in 1..Len(fields) |-> fields[i].name])

\* Its sparse vector: terms in any order, weights of any finite value.
ValidSparse(elements) ==
  /\ All(elements, LAMBDA e : exact_int(e.term_id) /\ e.term_id.size >= ZERO
                              /\ finite_number(e.weight))
  /\ Distinct([i \in 1..Len(elements) |-> elements[i].term_id.size])

validate_replicated_mutation(m) ==
  /\ m.operation \in {"upsert", "delete"}
  /\ exact_int(m.id)
  /\ m.operation = "upsert" =>
       /\ Len(m.vector) = dimension /\ All(m.vector, finite_number)
       /\ ValidPayload(m.fields)
       /\ ValidSparse(m.sparse)

\* Mutant: a payload float has to fit a Float32.
parse_snapshot_rows_Float32(rows) ==
  /\ \A i \in 1..Len(rows) :
       /\ exact_int(rows[i].id)
       /\ Len(rows[i].vector) = dimension /\ All(rows[i].vector, finite_number)
       /\ ValidPayload(rows[i].fields) /\ ValidSparse(rows[i].sparse)
       /\ All(rows[i].fields, LAMBDA f : Float32(f.value.size) < HUGE)
  /\ Distinct([i \in 1..Len(rows) |-> rows[i].id.size])

\* _parse_snapshot_rows
parse_snapshot_rows(rows) ==
  /\ \A i \in 1..Len(rows) :
       /\ exact_int(rows[i].id)
       /\ Len(rows[i].vector) = dimension /\ All(rows[i].vector, finite_number)
       /\ ValidPayload(rows[i].fields) /\ ValidSparse(rows[i].sparse)
  /\ Distinct([i \in 1..Len(rows) |-> rows[i].id.size])

\* operations._validate_sparse, after float(); it looks at the Python float.
validate_sparse(elements) ==
  \A i \in 1..Len(elements) :
    /\ elements[i].term_id.size >= ZERO
    /\ i > 1 => elements[i - 1].term_id.size < elements[i].term_id.size
    /\ elements[i].weight.size \notin {ZERO, HUGE}

\* int(row["id"]) truncates; int() of infinity, and float() of an int no float
\* holds, raise.  Either way the row is refused: the kernel takes no HUGE number.
Converted(row) == [row EXCEPT !.id.size = IF @ = TINY THEN ZERO ELSE @]

-----------------------------------------------------------------------------
VARIABLES
  collection,     \* the replica's collection
  journal,        \* the mutations with a durable commit marker
  applied_index,  \* replica-state.json
  phase,          \* what the replica does with journal[entry]
  entry,
  replaying,      \* it is opening the shard, not serving a commit
  copy,           \* another collection, and
  copies,         \* how many snapshots and imports it was given
  rows,           \* the records last given to it,
  exported,       \* whether an export wrote them,
  todo,           \* which of them still have to have their sparse half written
  outcome         \* and how that ended

replica == <<collection, journal, applied_index, phase, entry, replaying>>
receiver == <<copy, copies, rows, exported, todo, outcome>>
vars == <<replica, receiver>>

Init ==
  /\ collection = Empty /\ journal = <<>> /\ applied_index = 0
  /\ phase = "idle" /\ entry = 0 /\ replaying = FALSE
  /\ copy \in Contents /\ copies = 0 /\ rows = <<>> /\ exported = TRUE
  /\ todo = {} /\ outcome = "none"

\* ReplicaShard.commit up to the marker (prepare validates in the same way).
Commit(m) ==
  /\ phase = "idle" /\ Len(journal) < MaxJournal
  /\ validate_replicated_mutation(m)
  /\ journal' = Append(journal, m)
  /\ phase' = "dense" /\ entry' = Len(journal) + 1 /\ replaying' = FALSE
  /\ UNCHANGED <<collection, applied_index, receiver>>

\* Mutant: an entry at or below the applied index is applied again.
CommitAgain_AnyIndex(k) ==
  /\ phase = "idle"
  /\ phase' = "dense" /\ entry' = k /\ replaying' = FALSE
  /\ UNCHANGED <<collection, journal, applied_index, receiver>>

\* The entry of a retried request is committed again.  It is journalled and marked,
\* and is applied again if it lies above the applied index: its first application
\* raised, and nothing behind it was applied whole.
CommitAgain(k) ==
  /\ phase = "idle" /\ k > applied_index
  /\ phase' = "dense" /\ entry' = k /\ replaying' = FALSE
  /\ UNCHANGED <<collection, journal, applied_index, receiver>>

\* The kernel raises.  A commit reports it and the shard keeps serving; an entry
\* that raises in _replay_committed keeps the shard from opening.
KernelRaises ==
  /\ phase' = IF replaying THEN "refused" ELSE "idle"
  /\ UNCHANGED <<collection, journal, applied_index, entry, replaying, receiver>>

ApplyDelete ==
  /\ phase = "dense" /\ journal[entry].operation = "delete"
  /\ IF TakesId(journal[entry].id)
     THEN /\ collection' = Deleted(collection, journal[entry].id)
          /\ phase' = "publish"
          /\ UNCHANGED <<journal, applied_index, entry, replaying, receiver>>
     ELSE KernelRaises

\* _apply: upsert, and upsert_sparse when there is a sparse vector.
ApplyDense ==
  /\ phase = "dense" /\ journal[entry].operation = "upsert"
  /\ IF TakesPoint(journal[entry])
     THEN /\ collection' = Upserted(collection, journal[entry])
          /\ phase' = IF journal[entry].sparse = <<>> THEN "publish" ELSE "sparse"
          /\ UNCHANGED <<journal, applied_index, entry, replaying, receiver>>
     ELSE KernelRaises

ApplySparse ==
  /\ phase = "sparse"
  /\ IF TakesSparse(journal[entry].sparse)
     THEN /\ collection' = WithSparse(collection, journal[entry].id, journal[entry].sparse)
          /\ phase' = "publish"
          /\ UNCHANGED <<journal, applied_index, entry, replaying, receiver>>
     ELSE KernelRaises

\* applied_index is published; a replay goes on with the next entry.
PublishState ==
  /\ phase = "publish"
  /\ applied_index' = entry
  /\ IF replaying /\ entry < Len(journal)
     THEN phase' = "dense" /\ entry' = entry + 1
     ELSE phase' = "idle" /\ entry' = entry
  /\ UNCHANGED <<collection, journal, replaying, receiver>>

Crash ==
  /\ phase # "down" /\ phase' = "down"
  /\ UNCHANGED <<collection, journal, applied_index, entry, replaying, receiver>>

\* committed_after(applied_index)
Reopen ==
  /\ phase = "down"
  /\ IF applied_index < Len(journal)
     THEN phase' = "dense" /\ entry' = applied_index + 1 /\ replaying' = TRUE
     ELSE phase' = "idle" /\ UNCHANGED <<entry, replaying>>
  /\ UNCHANGED <<collection, journal, applied_index, receiver>>

-----------------------------------------------------------------------------
(***************************************************************************)
(* The copies.                                                             *)
(***************************************************************************)
WithSparseRows(c, given) ==
  LET done[n \in 0..Len(given)] ==
        IF n = 0 THEN c
        ELSE IF given[n].sparse = <<>> THEN done[n - 1]
        ELSE WithSparse(done[n - 1], given[n].id, given[n].sparse)
  IN  done[Len(given)]

\* install_snapshot of the replica's export: a new collection is staged and
\* replaces the old one, or anything raises and the stage is thrown away.
InstallSnapshot ==
  /\ phase = "idle" /\ outcome # "importing" /\ copies < MaxCopies
  /\ rows' = export_records(collection) /\ exported' = TRUE
  /\ IF /\ parse_snapshot_rows(rows')
        /\ TakesBatch(rows')
        /\ All(rows', LAMBDA r : r.sparse = <<>> \/ TakesSparse(r.sparse))
     THEN copy' = WithSparseRows(Batched(Empty, rows'), rows') /\ outcome' = "installed"
     ELSE outcome' = "refused" /\ UNCHANGED copy
  /\ copies' = copies + 1 /\ todo' = {}
  /\ UNCHANGED replica

\* import_ndjson up to the dense batch: every row is checked first.
ImportBatch(given, fresh) ==
  /\ outcome # "importing" /\ copies < MaxCopies
  /\ given # <<>>
  /\ rows' = [i \in 1..Len(given) |-> Converted(given[i])] /\ exported' = fresh
  /\ IF All(given, LAMBDA r : validate_sparse(r.sparse)) /\ TakesBatch(rows')
     THEN /\ copy' = Batched(copy, rows')
          /\ todo' = {i \in 1..Len(given) : given[i].sparse # <<>>}
          /\ outcome' = "importing"
     ELSE outcome' = "refused" /\ todo' = {} /\ UNCHANGED copy
  /\ copies' = copies + 1
  /\ UNCHANGED replica

\* export_ndjson of a snapshot of the replica's collection, published with one
\* rename, and imported.
ImportExport == phase = "idle" /\ ImportBatch(export_records(collection), TRUE)

\* The sparse vectors of an import follow one by one, in the order of the rows.
ImportSparse(i) ==
  /\ outcome = "importing" /\ i \in todo /\ \A j \in todo : i <= j
  /\ IF TakesSparse(rows[i].sparse)
     THEN /\ copy' = WithSparse(copy, rows[i].id, rows[i].sparse)
          /\ todo' = todo \ {i} /\ outcome' = outcome
     ELSE outcome' = "raised" /\ UNCHANGED <<copy, todo>>
  /\ UNCHANGED <<replica, copies, rows, exported>>

\* Mutant: the rows without payload are taken for ones without a sparse vector.
ImportEnds_Early ==
  /\ outcome = "importing" /\ \A i \in todo : rows[i].fields = <<>>
  /\ outcome' = "imported"
  /\ UNCHANGED <<replica, copy, copies, rows, exported, todo>>

ImportEnds ==
  /\ outcome = "importing" /\ todo = {}
  /\ outcome' = "imported"
  /\ UNCHANGED <<replica, copy, copies, rows, exported, todo>>

\* The importing process dies.
ImportDies ==
  /\ outcome = "importing"
  /\ outcome' = "none"
  /\ UNCHANGED <<replica, copy, copies, rows, exported, todo>>

Next ==
  \/ \E m \in Mutations : Commit(m)
  \/ \E k \in 1..Len(journal) : CommitAgain(k)
  \/ ApplyDelete \/ ApplyDense \/ ApplySparse \/ PublishState \/ Crash \/ Reopen
  \/ InstallSnapshot
  \/ ImportExport
  \/ \E f \in Files : ImportBatch(f, FALSE)
  \/ \E i \in todo : ImportSparse(i)
  \/ ImportEnds \/ ImportDies

Spec == Init /\ [][Next]_vars

-----------------------------------------------------------------------------
\* What a journal says of a point.
DenseAt(k) == journal[k].operation = "upsert" /\ TakesPoint(journal[k])
SparseAt(k) == DenseAt(k) /\ TakesSparse(journal[k].sparse)
DeletedAt(k) == journal[k].operation = "delete" /\ TakesId(journal[k].id)
WholeAt(k) == DeletedAt(k) \/ SparseAt(k) \/ (DenseAt(k) /\ journal[k].sparse = <<>>)

Writes(id, P(_)) == {k \in 1..Len(journal) : journal[k].id.size = id /\ P(k)}
Last(id, P(_)) ==
  IF Writes(id, P) = {} THEN 0
  ELSE CHOOSE k \in Writes(id, P) : \A j \in Writes(id, P) : j <= k

\* The last sparse vector accepted since the point was last deleted.
JournalledSparse(id) ==
  LET s == Last(id, SparseAt)
  IN  IF s <= Last(id, DeletedAt) THEN <<>>
      ELSE [i \in 1..Len(journal[s].sparse) |-> StoredTerm(journal[s].sparse[i])]

\* The vector and the payload are of the last upsert that was accepted whole, or of
\* one that was accepted by half behind it.
Newer(id) == {k \in Writes(id, DenseAt) : k > Last(id, WholeAt)}
MayHold(id) == IF Newer(id) = {} THEN {Last(id, WholeAt)} ELSE Newer(id)

\* A serving replica holds what its journal says, whichever call it crashed in.  An
\* entry the kernel refuses half of leaves its accepted half, which a retry may lay
\* over that of a later such entry, but over nothing that was accepted whole.
ContentIsTheJournal ==
  phase = "idle" =>
    /\ DOMAIN collection = {id \in NEGATIVE..TWO : Last(id, DenseAt) > Last(id, DeletedAt)}
    /\ \A id \in DOMAIN collection :
         /\ collection[id].sparse = JournalledSparse(id)
         /\ \E k \in MayHold(id) :
              /\ collection[id].vector = [i \in 1..dimension |-> Float32(journal[k].vector[i].size)]
              /\ collection[id].fields =
                   [i \in 1..Len(journal[k].fields) |-> StoredField(journal[k].fields[i])]

\* Every content a replica can come to have, half-applied entries included, passes
\* the snapshot parser and the kernel again and arrives as it was.
SnapshotMovesAll ==
  [][InstallSnapshot => outcome' = "installed" /\ copy' = collection]_vars

\* An export can be imported, into a collection with other content too and again
\* after an import that died: its points end up with the exported vector, payload
\* and sparse vector (an import takes no sparse vector away).
ExportImports ==
  exported =>
    /\ outcome \notin {"refused", "raised"}
    /\ outcome = "imported" =>
         \A i \in 1..Len(rows) :
           LET now == Row(copy, rows[i].id.size)
           IN  /\ now.vector = rows[i].vector /\ now.fields = rows[i].fields
               /\ rows[i].sparse # <<>> => now.sparse = rows[i].sparse

-----------------------------------------------------------------------------
(***************************************************************************)
(* What the repository's documents say and the code does not do.           *)
(***************************************************************************)
\* docs/consistency-model.md: a logical import validates every dense, payload and
\* sparse value before the dense batch.
ImportValidatedFirst == outcome # "raised"

\* docs/distributed.md: a restarted replica reopens its collection and replays the
\* durable commits that the applied index does not reflect.
RestartedReplicaReopens == phase # "refused"
=============================================================================
