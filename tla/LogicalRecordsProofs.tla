------------------------ MODULE LogicalRecordsProofs ------------------------
(***************************************************************************)
(* A replica holds what its journal says, and what it holds passes through *)
(* a snapshot or a logical export unchanged: for every dimension, every    *)
(* set of mutations, export files and contents of the receiving            *)
(* collection, and every number of commits and copies.                     *)
(***************************************************************************)
EXTENDS LogicalRecords, TLAPS, WellFoundedInduction, FiniteSetTheorems

-----------------------------------------------------------------------------
(***************************************************************************)
(* What a replica may hold.  Each value comes through the conversions of   *)
(* an export and of the kernel as it went in.                              *)
(***************************************************************************)
Stable(size) == Float32(size) = size /\ size < HUGE

PortableVector(v) == Len(v) = dimension /\ \A i \in 1..Len(v) : Stable(v[i])

PortableFields(fs) ==
  /\ \A i \in 1..Len(fs) :
       /\ fs[i].name \notin {"", "nul"} /\ fs[i].type \in {"string", "int", "float", "bool"}
       /\ fs[i].type = "int" => fs[i].size < WIDE /\ fs[i].size # TINY
       /\ fs[i].type = "float" => fs[i].size < HUGE
  /\ \A i, j \in 1..Len(fs) : fs[i].name = fs[j].name => i = j

PortableSparse(es) ==
  \A i \in 1..Len(es) :
    /\ es[i].term_id \in ZERO..TWO /\ es[i].term_id # TINY
    /\ i > 1 => es[i - 1].term_id < es[i].term_id
    /\ Stable(es[i].weight) /\ es[i].weight # ZERO

Portable(c) ==
  /\ Collection(c) /\ TINY \notin DOMAIN c
  /\ \A id \in DOMAIN c :
       PortableVector(c[id].vector) /\ PortableFields(c[id].fields) /\ PortableSparse(c[id].sparse)

-----------------------------------------------------------------------------
(***************************************************************************)
(* What the first n entries of a journal say, and what one entry does.     *)
(***************************************************************************)
Takes(m) == m.operation = "upsert" /\ TakesPoint(m)

Upserts(j, n, id) == {k \in 1..n : j[k].id.size = id /\ Takes(j[k])}
SparseWrites(j, n, id) == {k \in 1..n : j[k].id.size = id /\ Takes(j[k]) /\ TakesSparse(j[k].sparse)}
Deletes(j, n, id) ==
  {k \in 1..n : j[k].id.size = id /\ j[k].operation = "delete" /\ TakesId(j[k].id)}

Newest(S) == IF S = {} THEN 0 ELSE CHOOSE k \in S : \A j \in S : j <= k

VectorOf(p) == [i \in 1..Len(p.vector) |-> Float32(p.vector[i].size)]
FieldsOf(p) == [i \in 1..Len(p.fields) |-> StoredField(p.fields[i])]
TermsOf(elements) == [i \in 1..Len(elements) |-> StoredTerm(elements[i])]

\* An entry the kernel refuses, or refuses the sparse half of.
Raises(m) ==
  IF m.operation = "delete" THEN ~TakesId(m.id)
  ELSE ~TakesPoint(m) \/ (m.sparse # <<>> /\ ~TakesSparse(m.sparse))

SaidIds(j, n) == {id \in NEGATIVE..TWO : Newest(Upserts(j, n, id)) > Newest(Deletes(j, n, id))}
SaidSparse(j, n, id) ==
  LET s == Newest(SparseWrites(j, n, id))
  IN  IF s <= Newest(Deletes(j, n, id)) THEN <<>> ELSE TermsOf(j[s].sparse)
SaidPoint(j, n, id, k) ==
  [vector |-> VectorOf(j[k]), fields |-> FieldsOf(j[k]), sparse |-> SaidSparse(j, n, id)]

\* The upserts whose vector and payload a point may have: the newest, and those behind
\* the last entry that the kernel took whole.
Wholes(j, n, id) == {k \in 1..n : j[k].id.size = id /\ ~Raises(j[k])}
Latest(j, n, id) ==
  {k \in Upserts(j, n, id) : \/ k > Newest(Wholes(j, n, id))
                             \/ \A l \in Upserts(j, n, id) : l <= k}

\* A collection holds what the first n entries say.
Held(c, j, n) ==
  /\ c = [id \in DOMAIN c |-> c[id]] /\ DOMAIN c = SaidIds(j, n)
  /\ \A id \in DOMAIN c : \E k \in Latest(j, n, id) : c[id] = SaidPoint(j, n, id, k)

Effect(c, m) ==
  IF m.operation = "delete" THEN IF TakesId(m.id) THEN Deleted(c, m.id) ELSE c
  ELSE IF ~TakesPoint(m) THEN c
  ELSE IF TakesSparse(m.sparse) THEN WithSparse(Upserted(c, m), m.id, m.sparse)
  ELSE Upserted(c, m)

-----------------------------------------------------------------------------
(***************************************************************************)
(* The replica.                                                            *)
(***************************************************************************)
Applying == phase \in {"dense", "sparse", "publish"}

TypeInv ==
  /\ journal \in Seq(Mutations) /\ \A k \in 1..Len(journal) : validate_replicated_mutation(journal[k])
  /\ applied_index \in 0..Len(journal) /\ entry \in 0..Len(journal) /\ replaying \in BOOLEAN
  /\ phase \in {"idle", "down", "refused", "dense", "sparse", "publish"}
  /\ Applying => entry > applied_index
  /\ phase = "sparse" => /\ journal[entry].operation = "upsert" /\ TakesPoint(journal[entry])
                         /\ journal[entry].sparse # <<>>
  /\ phase = "publish" => ~Raises(journal[entry])

\* The last entry; b is a collection that the entries before it left.
Entry == journal[Len(journal)]
Before(b) == Len(journal) > 0 /\ Held(b, journal, Len(journal) - 1)
RaisedUpto(n) == \A k \in applied_index + 1..n : Raises(journal[k])

\* A commit applies the last entry; whatever is above the applied index raised.
Committing(b) ==
  /\ Before(b) /\ entry = Len(journal) /\ RaisedUpto(Len(journal) - 1)
  /\ phase = "dense" => collection = b
  /\ phase = "sparse" => collection = Upserted(b, Entry)
  /\ phase = "publish" => collection = Effect(b, Entry)

\* Nothing is being applied, or one of the entries that raised is applied again.
Settled == Held(collection, journal, Len(journal)) /\ RaisedUpto(Len(journal))
Recommitting == phase \in {"dense", "sparse"} /\ Settled

\* A recovery has nothing to replay, or replays one entry that was applied in part,
\* or meets an entry that raises and never ends.
Stuck == applied_index < Len(journal) /\ Raises(journal[applied_index + 1])
Recovered == phase = "down" /\ applied_index = Len(journal) /\ Settled
Redoing(b) ==
  /\ Before(b) /\ applied_index = Len(journal) - 1 /\ ~Raises(Entry) /\ phase # "refused"
  /\ \/ phase \in {"down", "dense"} /\ collection = b
     \/ phase # "publish" /\ Entry.operation = "upsert" /\ collection = Upserted(b, Entry)
     \/ collection = Effect(b, Entry)

InvWith(b) ==
  /\ phase = "idle" => Settled
  /\ Applying /\ ~replaying => Recommitting \/ Committing(b)
  /\ Applying /\ replaying => entry = applied_index + 1 /\ (Stuck \/ Redoing(b))
  /\ phase = "refused" => Stuck
  /\ phase = "down" => Stuck \/ Recovered \/ Redoing(b)

ReplicaInv == \E b : InvWith(b)

-----------------------------------------------------------------------------
(***************************************************************************)
(* The receiving collection.                                               *)
(***************************************************************************)
\* What an export makes of a stored payload and sparse vector.
RowFields(fs) ==
  [i \in 1..Len(fs) |->
     [name |-> fs[i].name, type |-> fs[i].type,
      value |-> [type |-> PythonType(fs[i].type), size |-> fs[i].size]]]
RowTerms(es) ==
  [i \in 1..Len(es) |->
     [term_id |-> [type |-> "int", size |-> es[i].term_id],
      weight |-> [type |-> "float", size |-> es[i].weight]]]

\* A row that the kernel stores and exports again as it is.
PortableRow(r) ==
  /\ r.id.type = "int" /\ r.id.size \in NEGATIVE..TWO /\ r.id.size # TINY
  /\ Numbers("float", VectorOf(r)) = r.vector
  /\ RowFields(FieldsOf(r)) = r.fields
  /\ r.sparse # <<>> => TakesSparse(r.sparse) /\ RowTerms(TermsOf(r.sparse)) = r.sparse

Arrived(i) ==
  LET id == rows[i].id.size
  IN  /\ id \in DOMAIN copy
      /\ Row(copy, id).vector = rows[i].vector /\ Row(copy, id).fields = rows[i].fields
      /\ i \notin todo /\ rows[i].sparse # <<>> => Row(copy, id).sparse = rows[i].sparse

CopyInv ==
  /\ Collection(copy) /\ exported \in BOOLEAN
  /\ outcome = "importing" =>
       /\ rows \in Seq(Record) /\ todo \subseteq 1..Len(rows)
       /\ \A i \in todo : rows[i].sparse # <<>>
       /\ \A i \in 1..Len(rows) : rows[i].id.size \in DOMAIN copy
  /\ exported =>
       /\ outcome \notin {"refused", "raised"}
       /\ outcome \in {"importing", "imported"} =>
            /\ \A i \in 1..Len(rows) : PortableRow(rows[i]) /\ Arrived(i)
            /\ \A i, j \in 1..Len(rows) : rows[i].id.size = rows[j].id.size => i = j
       /\ outcome = "imported" => todo = {}

-----------------------------------------------------------------------------
(***************************************************************************)
(* Numbers.                                                                *)
(***************************************************************************)
\* Every non-empty set of naturals has a least element.
LEMMA LeastNumber ==
  ASSUME NEW S \in SUBSET Nat, S # {}
  PROVE  \E x \in S : \A y \in S : x <= y
<1> DEFINE R == OpToRel(<, Nat)
<1>1. IsWellFoundedOn(R, Nat)
  BY NatLessThanWellFounded
<1>2. PICK x \in S : \A y \in S : ~(<<y, x>> \in R)
  <2> HIDE DEF R
  <2> QED BY <1>1, WFMin
<1>3. \A y \in S : <<y, x>> \notin R => x <= y
  BY DEF OpToRel
<1> QED BY <1>2, <1>3

LEMMA NewestFacts ==
  ASSUME NEW n \in Nat, NEW S \in SUBSET (1..n)
  PROVE  /\ S = {} => Newest(S) = 0
         /\ S # {} => Newest(S) \in S /\ \A k \in S : k <= Newest(S)
         /\ Newest(S) \in 0..n
<1>1. CASE S = {}
  BY <1>1 DEF Newest
<1>2. CASE S # {}
  <2> DEFINE T == {n - k : k \in S}
  <2>1. T \in SUBSET Nat /\ T # {}
    BY <1>2
  <2> HIDE DEF T
  <2>2. PICK t \in T : \A u \in T : t <= u
    BY <2>1, LeastNumber
  <2>3. PICK x \in S : t = n - x
    BY <2>2 DEF T
  <2>4. \A y \in S : n - x <= n - y
    BY <2>2, <2>3 DEF T
  <2>5. \A y \in S : y <= x
    BY <2>4
  <2>6. Newest(S) \in S /\ \A k \in S : k <= Newest(S)
    BY <1>2, <2>5 DEF Newest
  <2>7. Newest(S) \in 1..n
    BY <2>6
  <2>8. Newest(S) \in 0..n
    BY <2>7
  <2> QED BY <1>2, <2>6, <2>8
<1> QED BY <1>1, <1>2

\* Of the numbers up to n, the newest is n or is among the ones below it.
LEMMA NewestStep ==
  ASSUME NEW n \in Nat, n > 0, NEW S \in SUBSET (1..n - 1), NEW T \in SUBSET (1..n),
         \A k \in 1..n - 1 : k \in T <=> k \in S
  PROVE  Newest(T) = IF n \in T THEN n ELSE Newest(S)
<1>1. CASE n \in T
  <2>1. Newest(T) \in T /\ n <= Newest(T)
    BY <1>1, NewestFacts
  <2>2. Newest(T) \in 1..n
    BY <2>1
  <2> QED BY <1>1, <2>1, <2>2
<1>2. CASE n \notin T
  <2>1. \A k \in 1..n : k \in 1..n - 1 \/ k = n
    OBVIOUS
  <2>2. \A k : k \in T <=> k \in S
    BY <1>2, <2>1
  <2>3. T = S
    BY <2>2
  <2> QED BY <1>2, <2>3
<1> QED BY <1>1, <1>2

-----------------------------------------------------------------------------
(***************************************************************************)
(* An entry of the journal has, on what the entries before it say, the     *)
(* effect that applying it has on a collection.                            *)
(***************************************************************************)
Journal(j) ==
  /\ j \in Seq(Mutations)
  /\ \A k \in 1..Len(j) : j[k].operation \in {"upsert", "delete"}

LEMMA EntryFacts ==
  ASSUME NEW j, Journal(j), NEW k \in 1..Len(j)
  PROVE  /\ j[k] \in Mutations /\ j[k].operation \in {"upsert", "delete"}
         /\ j[k].id.size \in Size
         /\ TakesId(j[k].id) => j[k].id.size \in NEGATIVE..TWO
         /\ Takes(j[k]) => TakesId(j[k].id) /\ j[k].operation = "upsert"
<1>1. j[k] \in Mutations /\ j[k].operation \in {"upsert", "delete"}
  BY DEF Journal
<1>2. j[k].id.size \in Size
  BY <1>1, RecordsAssumption DEF Number
<1>3. TakesId(j[k].id) => j[k].id.size \in NEGATIVE..TWO
  BY <1>2 DEF TakesId, Size, NEGATIVE, TWO, WIDE, HUGE
<1>4. Takes(j[k]) => TakesId(j[k].id) /\ j[k].operation = "upsert"
  BY DEF Takes, TakesPoint
<1> QED BY <1>1, <1>2, <1>3, <1>4

LEMMA WritesTypes ==
  ASSUME NEW j, NEW n \in Nat, NEW id
  PROVE  /\ Upserts(j, n, id) \in SUBSET (1..n) /\ Deletes(j, n, id) \in SUBSET (1..n)
         /\ SparseWrites(j, n, id) \in SUBSET (1..n)
         /\ SparseWrites(j, n, id) \subseteq Upserts(j, n, id)
         /\ Newest(Upserts(j, n, id)) \in 0..n /\ Newest(Deletes(j, n, id)) \in 0..n
         /\ Newest(SparseWrites(j, n, id)) \in 0..n
         /\ Newest(SparseWrites(j, n, id)) <= Newest(Upserts(j, n, id))
<1>1. /\ Upserts(j, n, id) \in SUBSET (1..n) /\ Deletes(j, n, id) \in SUBSET (1..n)
      /\ SparseWrites(j, n, id) \in SUBSET (1..n)
      /\ SparseWrites(j, n, id) \subseteq Upserts(j, n, id)
  BY DEF Upserts, Deletes, SparseWrites
<1>2. /\ Newest(Upserts(j, n, id)) \in 0..n /\ Newest(Deletes(j, n, id)) \in 0..n
      /\ Newest(SparseWrites(j, n, id)) \in 0..n
  BY <1>1, NewestFacts
<1>3. CASE SparseWrites(j, n, id) = {}
  BY <1>1, <1>2, <1>3, NewestFacts
<1>4. CASE SparseWrites(j, n, id) # {}
  <2>1. Newest(SparseWrites(j, n, id)) \in Upserts(j, n, id)
    BY <1>1, <1>4, NewestFacts
  <2> QED BY <1>1, <1>2, <2>1, NewestFacts
<1> QED BY <1>1, <1>2, <1>3, <1>4

LEMMA WritesStep ==
  ASSUME NEW j, NEW n \in Nat, n > 0, NEW id
  PROVE  /\ Newest(Upserts(j, n, id)) =
              IF j[n].id.size = id /\ Takes(j[n]) THEN n ELSE Newest(Upserts(j, n - 1, id))
         /\ Newest(SparseWrites(j, n, id)) =
              IF j[n].id.size = id /\ Takes(j[n]) /\ TakesSparse(j[n].sparse)
              THEN n ELSE Newest(SparseWrites(j, n - 1, id))
         /\ Newest(Deletes(j, n, id)) =
              IF j[n].id.size = id /\ j[n].operation = "delete" /\ TakesId(j[n].id)
              THEN n ELSE Newest(Deletes(j, n - 1, id))
<1>1. n - 1 \in Nat /\ n \in 1..n /\ \A k \in 1..n - 1 : k \in 1..n
  OBVIOUS
<1>2. /\ Upserts(j, n, id) \in SUBSET (1..n) /\ Deletes(j, n, id) \in SUBSET (1..n)
      /\ SparseWrites(j, n, id) \in SUBSET (1..n)
      /\ Upserts(j, n - 1, id) \in SUBSET (1..n - 1) /\ Deletes(j, n - 1, id) \in SUBSET (1..n - 1)
      /\ SparseWrites(j, n - 1, id) \in SUBSET (1..n - 1)
  BY <1>1, WritesTypes
<1>3. Newest(Upserts(j, n, id)) =
        IF j[n].id.size = id /\ Takes(j[n]) THEN n ELSE Newest(Upserts(j, n - 1, id))
  <2>1. \A k \in 1..n - 1 : k \in Upserts(j, n, id) <=> k \in Upserts(j, n - 1, id)
    BY <1>1 DEF Upserts
  <2>2. n \in Upserts(j, n, id) <=> j[n].id.size = id /\ Takes(j[n])
    BY <1>1 DEF Upserts
  <2>3. Newest(Upserts(j, n, id)) = IF n \in Upserts(j, n, id) THEN n ELSE Newest(Upserts(j, n - 1, id))
    BY <1>2, <2>1, NewestStep
  <2> QED BY <2>2, <2>3
<1>4. Newest(SparseWrites(j, n, id)) =
        IF j[n].id.size = id /\ Takes(j[n]) /\ TakesSparse(j[n].sparse)
        THEN n ELSE Newest(SparseWrites(j, n - 1, id))
  <2>1. \A k \in 1..n - 1 : k \in SparseWrites(j, n, id) <=> k \in SparseWrites(j, n - 1, id)
    BY <1>1 DEF SparseWrites
  <2>2. n \in SparseWrites(j, n, id) <=> j[n].id.size = id /\ Takes(j[n]) /\ TakesSparse(j[n].sparse)
    BY <1>1 DEF SparseWrites
  <2>3. Newest(SparseWrites(j, n, id)) =
          IF n \in SparseWrites(j, n, id) THEN n ELSE Newest(SparseWrites(j, n - 1, id))
    BY <1>2, <2>1, NewestStep
  <2> QED BY <2>2, <2>3
<1>5. Newest(Deletes(j, n, id)) =
        IF j[n].id.size = id /\ j[n].operation = "delete" /\ TakesId(j[n].id)
        THEN n ELSE Newest(Deletes(j, n - 1, id))
  <2>1. \A k \in 1..n - 1 : k \in Deletes(j, n, id) <=> k \in Deletes(j, n - 1, id)
    BY <1>1 DEF Deletes
  <2>2. n \in Deletes(j, n, id) <=> j[n].id.size = id /\ j[n].operation = "delete" /\ TakesId(j[n].id)
    BY <1>1 DEF Deletes
  <2>3. Newest(Deletes(j, n, id)) = IF n \in Deletes(j, n, id) THEN n ELSE Newest(Deletes(j, n - 1, id))
    BY <1>2, <2>1, NewestStep
  <2> QED BY <2>2, <2>3
<1> QED BY <1>3, <1>4, <1>5

\* A point that an entry does not write keeps what was said of it.
LEMMA SaidElsewhere ==
  ASSUME NEW j, Journal(j), NEW n \in 1..Len(j), NEW id \in NEGATIVE..TWO,
         \/ id # j[n].id.size
         \/ ~Takes(j[n]) /\ ~(j[n].operation = "delete" /\ TakesId(j[n].id))
  PROVE  /\ id \in SaidIds(j, n) <=> id \in SaidIds(j, n - 1)
         /\ Latest(j, n, id) = Latest(j, n - 1, id)
         /\ \A k : SaidPoint(j, n, id, k) = SaidPoint(j, n - 1, id, k)
<1>1. n \in Nat /\ n > 0 /\ j[n].operation \in {"upsert", "delete"}
  BY DEF Journal
<1>2. id # j[n].id.size \/ (~Takes(j[n]) /\ Raises(j[n]))
  BY <1>1 DEF Takes, Raises
<1>3. \A k : k \in 1..n <=> k \in 1..n - 1 \/ k = n
  BY <1>1
<1>4. /\ Upserts(j, n, id) = Upserts(j, n - 1, id)
      /\ SparseWrites(j, n, id) = SparseWrites(j, n - 1, id)
      /\ Wholes(j, n, id) = Wholes(j, n - 1, id)
  BY <1>2, <1>3 DEF Upserts, SparseWrites, Wholes
<1>5. Deletes(j, n, id) = Deletes(j, n - 1, id)
  BY <1>3 DEF Deletes
<1> QED BY <1>4, <1>5 DEF SaidIds, SaidPoint, SaidSparse, Latest

LEMMA DeletedIs ==
  ASSUME NEW c, NEW v
  PROVE  /\ DOMAIN Deleted(c, v) = DOMAIN c \ {v.size}
         /\ \A id \in DOMAIN Deleted(c, v) : Deleted(c, v)[id] = c[id]
         /\ Deleted(c, v) = [id \in DOMAIN Deleted(c, v) |-> Deleted(c, v)[id]]
BY DEF Deleted

LEMMA UpsertedIs ==
  ASSUME NEW c, NEW p
  PROVE  /\ DOMAIN Upserted(c, p) = DOMAIN c \cup {p.id.size}
         /\ \A id \in DOMAIN c : id # p.id.size => Upserted(c, p)[id] = c[id]
         /\ Upserted(c, p)[p.id.size] =
              [vector |-> VectorOf(p), fields |-> FieldsOf(p),
               sparse |-> IF p.id.size \in DOMAIN c THEN c[p.id.size].sparse ELSE <<>>]
         /\ Upserted(c, p) = [id \in DOMAIN Upserted(c, p) |-> Upserted(c, p)[id]]
BY DEF Upserted, VectorOf, FieldsOf

LEMMA WithSparseIs ==
  ASSUME NEW c, NEW v, NEW es, c = [id \in DOMAIN c |-> c[id]], v.size \in DOMAIN c,
         NEW vec, NEW fs, NEW sp, c[v.size] = [vector |-> vec, fields |-> fs, sparse |-> sp]
  PROVE  /\ DOMAIN WithSparse(c, v, es) = DOMAIN c
         /\ \A id \in DOMAIN c : id # v.size => WithSparse(c, v, es)[id] = c[id]
         /\ WithSparse(c, v, es)[v.size] = [vector |-> vec, fields |-> fs, sparse |-> TermsOf(es)]
         /\ WithSparse(c, v, es) = [id \in DOMAIN c |-> WithSparse(c, v, es)[id]]
<1> DEFINE t == TermsOf(es)
<1>1. WithSparse(c, v, es) = [c EXCEPT ![v.size].sparse = t]
  BY DEF WithSparse, TermsOf
<1> DEFINE r == [vector |-> vec, fields |-> fs, sparse |-> t]
<1> HIDE DEF t
<1>2. [c[v.size] EXCEPT !.sparse = t] = r
  OBVIOUS
<1>3. WithSparse(c, v, es) = [c EXCEPT ![v.size] = r]
  BY <1>1, <1>2
<1> HIDE DEF r
<1>4. /\ DOMAIN WithSparse(c, v, es) = DOMAIN c
      /\ \A id \in DOMAIN c : id # v.size => WithSparse(c, v, es)[id] = c[id]
      /\ WithSparse(c, v, es)[v.size] = r
      /\ WithSparse(c, v, es) = [id \in DOMAIN c |-> WithSparse(c, v, es)[id]]
  BY <1>3
<1> QED BY <1>4 DEF r, t

LEMMA SameFunction ==
  ASSUME NEW f, NEW g, f = [x \in DOMAIN f |-> f[x]], g = [x \in DOMAIN g |-> g[x]],
         DOMAIN f = DOMAIN g, \A x \in DOMAIN f : f[x] = g[x]
  PROVE  f = g
OBVIOUS

\* Applying an entry to a collection that holds what is said before it.
LEMMA HeldStep ==
  ASSUME NEW j, Journal(j), NEW n \in 1..Len(j), NEW b, Held(b, j, n - 1)
  PROVE  Held(Effect(b, j[n]), j, n)
<1> DEFINE m == j[n]
           at == m.id.size
<1>1. n \in Nat /\ n > 0 /\ n - 1 \in Nat
  BY DEF Journal
<1>2. /\ m.operation \in {"upsert", "delete"}
      /\ TakesId(m.id) => at \in NEGATIVE..TWO
      /\ Takes(m) => TakesId(m.id) /\ m.operation = "upsert"
  BY EntryFacts
<1>4. /\ DOMAIN b = SaidIds(j, n - 1) /\ b = [id \in DOMAIN b |-> b[id]]
      /\ \A id \in DOMAIN b : \E k \in Latest(j, n - 1, id) : b[id] = SaidPoint(j, n - 1, id, k)
  BY DEF Held
<1>5. \A id \in NEGATIVE..TWO : id # at =>
        /\ id \in SaidIds(j, n) <=> id \in DOMAIN b
        /\ Latest(j, n, id) = Latest(j, n - 1, id)
        /\ \A k : SaidPoint(j, n, id, k) = SaidPoint(j, n - 1, id, k)
  BY <1>4, SaidElsewhere
<1>6. SaidIds(j, n) \subseteq NEGATIVE..TWO /\ DOMAIN b \subseteq NEGATIVE..TWO
  BY <1>4 DEF SaidIds
<1>w. /\ Newest(Upserts(j, n, at)) = IF Takes(m) THEN n ELSE Newest(Upserts(j, n - 1, at))
      /\ Newest(SparseWrites(j, n, at)) =
           IF Takes(m) /\ TakesSparse(m.sparse) THEN n ELSE Newest(SparseWrites(j, n - 1, at))
      /\ Newest(Deletes(j, n, at)) =
           IF m.operation = "delete" /\ TakesId(m.id) THEN n ELSE Newest(Deletes(j, n - 1, at))
  BY <1>1, WritesStep
<1>t. /\ Newest(Upserts(j, n - 1, at)) \in 0..n - 1 /\ Newest(Deletes(j, n - 1, at)) \in 0..n - 1
      /\ Newest(SparseWrites(j, n - 1, at)) \in 0..n - 1
      /\ Newest(SparseWrites(j, n - 1, at)) <= Newest(Upserts(j, n - 1, at))
  BY <1>1, WritesTypes
<1>7. CASE ~Takes(m) /\ ~(m.operation = "delete" /\ TakesId(m.id))
  <2>1. Effect(b, m) = b
    BY <1>2, <1>7 DEF Effect, Takes
  <2>2. \A id \in NEGATIVE..TWO :
          /\ id \in SaidIds(j, n) <=> id \in DOMAIN b
          /\ Latest(j, n, id) = Latest(j, n - 1, id)
          /\ \A k : SaidPoint(j, n, id, k) = SaidPoint(j, n - 1, id, k)
    BY <1>4, <1>7, SaidElsewhere
  <2> HIDE DEF m, at
  <2>3. DOMAIN b = SaidIds(j, n)
    BY <1>6, <2>2
  <2>4. ASSUME NEW id \in DOMAIN b
        PROVE  \E k \in Latest(j, n, id) : b[id] = SaidPoint(j, n, id, k)
    BY <1>4, <1>6, <2>2
  <2>5. Held(b, j, n)
    BY <1>4, <2>3, <2>4 DEF Held
  <2> QED BY <2>1, <2>5 DEF m
<1>8. CASE m.operation = "delete" /\ TakesId(m.id)
  <2> DEFINE e == Deleted(b, m.id)
  <2>1. Effect(b, m) = e
    BY <1>8 DEF Effect
  <2>2. /\ DOMAIN e = DOMAIN b \ {at} /\ \A id \in DOMAIN e : e[id] = b[id]
        /\ e = [id \in DOMAIN e |-> e[id]]
    <3> HIDE DEF m
    <3> QED BY DEF Deleted
  <2>3. ~Takes(m)
    BY <1>8 DEF Takes
  <2>4. at \notin SaidIds(j, n)
    BY <1>1, <1>8, <1>w, <1>t, <2>3 DEF SaidIds
  <2> HIDE DEF m, at, e
  <2>5. DOMAIN e = SaidIds(j, n)
    BY <1>5, <1>6, <2>2, <2>4
  <2>6. ASSUME NEW id \in DOMAIN e
        PROVE  \E k \in Latest(j, n, id) : e[id] = SaidPoint(j, n, id, k)
    <3>1. id \in DOMAIN b /\ id # at /\ e[id] = b[id] /\ id \in NEGATIVE..TWO
      BY <1>6, <2>2, <2>6
    <3>2. PICK k \in Latest(j, n - 1, id) : b[id] = SaidPoint(j, n - 1, id, k)
      BY <1>4, <3>1
    <3> QED BY <1>5, <3>1, <3>2
  <2>7. Held(e, j, n)
    BY <2>2, <2>5, <2>6 DEF Held
  <2> QED BY <2>1, <2>7 DEF m
<1>9. CASE Takes(m)
  <2>0. m.operation = "upsert" /\ TakesPoint(m) /\ at \in NEGATIVE..TWO
    BY <1>2, <1>9 DEF Takes
  <2>1. /\ Newest(Upserts(j, n, at)) = n /\ Newest(Deletes(j, n, at)) = Newest(Deletes(j, n - 1, at))
    BY <1>9, <1>w, <2>0
  <2>2. at \in SaidIds(j, n)
    BY <1>1, <1>t, <2>0, <2>1 DEF SaidIds
  <2>l. n \in Latest(j, n, at)
    <3>1. n \in Upserts(j, n, at)
      BY <1>1, <1>9 DEF Upserts
    <3>2. \A l \in Upserts(j, n, at) : l <= n
      BY <1>1 DEF Upserts
    <3> QED BY <3>1, <3>2 DEF Latest
  <2> DEFINE u == Upserted(b, m)
             was == IF at \in DOMAIN b THEN b[at].sparse ELSE <<>>
  <2>3. /\ DOMAIN u = DOMAIN b \cup {at} /\ \A id \in DOMAIN b : id # at => u[id] = b[id]
        /\ u[at] = [vector |-> VectorOf(m), fields |-> FieldsOf(m), sparse |-> was]
        /\ u = [id \in DOMAIN u |-> u[id]]
    <3> HIDE DEF m
    <3> QED BY UpsertedIs
  <2>4. SaidPoint(j, n, at, n) =
          [vector |-> VectorOf(m), fields |-> FieldsOf(m), sparse |-> SaidSparse(j, n, at)]
    BY DEF SaidPoint
  <2>5. was = SaidSparse(j, n - 1, at)
    <3>1. CASE at \in DOMAIN b
      <4>1. PICK k \in Latest(j, n - 1, at) : b[at] = SaidPoint(j, n - 1, at, k)
        BY <1>4, <3>1
      <4>2. SaidPoint(j, n - 1, at, k).sparse = SaidSparse(j, n - 1, at)
        <5> HIDE DEF at
        <5> QED BY DEF SaidPoint
      <4> HIDE DEF at
      <4> QED BY <3>1, <4>1, <4>2
    <3>2. CASE at \notin DOMAIN b
      <4>1. ~(Newest(Upserts(j, n - 1, at)) > Newest(Deletes(j, n - 1, at)))
        BY <1>4, <2>0, <3>2 DEF SaidIds
      <4>2. Newest(SparseWrites(j, n - 1, at)) <= Newest(Deletes(j, n - 1, at))
        BY <1>1, <1>t, <4>1
      <4> QED BY <3>2, <4>2 DEF SaidSparse
    <3> QED BY <3>1, <3>2
  \* Whatever became of the point, the others are as they were.
  <2>o. ASSUME NEW e, e = [id \in DOMAIN e |-> e[id]], DOMAIN e = DOMAIN u,
               \A id \in DOMAIN u : id # at => e[id] = u[id],
               e[at] = SaidPoint(j, n, at, n)
        PROVE  Held(e, j, n)
    <3> HIDE DEF m, at, u, was
    <3>1. DOMAIN e = SaidIds(j, n)
      BY <1>5, <1>6, <2>o, <2>2, <2>3
    <3>2. ASSUME NEW id \in DOMAIN e
          PROVE  \E k \in Latest(j, n, id) : e[id] = SaidPoint(j, n, id, k)
      <4>1. CASE id = at
        BY <2>o, <2>l, <4>1
      <4>2. CASE id # at
        <5>1. id \in DOMAIN b /\ id \in NEGATIVE..TWO /\ e[id] = b[id]
          BY <1>6, <2>o, <2>3, <3>2, <4>2
        <5>2. PICK k \in Latest(j, n - 1, id) : b[id] = SaidPoint(j, n - 1, id, k)
          BY <1>4, <5>1
        <5> QED BY <1>5, <4>2, <5>1, <5>2
      <4> QED BY <4>1, <4>2
    <3> QED BY <2>o, <3>1, <3>2 DEF Held
  <2>6. CASE TakesSparse(m.sparse)
    <3> DEFINE e == WithSparse(u, m.id, m.sparse)
    <3>1. Effect(b, m) = e
      BY <2>0, <2>6 DEF Effect
    <3>2. SaidSparse(j, n, at) = TermsOf(m.sparse)
      BY <1>1, <1>9, <1>w, <1>t, <2>1, <2>6 DEF SaidSparse
    <3>3. at \in DOMAIN u
      BY <2>3
    <3> HIDE DEF was
    <3>4. /\ DOMAIN e = DOMAIN u /\ \A id \in DOMAIN u : id # at => e[id] = u[id]
          /\ e[at] = [vector |-> VectorOf(m), fields |-> FieldsOf(m), sparse |-> TermsOf(m.sparse)]
          /\ e = [id \in DOMAIN u |-> e[id]]
      <4> HIDE DEF u
      <4> QED BY <2>3, <3>3, WithSparseIs
    <3> HIDE DEF m, at, u, e
    <3>5. Held(e, j, n)
      BY <2>4, <2>o, <3>2, <3>4
    <3> QED BY <3>1, <3>5 DEF m
  <2>7. CASE ~TakesSparse(m.sparse)
    <3>1. Effect(b, m) = u
      BY <2>0, <2>7 DEF Effect
    <3>2. SaidSparse(j, n, at) = was
      BY <1>w, <2>1, <2>5, <2>7 DEF SaidSparse
    <3> HIDE DEF m, at, u, was
    <3>5. Held(u, j, n)
      BY <2>3, <2>4, <2>o, <3>2
    <3> QED BY <3>1, <3>5 DEF m
  <2> QED BY <2>6, <2>7
<1> QED BY <1>7, <1>8, <1>9


\* What a journal says does not depend on the entries behind.
LEMMA HeldKept ==
  ASSUME NEW j, Journal(j), NEW m, NEW n \in 0..Len(j), NEW c, Held(c, j, n)
  PROVE  Held(c, Append(j, m), n)
<1> DEFINE i == Append(j, m)
<1>1. n \in Nat /\ \A k \in 1..n : i[k] = j[k]
  BY DEF Journal
<1> HIDE DEF i
<1>2. \A id : /\ Upserts(i, n, id) = Upserts(j, n, id) /\ Deletes(i, n, id) = Deletes(j, n, id)
              /\ SparseWrites(i, n, id) = SparseWrites(j, n, id)
              /\ Wholes(i, n, id) = Wholes(j, n, id)
  BY <1>1 DEF Upserts, Deletes, SparseWrites, Wholes
<1>3. SaidIds(i, n) = SaidIds(j, n) /\ \A id : Latest(i, n, id) = Latest(j, n, id)
  BY <1>2 DEF SaidIds, Latest
<1>4. ASSUME NEW id PROVE SaidSparse(i, n, id) = SaidSparse(j, n, id)
  <2> DEFINE s == Newest(SparseWrites(j, n, id))
             d == Newest(Deletes(j, n, id))
  <2>1. Newest(SparseWrites(i, n, id)) = s /\ Newest(Deletes(i, n, id)) = d
    BY <1>2
  <2>2. d \in 0..n /\ s \in 0..n
    BY <1>1, WritesTypes
  <2>3. CASE s <= d
    BY <2>1, <2>3 DEF SaidSparse
  <2>4. CASE ~(s <= d)
    <3> HIDE DEF s, d
    <3>1. s \in 1..n
      BY <1>1, <2>2, <2>4
    <3>2. i[s] = j[s]
      BY <1>1, <3>1
    <3> QED BY <2>1, <2>4, <3>2 DEF SaidSparse, s, d
  <2> QED BY <2>3, <2>4
<1>5. ASSUME NEW id, NEW k \in Latest(j, n, id)
      PROVE  SaidPoint(i, n, id, k) = SaidPoint(j, n, id, k)
  <2>1. i[k] = j[k]
    BY <1>1, <1>5 DEF Latest, Upserts
  <2> QED BY <1>4, <2>1 DEF SaidPoint
<1>6. Held(c, i, n)
  BY <1>3, <1>5 DEF Held
<1> QED BY <1>6 DEF i

LEMMA NothingSaid ==
  ASSUME NEW j
  PROVE  Held(Empty, j, 0)
<1>1. \A id : Upserts(j, 0, id) = {} /\ Deletes(j, 0, id) = {}
  BY DEF Upserts, Deletes
<1>2. SaidIds(j, 0) = {}
  BY <1>1 DEF SaidIds, Newest
<1> QED BY <1>2 DEF Held, Empty

\* The accepted half of an entry that raised may be applied again while nothing behind
\* it was taken whole.
LEMMA HalfAgain ==
  ASSUME NEW j, Journal(j), NEW n \in Nat, n = Len(j), NEW c, Held(c, j, n),
         NEW a \in Nat, \A l \in a + 1..n : Raises(j[l]),
         NEW k \in a + 1..n, Takes(j[k])
  PROVE  Held(Upserted(c, j[k]), j, n)
<1> DEFINE m == j[k]
           at == m.id.size
           u == Upserted(c, m)
<1>1. k \in 1..n /\ k > a /\ at \in NEGATIVE..TWO
  <2>1. k \in 1..n /\ k > a
    OBVIOUS
  <2> QED BY <2>1, EntryFacts
<1>2. k \in Upserts(j, n, at)
  BY <1>1 DEF Upserts
<1>3. ASSUME NEW S \in SUBSET (1..n), \A l \in S : ~Raises(j[l])
      PROVE  Newest(S) < k
  <2>1. \A l \in S : l <= a
    BY <1>3
  <2>2. CASE S = {}
    BY <1>1, <2>2, NewestFacts
  <2>3. CASE S # {}
    <3>1. Newest(S) \in S /\ Newest(S) \in 0..n
      BY <2>3, NewestFacts
    <3>2. Newest(S) <= a
      BY <2>1, <3>1
    <3> QED BY <1>1, <3>1, <3>2
  <2> QED BY <2>2, <2>3
<1>4. Newest(Wholes(j, n, at)) < k
  <2>1. Wholes(j, n, at) \in SUBSET (1..n) /\ \A l \in Wholes(j, n, at) : ~Raises(j[l])
    BY DEF Wholes
  <2> QED BY <1>3, <2>1
<1>5. Newest(Deletes(j, n, at)) < k
  <2>1. Deletes(j, n, at) \in SUBSET (1..n) /\ \A l \in Deletes(j, n, at) : ~Raises(j[l])
    BY DEF Deletes, Raises
  <2> QED BY <1>3, <2>1
<1>6. k \in Latest(j, n, at)
  <2>1. Newest(Wholes(j, n, at)) \in 0..n
    <3>1. Wholes(j, n, at) \in SUBSET (1..n)
      BY DEF Wholes
    <3> QED BY <3>1, NewestFacts
  <2> QED BY <1>1, <1>2, <1>4, <2>1 DEF Latest
<1>7. at \in SaidIds(j, n)
  <2>1. /\ k <= Newest(Upserts(j, n, at)) /\ Newest(Upserts(j, n, at)) \in 0..n
        /\ Newest(Deletes(j, n, at)) \in 0..n
    BY <1>2, NewestFacts, WritesTypes
  <2>2. Newest(Upserts(j, n, at)) > Newest(Deletes(j, n, at))
    <3> DEFINE x == Newest(Upserts(j, n, at))
               y == Newest(Deletes(j, n, at))
    <3>1. k <= x /\ x \in 0..n /\ y \in 0..n /\ y < k
      BY <1>5, <2>1
    <3> HIDE DEF x, y
    <3>2. x > y
      BY <1>1, <3>1
    <3> QED BY <3>2 DEF x, y
  <2> QED BY <1>1, <2>2 DEF SaidIds
<1>8. /\ DOMAIN c = SaidIds(j, n)
      /\ \A id \in DOMAIN c : \E l \in Latest(j, n, id) : c[id] = SaidPoint(j, n, id, l)
  BY DEF Held
<1>9. PICK l \in Latest(j, n, at) : c[at] = SaidPoint(j, n, at, l)
  BY <1>7, <1>8
<1>10. c[at].sparse = SaidSparse(j, n, at)
  BY <1>9 DEF SaidPoint
<1>11. /\ DOMAIN u = DOMAIN c \cup {at} /\ \A id \in DOMAIN c : id # at => u[id] = c[id]
       /\ u[at] = [vector |-> VectorOf(m), fields |-> FieldsOf(m),
                   sparse |-> IF at \in DOMAIN c THEN c[at].sparse ELSE <<>>]
       /\ u = [id \in DOMAIN u |-> u[id]]
  <2> HIDE DEF m
  <2> QED BY UpsertedIs
<1>12. SaidPoint(j, n, at, k) =
         [vector |-> VectorOf(m), fields |-> FieldsOf(m), sparse |-> SaidSparse(j, n, at)]
  BY DEF SaidPoint
<1> HIDE DEF m, at, u
<1>13. DOMAIN u = SaidIds(j, n) /\ u[at] = SaidPoint(j, n, at, k)
  BY <1>7, <1>8, <1>10, <1>11, <1>12
<1>14. ASSUME NEW id \in DOMAIN u
       PROVE  \E i \in Latest(j, n, id) : u[id] = SaidPoint(j, n, id, i)
  <2>1. CASE id = at
    BY <1>6, <1>13, <2>1
  <2>2. CASE id # at
    BY <1>8, <1>11, <1>13, <2>2
  <2> QED BY <2>1, <2>2
<1>15. Held(u, j, n)
  BY <1>11, <1>13, <1>14 DEF Held
<1> QED BY <1>15 DEF u, m

-----------------------------------------------------------------------------
(***************************************************************************)
(* An entry that the kernel takes may be applied again, in whole or in     *)
(* part, on top of itself.                                                 *)
(***************************************************************************)
LEMMA DeleteTwice ==
  ASSUME NEW c, NEW v
  PROVE  Deleted(Deleted(c, v), v) = Deleted(c, v)
<1> DEFINE e == Deleted(c, v)
<1>1. DOMAIN e = DOMAIN c \ {v.size} /\ e = [id \in DOMAIN e |-> e[id]]
  BY DeletedIs
<1> HIDE DEF e
<1>2. DOMAIN e \ {v.size} = DOMAIN e
  BY <1>1
<1>3. Deleted(e, v) = [id \in DOMAIN e |-> e[id]]
  BY <1>2 DEF Deleted
<1> QED BY <1>1, <1>3 DEF e

LEMMA UpsertTwice ==
  ASSUME NEW c, NEW p, c = [id \in DOMAIN c |-> c[id]], p.id.size \in DOMAIN c,
         NEW sp, c[p.id.size] = [vector |-> VectorOf(p), fields |-> FieldsOf(p), sparse |-> sp]
  PROVE  Upserted(c, p) = c
<1> DEFINE u == Upserted(c, p)
<1>1. /\ DOMAIN u = DOMAIN c \cup {p.id.size}
      /\ \A id \in DOMAIN c : id # p.id.size => u[id] = c[id]
      /\ u[p.id.size] = [vector |-> VectorOf(p), fields |-> FieldsOf(p),
                         sparse |-> IF p.id.size \in DOMAIN c THEN c[p.id.size].sparse ELSE <<>>]
      /\ u = [id \in DOMAIN u |-> u[id]]
  BY UpsertedIs
<1> HIDE DEF u
<1>2. DOMAIN u = DOMAIN c
  BY <1>1
<1>3. u[p.id.size] = c[p.id.size]
  BY <1>1
<1>4. \A id \in DOMAIN u : u[id] = c[id]
  BY <1>1, <1>2, <1>3
<1>5. u = c
  BY <1>1, <1>2, <1>4, SameFunction
<1> QED BY <1>5 DEF u

LEMMA SparseTwice ==
  ASSUME NEW c, NEW v, NEW es, c = [id \in DOMAIN c |-> c[id]], v.size \in DOMAIN c,
         NEW vec, NEW fs, c[v.size] = [vector |-> vec, fields |-> fs, sparse |-> TermsOf(es)]
  PROVE  WithSparse(c, v, es) = c
<1> DEFINE w == WithSparse(c, v, es)
           t == TermsOf(es)
<1> HIDE DEF t
<1>0. c[v.size] = [vector |-> vec, fields |-> fs, sparse |-> t]
  BY DEF t
<1>1. /\ DOMAIN w = DOMAIN c /\ \A id \in DOMAIN c : id # v.size => w[id] = c[id]
      /\ w[v.size] = [vector |-> vec, fields |-> fs, sparse |-> t]
      /\ w = [id \in DOMAIN c |-> w[id]]
  BY <1>0, WithSparseIs DEF t
<1> HIDE DEF w
<1>2. \A id \in DOMAIN w : w[id] = c[id]
  BY <1>0, <1>1
<1>3. w = c
  BY <1>1, <1>2, SameFunction
<1> QED BY <1>3 DEF w

\* Upserting a point, its sparse vector, and both again.
LEMMA UpsertForms ==
  ASSUME NEW c, NEW m
  PROVE  LET u == Upserted(c, m)
             e == WithSparse(u, m.id, m.sparse)
         IN  /\ m.id.size \in DOMAIN u /\ Upserted(u, m) = u
             /\ m.id.size \in DOMAIN e /\ Upserted(e, m) = e /\ WithSparse(e, m.id, m.sparse) = e
<1> DEFINE u == Upserted(c, m)
           e == WithSparse(u, m.id, m.sparse)
           sp == IF m.id.size \in DOMAIN c THEN c[m.id.size].sparse ELSE <<>>
<1>1. /\ DOMAIN u = DOMAIN c \cup {m.id.size}
      /\ u[m.id.size] = [vector |-> VectorOf(m), fields |-> FieldsOf(m), sparse |-> sp]
      /\ u = [id \in DOMAIN u |-> u[id]]
  BY UpsertedIs
<1> HIDE DEF u, sp
<1>2. m.id.size \in DOMAIN u
  BY <1>1
<1>3. Upserted(u, m) = u
  BY <1>1, <1>2, UpsertTwice
<1>4. /\ DOMAIN e = DOMAIN u
      /\ e[m.id.size] = [vector |-> VectorOf(m), fields |-> FieldsOf(m), sparse |-> TermsOf(m.sparse)]
      /\ e = [id \in DOMAIN u |-> e[id]]
  BY <1>1, <1>2, WithSparseIs
<1> HIDE DEF e
<1>5. Upserted(e, m) = e
  BY <1>2, <1>4, UpsertTwice
<1>6. WithSparse(e, m.id, m.sparse) = e
  BY <1>2, <1>4, SparseTwice
<1> QED BY <1>2, <1>3, <1>4, <1>5, <1>6 DEF u, e

LEMMA EffectForms ==
  ASSUME NEW c, NEW m, m.operation \in {"upsert", "delete"}
  PROVE  /\ m.operation = "delete" /\ ~Raises(m) =>
              /\ TakesId(m.id) /\ Effect(c, m) = Deleted(c, m.id)
              /\ Deleted(Effect(c, m), m.id) = Effect(c, m)
         /\ m.operation = "upsert" /\ ~Raises(m) =>
              /\ TakesPoint(m) /\ Upserted(Upserted(c, m), m) = Upserted(c, m)
              /\ m.sparse # <<>> => /\ TakesSparse(m.sparse)
                                    /\ Effect(c, m) = WithSparse(Upserted(c, m), m.id, m.sparse)
                                    /\ WithSparse(Effect(c, m), m.id, m.sparse) = Effect(c, m)
              /\ m.sparse = <<>> => Effect(c, m) = Upserted(c, m)
              /\ Upserted(Effect(c, m), m) = Effect(c, m)
         /\ m.operation = "delete" /\ Raises(m) => Effect(c, m) = c /\ ~TakesId(m.id)
         /\ m.operation = "upsert" /\ Raises(m) =>
              /\ ~TakesPoint(m) => Effect(c, m) = c
              /\ TakesPoint(m) => /\ m.sparse # <<>> /\ ~TakesSparse(m.sparse)
                                  /\ Effect(c, m) = Upserted(c, m)
<1>1. CASE m.operation = "delete"
  BY <1>1, DeleteTwice DEF Raises, Effect
<1>2. CASE m.operation = "upsert"
  <2>1. m.sparse = <<>> => ~TakesSparse(m.sparse)
    BY DEF TakesSparse
  <2> QED BY <1>2, <2>1, UpsertForms DEF Raises, Effect
<1> QED BY <1>1, <1>2

-----------------------------------------------------------------------------
(***************************************************************************)
(* The steps of the replica.                                               *)
(***************************************************************************)
LEMMA ReplicaFacts ==
  ASSUME TypeInv
  PROVE  /\ Journal(journal) /\ Len(journal) \in Nat /\ applied_index \in 0..Len(journal)
         /\ \A k \in 1..Len(journal) : /\ journal[k] \in Mutations
                                       /\ journal[k].operation \in {"upsert", "delete"}
         /\ \A b : Before(b) => /\ Held(Effect(b, Entry), journal, Len(journal))
                                /\ Entry.operation \in {"upsert", "delete"}
<1>1. /\ Journal(journal) /\ Len(journal) \in Nat /\ applied_index \in 0..Len(journal)
  BY DEF TypeInv, Journal, validate_replicated_mutation
<1>2. \A k \in 1..Len(journal) : /\ journal[k] \in Mutations
                                 /\ journal[k].operation \in {"upsert", "delete"}
  BY <1>1, EntryFacts
<1>3. ASSUME NEW b, Before(b)
      PROVE  /\ Held(Effect(b, Entry), journal, Len(journal))
             /\ Entry.operation \in {"upsert", "delete"}
  <2>1. Len(journal) \in 1..Len(journal) /\ Held(b, journal, Len(journal) - 1)
    BY <1>1, <1>3 DEF Before
  <2> QED BY <1>1, <1>2, <2>1, HeldStep DEF Entry
<1> QED BY <1>1, <1>2, <1>3

\* Steps that leave the journal alone.
SameJournal == UNCHANGED journal

LEMMA SameJournalFacts ==
  ASSUME NEW b, SameJournal
  PROVE  /\ Before(b)' = Before(b) /\ Entry' = Entry /\ Len(journal)' = Len(journal)
         /\ \A k : journal'[k] = journal[k]
         /\ collection' = collection /\ applied_index' = applied_index => Settled' = Settled
BY DEF SameJournal, Before, Entry, Settled, RaisedUpto

LEMMA CommitType ==
  ASSUME TypeInv, NEW m \in Mutations, Commit(m)
  PROVE  TypeInv'
<1> DEFINE n == Len(journal)
<1>1. journal \in Seq(Mutations) /\ n \in Nat /\ applied_index \in 0..n
  BY DEF TypeInv
<1>2. /\ journal' = Append(journal, m) /\ phase' = "dense" /\ entry' = n + 1 /\ replaying' = FALSE
      /\ applied_index' = applied_index /\ validate_replicated_mutation(m)
  BY DEF Commit
<1>3. /\ journal' \in Seq(Mutations) /\ Len(journal') = n + 1 /\ journal'[n + 1] = m
      /\ \A k \in 1..n : journal'[k] = journal[k]
  BY <1>1, <1>2
<1>4. \A k \in 1..n + 1 : validate_replicated_mutation(journal'[k])
  <2>1. \A k \in 1..n + 1 : k \in 1..n \/ k = n + 1
    BY <1>1
  <2> QED BY <1>2, <1>3, <2>1 DEF TypeInv
<1> HIDE DEF n
<1>5. applied_index' \in 0..n + 1 /\ entry' \in 0..n + 1 /\ entry' > applied_index'
  BY <1>1, <1>2
<1> QED BY <1>2, <1>3, <1>4, <1>5 DEF TypeInv, Applying

LEMMA StepType ==
  ASSUME TypeInv,
         \/ \E k \in 1..Len(journal) : CommitAgain(k)
         \/ ApplyDelete \/ ApplyDense \/ ApplySparse \/ PublishState \/ Crash \/ Reopen
  PROVE  TypeInv'
<1> DEFINE n == Len(journal)
<1>1. /\ journal \in Seq(Mutations) /\ n \in Nat /\ applied_index \in 0..n /\ entry \in 0..n
      /\ \A k \in 1..n : validate_replicated_mutation(journal[k])
  BY DEF TypeInv
<1>2. journal' = journal
  BY DEF CommitAgain, ApplyDelete, ApplyDense, ApplySparse, PublishState, Crash, Reopen, KernelRaises
<1>3. CASE ApplyDelete
  BY <1>1, <1>2, <1>3 DEF ApplyDelete, KernelRaises, TypeInv, Applying, Raises
<1>4. CASE ApplyDense
  <2>1. CASE TakesPoint(journal[entry])
    <3>1. journal[entry].sparse = <<>> => ~Raises(journal[entry])
      BY <1>4, <2>1 DEF ApplyDense, Raises
    <3> QED BY <1>1, <1>2, <1>4, <2>1, <3>1 DEF ApplyDense, TypeInv, Applying
  <2>2. CASE ~TakesPoint(journal[entry])
    BY <1>1, <1>2, <1>4, <2>2 DEF ApplyDense, KernelRaises, TypeInv, Applying
  <2> QED BY <2>1, <2>2
<1>5. CASE ApplySparse
  <2>1. CASE TakesSparse(journal[entry].sparse)
    <3>1. ~Raises(journal[entry])
      BY <1>5, <2>1 DEF ApplySparse, TypeInv, Raises
    <3> QED BY <1>1, <1>2, <1>5, <2>1, <3>1 DEF ApplySparse, TypeInv, Applying
  <2>2. CASE ~TakesSparse(journal[entry].sparse)
    BY <1>1, <1>2, <1>5, <2>2 DEF ApplySparse, KernelRaises, TypeInv, Applying
  <2> QED BY <2>1, <2>2
<1>6. CASE PublishState
  <2>1. applied_index' = entry /\ replaying' = replaying
    BY <1>6 DEF PublishState
  <2>2. CASE replaying /\ entry < Len(journal)
    BY <1>1, <1>2, <1>6, <2>1, <2>2 DEF PublishState, TypeInv, Applying
  <2>3. CASE ~(replaying /\ entry < Len(journal))
    BY <1>1, <1>2, <1>6, <2>1, <2>3 DEF PublishState, TypeInv, Applying
  <2> QED BY <2>2, <2>3
<1>7. CASE Crash
  BY <1>1, <1>2, <1>7 DEF Crash, TypeInv, Applying
<1>8. CASE Reopen
  <2>1. CASE applied_index < Len(journal)
    BY <1>1, <1>2, <1>8, <2>1 DEF Reopen, TypeInv, Applying
  <2>2. CASE ~(applied_index < Len(journal))
    BY <1>1, <1>2, <1>8, <2>2 DEF Reopen, TypeInv, Applying
  <2> QED BY <2>1, <2>2
<1>9. CASE \E k \in 1..n : CommitAgain(k)
  <2>1. PICK k \in 1..n : CommitAgain(k)
    BY <1>9
  <2>2. /\ phase' = "dense" /\ entry' = k /\ k > applied_index /\ replaying' = FALSE
        /\ applied_index' = applied_index
    BY <2>1 DEF CommitAgain
  <2>3. entry' \in 0..Len(journal') /\ entry' > applied_index'
    BY <1>1, <1>2, <2>2
  <2>4. /\ journal' \in Seq(Mutations) /\ \A l \in 1..Len(journal') : validate_replicated_mutation(journal'[l])
        /\ applied_index' \in 0..Len(journal')
    BY <1>1, <1>2, <2>2
  <2> QED BY <2>2, <2>3, <2>4 DEF TypeInv, Applying
<1> QED BY <1>3, <1>4, <1>5, <1>6, <1>7, <1>8, <1>9

LEMMA CommitReplica ==
  ASSUME TypeInv, ReplicaInv, NEW m \in Mutations, Commit(m)
  PROVE  ReplicaInv'
<1> DEFINE n == Len(journal)
<1>1. Journal(journal) /\ n \in Nat /\ applied_index \in 0..n
  BY ReplicaFacts
<1>2. /\ phase = "idle" /\ journal' = Append(journal, m) /\ phase' = "dense" /\ entry' = n + 1
      /\ replaying' = FALSE /\ applied_index' = applied_index /\ collection' = collection
  BY DEF Commit
<1>3. PICK c : c = collection
  OBVIOUS
<1>4. Held(c, journal, n) /\ \A k \in applied_index + 1..n : Raises(journal[k])
  BY <1>2, <1>3 DEF ReplicaInv, InvWith, Settled, RaisedUpto
<1>5. Len(journal') = n + 1 /\ \A k \in 1..n : journal'[k] = journal[k]
  BY <1>1, <1>2 DEF Journal
<1>6. Before(c)'
  <2>1. Held(c, Append(journal, m), n)
    BY <1>1, <1>4, HeldKept
  <2>2. journal' = Append(journal, m) /\ Len(journal') - 1 = n /\ Len(journal') > 0
    BY <1>1, <1>2, <1>5
  <2> HIDE DEF n
  <2> QED BY <2>1, <2>2 DEF Before
<1> HIDE DEF n
<1>7. \A k \in applied_index' + 1..n : Raises(journal'[k])
  BY <1>1, <1>2, <1>4, <1>5
<1>8. Committing(c)'
  BY <1>1, <1>2, <1>3, <1>5, <1>6, <1>7 DEF Committing, RaisedUpto
<1> QED BY <1>2, <1>8 DEF ReplicaInv, InvWith, Applying

\* A step of an entry that is applied for the first time, or replayed.
First(b) == TypeInv /\ InvWith(b) /\ Applying /\ (~replaying => Committing(b))

\* The entry that is being applied, and what the invariant says of it.
LEMMA ApplyFacts ==
  ASSUME NEW b, First(b)
  PROVE  /\ Len(journal) \in Nat /\ applied_index \in 0..Len(journal)
         /\ applied_index < entry /\ entry \in 1..Len(journal)
         /\ Before(b) =>
              Held(Effect(b, Entry), journal, Len(journal)) /\ Entry.operation \in {"upsert", "delete"}
         /\ ~replaying => Before(b) /\ Committing(b) /\ journal[entry] = Entry
         /\ replaying => entry = applied_index + 1
         /\ replaying /\ ~Raises(journal[entry]) =>
              Before(b) /\ Redoing(b) /\ journal[entry] = Entry
         /\ replaying /\ Raises(journal[entry]) => Stuck
<1>1. /\ applied_index \in 0..Len(journal) /\ applied_index < entry /\ entry \in 0..Len(journal)
      /\ Len(journal) \in Nat
  BY ReplicaFacts DEF First, TypeInv
<1>2. entry \in 1..Len(journal)
  BY <1>1
<1>3. Before(b) =>
        Held(Effect(b, Entry), journal, Len(journal)) /\ Entry.operation \in {"upsert", "delete"}
  BY ReplicaFacts DEF First
<1>4. ~replaying => Before(b) /\ Committing(b) /\ journal[entry] = Entry
  BY DEF First, Committing, Entry
<1>5. replaying => entry = applied_index + 1 /\ (Stuck \/ Redoing(b))
  BY DEF First, InvWith
<1>6. replaying /\ Stuck => Raises(journal[entry])
  BY <1>5 DEF Stuck
<1>7. replaying /\ Redoing(b) => Before(b) /\ ~Raises(journal[entry]) /\ journal[entry] = Entry
  BY <1>1, <1>5 DEF Redoing, Entry
<1> QED BY <1>1, <1>2, <1>3, <1>4, <1>5, <1>6, <1>7

\* The kernel refuses the entry: it is left behind, or the replica stays closed.
LEMMA RaisesReplica ==
  ASSUME NEW b, First(b), KernelRaises, Raises(journal[entry]),
         ~replaying => collection = Effect(b, Entry)
  PROVE  InvWith(b)'
<1>1. /\ journal' = journal /\ applied_index' = applied_index /\ collection' = collection
      /\ phase' = IF replaying THEN "refused" ELSE "idle"
  BY DEF KernelRaises
<1>2. CASE replaying
  <2>1. Stuck
    BY <1>2, ApplyFacts
  <2>2. Stuck'
    BY <1>1, <2>1 DEF Stuck
  <2> QED BY <1>1, <1>2, <2>2 DEF InvWith, Applying
<1>3. CASE ~replaying
  <2>1. /\ Committing(b) /\ journal[entry] = Entry /\ Len(journal) \in Nat
        /\ Held(Effect(b, Entry), journal, Len(journal)) /\ applied_index \in 0..Len(journal)
    BY <1>3, ApplyFacts
  <2>2. \A k \in applied_index + 1..Len(journal) : Raises(journal[k])
    <3>1. \A k \in applied_index + 1..Len(journal) :
            k \in applied_index + 1..Len(journal) - 1 \/ k = Len(journal)
      BY <2>1
    <3> QED BY <2>1, <3>1 DEF Committing, RaisedUpto, Entry
  <2>3. Settled'
    BY <1>1, <1>3, <2>1, <2>2 DEF Settled, RaisedUpto
  <2> QED BY <1>1, <1>3, <2>3 DEF InvWith, Applying
<1> QED BY <1>2, <1>3

\* The kernel takes the entry, or its dense half: a commit and a replay come to the
\* same collection.
LEMMA TakenReplica ==
  ASSUME NEW b, First(b), SameJournal,
         UNCHANGED <<applied_index, entry, replaying>>,
         \/ phase' = "publish" /\ collection' = Effect(b, Entry) /\ ~Raises(journal[entry])
         \/ /\ phase' = "sparse" /\ Entry.operation = "upsert"
            /\ \/ collection' = Upserted(b, Entry)
               \/ replaying /\ ~Raises(journal[entry]) /\ collection' = Effect(b, Entry)
               \/ replaying /\ Raises(journal[entry])
         \/ phase' = "sparse" /\ replaying /\ Raises(journal[entry])
  PROVE  InvWith(b)'
<1>1. /\ Before(b)' = Before(b) /\ Entry' = Entry /\ Len(journal)' = Len(journal)
      /\ journal' = journal
  BY SameJournalFacts DEF SameJournal
<1>2. CASE ~replaying
  <2>1. Committing(b) /\ journal[entry] = Entry
    BY <1>2, ApplyFacts
  <2>2. Committing(b)'
    BY <1>1, <1>2, <2>1 DEF Committing, RaisedUpto
  <2> QED BY <1>2, <2>2 DEF InvWith, Applying
<1>3. CASE replaying /\ Raises(journal[entry])
  <2>1. Stuck /\ entry = applied_index + 1
    BY <1>3, ApplyFacts
  <2>2. Stuck'
    BY <1>1, <2>1 DEF Stuck
  <2> QED BY <1>3, <2>1, <2>2 DEF InvWith, Applying
<1>4. CASE replaying /\ ~Raises(journal[entry])
  <2>1. Redoing(b) /\ entry = applied_index + 1
    BY <1>4, ApplyFacts
  <2>2. Redoing(b)'
    BY <1>1, <1>4, <2>1 DEF Redoing
  <2> QED BY <1>4, <2>1, <2>2 DEF InvWith, Applying
<1> QED BY <1>2, <1>3, <1>4

LEMMA DeleteReplica ==
  ASSUME NEW b, First(b), ApplyDelete
  PROVE  InvWith(b)'
<1>1. Applying /\ phase = "dense" /\ journal[entry].operation = "delete"
  BY DEF ApplyDelete, Applying
<1>2. CASE TakesId(journal[entry].id)
  <2>1. /\ collection' = Deleted(collection, journal[entry].id) /\ phase' = "publish" /\ SameJournal
        /\ UNCHANGED <<applied_index, entry, replaying>> /\ ~Raises(journal[entry])
    BY <1>1, <1>2 DEF ApplyDelete, SameJournal, Raises
  <2>2. journal[entry] = Entry /\ (collection = b \/ collection = Effect(b, Entry))
    <3>1. CASE ~replaying
      BY <1>1, <3>1, ApplyFacts DEF Committing
    <3>2. CASE replaying
      BY <1>1, <2>1, <3>2, ApplyFacts DEF Redoing
    <3> QED BY <3>1, <3>2
  <2>3. collection' = Effect(b, Entry)
    BY <1>1, <2>1, <2>2, EffectForms
  <2> QED BY <1>1, <2>1, <2>3, TakenReplica
<1>3. CASE ~TakesId(journal[entry].id)
  <2>1. KernelRaises /\ Raises(journal[entry])
    BY <1>1, <1>3 DEF ApplyDelete, Raises
  <2>2. ~replaying => collection = Effect(b, Entry)
    BY <1>1, <2>1, ApplyFacts, EffectForms DEF Committing
  <2> QED BY <1>1, <2>1, <2>2, RaisesReplica
<1> QED BY <1>2, <1>3

LEMMA DenseReplica ==
  ASSUME NEW b, First(b), ApplyDense
  PROVE  InvWith(b)'
<1>1. Applying /\ phase = "dense" /\ journal[entry].operation = "upsert"
  BY DEF ApplyDense, Applying
<1>2. CASE TakesPoint(journal[entry])
  <2>1. /\ collection' = Upserted(collection, journal[entry]) /\ SameJournal
        /\ phase' = IF journal[entry].sparse = <<>> THEN "publish" ELSE "sparse"
        /\ UNCHANGED <<applied_index, entry, replaying>>
    BY <1>1, <1>2 DEF ApplyDense, SameJournal
  <2>2. CASE replaying /\ Raises(journal[entry])
    <3>1. journal[entry].sparse # <<>>
      BY <1>1, <1>2, <2>2 DEF Raises
    <3> QED BY <1>1, <2>1, <2>2, <3>1, TakenReplica
  <2>3. CASE ~replaying
    <3>1. journal[entry] = Entry /\ collection = b
      BY <1>1, <2>3, ApplyFacts DEF Committing
    <3>2. CASE Entry.sparse = <<>>
      <4>1. ~Raises(Entry)
        BY <1>1, <1>2, <3>1, <3>2 DEF Raises
      <4>2. collection' = Effect(b, Entry)
        BY <1>1, <2>1, <3>1, <3>2, <4>1, EffectForms
      <4> QED BY <1>1, <2>1, <3>1, <3>2, <4>1, <4>2, TakenReplica
    <3>3. CASE Entry.sparse # <<>>
      BY <1>1, <2>1, <3>1, <3>3, TakenReplica
    <3> QED BY <3>2, <3>3
  <2>4. CASE replaying /\ ~Raises(journal[entry])
    <3>1. /\ journal[entry] = Entry
          /\ \/ collection = b \/ collection = Upserted(b, Entry)
             \/ collection = Effect(b, Entry)
      BY <1>1, <2>4, ApplyFacts DEF Redoing
    <3>2. collection' = Upserted(b, Entry) \/ collection' = Effect(b, Entry)
      BY <1>1, <2>1, <2>4, <3>1, EffectForms
    <3>3. CASE Entry.sparse = <<>>
      <4>1. collection' = Effect(b, Entry)
        BY <1>1, <2>4, <3>1, <3>2, <3>3, EffectForms
      <4> QED BY <1>1, <2>1, <2>4, <3>1, <3>3, <4>1, TakenReplica
    <3>4. CASE Entry.sparse # <<>>
      BY <1>1, <2>1, <2>4, <3>1, <3>2, <3>4, TakenReplica
    <3> QED BY <3>3, <3>4
  <2> QED BY <2>2, <2>3, <2>4
<1>3. CASE ~TakesPoint(journal[entry])
  <2>1. KernelRaises /\ Raises(journal[entry])
    BY <1>1, <1>3 DEF ApplyDense, Raises
  <2>2. ~replaying => collection = Effect(b, Entry)
    BY <1>1, <1>3, <2>1, ApplyFacts, EffectForms DEF Committing
  <2> QED BY <1>1, <2>1, <2>2, RaisesReplica
<1> QED BY <1>2, <1>3

LEMMA SparseReplica ==
  ASSUME NEW b, First(b), ApplySparse
  PROVE  InvWith(b)'
<1>1. /\ Applying /\ phase = "sparse" /\ journal[entry].operation = "upsert"
      /\ TakesPoint(journal[entry]) /\ journal[entry].sparse # <<>>
  BY DEF ApplySparse, Applying, First, TypeInv
<1>2. CASE TakesSparse(journal[entry].sparse)
  <2>1. /\ collection' = WithSparse(collection, journal[entry].id, journal[entry].sparse)
        /\ phase' = "publish" /\ SameJournal /\ UNCHANGED <<applied_index, entry, replaying>>
        /\ ~Raises(journal[entry])
    BY <1>1, <1>2 DEF ApplySparse, SameJournal, Raises
  <2>2. /\ journal[entry] = Entry
        /\ collection = Upserted(b, Entry) \/ collection = Effect(b, Entry)
    <3>1. CASE ~replaying
      BY <1>1, <3>1, ApplyFacts DEF Committing
    <3>2. CASE replaying
      BY <1>1, <2>1, <3>2, ApplyFacts DEF Redoing
    <3> QED BY <3>1, <3>2
  <2>3. collection' = Effect(b, Entry)
    BY <1>1, <2>1, <2>2, EffectForms
  <2> QED BY <1>1, <2>1, <2>3, TakenReplica
<1>3. CASE ~TakesSparse(journal[entry].sparse)
  <2>1. KernelRaises /\ Raises(journal[entry])
    BY <1>1, <1>3 DEF ApplySparse, Raises
  <2>2. ~replaying => collection = Effect(b, Entry)
    BY <1>1, <2>1, ApplyFacts, EffectForms DEF Committing
  <2> QED BY <1>1, <2>1, <2>2, RaisesReplica
<1> QED BY <1>2, <1>3

LEMMA PublishReplica ==
  ASSUME NEW b, First(b), PublishState
  PROVE  InvWith(b)'
<1>1. /\ Applying /\ phase = "publish" /\ ~Raises(journal[entry]) /\ journal' = journal
      /\ collection' = collection /\ applied_index' = entry
  BY DEF PublishState, Applying, First, TypeInv
<1>2. entry = Len(journal) /\ collection = Effect(b, Entry)
  <2>1. CASE ~replaying
    BY <1>1, <2>1, ApplyFacts DEF Committing
  <2>2. CASE replaying
    BY <1>1, <2>2, ApplyFacts DEF Redoing
  <2> QED BY <2>1, <2>2
<1>3. phase' = "idle"
  BY <1>1, <1>2, ApplyFacts DEF PublishState
<1>4. Before(b)
  BY <1>1, ApplyFacts
<1>5. Held(collection', journal', Len(journal'))
  BY <1>1, <1>2, <1>4, ApplyFacts
<1>6. RaisedUpto(Len(journal))'
  BY <1>1, <1>2, ApplyFacts DEF RaisedUpto
<1> QED BY <1>3, <1>5, <1>6 DEF InvWith, Settled, Applying

\* An entry that raised is applied again: it raises again, after the kernel took the same
\* half of it.
LEMMA AgainReplica ==
  ASSUME NEW b, TypeInv, InvWith(b), Applying, ~replaying, Recommitting,
         ApplyDelete \/ ApplyDense \/ ApplySparse \/ PublishState
  PROVE  InvWith(b)'
<1> DEFINE n == Len(journal)
           m == journal[entry]
<1>1. /\ Journal(journal) /\ n \in Nat /\ applied_index \in 0..n /\ entry \in applied_index + 1..n
      /\ Raises(m) /\ m.operation \in {"upsert", "delete"}
      /\ phase \in {"dense", "sparse"} /\ Held(collection, journal, n) /\ RaisedUpto(n)
  <2>1. /\ Journal(journal) /\ n \in Nat /\ applied_index \in 0..n
        /\ \A k \in 1..n : journal[k].operation \in {"upsert", "delete"}
    BY ReplicaFacts
  <2>2. entry \in applied_index + 1..n /\ entry \in 1..n
    BY <2>1 DEF TypeInv
  <2> QED BY <2>1, <2>2 DEF Recommitting, Settled, RaisedUpto
<1>2. CASE KernelRaises
  <2>1. phase' = "idle" /\ UNCHANGED <<collection, journal, applied_index, entry, replaying>>
    BY <1>2 DEF KernelRaises
  <2>2. Settled'
    BY <1>1, <2>1 DEF Settled, RaisedUpto
  <2> QED BY <2>1, <2>2 DEF InvWith, Applying
<1>3. CASE ~KernelRaises
  <2>1. /\ ApplyDense /\ TakesPoint(m) /\ m.operation = "upsert"
    BY <1>1, <1>3 DEF ApplyDelete, ApplyDense, ApplySparse, PublishState, TypeInv, Raises
  <2>2. Takes(m) /\ m.sparse # <<>>
    BY <1>1, <2>1 DEF Takes, Raises
  <2>3. /\ collection' = Upserted(collection, m) /\ phase' = "sparse"
        /\ UNCHANGED <<journal, applied_index, entry, replaying>>
    BY <2>1, <2>2 DEF ApplyDense
  <2>4. \A l \in applied_index + 1..n : Raises(journal[l])
    BY <1>1 DEF RaisedUpto
  <2>5. Held(Upserted(collection, m), journal, n)
    BY <1>1, <2>2, <2>4, HalfAgain
  <2>6. Recommitting'
    BY <1>1, <2>3, <2>5 DEF Recommitting, Settled, RaisedUpto
  <2> QED BY <2>3, <2>6 DEF InvWith, Applying
<1> QED BY <1>2, <1>3

LEMMA CommitAgainReplica ==
  ASSUME NEW b, TypeInv, InvWith(b), NEW k \in 1..Len(journal), CommitAgain(k)
  PROVE  InvWith(b)'
<1>1. /\ phase = "idle" /\ phase' = "dense" /\ entry' = k /\ replaying' = FALSE
      /\ UNCHANGED <<collection, journal, applied_index>>
  BY DEF CommitAgain
<1>2. Settled
  BY <1>1 DEF InvWith
<1>3. Recommitting'
  BY <1>1, <1>2 DEF Recommitting, Settled, RaisedUpto
<1> QED BY <1>1, <1>3 DEF InvWith, Applying

LEMMA CrashReplica ==
  ASSUME NEW b, TypeInv, InvWith(b), Crash
  PROVE  InvWith(b)'
<1>1. /\ phase # "down" /\ phase' = "down" /\ SameJournal /\ applied_index' = applied_index
      /\ collection' = collection
  BY DEF Crash, SameJournal
<1>2. /\ Before(b)' = Before(b) /\ Entry' = Entry /\ Len(journal)' = Len(journal) /\ journal' = journal
      /\ Settled' = Settled
  BY <1>1, SameJournalFacts DEF SameJournal
<1>3. applied_index \in 0..Len(journal) /\ Len(journal) \in Nat
  BY ReplicaFacts
<1>4. Stuck => Stuck'
  BY <1>1, <1>2 DEF Stuck
<1>5. Redoing(b) => Redoing(b)'
  BY <1>1, <1>2 DEF Redoing
<1>6. CASE phase = "idle"
  <2>1. Settled
    BY <1>6 DEF InvWith
  <2>2. CASE applied_index = Len(journal)
    BY <1>1, <1>2, <2>1, <2>2 DEF InvWith, Recovered, Applying
  <2>3. CASE applied_index # Len(journal)
    <3>1. Stuck
      BY <1>3, <2>1, <2>3 DEF Stuck, Settled, RaisedUpto
    <3> QED BY <1>1, <1>4, <3>1 DEF InvWith, Applying
  <2> QED BY <2>2, <2>3
<1>r. CASE Recommitting
  <2>1. applied_index + 1 \in applied_index + 1..Len(journal)
    BY <1>3, <1>r DEF Recommitting, TypeInv, Applying
  <2>2. Stuck
    BY <1>3, <1>r, <2>1 DEF Recommitting, Settled, RaisedUpto, Stuck
  <2> QED BY <1>1, <1>4, <2>2 DEF InvWith, Applying
<1>7. CASE Applying /\ ~replaying /\ ~Recommitting
  <2>1. /\ Committing(b) /\ Before(b) /\ journal[entry] = Entry /\ applied_index < entry
        /\ Entry.operation \in {"upsert", "delete"}
    <3>1. First(b)
      BY <1>7 DEF First, InvWith
    <3> QED BY <1>7, <3>1, ApplyFacts
  <2>2. CASE applied_index < Len(journal) - 1
    <3>1. Stuck
      BY <1>3, <2>1, <2>2 DEF Stuck, Committing, RaisedUpto
    <3> QED BY <1>1, <1>4, <3>1 DEF InvWith, Applying
  <2>3. CASE ~(applied_index < Len(journal) - 1)
    <3>1. applied_index = Len(journal) - 1
      BY <1>3, <2>1, <2>3 DEF Committing
    <3>2. CASE Raises(Entry)
      <4>1. Stuck
        BY <1>3, <3>1, <3>2 DEF Stuck, Entry
      <4> QED BY <1>1, <1>4, <4>1 DEF InvWith, Applying
    <3>3. CASE ~Raises(Entry)
      <4>1. phase = "sparse" => Entry.operation = "upsert"
        BY <2>1 DEF TypeInv
      <4>2. Redoing(b)'
        BY <1>1, <1>2, <1>7, <2>1, <3>1, <3>3, <4>1 DEF Redoing, Committing, Applying
      <4> QED BY <1>1, <4>2 DEF InvWith, Applying
    <3> QED BY <3>2, <3>3
  <2> QED BY <2>2, <2>3
<1>8. CASE Applying /\ replaying
  <2>1. Stuck \/ Redoing(b)
    BY <1>8 DEF InvWith
  <2> QED BY <1>1, <1>4, <1>5, <2>1 DEF InvWith, Applying
<1>9. CASE phase = "refused"
  <2>1. Stuck
    BY <1>9 DEF InvWith
  <2> QED BY <1>1, <1>4, <2>1 DEF InvWith, Applying
<1> QED BY <1>1, <1>6, <1>r, <1>7, <1>8, <1>9 DEF TypeInv, Applying

LEMMA ReopenReplica ==
  ASSUME NEW b, TypeInv, InvWith(b), Reopen
  PROVE  InvWith(b)'
<1>1. /\ phase = "down" /\ SameJournal /\ applied_index' = applied_index /\ collection' = collection
  BY DEF Reopen, SameJournal
<1>2. /\ Before(b)' = Before(b) /\ Entry' = Entry /\ Len(journal)' = Len(journal) /\ journal' = journal
      /\ Settled' = Settled
  BY <1>1, SameJournalFacts DEF SameJournal
<1>3. applied_index \in 0..Len(journal) /\ Len(journal) \in Nat
  BY ReplicaFacts
<1>4. Stuck \/ Recovered \/ Redoing(b)
  BY <1>1 DEF InvWith
<1>5. CASE applied_index < Len(journal)
  <2>1. phase' = "dense" /\ entry' = applied_index + 1 /\ replaying' = TRUE
    BY <1>5 DEF Reopen
  <2>2. Stuck \/ Redoing(b)
    BY <1>3, <1>4, <1>5 DEF Recovered
  <2>3. Stuck => Stuck'
    BY <1>1, <1>2 DEF Stuck
  <2>4. Redoing(b) => Redoing(b)'
    BY <1>1, <1>2, <2>1 DEF Redoing
  <2> QED BY <1>1, <2>1, <2>2, <2>3, <2>4 DEF InvWith, Applying
<1>6. CASE ~(applied_index < Len(journal))
  <2>1. phase' = "idle"
    BY <1>6 DEF Reopen
  <2>2. Settled
    BY <1>3, <1>4, <1>6 DEF Stuck, Recovered, Redoing
  <2> QED BY <1>1, <1>2, <2>1, <2>2 DEF InvWith, Applying
<1> QED BY <1>5, <1>6

-----------------------------------------------------------------------------
(***************************************************************************)
(* What the kernel stores can be exported, checked and stored again.       *)
(***************************************************************************)
Typed(p) ==
  p.id \in Number /\ p.vector \in Seq(Number) /\ p.fields \in Seq(Field) /\ p.sparse \in Seq(Term)

LEMMA Float32Facts ==
  ASSUME NEW s \in Size
  PROVE  Float32(s) \in Size /\ Float32(Float32(s)) = Float32(s)
<1>1. CASE s = TINY
  BY <1>1 DEF Size, Float32, NEGATIVE, HUGE, TINY, ZERO, VAST
<1>2. CASE s # TINY /\ s >= VAST
  BY <1>2 DEF Size, Float32, NEGATIVE, HUGE, TINY, ZERO, VAST
<1>3. CASE s # TINY /\ ~(s >= VAST)
  BY <1>3 DEF Size, Float32, NEGATIVE, HUGE, TINY, ZERO, VAST
<1> QED BY <1>1, <1>2, <1>3

StoredFields == [name : STRING, type : STRING, size : Size]
StoredTerms == [term_id : Size, weight : Size]

LEMMA StoredTypes ==
  ASSUME NEW p, Typed(p)
  PROVE  /\ VectorOf(p) \in Seq(Size) /\ Len(VectorOf(p)) = Len(p.vector)
         /\ \A i \in 1..Len(p.vector) : VectorOf(p)[i] = Float32(p.vector[i].size) /\ p.vector[i] \in Number
         /\ FieldsOf(p) \in Seq(StoredFields) /\ Len(FieldsOf(p)) = Len(p.fields)
         /\ \A i \in 1..Len(p.fields) : FieldsOf(p)[i] = StoredField(p.fields[i]) /\ p.fields[i] \in Field
<1>1. p.vector \in Seq(Number) /\ p.fields \in Seq(Field)
  BY DEF Typed
<1>2. \A v \in Number : Float32(v.size) \in Size
  BY Float32Facts DEF Number
<1>3. \A f \in Field : StoredField(f) \in StoredFields
  BY DEF Field, StoredField, StoredFields, Number
<1>4. /\ \A i \in 1..Len(p.vector) : p.vector[i] \in Number
      /\ \A i \in 1..Len(p.fields) : p.fields[i] \in Field
      /\ Len(p.vector) \in Nat /\ Len(p.fields) \in Nat
  BY <1>1
<1>5. VectorOf(p) \in Seq(Size) /\ Len(VectorOf(p)) = Len(p.vector)
  BY <1>2, <1>4 DEF VectorOf
<1>6. FieldsOf(p) \in Seq(StoredFields) /\ Len(FieldsOf(p)) = Len(p.fields)
  BY <1>3, <1>4 DEF FieldsOf
<1> QED BY <1>4, <1>5, <1>6 DEF VectorOf, FieldsOf

LEMMA TermTypes ==
  ASSUME NEW es \in Seq(Term)
  PROVE  /\ TermsOf(es) \in Seq(StoredTerms) /\ Len(TermsOf(es)) = Len(es) /\ Len(es) \in Nat
         /\ \A i \in 1..Len(es) : /\ TermsOf(es)[i].term_id = es[i].term_id.size
                                  /\ TermsOf(es)[i].weight = Float32(es[i].weight.size)
                                  /\ es[i] \in Term /\ es[i].term_id \in Number /\ es[i].weight \in Number
<1>1. Len(es) \in Nat /\ \A i \in 1..Len(es) : es[i] \in Term
  OBVIOUS
<1>2. \A e \in Term : e.term_id \in Number /\ e.weight \in Number
  BY DEF Term
<1>3. \A v \in Number : v.size \in Size /\ Float32(v.size) \in Size
  BY Float32Facts DEF Number
<1>4. \A e \in Term : /\ StoredTerm(e) \in StoredTerms
                      /\ StoredTerm(e).term_id = e.term_id.size
                      /\ StoredTerm(e).weight = Float32(e.weight.size)
  BY <1>2, <1>3 DEF StoredTerm, StoredTerms
<1>5. TermsOf(es) \in Seq(StoredTerms) /\ Len(TermsOf(es)) = Len(es)
  BY <1>1, <1>4 DEF TermsOf
<1>6. \A i \in 1..Len(es) : TermsOf(es)[i] = StoredTerm(es[i])
  BY DEF TermsOf
<1> QED BY <1>1, <1>2, <1>4, <1>5, <1>6

LEMMA PointForm ==
  ASSUME NEW c, Collection(c), NEW id \in DOMAIN c
  PROVE  /\ c[id] = [vector |-> c[id].vector, fields |-> c[id].fields, sparse |-> c[id].sparse]
         /\ c[id].vector \in Seq(Size) /\ c[id].fields \in Seq(StoredFields)
         /\ c[id].sparse \in Seq(StoredTerms) /\ id \in NEGATIVE..TWO
BY DEF Collection, Point, StoredFields, StoredTerms

LEMMA PointMade ==
  ASSUME NEW v \in Seq(Size), NEW f \in Seq(StoredFields), NEW s \in Seq(StoredTerms)
  PROVE  [vector |-> v, fields |-> f, sparse |-> s] \in Point
BY DEF Point, StoredFields, StoredTerms

LEMMA UpsertedCollection ==
  ASSUME NEW c, Collection(c), NEW p, Typed(p), TakesId(p.id)
  PROVE  Collection(Upserted(c, p))
<1> DEFINE u == Upserted(c, p)
           at == p.id.size
           sp == IF at \in DOMAIN c THEN c[at].sparse ELSE <<>>
<1>1. /\ DOMAIN u = DOMAIN c \cup {at} /\ \A id \in DOMAIN c : id # at => u[id] = c[id]
      /\ u[at] = [vector |-> VectorOf(p), fields |-> FieldsOf(p), sparse |-> sp]
      /\ u = [id \in DOMAIN u |-> u[id]]
  BY UpsertedIs
<1>2. at \in NEGATIVE..TWO
  BY DEF Typed, TakesId, Number, Size, NEGATIVE, TWO, WIDE, HUGE
<1>3. sp \in Seq(StoredTerms)
  BY PointForm
<1>4. u[at] \in Point
  <2> HIDE DEF sp, u
  <2> QED BY <1>1, <1>3, StoredTypes, PointMade
<1> HIDE DEF u, at, sp
<1>5. \A id \in DOMAIN u : u[id] \in Point
  BY <1>1, <1>4 DEF Collection
<1>6. DOMAIN u \subseteq NEGATIVE..TWO
  BY <1>1, <1>2 DEF Collection
<1>7. Collection(u)
  BY <1>1, <1>5, <1>6 DEF Collection
<1> QED BY <1>7 DEF u

LEMMA WithSparseCollection ==
  ASSUME NEW c, Collection(c), NEW v, v.size \in DOMAIN c, NEW es \in Seq(Term)
  PROVE  LET w == WithSparse(c, v, es)
         IN  /\ Collection(w) /\ DOMAIN w = DOMAIN c
             /\ \A id \in DOMAIN c : id # v.size => w[id] = c[id]
             /\ w[v.size] = [vector |-> c[v.size].vector, fields |-> c[v.size].fields,
                             sparse |-> TermsOf(es)]
<1> DEFINE w == WithSparse(c, v, es)
           at == v.size
           vec == c[at].vector
           fs == c[at].fields
           sp == c[at].sparse
           t == TermsOf(es)
<1>1. /\ c[at] = [vector |-> vec, fields |-> fs, sparse |-> sp]
      /\ vec \in Seq(Size) /\ fs \in Seq(StoredFields)
  BY PointForm
<1>2. c = [id \in DOMAIN c |-> c[id]]
  BY DEF Collection
<1> HIDE DEF vec, fs, sp
<1>3. /\ DOMAIN w = DOMAIN c /\ \A id \in DOMAIN c : id # at => w[id] = c[id]
      /\ w[at] = [vector |-> vec, fields |-> fs, sparse |-> t]
      /\ w = [id \in DOMAIN c |-> w[id]]
  BY <1>1, <1>2, WithSparseIs
<1>4. w[at] \in Point
  <2>1. t \in Seq(StoredTerms)
    BY TermTypes
  <2> HIDE DEF w, t
  <2> QED BY <1>1, <1>3, <2>1, PointMade
<1> HIDE DEF w, at, t
<1>5. \A id \in DOMAIN w : w[id] \in Point
  BY <1>3, <1>4 DEF Collection
<1>6. Collection(w)
  BY <1>3, <1>5 DEF Collection
<1> QED BY <1>3, <1>6 DEF w, at, t, vec, fs

LEMMA DeletedPortable ==
  ASSUME NEW c, Portable(c), NEW v
  PROVE  Portable(Deleted(c, v))
<1> DEFINE d == Deleted(c, v)
<1>1. /\ DOMAIN d = DOMAIN c \ {v.size} /\ \A id \in DOMAIN d : d[id] = c[id]
      /\ d = [id \in DOMAIN d |-> d[id]]
  BY DeletedIs
<1> HIDE DEF d
<1>2. Portable(d)
  BY <1>1 DEF Portable, Collection
<1> QED BY <1>2 DEF d

\* A vector and a payload that the coordinator and the kernel both take.
LEMMA StoredPortable ==
  ASSUME NEW p, Typed(p), TakesPoint(p), ValidPayload(p.fields)
  PROVE  PortableVector(VectorOf(p)) /\ PortableFields(FieldsOf(p))
<1> DEFINE n == Len(p.fields)
<1>1. /\ Len(VectorOf(p)) = Len(p.vector) /\ Len(FieldsOf(p)) = n
      /\ \A i \in 1..Len(p.vector) : VectorOf(p)[i] = Float32(p.vector[i].size) /\ p.vector[i] \in Number
      /\ \A i \in 1..n : FieldsOf(p)[i] = StoredField(p.fields[i]) /\ p.fields[i] \in Field
  BY StoredTypes
<1>2. /\ Len(p.vector) = dimension /\ \A i \in 1..Len(p.vector) : Float32(p.vector[i].size) < HUGE
  BY DEF TakesPoint, All
<1>3. \A v \in Number : Float32(Float32(v.size)) = Float32(v.size)
  BY Float32Facts DEF Number
<1>4. PortableVector(VectorOf(p))
  BY <1>1, <1>2, <1>3 DEF PortableVector, Stable
<1>5. \A i \in 1..n : TakesField(p.fields[i])
  BY DEF TakesPoint, All
<1>6. \A i, j \in 1..n : p.fields[i].name = p.fields[j].name => i = j
  <2>1. Distinct([i \in 1..n |-> p.fields[i].name]) /\ n \in Nat
    BY DEF TakesPoint, Typed
  <2> DEFINE names == [i \in 1..n |-> p.fields[i].name]
  <2>2. Len(names) = n /\ \A i \in 1..n : names[i] = p.fields[i].name
    BY <2>1
  <2> HIDE DEF names, n
  <2>3. Distinct(names)
    BY <2>1 DEF names
  <2> QED BY <2>2, <2>3 DEF Distinct
<1>7. \A i \in 1..n : IF p.fields[i].type = "float" THEN finite_number(p.fields[i].value)
                      ELSE p.fields[i].value.type = PythonType(p.fields[i].type)
  BY DEF ValidPayload
<1>8. ASSUME NEW i \in 1..n
      PROVE  LET f == FieldsOf(p)[i]
             IN  /\ f.name = p.fields[i].name
                 /\ f.name \notin {"", "nul"} /\ f.type \in {"string", "int", "float", "bool"}
                 /\ f.type = "int" => f.size < WIDE /\ f.size # TINY
                 /\ f.type = "float" => f.size < HUGE
  <2>1. /\ FieldsOf(p)[i].name = p.fields[i].name /\ FieldsOf(p)[i].type = p.fields[i].type
        /\ FieldsOf(p)[i].size = p.fields[i].value.size
    <3>1. FieldsOf(p)[i] = StoredField(p.fields[i])
      BY <1>1
    <3>2. /\ StoredField(p.fields[i]).name = p.fields[i].name
          /\ StoredField(p.fields[i]).type = p.fields[i].type
          /\ StoredField(p.fields[i]).size = p.fields[i].value.size
      BY DEF StoredField
    <3> QED BY <3>1, <3>2
  <2>2. p.fields[i].value \in Number
    BY <1>1 DEF Field
  <2>3. p.fields[i].type = "int" => p.fields[i].value.size # TINY
    BY <1>7, <2>2 DEF PythonType, Number
  <2>4. p.fields[i].type = "float" => p.fields[i].value.size < HUGE
    BY <1>7 DEF finite_number
  <2> QED BY <1>5, <2>1, <2>3, <2>4 DEF TakesField
<1> HIDE DEF n
<1>9. PortableFields(FieldsOf(p))
  BY <1>1, <1>6, <1>8 DEF PortableFields
<1> QED BY <1>4, <1>9

LEMMA TermsPortable ==
  ASSUME NEW es \in Seq(Term), TakesSparse(es), ValidSparse(es)
  PROVE  PortableSparse(TermsOf(es))
<1>1. /\ Len(TermsOf(es)) = Len(es) /\ Len(es) \in Nat
      /\ \A i \in 1..Len(es) : /\ TermsOf(es)[i].term_id = es[i].term_id.size
                               /\ TermsOf(es)[i].weight = Float32(es[i].weight.size)
                               /\ es[i].term_id \in Number /\ es[i].weight \in Number
  BY TermTypes
<1>2. \A i \in 1..Len(es) : es[i].term_id.type = "int"
  BY DEF ValidSparse, All, exact_int
<1>3. ASSUME NEW i \in 1..Len(es)
      PROVE  LET t == TermsOf(es)
             IN  /\ t[i].term_id \in ZERO..TWO /\ t[i].term_id # TINY
                 /\ i > 1 => t[i - 1].term_id < t[i].term_id
                 /\ Stable(t[i].weight) /\ t[i].weight # ZERO
  <2>1. /\ es[i].term_id.size \in ZERO..TWO /\ Float32(es[i].weight.size) \notin {ZERO, HUGE}
        /\ i > 1 => es[i - 1].term_id.size < es[i].term_id.size
    BY DEF TakesSparse
  <2>2. es[i].term_id.size # TINY
    BY <1>1, <1>2 DEF Number
  <2>3. i > 1 => i - 1 \in 1..Len(es)
    BY <1>1
  <2>4. /\ Float32(es[i].weight.size) \in Size
        /\ Float32(Float32(es[i].weight.size)) = Float32(es[i].weight.size)
    BY <1>1, Float32Facts DEF Number
  <2>5. Float32(es[i].weight.size) < HUGE
    BY <2>1, <2>4 DEF Size, NEGATIVE, HUGE
  <2> QED BY <1>1, <2>1, <2>2, <2>3, <2>4, <2>5 DEF Stable
<1> HIDE DEF TermsOf
<1> QED BY <1>1, <1>3 DEF PortableSparse

LEMMA UpsertedPortable ==
  ASSUME NEW c, Portable(c), NEW p, Typed(p), TakesPoint(p), ValidPayload(p.fields), exact_int(p.id)
  PROVE  Portable(Upserted(c, p))
<1> DEFINE u == Upserted(c, p)
           at == p.id.size
           sp == IF at \in DOMAIN c THEN c[at].sparse ELSE <<>>
<1>1. /\ DOMAIN u = DOMAIN c \cup {at} /\ \A id \in DOMAIN c : id # at => u[id] = c[id]
      /\ u[at] = [vector |-> VectorOf(p), fields |-> FieldsOf(p), sparse |-> sp]
  BY UpsertedIs
<1>2. Collection(u)
  BY UpsertedCollection DEF Portable, TakesPoint
<1>3. at # TINY
  BY DEF Typed, Number, exact_int
<1>4. PortableSparse(sp)
  BY DEF Portable, PortableSparse
<1>5. PortableVector(VectorOf(p)) /\ PortableFields(FieldsOf(p))
  BY StoredPortable
<1> HIDE DEF u, at, sp
<1>6. \A id \in DOMAIN u :
        PortableVector(u[id].vector) /\ PortableFields(u[id].fields) /\ PortableSparse(u[id].sparse)
  BY <1>1, <1>4, <1>5 DEF Portable
<1>7. Portable(u)
  BY <1>1, <1>2, <1>3, <1>6 DEF Portable
<1> QED BY <1>7 DEF u

LEMMA WithSparsePortable ==
  ASSUME NEW c, Portable(c), NEW v, v.size \in DOMAIN c,
         NEW es \in Seq(Term), TakesSparse(es), ValidSparse(es)
  PROVE  Portable(WithSparse(c, v, es))
<1> DEFINE w == WithSparse(c, v, es)
           at == v.size
           t == TermsOf(es)
<1>1. /\ Collection(w) /\ DOMAIN w = DOMAIN c /\ \A id \in DOMAIN c : id # at => w[id] = c[id]
      /\ w[at] = [vector |-> c[at].vector, fields |-> c[at].fields, sparse |-> t]
  BY WithSparseCollection DEF Portable
<1>2. PortableSparse(t)
  BY TermsPortable
<1> HIDE DEF w, at, t
<1>3. \A id \in DOMAIN w :
        PortableVector(w[id].vector) /\ PortableFields(w[id].fields) /\ PortableSparse(w[id].sparse)
  BY <1>1, <1>2 DEF Portable
<1>4. Portable(w)
  BY <1>1, <1>3 DEF Portable
<1> QED BY <1>4 DEF w

\* The point whose sparse half is next has its dense half.
HalfInv == phase = "sparse" => journal[entry].id.size \in DOMAIN collection

LEMMA ReplicaPortable ==
  ASSUME TypeInv, HalfInv, Portable(collection), Next
  PROVE  HalfInv' /\ Portable(collection)'
<1>1. ASSUME NEW m \in Mutations, Commit(m) PROVE HalfInv' /\ Portable(collection)'
  BY <1>1 DEF Commit, HalfInv
<1>2. CASE ApplyDelete
  <2>1. \/ collection' = Deleted(collection, journal[entry].id)
        \/ collection' = collection
    BY <1>2 DEF ApplyDelete, KernelRaises
  <2>2. phase' # "sparse"
    BY <1>2 DEF ApplyDelete, KernelRaises
  <2> QED BY <2>1, <2>2, DeletedPortable DEF HalfInv
<1>3. CASE ApplyDense
  <2>1. CASE TakesPoint(journal[entry])
    <3>1. collection' = Upserted(collection, journal[entry]) /\ journal' = journal /\ entry' = entry
      BY <1>3, <2>1 DEF ApplyDense
    <3>2. /\ entry \in 1..Len(journal) /\ journal[entry] \in Mutations
          /\ journal[entry].operation = "upsert" /\ validate_replicated_mutation(journal[entry])
      BY <1>3 DEF ApplyDense, TypeInv, Applying
    <3>3. Typed(journal[entry])
      BY <3>2, RecordsAssumption DEF Typed
    <3>4. ValidPayload(journal[entry].fields) /\ exact_int(journal[entry].id)
      BY <3>2 DEF validate_replicated_mutation
    <3>5. Portable(Upserted(collection, journal[entry]))
      BY <2>1, <3>3, <3>4, UpsertedPortable
    <3>6. journal[entry].id.size \in DOMAIN Upserted(collection, journal[entry])
      BY DEF Upserted
    <3> QED BY <3>1, <3>5, <3>6 DEF HalfInv
  <2>2. CASE ~TakesPoint(journal[entry])
    BY <1>3, <2>2 DEF ApplyDense, KernelRaises, HalfInv
  <2> QED BY <2>1, <2>2
<1>4. CASE ApplySparse
  <2>1. CASE TakesSparse(journal[entry].sparse)
    <3>1. /\ collection' = WithSparse(collection, journal[entry].id, journal[entry].sparse)
          /\ phase' = "publish" /\ journal[entry].id.size \in DOMAIN collection
      BY <1>4, <2>1 DEF ApplySparse, HalfInv
    <3>2. /\ entry \in 1..Len(journal) /\ journal[entry] \in Mutations
          /\ journal[entry].operation = "upsert" /\ validate_replicated_mutation(journal[entry])
      BY <1>4 DEF ApplySparse, TypeInv, Applying
    <3>3. journal[entry].sparse \in Seq(Term) /\ ValidSparse(journal[entry].sparse)
      BY <3>2, RecordsAssumption DEF validate_replicated_mutation
    <3>4. Portable(WithSparse(collection, journal[entry].id, journal[entry].sparse))
      BY <2>1, <3>1, <3>3, WithSparsePortable
    <3> QED BY <3>1, <3>4 DEF HalfInv
  <2>2. CASE ~TakesSparse(journal[entry].sparse)
    BY <1>4, <2>2 DEF ApplySparse, KernelRaises, HalfInv
  <2> QED BY <2>1, <2>2
<1>5. CASE PublishState
  BY <1>5 DEF PublishState, HalfInv
<1>6. CASE Crash
  BY <1>6 DEF Crash, HalfInv
<1>7. CASE Reopen
  BY <1>7 DEF Reopen, HalfInv
<1>8. CASE UNCHANGED replica
  BY <1>8 DEF replica, HalfInv
<1>9. ASSUME NEW k \in 1..Len(journal), CommitAgain(k) PROVE HalfInv' /\ Portable(collection)'
  BY <1>9 DEF CommitAgain, HalfInv
<1> QED BY <1>1, <1>2, <1>3, <1>4, <1>5, <1>6, <1>7, <1>8, <1>9
    DEF Next, InstallSnapshot, ImportExport, ImportBatch, ImportSparse, ImportEnds, ImportDies

LEMMA InitReplica == Init => TypeInv /\ ReplicaInv /\ HalfInv /\ Portable(collection)
<1> SUFFICES ASSUME Init PROVE TypeInv /\ ReplicaInv /\ HalfInv /\ Portable(collection)
  OBVIOUS
<1>1. /\ collection = Empty /\ journal = <<>> /\ applied_index = 0 /\ phase = "idle" /\ entry = 0
      /\ replaying = FALSE /\ Len(journal) = 0
  BY DEF Init
<1>2. TypeInv
  <2>1. journal \in Seq(Mutations) /\ \A k \in 1..Len(journal) : validate_replicated_mutation(journal[k])
    BY <1>1
  <2>2. applied_index \in 0..Len(journal) /\ entry \in 0..Len(journal)
    BY <1>1
  <2> QED BY <1>1, <2>1, <2>2 DEF TypeInv, Applying
<1>3. Settled
  BY <1>1, NothingSaid DEF Settled, RaisedUpto
<1>4. ReplicaInv
  BY <1>1, <1>3 DEF ReplicaInv, InvWith, Applying
<1>5. Portable(collection)
  BY <1>1 DEF Portable, Collection, Empty
<1> QED BY <1>1, <1>2, <1>4, <1>5 DEF HalfInv

LEMMA NextReplica ==
  ASSUME TypeInv, ReplicaInv, [Next]_vars
  PROVE  TypeInv' /\ ReplicaInv'
<1>1. CASE UNCHANGED replica
  <2>1. TypeInv'
    BY <1>1 DEF replica, TypeInv, Applying
  <2>2. PICK b : InvWith(b)
    BY DEF ReplicaInv
  <2>3. InvWith(b)'
    BY <1>1, <2>2 DEF replica, InvWith, Applying, Recommitting, Settled, Committing, Stuck,
                      Recovered, Redoing, RaisedUpto, Entry, Before
  <2> QED BY <2>1, <2>3 DEF ReplicaInv
<1>2. ASSUME NEW m \in Mutations, Commit(m) PROVE TypeInv' /\ ReplicaInv'
  BY <1>2, CommitType, CommitReplica
<1>3. ASSUME NEW k \in 1..Len(journal), CommitAgain(k) PROVE TypeInv' /\ ReplicaInv'
  <2>1. PICK b : InvWith(b)
    BY DEF ReplicaInv
  <2>2. InvWith(b)'
    BY <1>3, <2>1, CommitAgainReplica
  <2> QED BY <1>3, <2>2, StepType DEF ReplicaInv
<1>4. CASE ApplyDelete \/ ApplyDense \/ ApplySparse \/ PublishState \/ Crash \/ Reopen
  <2>1. PICK b : InvWith(b)
    BY DEF ReplicaInv
  <2>2. TypeInv'
    BY <1>4, StepType
  <2>3. CASE Crash \/ Reopen
    BY <2>1, <2>2, <2>3, CrashReplica, ReopenReplica DEF ReplicaInv
  <2>4. CASE ApplyDelete \/ ApplyDense \/ ApplySparse \/ PublishState
    <3>1. Applying
      BY <2>4 DEF ApplyDelete, ApplyDense, ApplySparse, PublishState, Applying
    <3>2. CASE ~replaying /\ Recommitting
      BY <2>1, <2>2, <2>4, <3>1, <3>2, AgainReplica DEF ReplicaInv
    <3>3. CASE ~(~replaying /\ Recommitting)
      <4>1. First(b)
        BY <2>1, <3>1, <3>3 DEF First, InvWith
      <4> QED BY <2>2, <2>4, <4>1, DeleteReplica, DenseReplica, SparseReplica, PublishReplica
              DEF ReplicaInv
    <3> QED BY <3>2, <3>3
  <2> QED BY <1>4, <2>3, <2>4
<1> QED BY <1>1, <1>2, <1>3, <1>4
    DEF Next, vars, InstallSnapshot, ImportExport, ImportBatch, ImportSparse, ImportEnds, ImportDies

\* The replica's invariant: what it holds, in every phase of a commit or of a recovery,
\* is what its journal says up to the entry in progress, and none of it is a value that
\* an export would change.
THEOREM ReplicaInvariant == Spec => [](TypeInv /\ ReplicaInv /\ HalfInv /\ Portable(collection))
<1>1. TypeInv /\ ReplicaInv /\ HalfInv /\ Portable(collection) /\ [Next]_vars
        => (TypeInv /\ ReplicaInv /\ HalfInv /\ Portable(collection))'
  <2> SUFFICES ASSUME TypeInv, ReplicaInv, HalfInv, Portable(collection), [Next]_vars
               PROVE  (TypeInv /\ ReplicaInv /\ HalfInv /\ Portable(collection))'
    OBVIOUS
  <2>1. CASE Next
    BY <2>1, NextReplica, ReplicaPortable
  <2>2. CASE UNCHANGED vars
    <3>1. HalfInv' /\ Portable(collection)'
      BY <2>2 DEF vars, replica, HalfInv
    <3> QED BY <2>2, <3>1, NextReplica
  <2> QED BY <2>1, <2>2
<1> QED BY <1>1, InitReplica, PTL DEF Spec

\* A serving replica holds what its journal says, whatever crashed, was replayed or was
\* refused in whole or in half, and whichever of its entries were committed again: no
\* retry lays an entry over a vector, a payload or a sparse vector that was accepted
\* whole behind it.
THEOREM HoldsWhatIsJournalled == Spec => []ContentIsTheJournal
<1>1. TypeInv /\ ReplicaInv => ContentIsTheJournal
  <2> SUFFICES ASSUME TypeInv, ReplicaInv, phase = "idle"
               PROVE  /\ DOMAIN collection =
                           {id \in NEGATIVE..TWO : Last(id, DenseAt) > Last(id, DeletedAt)}
                      /\ \A id \in DOMAIN collection :
                           /\ collection[id].sparse = JournalledSparse(id)
                           /\ \E k \in MayHold(id) :
                                /\ collection[id].vector =
                                     [i \in 1..dimension |-> Float32(journal[k].vector[i].size)]
                                /\ collection[id].fields =
                                     [i \in 1..Len(journal[k].fields) |->
                                        StoredField(journal[k].fields[i])]
    BY DEF ContentIsTheJournal
  <2> DEFINE n == Len(journal)
  <2>1. /\ Held(collection, journal, n) /\ n \in Nat
        /\ \A k \in 1..n : journal[k].operation \in {"upsert", "delete"}
    BY ReplicaFacts DEF ReplicaInv, InvWith, Settled
  <2>2. ASSUME NEW id
        PROVE  /\ Last(id, DenseAt) = Newest(Upserts(journal, n, id))
               /\ Last(id, SparseAt) = Newest(SparseWrites(journal, n, id))
               /\ Last(id, DeletedAt) = Newest(Deletes(journal, n, id))
               /\ Writes(id, DenseAt) = Upserts(journal, n, id)
    BY DEF Last, Writes, DenseAt, SparseAt, DeletedAt, Newest, Upserts, SparseWrites, Deletes, Takes
  <2>3. ASSUME NEW id PROVE Last(id, WholeAt) = Newest(Wholes(journal, n, id))
    <3>1. \A k \in 1..n : WholeAt(k) <=> ~Raises(journal[k])
      BY <2>1 DEF WholeAt, DenseAt, SparseAt, DeletedAt, Raises, TakesSparse
    <3>2. Writes(id, WholeAt) = Wholes(journal, n, id)
      BY <3>1 DEF Writes, Wholes
    <3> QED BY <3>2 DEF Last, Newest
  <2> HIDE DEF n
  <2>4. /\ DOMAIN collection = SaidIds(journal, n)
        /\ \A id \in DOMAIN collection :
             \E k \in Latest(journal, n, id) : collection[id] = SaidPoint(journal, n, id, k)
    BY <2>1 DEF Held
  <2>5. DOMAIN collection = {id \in NEGATIVE..TWO : Last(id, DenseAt) > Last(id, DeletedAt)}
    BY <2>2, <2>4 DEF SaidIds
  <2>6. ASSUME NEW id \in DOMAIN collection
        PROVE  /\ collection[id].sparse = JournalledSparse(id)
               /\ \E k \in MayHold(id) :
                    /\ collection[id].vector =
                         [i \in 1..dimension |-> Float32(journal[k].vector[i].size)]
                    /\ collection[id].fields =
                         [i \in 1..Len(journal[k].fields) |-> StoredField(journal[k].fields[i])]
    <3>1. PICK k \in Latest(journal, n, id) : collection[id] = SaidPoint(journal, n, id, k)
      BY <2>4
    <3>2. /\ collection[id].vector = VectorOf(journal[k])
          /\ collection[id].fields = FieldsOf(journal[k])
          /\ collection[id].sparse = SaidSparse(journal, n, id)
      BY <3>1 DEF SaidPoint
    <3>3. SaidSparse(journal, n, id) = JournalledSparse(id)
      BY <2>2 DEF SaidSparse, JournalledSparse, TermsOf
    <3>4. k \in Upserts(journal, n, id)
      BY DEF Latest
    <3>5. VectorOf(journal[k]) = [i \in 1..dimension |-> Float32(journal[k].vector[i].size)]
      BY <3>4 DEF Upserts, Takes, TakesPoint, VectorOf
    <3>6. k \in MayHold(id)
      <4> DEFINE w == Newest(Wholes(journal, n, id))
      <4>1. Newer(id) = {l \in Upserts(journal, n, id) : l > w}
        BY <2>2, <2>3 DEF Newer
      <4>2. CASE k > w
        BY <2>3, <3>4, <4>1, <4>2 DEF MayHold
      <4>3. CASE ~(k > w)
        <5>1. \A l \in Upserts(journal, n, id) : l <= k
          BY <4>3 DEF Latest
        <5>2. w \in 0..n /\ k \in 1..n
          <6>1. Wholes(journal, n, id) \in SUBSET (1..n)
            BY DEF Wholes
          <6> QED BY <2>1, <3>4, <6>1, NewestFacts DEF Upserts
        <5>3. Newest(Deletes(journal, n, id)) < k /\ Newest(Deletes(journal, n, id)) \in 0..n
          <6>1. /\ Newest(Upserts(journal, n, id)) > Newest(Deletes(journal, n, id))
                /\ Newest(Deletes(journal, n, id)) \in 0..n
            BY <2>1, <2>4, WritesTypes DEF SaidIds
          <6>2. Newest(Upserts(journal, n, id)) \in Upserts(journal, n, id)
            BY <2>1, <3>4, NewestFacts, WritesTypes
          <6>3. /\ Newest(Upserts(journal, n, id)) <= k
                /\ Newest(Upserts(journal, n, id)) \in 0..n
            BY <2>1, <5>1, <6>2, WritesTypes
          <6> QED BY <2>1, <5>2, <6>1, <6>3
        \* The last whole entry is not behind the last upsert unless it is a delete.
        <5>4. w = k
          <6>1. w \in Wholes(journal, n, id)
            <7>1. Wholes(journal, n, id) \in SUBSET (1..n) /\ w # 0
              BY <2>1, <4>3, <5>2 DEF Wholes
            <7> QED BY <2>1, <7>1, NewestFacts
          <6>2. w \in 1..n /\ journal[w].id.size = id /\ ~Raises(journal[w])
            BY <6>1 DEF Wholes
          <6> HIDE DEF w
          <6>3. w \in Upserts(journal, n, id) \/ w \in Deletes(journal, n, id)
            BY <2>1, <6>2 DEF Raises, Upserts, Deletes, Takes
          <6>4. CASE w \in Upserts(journal, n, id)
            BY <4>3, <5>1, <5>2, <6>4
          <6>5. CASE w \in Deletes(journal, n, id)
            <7>1. w <= Newest(Deletes(journal, n, id))
              BY <2>1, <6>5, NewestFacts, WritesTypes
            <7> QED BY <2>1, <4>3, <5>2, <5>3, <7>1
          <6> QED BY <6>3, <6>4, <6>5
        <5>5. Newer(id) = {}
          <6> HIDE DEF w
          <6>1. \A l \in Upserts(journal, n, id) : l \in 1..n
            BY DEF Upserts
          <6> QED BY <2>1, <4>1, <5>1, <5>2, <5>4, <6>1
        <5> QED BY <2>3, <5>4, <5>5 DEF MayHold
      <4> QED BY <4>2, <4>3
    <3> QED BY <3>2, <3>3, <3>5, <3>6 DEF FieldsOf
  <2> QED BY <2>5, <2>6
<1> QED BY <1>1, ReplicaInvariant, PTL

-----------------------------------------------------------------------------
(***************************************************************************)
(* An export lists the points of a collection, each once.                  *)
(***************************************************************************)
Rank(S, id) == Cardinality({i \in S : i < id})

LEMMA Ranks ==
  ASSUME NEW S \in SUBSET Int, IsFiniteSet(S)
  PROVE  /\ Cardinality(S) \in Nat
         /\ \A id \in S : Rank(S, id) \in 0..Cardinality(S) - 1
         /\ \A a, b \in S : Rank(S, a) = Rank(S, b) => a = b
         /\ \A n \in 1..Cardinality(S) : \E id \in S : Rank(S, id) = n - 1
<1> DEFINE K == Cardinality(S)
           Below(id) == {i \in S : i < id}
           f == [id \in S |-> Rank(S, id)]
<1>1. K \in Nat
  BY FS_CardinalityType
<1>2. \A id : /\ IsFiniteSet(Below(id)) /\ Cardinality(Below(id)) \in Nat
              /\ Cardinality(Below(id)) <= K /\ (Cardinality(Below(id)) = K => Below(id) = S)
  BY FS_Subset, FS_CardinalityType
<1>3. ASSUME NEW id \in S PROVE Rank(S, id) \in 0..K - 1
  <2>1. id \notin Below(id)
    OBVIOUS
  <2>2. Cardinality(Below(id)) # K
    BY <1>2, <2>1
  <2>3. Cardinality(Below(id)) \in 0..K - 1
    BY <1>1, <1>2, <2>2
  <2> QED BY <2>3 DEF Rank
<1>4. ASSUME NEW a \in S, NEW b \in S, a < b PROVE Rank(S, a) < Rank(S, b)
  <2>0. a \in Int /\ b \in Int /\ \A i \in S : i < a => i < b
    BY <1>4
  <2>1. Below(a) \in SUBSET Below(b) /\ a \in Below(b) /\ a \notin Below(a)
    <3>1. \A i \in Below(a) : i \in Below(b)
      BY <2>0
    <3>2. a \in Below(b)
      BY <1>4
    <3>3. a \notin Below(a)
      BY <2>0
    <3> QED BY <3>1, <3>2, <3>3
  <2>2. IsFiniteSet(Below(b))
    BY <1>2
  <2> HIDE DEF Below
  <2>3. /\ Cardinality(Below(a)) <= Cardinality(Below(b))
        /\ Cardinality(Below(a)) # Cardinality(Below(b))
    BY <2>1, <2>2, FS_Subset
  <2>4. Cardinality(Below(a)) < Cardinality(Below(b))
    BY <1>2, <2>3
  <2> QED BY <2>4 DEF Rank, Below
<1>5. ASSUME NEW a \in S, NEW b \in S, Rank(S, a) = Rank(S, b) PROVE a = b
  <2>1. Rank(S, a) \in Int
    BY <1>1, <1>3
  <2>2. a < b \/ a = b \/ b < a
    OBVIOUS
  <2> QED BY <1>4, <1>5, <2>1, <2>2
<1>6. f \in Injection(S, 0..K - 1)
  <2>1. f \in [S -> 0..K - 1]
    BY <1>3
  <2>2. \A a, b \in S : f[a] = f[b] => a = b
    BY <1>5
  <2> HIDE DEF f
  <2> QED BY <2>1, <2>2 DEF Injection, IsInjective
<1>7. IsFiniteSet(0..K - 1) /\ Cardinality(0..K - 1) = K
  BY <1>1, FS_Interval
<1>8. f \in Surjection(S, 0..K - 1)
  <2> HIDE DEF f
  <2> QED BY <1>6, <1>7, FS_Injection
<1>9. \A r \in 0..K - 1 : \E id \in S : f[id] = r
  <2> HIDE DEF f
  <2> QED BY <1>8 DEF Surjection
<1>10. ASSUME NEW n \in 1..K PROVE \E id \in S : Rank(S, id) = n - 1
  <2>1. n - 1 \in 0..K - 1
    BY <1>1
  <2>2. PICK id \in S : f[id] = n - 1
    BY <1>9, <2>1
  <2> QED BY <2>2
<1> HIDE DEF K
<1>11. QED BY <1>1, <1>3, <1>5, <1>10 DEF K

LEMMA ExportIs ==
  ASSUME NEW c, Collection(c)
  PROVE  LET given == export_records(c)
         IN  /\ Len(given) \in Nat /\ given = [n \in 1..Len(given) |-> given[n]]
             /\ \A n \in 1..Len(given) : /\ given[n].id.size \in DOMAIN c
                                         /\ given[n] = Row(c, given[n].id.size)
             /\ \A m, n \in 1..Len(given) : given[m].id.size = given[n].id.size => m = n
             /\ \A id \in DOMAIN c : \E n \in 1..Len(given) : given[n].id.size = id
<1> DEFINE S == DOMAIN c
           K == Cardinality(S)
           given == export_records(c)
           Nth(n) == CHOOSE id \in S : Rank(S, id) = n - 1
<1>1. S \in SUBSET Int /\ IsFiniteSet(S)
  <2>1. NEGATIVE \in Int /\ TWO \in Int
    BY DEF NEGATIVE, TWO
  <2>2. IsFiniteSet(NEGATIVE..TWO)
    BY <2>1, FS_Interval
  <2>3. S \in SUBSET (NEGATIVE..TWO)
    BY DEF Collection
  <2> HIDE DEF S
  <2>4. IsFiniteSet(S)
    BY <2>2, <2>3, FS_Subset
  <2>5. S \in SUBSET Int
    BY <2>1, <2>3
  <2> QED BY <2>4, <2>5
<1>2. given = [n \in 1..K |-> Row(c, Nth(n))]
  BY DEF export_records, Rank
<1>3. /\ K \in Nat /\ \A id \in S : Rank(S, id) \in 0..K - 1
      /\ \A a, b \in S : Rank(S, a) = Rank(S, b) => a = b
      /\ \A n \in 1..K : \E id \in S : Rank(S, id) = n - 1
  <2> HIDE DEF S
  <2> QED BY <1>1, Ranks
<1> HIDE DEF S, given
<1>4. \A n \in 1..K : Nth(n) \in S /\ Rank(S, Nth(n)) = n - 1
  BY <1>3
<1>5. \A id : Row(c, id).id.size = id
  BY DEF Row
<1> HIDE DEF Nth, K
<1>6. Len(given) = K
  BY <1>2, <1>3
<1>7. \A n \in 1..K : given[n] = Row(c, Nth(n)) /\ given[n].id.size = Nth(n)
  BY <1>2, <1>5
<1>8. ASSUME NEW m \in 1..K, NEW n \in 1..K, Nth(m) = Nth(n) PROVE m = n
  <2>1. m - 1 = n - 1
    BY <1>4, <1>8
  <2> QED BY <1>3, <2>1
<1>9. ASSUME NEW id \in S PROVE \E n \in 1..K : Nth(n) = id
  <2>1. Rank(S, id) + 1 \in 1..K /\ (Rank(S, id) + 1) - 1 = Rank(S, id)
    BY <1>3
  <2>2. Nth(Rank(S, id) + 1) = id
    BY <1>3, <1>4, <2>1
  <2> QED BY <2>1, <2>2
<1>10. given = [n \in 1..K |-> given[n]]
  BY <1>2
<1>11. \A n \in 1..K : given[n].id.size \in S /\ given[n] = Row(c, given[n].id.size)
  BY <1>4, <1>7
<1>12. \A m, n \in 1..K : given[m].id.size = given[n].id.size => m = n
  BY <1>7, <1>8
<1>13. \A id \in S : \E n \in 1..K : given[n].id.size = id
  BY <1>7, <1>9
<1>14. QED BY <1>3, <1>6, <1>10, <1>11, <1>12, <1>13, SMTT(30) DEF S, given

-----------------------------------------------------------------------------
(***************************************************************************)
(* The rows of an export pass every validator, and are stored as they were.*)
(***************************************************************************)
LEMMA RowVector ==
  ASSUME NEW v \in Seq(Size), PortableVector(v)
  PROVE  LET x == Numbers("float", v)
         IN  /\ x \in Seq(Number) /\ Len(x) = dimension
             /\ \A i \in 1..Len(x) : finite_number(x[i]) /\ Float32(x[i].size) < HUGE
             /\ [i \in 1..Len(x) |-> Float32(x[i].size)] = v
<1> DEFINE x == Numbers("float", v)
<1>1. Len(v) \in Nat /\ Len(v) = dimension
      /\ \A i \in 1..Len(v) : v[i] \in Size /\ Float32(v[i]) = v[i] /\ v[i] < HUGE
  BY DEF PortableVector, Stable
<1>2. \A i \in 1..Len(v) : [type |-> "float", size |-> v[i]] \in Number
  BY <1>1 DEF Number
<1>3. x \in Seq(Number) /\ Len(x) = Len(v)
  BY <1>1, <1>2 DEF Numbers
<1>4. \A i \in 1..Len(v) : x[i].type = "float" /\ x[i].size = v[i]
  BY DEF Numbers
<1> HIDE DEF x
<1>5. \A i \in 1..Len(x) : finite_number(x[i]) /\ Float32(x[i].size) < HUGE
  BY <1>1, <1>3, <1>4 DEF finite_number
<1>6. [i \in 1..Len(x) |-> Float32(x[i].size)] = [i \in 1..Len(v) |-> v[i]]
  BY <1>1, <1>3, <1>4
<1>7. [i \in 1..Len(v) |-> v[i]] = v
  OBVIOUS
<1> QED BY <1>1, <1>3, <1>5, <1>6, <1>7 DEF x

LEMMA RowPayload ==
  ASSUME NEW fs \in Seq(StoredFields), PortableFields(fs)
  PROVE  LET x == RowFields(fs)
         IN  /\ x \in Seq(Field) /\ ValidPayload(x) /\ \A i \in 1..Len(x) : TakesField(x[i])
             /\ Distinct([i \in 1..Len(x) |-> x[i].name])
             /\ [i \in 1..Len(x) |-> StoredField(x[i])] = fs
<1> DEFINE x == RowFields(fs)
           n == Len(fs)
<1>1. n \in Nat /\ \A i \in 1..n : fs[i] \in StoredFields
  OBVIOUS
<1>2. /\ \A i \in 1..n :
           /\ fs[i].name \notin {"", "nul"} /\ fs[i].type \in {"string", "int", "float", "bool"}
           /\ fs[i].type = "int" => fs[i].size < WIDE /\ fs[i].size # TINY
           /\ fs[i].type = "float" => fs[i].size < HUGE
      /\ \A i, j \in 1..n : fs[i].name = fs[j].name => i = j
  BY DEF PortableFields
<1> HIDE DEF n
<1>3. ASSUME NEW i \in 1..n
      PROVE  /\ [type |-> PythonType(fs[i].type), size |-> fs[i].size] \in Number
             /\ [name |-> fs[i].name, type |-> fs[i].type,
                 value |-> [type |-> PythonType(fs[i].type), size |-> fs[i].size]] \in Field
  <2>1. fs[i].name \in STRING /\ fs[i].type \in STRING /\ fs[i].size \in Size
    BY <1>1 DEF StoredFields
  <2>2. /\ PythonType(fs[i].type) \in {"int", "float", "bool", "str"}
        /\ PythonType(fs[i].type) = "int" => fs[i].size # TINY
    BY <1>2 DEF PythonType
  <2>3. [type |-> PythonType(fs[i].type), size |-> fs[i].size] \in Number
    BY <2>1, <2>2 DEF Number
  <2> QED BY <2>1, <2>3 DEF Field
<1>4. x \in Seq(Field) /\ Len(x) = n
  BY <1>1, <1>3 DEF RowFields, n
<1>5. \A i \in 1..n :
        x[i] = [name |-> fs[i].name, type |-> fs[i].type,
                value |-> [type |-> PythonType(fs[i].type), size |-> fs[i].size]]
  BY DEF RowFields, n
<1> HIDE DEF x
<1>6. \A i \in 1..n : /\ x[i].name = fs[i].name /\ x[i].type = fs[i].type
                      /\ x[i].value.type = PythonType(fs[i].type) /\ x[i].value.size = fs[i].size
  <2> TAKE i \in 1..n
  <2> DEFINE r == [name |-> fs[i].name, type |-> fs[i].type,
                  value |-> [type |-> PythonType(fs[i].type), size |-> fs[i].size]]
  <2>1. /\ r.name = fs[i].name /\ r.type = fs[i].type
        /\ r.value = [type |-> PythonType(fs[i].type), size |-> fs[i].size]
    OBVIOUS
  <2>2. x[i] = r
    BY <1>5
  <2> HIDE DEF r
  <2>3. x[i].value.type = PythonType(fs[i].type) /\ x[i].value.size = fs[i].size
    BY <2>1, <2>2
  <2> QED BY <2>1, <2>2, <2>3
<1>7. \A i \in 1..n : TakesField(x[i])
  BY <1>2, <1>6 DEF TakesField
<1>8. Distinct([i \in 1..Len(x) |-> x[i].name])
  <2> DEFINE names == [i \in 1..Len(x) |-> x[i].name]
  <2>1. Len(names) = n /\ \A i \in 1..n : names[i] = fs[i].name
    BY <1>1, <1>4, <1>6
  <2> HIDE DEF names
  <2>2. Distinct(names)
    BY <1>2, <2>1 DEF Distinct
  <2> QED BY <2>2 DEF names
<1>9. ValidPayload(x)
  <2>1. ASSUME NEW i \in 1..Len(x)
        PROVE  /\ x[i].name # "" /\ x[i].type \in {"string", "int", "float", "bool"}
               /\ IF x[i].type = "float" THEN finite_number(x[i].value)
                  ELSE x[i].value.type = PythonType(x[i].type)
    <3>1. x[i].type = "float" => x[i].value.type = "float" /\ x[i].value.size < HUGE
      BY <1>2, <1>4, <1>6 DEF PythonType
    <3>2. x[i].type = "float" => finite_number(x[i].value)
      BY <3>1 DEF finite_number
    <3>3. x[i].value.type = PythonType(x[i].type)
      BY <1>4, <1>6
    <3>4. x[i].name # "" /\ x[i].type \in {"string", "int", "float", "bool"}
      BY <1>2, <1>4, <1>6
    <3> QED BY <3>2, <3>3, <3>4
  <2> QED BY <1>8, <2>1 DEF ValidPayload
<1>10. [i \in 1..Len(x) |-> StoredField(x[i])] = fs
  <2>1. \A i \in 1..n : StoredField(x[i]) = fs[i]
    BY <1>1, <1>6 DEF StoredField, StoredFields
  <2>2. [i \in 1..Len(x) |-> StoredField(x[i])] = [i \in 1..n |-> fs[i]]
    BY <1>4, <2>1
  <2>3. [i \in 1..n |-> fs[i]] = fs
    BY DEF n
  <2> QED BY <2>2, <2>3
<1>11. QED BY <1>4, <1>7, <1>8, <1>9, <1>10 DEF x

\* Terms that rise from one to the next are distinct.
LEMMA RisingDistinct ==
  ASSUME NEW n \in Nat, NEW f, \A i \in 1..n : f[i] \in Int, \A i \in 1..n : i > 1 => f[i - 1] < f[i]
  PROVE  \A i, j \in 1..n : f[i] = f[j] => i = j
<1>1. ASSUME NEW i \in 1..n PROVE \A j \in 1..n : i < j => f[i] < f[j]
  <2> DEFINE W == {j \in 1..n : i < j /\ ~(f[i] < f[j])}
  <2> SUFFICES ASSUME W # {} PROVE FALSE
    OBVIOUS
  <2>1. W \in SUBSET Nat
    OBVIOUS
  <2>2. PICK x \in W : \A y \in W : x <= y
    <3> HIDE DEF W
    <3> QED BY <2>1, LeastNumber
  <2>3. x \in 1..n /\ i < x /\ ~(f[i] < f[x]) /\ x - 1 \in 1..n /\ f[x - 1] < f[x]
    BY <2>2
  <2>4. i # x - 1
    BY <2>3
  <2>5. i < x - 1
    BY <2>3, <2>4
  <2>6. x - 1 \notin W
    BY <2>2, <2>3
  <2>7. f[i] < f[x - 1]
    BY <2>3, <2>5, <2>6
  <2> QED BY <2>3, <2>7
<1>2. \A i, j \in 1..n : i < j \/ i = j \/ j < i
  OBVIOUS
<1> QED BY <1>1, <1>2

LEMMA RowSparse ==
  ASSUME NEW es \in Seq(StoredTerms), PortableSparse(es)
  PROVE  LET x == RowTerms(es)
         IN  /\ x \in Seq(Term) /\ ValidSparse(x) /\ validate_sparse(x)
             /\ x = <<>> <=> es = <<>>
             /\ x # <<>> => TakesSparse(x)
             /\ TermsOf(x) = es
<1> DEFINE x == RowTerms(es)
           n == Len(es)
<1>1. n \in Nat /\ \A i \in 1..n : es[i] \in StoredTerms
  OBVIOUS
<1>2. \A i \in 1..n : /\ es[i].term_id \in ZERO..TWO /\ es[i].term_id # TINY
                      /\ i > 1 => es[i - 1].term_id < es[i].term_id
                      /\ Float32(es[i].weight) = es[i].weight /\ es[i].weight < HUGE
                      /\ es[i].weight # ZERO
  BY DEF PortableSparse, Stable
<1>3. \A i \in 1..n : es[i].term_id \in Size /\ es[i].weight \in Size
  BY <1>1 DEF StoredTerms
<1>s. (es = <<>> <=> n = 0) /\ es = [i \in 1..n |-> es[i]]
  OBVIOUS
<1> HIDE DEF n
<1>4. \A i \in 1..n : [term_id |-> [type |-> "int", size |-> es[i].term_id],
                       weight |-> [type |-> "float", size |-> es[i].weight]] \in Term
  BY <1>2, <1>3 DEF Term, Number
<1>5. x \in Seq(Term) /\ Len(x) = n
  BY <1>1, <1>4 DEF RowTerms, n
<1>6. \A i \in 1..n : x[i] = [term_id |-> [type |-> "int", size |-> es[i].term_id],
                              weight |-> [type |-> "float", size |-> es[i].weight]]
  BY DEF RowTerms, n
<1> HIDE DEF x
<1>7. \A i \in 1..n : /\ x[i].term_id.type = "int" /\ x[i].term_id.size = es[i].term_id
                      /\ x[i].weight.type = "float" /\ x[i].weight.size = es[i].weight
  <2> TAKE i \in 1..n
  <2> DEFINE a == [type |-> "int", size |-> es[i].term_id]
             b == [type |-> "float", size |-> es[i].weight]
             r == [term_id |-> a, weight |-> b]
  <2>1. /\ a.type = "int" /\ a.size = es[i].term_id /\ b.type = "float" /\ b.size = es[i].weight
    OBVIOUS
  <2>2. x[i] = r
    BY <1>6
  <2> HIDE DEF a, b
  <2>3. r.term_id = a /\ r.weight = b
    OBVIOUS
  <2> QED BY <2>1, <2>2, <2>3
<1>8. \A i \in 1..n : i > 1 => x[i - 1].term_id.size < x[i].term_id.size
  <2>1. \A i \in 1..n : i > 1 => i - 1 \in 1..n
    BY <1>1
  <2> QED BY <1>2, <1>7, <2>1
<1>9. x = <<>> <=> es = <<>>
  BY <1>5, <1>s
<1>10. TakesSparse(x) \/ x = <<>>
  <2>1. \A i \in 1..n : /\ x[i].term_id.size \in ZERO..TWO
                        /\ Float32(x[i].weight.size) \notin {ZERO, HUGE}
    <3> TAKE i \in 1..n
    <3>1. es[i].weight # HUGE
      BY <1>2, <1>3 DEF Size, NEGATIVE, HUGE
    <3> QED BY <1>2, <1>7, <3>1
  <2> QED BY <1>5, <1>8, <2>1 DEF TakesSparse
<1>11. validate_sparse(x)
  <2>1. \A i \in 1..n : x[i].term_id.size >= ZERO
    BY <1>2, <1>7 DEF ZERO, TWO
  <2>2. \A i \in 1..n : x[i].weight.size \notin {ZERO, HUGE}
    <3> TAKE i \in 1..n
    <3>1. es[i].weight # HUGE
      BY <1>2, <1>3 DEF Size, NEGATIVE, HUGE
    <3> QED BY <1>2, <1>7, <3>1
  <2> QED BY <1>5, <1>8, <2>1, <2>2 DEF validate_sparse
<1>12. ValidSparse(x)
  <2>1. \A i \in 1..n : exact_int(x[i].term_id) /\ x[i].term_id.size >= ZERO /\ finite_number(x[i].weight)
    BY <1>2, <1>7 DEF ZERO, TWO, exact_int, finite_number
  <2> DEFINE f == [i \in 1..Len(x) |-> x[i].term_id.size]
  <2>2. Len(f) = n /\ \A i \in 1..n : f[i] = es[i].term_id
    BY <1>1, <1>5, <1>7
  <2> HIDE DEF f
  <2>3. \A i \in 1..n : f[i] \in Int
    BY <1>2, <2>2 DEF ZERO, TWO
  <2>4. \A i \in 1..n : i > 1 => f[i - 1] < f[i]
    <3>1. \A i \in 1..n : i > 1 => i - 1 \in 1..n
      BY <1>1
    <3> QED BY <1>2, <2>2, <3>1
  <2>5. \A i, j \in 1..n : f[i] = f[j] => i = j
    BY <1>1, <2>3, <2>4, RisingDistinct
  <2>6. Distinct(f)
    BY <2>2, <2>5 DEF Distinct
  <2> QED BY <1>5, <2>1, <2>6 DEF ValidSparse, All, f
<1>13. TermsOf(x) = es
  <2>1. \A i \in 1..n : StoredTerm(x[i]) = es[i]
    BY <1>1, <1>2, <1>7 DEF StoredTerm, StoredTerms
  <2>2. TermsOf(x) = [i \in 1..n |-> es[i]]
    BY <1>5, <2>1 DEF TermsOf
  <2> QED BY <1>s, <2>2
<1>14. QED BY <1>5, <1>9, <1>10, <1>11, <1>12, <1>13 DEF x

LEMMA RowParts ==
  ASSUME NEW c, NEW id
  PROVE  LET r == Row(c, id)
         IN  /\ r = [id |-> r.id, vector |-> r.vector, fields |-> r.fields, sparse |-> r.sparse]
             /\ r.id = [type |-> "int", size |-> id] /\ r.id.type = "int" /\ r.id.size = id
             /\ r.vector = Numbers("float", c[id].vector)
             /\ r.fields = RowFields(c[id].fields) /\ r.sparse = RowTerms(c[id].sparse)
<1> DEFINE i == [type |-> "int", size |-> id]
           v == Numbers("float", c[id].vector)
           f == RowFields(c[id].fields)
           s == RowTerms(c[id].sparse)
<1>1. Row(c, id) = [id |-> i, vector |-> v, fields |-> f, sparse |-> s]
  BY DEF Row, RowFields, RowTerms
<1>2. i.type = "int" /\ i.size = id
  OBVIOUS
<1> HIDE DEF v, f, s, i
<1>3. QED BY <1>1, <1>2 DEF v, f, s, i

LEMMA RowReads ==
  \A c, id : /\ Row(c, id).vector = Numbers("float", c[id].vector)
             /\ Row(c, id).fields = RowFields(c[id].fields)
             /\ Row(c, id).sparse = RowTerms(c[id].sparse)
<1> TAKE c, id
<1> DEFINE v == Numbers("float", c[id].vector)
           f == RowFields(c[id].fields)
           s == RowTerms(c[id].sparse)
<1>1. Row(c, id) = [id |-> [type |-> "int", size |-> id], vector |-> v, fields |-> f, sparse |-> s]
  BY DEF Row, RowFields, RowTerms
<1> HIDE DEF v, f, s
<1>2. Row(c, id).vector = v /\ Row(c, id).fields = f /\ Row(c, id).sparse = s
  BY <1>1
<1> QED BY <1>2 DEF v, f, s

LEMMA RowFacts ==
  ASSUME NEW c, Portable(c), NEW id \in DOMAIN c
  PROVE  LET r == Row(c, id)
         IN  /\ r \in Record /\ TakesPoint(r) /\ PortableRow(r)
             /\ exact_int(r.id) /\ Len(r.vector) = dimension /\ All(r.vector, finite_number)
             /\ ValidPayload(r.fields) /\ ValidSparse(r.sparse) /\ validate_sparse(r.sparse)
             /\ (r.sparse = <<>> <=> c[id].sparse = <<>>) /\ (r.sparse # <<>> => TakesSparse(r.sparse))
             /\ VectorOf(r) = c[id].vector /\ FieldsOf(r) = c[id].fields /\ TermsOf(r.sparse) = c[id].sparse
<1> DEFINE r == Row(c, id)
<1>1. /\ r = [id |-> r.id, vector |-> r.vector, fields |-> r.fields, sparse |-> r.sparse]
      /\ r.id = [type |-> "int", size |-> id] /\ r.id.type = "int" /\ r.id.size = id
      /\ r.vector = Numbers("float", c[id].vector)
      /\ r.fields = RowFields(c[id].fields) /\ r.sparse = RowTerms(c[id].sparse)
  BY RowParts
<1>2. /\ Collection(c) /\ id # TINY /\ PortableVector(c[id].vector)
      /\ PortableFields(c[id].fields) /\ PortableSparse(c[id].sparse)
  BY DEF Portable
<1>3. /\ c[id].vector \in Seq(Size) /\ c[id].fields \in Seq(StoredFields)
      /\ c[id].sparse \in Seq(StoredTerms) /\ id \in NEGATIVE..TWO
  BY <1>2, PointForm
<1> HIDE DEF r
<1>4. /\ r.vector \in Seq(Number) /\ Len(r.vector) = dimension
      /\ \A i \in 1..Len(r.vector) : finite_number(r.vector[i]) /\ Float32(r.vector[i].size) < HUGE
      /\ VectorOf(r) = c[id].vector
  BY <1>1, <1>2, <1>3, RowVector DEF VectorOf
<1>5. /\ r.fields \in Seq(Field) /\ ValidPayload(r.fields)
      /\ \A i \in 1..Len(r.fields) : TakesField(r.fields[i])
      /\ Distinct([i \in 1..Len(r.fields) |-> r.fields[i].name])
      /\ FieldsOf(r) = c[id].fields
  BY <1>1, <1>2, <1>3, RowPayload DEF FieldsOf
<1>6. /\ r.sparse \in Seq(Term) /\ ValidSparse(r.sparse) /\ validate_sparse(r.sparse)
      /\ (r.sparse = <<>> <=> c[id].sparse = <<>>) /\ (r.sparse # <<>> => TakesSparse(r.sparse))
      /\ TermsOf(r.sparse) = c[id].sparse
  BY <1>1, <1>2, <1>3, RowSparse
<1>7. r.id \in Number
  <2>1. id \in Size
    BY <1>3 DEF Size, NEGATIVE, TWO, HUGE
  <2> QED BY <1>1, <1>2, <2>1 DEF Number
<1>8. r \in Record
  <2> DEFINE a == r.id
             b == r.vector
             d == r.fields
             e == r.sparse
  <2>1. /\ a \in Number /\ b \in Seq(Number) /\ d \in Seq(Field) /\ e \in Seq(Term)
        /\ r = [id |-> a, vector |-> b, fields |-> d, sparse |-> e]
    BY <1>1, <1>4, <1>5, <1>6, <1>7
  <2> HIDE DEF a, b, d, e
  <2> QED BY <2>1 DEF Record
<1>9. TakesId(r.id)
  BY <1>1, <1>3 DEF TakesId, NEGATIVE, TWO, WIDE
<1>10. TakesPoint(r)
  BY <1>4, <1>5, <1>9 DEF TakesPoint, All
<1>11. PortableRow(r)
  BY <1>1, <1>2, <1>3, <1>4, <1>5, <1>6 DEF PortableRow
<1>12. exact_int(r.id) /\ All(r.vector, finite_number)
  BY <1>1, <1>4 DEF exact_int, All
<1>13. QED BY <1>4, <1>5, <1>6, <1>8, <1>10, <1>11, <1>12 DEF r

-----------------------------------------------------------------------------
(***************************************************************************)
(* A batch, row by row: of the rows of an ID, the last one counts.         *)
(***************************************************************************)
Hits(given, n, id) == {k \in 1..n : given[k].id.size = id}
FirstRows(c, given, n) ==
  [id \in DOMAIN c \cup {given[k].id.size : k \in 1..n} |->
     IF Hits(given, n, id) = {} THEN c[id]
     ELSE LET r == given[Newest(Hits(given, n, id))]
          IN  [vector |-> VectorOf(r), fields |-> FieldsOf(r),
               sparse |-> IF id \in DOMAIN c THEN c[id].sparse ELSE <<>>]]

LEMMA FirstRowsStep ==
  ASSUME NEW c, NEW given, NEW n \in Nat, n > 0
  PROVE  FirstRows(c, given, n) = Upserted(FirstRows(c, given, n - 1), given[n])
<1> DEFINE b == FirstRows(c, given, n - 1)
           a == FirstRows(c, given, n)
           p == given[n]
           u == Upserted(b, p)
           at == p.id.size
           kept(id) == IF id \in DOMAIN c THEN c[id].sparse ELSE <<>>
           Made(id, m) == [vector |-> VectorOf(given[Newest(Hits(given, m, id))]),
                             fields |-> FieldsOf(given[Newest(Hits(given, m, id))]), sparse |-> kept(id)]
<1>0. n - 1 \in Nat /\ 1..n = (1..n - 1) \cup {n} /\ n \in 1..n
  OBVIOUS
<1>1. /\ DOMAIN a = DOMAIN c \cup {given[k].id.size : k \in 1..n}
      /\ \A id \in DOMAIN a : a[id] = IF Hits(given, n, id) = {} THEN c[id] ELSE Made(id, n)
      /\ a = [id \in DOMAIN a |-> a[id]]
  BY DEF FirstRows
<1>2. /\ DOMAIN b = DOMAIN c \cup {given[k].id.size : k \in 1..n - 1}
      /\ \A id \in DOMAIN b : b[id] = IF Hits(given, n - 1, id) = {} THEN c[id] ELSE Made(id, n - 1)
  BY DEF FirstRows
<1> HIDE DEF a, b
<1>3. /\ DOMAIN u = DOMAIN b \cup {at} /\ \A id \in DOMAIN b : id # at => u[id] = b[id]
      /\ u[at] = [vector |-> VectorOf(p), fields |-> FieldsOf(p),
                  sparse |-> IF at \in DOMAIN b THEN b[at].sparse ELSE <<>>]
      /\ u = [id \in DOMAIN u |-> u[id]]
  <2> HIDE DEF p
  <2> QED BY UpsertedIs
<1> HIDE DEF u
<1>4. DOMAIN a = DOMAIN u
  <2>1. {given[k].id.size : k \in 1..n} = {given[k].id.size : k \in 1..n - 1} \cup {at}
    BY <1>0
  <2> HIDE DEF at
  <2> QED BY <1>1, <1>2, <1>3, <2>1
<1>5. ASSUME NEW id \in DOMAIN a, id # at PROVE a[id] = u[id]
  <2>1. Hits(given, n, id) = Hits(given, n - 1, id)
    BY <1>0, <1>5 DEF Hits
  <2>2. id \in DOMAIN b /\ u[id] = b[id]
    BY <1>3, <1>4, <1>5
  <2> QED BY <1>1, <1>2, <2>1, <2>2
<1>6. a[at] = u[at] /\ at \in DOMAIN a
  <2>1. at \in DOMAIN a /\ n \in Hits(given, n, at)
    BY <1>0, <1>1 DEF Hits
  <2>2. Newest(Hits(given, n, at)) = n
    <3>1. Hits(given, n, at) \in SUBSET (1..n)
      BY DEF Hits
    <3>2. Newest(Hits(given, n, at)) \in 1..n /\ n <= Newest(Hits(given, n, at))
      BY <2>1, <3>1, NewestFacts
    <3> QED BY <3>2
  <2>3. a[at] = [vector |-> VectorOf(given[n]), fields |-> FieldsOf(given[n]), sparse |-> kept(at)]
    BY <1>1, <2>1, <2>2
  <2>4. kept(at) = IF at \in DOMAIN b THEN b[at].sparse ELSE <<>>
    <3>1. CASE at \notin DOMAIN b
      BY <1>2, <3>1
    <3>2. CASE at \in DOMAIN b /\ Hits(given, n - 1, at) = {}
      <4>1. at \in DOMAIN c
        BY <1>2, <3>2 DEF Hits
      <4> QED BY <1>2, <3>2, <4>1
    <3>3. CASE at \in DOMAIN b /\ Hits(given, n - 1, at) # {}
      <4>1. b[at] = Made(at, n - 1)
        BY <1>2, <3>3
      <4>2. Made(at, n - 1).sparse = kept(at)
        <5> HIDE DEF kept
        <5> QED OBVIOUS
      <4> QED BY <3>3, <4>1, <4>2
    <3> QED BY <3>1, <3>2, <3>3
  <2> HIDE DEF kept, at
  <2> QED BY <1>3, <2>1, <2>3, <2>4
<1>7. \A id \in DOMAIN a : a[id] = u[id]
  BY <1>5, <1>6
<1>8. a = u
  BY <1>1, <1>3, <1>4, <1>7, SameFunction
<1> QED BY <1>8 DEF a, u, b

LEMMA BatchedIs ==
  ASSUME NEW c, Collection(c), NEW given, Len(given) \in Nat
  PROVE  Batched(c, given) = FirstRows(c, given, Len(given))
<1> DEFINE N == Len(given)
           IsUpto(f) == f = [n \in 0..N |-> IF n = 0 THEN c ELSE Upserted(f[n - 1], given[n])]
           g == [n \in 0..N |-> FirstRows(c, given, n)]
<1>1. N \in Nat
  OBVIOUS
<1>2. FirstRows(c, given, 0) = c
  <2>1. 1..0 = {} /\ c = [id \in DOMAIN c |-> c[id]]
    BY DEF Collection
  <2>2. \A id : Hits(given, 0, id) = {}
    BY <2>1 DEF Hits
  <2>3. DOMAIN c \cup {given[k].id.size : k \in 1..0} = DOMAIN c
    BY <2>1
  <2>4. FirstRows(c, given, 0) = [id \in DOMAIN c |-> c[id]]
    BY <2>2, <2>3 DEF FirstRows
  <2> QED BY <2>1, <2>4
<1> HIDE DEF N
<1>3. \A n \in 0..N : g[n] = IF n = 0 THEN c ELSE Upserted(g[n - 1], given[n])
  <2> TAKE n \in 0..N
  <2>1. CASE n = 0
    BY <1>2, <2>1
  <2>2. CASE n # 0
    <3>1. n \in Nat /\ n > 0 /\ n - 1 \in 0..N
      BY <1>1, <2>2
    <3>2. FirstRows(c, given, n) = Upserted(FirstRows(c, given, n - 1), given[n])
      BY <3>1, FirstRowsStep
    <3> QED BY <2>2, <3>1, <3>2
  <2> QED BY <2>1, <2>2
<1>4. IsUpto(g)
  BY <1>3
<1>5. ASSUME NEW f, IsUpto(f)
      PROVE  f[N] = g[N]
  <2> DEFINE W == {n \in 0..N : f[n] # g[n]}
  <2>1. \A n \in 0..N : f[n] = IF n = 0 THEN c ELSE Upserted(f[n - 1], given[n])
    BY <1>5
  <2> HIDE DEF g, IsUpto
  <2>3. SUFFICES ASSUME W # {} PROVE FALSE
    BY <1>1
  <2>4. W \subseteq Nat
    OBVIOUS
  <2>5. PICK x \in W : \A y \in W : x <= y
    BY <2>3, <2>4, LeastNumber
  <2>6. x # 0 /\ x - 1 \in 0..N
    BY <1>1, <1>3, <2>1, <2>5
  <2>7. f[x - 1] = g[x - 1]
    BY <2>5, <2>6
  <2> QED BY <1>3, <2>1, <2>5, <2>6, <2>7
<1>6. Batched(c, given) = (CHOOSE f : IsUpto(f))[N]
  BY DEF Batched, N
<1>7. IsUpto(CHOOSE f : IsUpto(f))
  <2> HIDE DEF IsUpto, g
  <2> QED BY <1>4, Zenon
<1>8. Batched(c, given) = g[N]
  <2> HIDE DEF IsUpto, g
  <2> QED BY <1>5, <1>6, <1>7
<1> QED BY <1>1, <1>8 DEF N

\* A point with a row's vector and payload, and the sparse vector it had.
RowStored(c, b, p) ==
  b[p.id.size] = [vector |-> VectorOf(p), fields |-> FieldsOf(p),
                  sparse |-> IF p.id.size \in DOMAIN c THEN c[p.id.size].sparse ELSE <<>>]

\* A batch leaves a collection, and gives every ID of its rows what its last row says.
LEMMA BatchedFacts ==
  ASSUME NEW c, Collection(c), NEW given \in Seq(Record), TakesBatch(given)
  PROVE  LET b == Batched(c, given)
         IN  /\ Collection(b) /\ DOMAIN b = DOMAIN c \cup {given[k].id.size : k \in 1..Len(given)}
             /\ \A k \in 1..Len(given) :
                  (\A i \in 1..Len(given) : given[i].id.size = given[k].id.size => i = k)
                  => RowStored(c, b, given[k])
<1> DEFINE b == Batched(c, given)
           N == Len(given)
           kept(id) == IF id \in DOMAIN c THEN c[id].sparse ELSE <<>>
           Made(id) == [vector |-> VectorOf(given[Newest(Hits(given, N, id))]),
                        fields |-> FieldsOf(given[Newest(Hits(given, N, id))]), sparse |-> kept(id)]
<1>1. N \in Nat /\ \A k \in 1..N : given[k] \in Record /\ TakesPoint(given[k])
  BY DEF TakesBatch, All
<1>2. b = FirstRows(c, given, N)
  BY <1>1, BatchedIs
<1>3. /\ DOMAIN b = DOMAIN c \cup {given[k].id.size : k \in 1..N}
      /\ \A id \in DOMAIN b : b[id] = IF Hits(given, N, id) = {} THEN c[id] ELSE Made(id)
      /\ b = [id \in DOMAIN b |-> b[id]]
  <2> HIDE DEF b, N
  <2> QED BY <1>2 DEF FirstRows
<1> HIDE DEF b, N
<1>4. \A k \in 1..N : Typed(given[k]) /\ given[k].id.size \in NEGATIVE..TWO
  <2> TAKE k \in 1..N
  <2>1. Typed(given[k])
    BY <1>1 DEF Typed, Record
  <2>2. given[k].id \in Number /\ given[k].id.size < WIDE
    BY <1>1, <2>1 DEF Typed, TakesPoint, TakesId
  <2>3. given[k].id.size \in Size
    BY <2>2 DEF Number
  <2> QED BY <2>1, <2>2, <2>3 DEF Size, NEGATIVE, TWO, WIDE, HUGE
<1>5. \A id : /\ Hits(given, N, id) \in SUBSET (1..N)
              /\ Hits(given, N, id) # {} => Newest(Hits(given, N, id)) \in Hits(given, N, id)
  <2> TAKE id
  <2>1. Hits(given, N, id) \in SUBSET (1..N)
    BY DEF Hits
  <2> QED BY <1>1, <2>1, NewestFacts
<1>6. \A id \in DOMAIN b : b[id] \in Point
  <2> TAKE id \in DOMAIN b
  <2>1. CASE Hits(given, N, id) = {}
    <3>1. id \in DOMAIN c
      BY <1>3, <2>1 DEF Hits
    <3> QED BY <1>3, <2>1, <3>1 DEF Collection
  <2>2. CASE Hits(given, N, id) # {}
    <3> DEFINE r == given[Newest(Hits(given, N, id))]
    <3>1. Typed(r)
      BY <1>4, <1>5, <2>2
    <3> HIDE DEF r
    <3>2. VectorOf(r) \in Seq(Size) /\ FieldsOf(r) \in Seq(StoredFields)
      BY <3>1, StoredTypes
    <3>3. kept(id) \in Seq(StoredTerms)
      BY PointForm
    <3> HIDE DEF kept
    <3>4. [vector |-> VectorOf(r), fields |-> FieldsOf(r), sparse |-> kept(id)] \in Point
      BY <3>2, <3>3, PointMade
    <3> QED BY <1>3, <2>2, <3>4 DEF r
  <2> QED BY <2>1, <2>2
<1>7. DOMAIN b \subseteq NEGATIVE..TWO
  BY <1>3, <1>4 DEF Collection
<1>8. Collection(b)
  BY <1>3, <1>6, <1>7 DEF Collection
<1>9. ASSUME NEW k \in 1..N, \A i \in 1..N : given[i].id.size = given[k].id.size => i = k
      PROVE  RowStored(c, b, given[k])
  <2> DEFINE id == given[k].id.size
  <2>1. id \in DOMAIN b /\ k \in Hits(given, N, id)
    BY <1>3 DEF Hits
  <2>2. Newest(Hits(given, N, id)) = k
    <3>1. Newest(Hits(given, N, id)) \in Hits(given, N, id)
      BY <1>5, <2>1
    <3> QED BY <1>9, <3>1 DEF Hits
  <2> HIDE DEF kept, id
  <2>3. b[id] = [vector |-> VectorOf(given[k]), fields |-> FieldsOf(given[k]), sparse |-> kept(id)]
    BY <1>3, <2>1, <2>2
  <2> QED BY <2>3 DEF id, kept, RowStored
<1>10. QED BY <1>3, <1>8, <1>9 DEF b, N

-----------------------------------------------------------------------------
(***************************************************************************)
(* The sparse vectors of a snapshot, row by row.                           *)
(***************************************************************************)
SparseHits(given, n, id) == {k \in 1..n : given[k].id.size = id /\ given[k].sparse # <<>>}
FirstSparse(c, given, n) ==
  [id \in DOMAIN c |->
     IF SparseHits(given, n, id) = {} THEN c[id]
     ELSE [vector |-> c[id].vector, fields |-> c[id].fields,
           sparse |-> TermsOf(given[Newest(SparseHits(given, n, id))].sparse)]]

LEMMA FirstSparseStep ==
  ASSUME NEW c, Collection(c), NEW given, NEW n \in Nat, n > 0, given[n].id.size \in DOMAIN c
  PROVE  FirstSparse(c, given, n) =
           IF given[n].sparse = <<>> THEN FirstSparse(c, given, n - 1)
           ELSE WithSparse(FirstSparse(c, given, n - 1), given[n].id, given[n].sparse)
<1> DEFINE b == FirstSparse(c, given, n - 1)
           a == FirstSparse(c, given, n)
           at == given[n].id.size
           w == WithSparse(b, given[n].id, given[n].sparse)
           Made(id, m) == [vector |-> c[id].vector, fields |-> c[id].fields,
                           sparse |-> TermsOf(given[Newest(SparseHits(given, m, id))].sparse)]
<1>0. n - 1 \in Nat /\ 1..n = (1..n - 1) \cup {n} /\ n \in 1..n
  OBVIOUS
<1>1. /\ DOMAIN a = DOMAIN c /\ a = [id \in DOMAIN a |-> a[id]]
      /\ \A id \in DOMAIN c : a[id] = IF SparseHits(given, n, id) = {} THEN c[id] ELSE Made(id, n)
  BY DEF FirstSparse
<1>2. /\ DOMAIN b = DOMAIN c /\ b = [id \in DOMAIN b |-> b[id]]
      /\ \A id \in DOMAIN c : b[id] = IF SparseHits(given, n - 1, id) = {} THEN c[id] ELSE Made(id, n - 1)
  BY DEF FirstSparse
<1> HIDE DEF a, b
<1>3. CASE given[n].sparse = <<>>
  <2>1. \A id : SparseHits(given, n, id) = SparseHits(given, n - 1, id)
    BY <1>0, <1>3 DEF SparseHits
  <2>2. \A id \in DOMAIN a : a[id] = b[id]
    BY <1>1, <1>2, <2>1
  <2>3. a = b
    BY <1>1, <1>2, <2>2, SameFunction
  <2> QED BY <1>3, <2>3 DEF a, b
<1>4. CASE given[n].sparse # <<>>
  <2> DEFINE vec == c[at].vector
             fs == c[at].fields
             sp == b[at].sparse
             t == TermsOf(given[n].sparse)
  <2>1. b[at] = [vector |-> vec, fields |-> fs, sparse |-> sp]
    <3>1. CASE SparseHits(given, n - 1, at) = {}
      <4>1. b[at] = c[at] /\ c[at] = [vector |-> c[at].vector, fields |-> c[at].fields, sparse |-> c[at].sparse]
        BY <1>2, <3>1, PointForm
      <4> QED BY <4>1
    <3>2. CASE SparseHits(given, n - 1, at) # {}
      <4> DEFINE s == TermsOf(given[Newest(SparseHits(given, n - 1, at))].sparse)
      <4>1. b[at] = [vector |-> vec, fields |-> fs, sparse |-> s]
        BY <1>2, <3>2
      <4> HIDE DEF s, vec, fs, at
      <4>2. b[at].sparse = s
        BY <4>1
      <4> QED BY <4>1, <4>2
    <3> QED BY <3>1, <3>2
  <2> HIDE DEF vec, fs, sp
  <2>2. /\ DOMAIN w = DOMAIN b /\ \A id \in DOMAIN b : id # at => w[id] = b[id]
        /\ w[at] = [vector |-> vec, fields |-> fs, sparse |-> t]
        /\ w = [id \in DOMAIN b |-> w[id]]
    BY <1>2, <2>1, WithSparseIs
  <2> HIDE DEF w
  <2>3. ASSUME NEW id \in DOMAIN a, id # at PROVE a[id] = w[id]
    <3>1. SparseHits(given, n, id) = SparseHits(given, n - 1, id)
      BY <1>0, <2>3 DEF SparseHits
    <3> QED BY <1>1, <1>2, <2>2, <2>3, <3>1
  <2>4. a[at] = w[at]
    <3>1. SparseHits(given, n, at) \in SUBSET (1..n) /\ n \in SparseHits(given, n, at)
      BY <1>0, <1>4 DEF SparseHits
    <3>2. Newest(SparseHits(given, n, at)) \in 1..n /\ n <= Newest(SparseHits(given, n, at))
      BY <3>1, NewestFacts
    <3>3. Newest(SparseHits(given, n, at)) = n
      BY <3>2
    <3>4. a[at] = [vector |-> vec, fields |-> fs, sparse |-> t]
      BY <1>1, <3>1, <3>3 DEF vec, fs
    <3> QED BY <2>2, <3>4
  <2>5. a = w
    BY <1>1, <1>2, <2>2, <2>3, <2>4, SameFunction
  <2> QED BY <1>4, <2>5 DEF a, b, w
<1> QED BY <1>3, <1>4

LEMMA SparseRowsAre ==
  ASSUME NEW c, Collection(c), NEW given, Len(given) \in Nat,
         \A n \in 1..Len(given) : given[n].id.size \in DOMAIN c
  PROVE  WithSparseRows(c, given) = FirstSparse(c, given, Len(given))
<1> DEFINE N == Len(given)
           StepOf(d, n) == IF given[n].sparse = <<>> THEN d ELSE WithSparse(d, given[n].id, given[n].sparse)
           IsDone(f) == f = [n \in 0..N |->
                               IF n = 0 THEN c
                               ELSE IF given[n].sparse = <<>> THEN f[n - 1]
                               ELSE WithSparse(f[n - 1], given[n].id, given[n].sparse)]
           g == [n \in 0..N |-> FirstSparse(c, given, n)]
<1>1. N \in Nat
  OBVIOUS
<1>2. FirstSparse(c, given, 0) = c
  <2>1. 1..0 = {} /\ c = [id \in DOMAIN c |-> c[id]]
    BY DEF Collection
  <2>2. \A id : SparseHits(given, 0, id) = {}
    BY <2>1 DEF SparseHits
  <2>3. FirstSparse(c, given, 0) = [id \in DOMAIN c |-> c[id]]
    BY <2>2 DEF FirstSparse
  <2> QED BY <2>1, <2>3
<1>3. \A n \in 0..N : g[n] = IF n = 0 THEN c ELSE StepOf(g[n - 1], n)
  <2> TAKE n \in 0..N
  <2>1. CASE n = 0
    BY <1>2, <2>1
  <2>2. CASE n # 0
    <3>1. n \in Nat /\ n > 0 /\ n - 1 \in 0..N /\ n \in 1..N
      BY <1>1, <2>2
    <3>2. FirstSparse(c, given, n) = StepOf(FirstSparse(c, given, n - 1), n)
      BY <3>1, FirstSparseStep
    <3> QED BY <2>2, <3>1, <3>2
  <2> QED BY <2>1, <2>2
<1> HIDE DEF N
<1>4. IsDone(g)
  BY <1>3
<1>5. ASSUME NEW f, IsDone(f)
      PROVE  f[N] = g[N]
  <2> DEFINE W == {n \in 0..N : f[n] # g[n]}
  <2>1. \A n \in 0..N : f[n] = IF n = 0 THEN c ELSE StepOf(f[n - 1], n)
    BY <1>5
  <2> HIDE DEF g, IsDone, StepOf
  <2>3. SUFFICES ASSUME W # {} PROVE FALSE
    BY <1>1
  <2>4. W \subseteq Nat
    OBVIOUS
  <2>5. PICK x \in W : \A y \in W : x <= y
    BY <2>3, <2>4, LeastNumber
  <2>6. x # 0 /\ x - 1 \in 0..N
    BY <1>1, <1>3, <2>1, <2>5
  <2>7. f[x - 1] = g[x - 1]
    BY <2>5, <2>6
  <2> QED BY <1>3, <2>1, <2>5, <2>6, <2>7
<1>6. WithSparseRows(c, given) = (CHOOSE f : IsDone(f))[N]
  BY DEF WithSparseRows, N
<1>7. IsDone(CHOOSE f : IsDone(f))
  <2> HIDE DEF IsDone, g
  <2> QED BY <1>4, Zenon
<1>8. WithSparseRows(c, given) = g[N]
  <2> HIDE DEF IsDone, g
  <2> QED BY <1>5, <1>6, <1>7
<1> QED BY <1>1, <1>8 DEF N

-----------------------------------------------------------------------------
(***************************************************************************)
(* A snapshot.                                                             *)
(***************************************************************************)
LEMMA ExportRows ==
  ASSUME NEW c, Portable(c)
  PROVE  LET given == export_records(c)
         IN  /\ given \in Seq(Record) /\ TakesBatch(given)
             /\ \A n \in 1..Len(given) :
                  /\ given[n].id.size \in DOMAIN c /\ given[n] = Row(c, given[n].id.size)
                  /\ PortableRow(given[n]) /\ validate_sparse(given[n].sparse)
                  /\ given[n].sparse = <<>> \/ TakesSparse(given[n].sparse)
             /\ \A m, n \in 1..Len(given) : given[m].id.size = given[n].id.size => m = n
             /\ \A id \in DOMAIN c : \E n \in 1..Len(given) : given[n].id.size = id
             /\ parse_snapshot_rows(given)
<1> DEFINE given == export_records(c)
           N == Len(given)
<1>1. /\ N \in Nat /\ given = [n \in 1..N |-> given[n]]
      /\ \A n \in 1..N : given[n].id.size \in DOMAIN c /\ given[n] = Row(c, given[n].id.size)
      /\ \A m, n \in 1..N : given[m].id.size = given[n].id.size => m = n
      /\ \A id \in DOMAIN c : \E n \in 1..N : given[n].id.size = id
  BY ExportIs DEF Portable
<1> HIDE DEF given, N
<1>2. \A n \in 1..N :
        /\ given[n] \in Record /\ TakesPoint(given[n]) /\ PortableRow(given[n])
        /\ exact_int(given[n].id) /\ Len(given[n].vector) = dimension /\ All(given[n].vector, finite_number)
        /\ ValidPayload(given[n].fields) /\ ValidSparse(given[n].sparse) /\ validate_sparse(given[n].sparse)
        /\ given[n].sparse # <<>> => TakesSparse(given[n].sparse)
  <2> TAKE n \in 1..N
  <2> DEFINE id == given[n].id.size
  <2>1. id \in DOMAIN c /\ given[n] = Row(c, id)
    BY <1>1
  <2> HIDE DEF id
  <2> QED BY <2>1, RowFacts
<1>3. given \in Seq(Record)
  BY <1>1, <1>2
<1>4. TakesBatch(given)
  BY <1>2 DEF TakesBatch, All, N
<1>5. Distinct([n \in 1..N |-> given[n].id.size])
  <2> DEFINE ids == [n \in 1..N |-> given[n].id.size]
  <2>1. Len(ids) = N /\ \A n \in 1..N : ids[n] = given[n].id.size
    BY <1>1
  <2> HIDE DEF ids
  <2>2. Distinct(ids)
    BY <1>1, <2>1 DEF Distinct
  <2> QED BY <2>2 DEF ids
<1>6. parse_snapshot_rows(given)
  BY <1>2, <1>5 DEF parse_snapshot_rows, N
<1>7. QED BY <1>1, <1>2, <1>3, <1>4, <1>6 DEF given, N

LEMMA EmptyCollection == Collection(Empty) /\ DOMAIN Empty = {}
BY DEF Collection, Empty

\* The rows of an export, stored in a new collection, are the collection exported.
LEMMA StagedIs ==
  ASSUME NEW c, Portable(c)
  PROVE  LET given == export_records(c) IN WithSparseRows(Batched(Empty, given), given) = c
<1> DEFINE given == export_records(c)
           N == Len(given)
           b == Batched(Empty, given)
           w == WithSparseRows(b, given)
<1>1. /\ given \in Seq(Record) /\ TakesBatch(given)
      /\ \A n \in 1..N : given[n].id.size \in DOMAIN c /\ given[n] = Row(c, given[n].id.size)
      /\ \A m, n \in 1..N : given[m].id.size = given[n].id.size => m = n
      /\ \A id \in DOMAIN c : \E n \in 1..N : given[n].id.size = id
  BY ExportRows
<1>2. N \in Nat
  BY <1>1
<1> HIDE DEF given
<1>3. /\ Collection(b) /\ DOMAIN b = {given[k].id.size : k \in 1..N}
      /\ \A k \in 1..N : b[given[k].id.size] =
           [vector |-> VectorOf(given[k]), fields |-> FieldsOf(given[k]), sparse |-> <<>>]
  <2>1. /\ Collection(b) /\ DOMAIN b = DOMAIN Empty \cup {given[k].id.size : k \in 1..N}
        /\ \A k \in 1..N : (\A i \in 1..N : given[i].id.size = given[k].id.size => i = k)
                            => RowStored(Empty, b, given[k])
    <3>1. given \in Seq(Record) /\ TakesBatch(given) /\ Collection(Empty)
      BY <1>1, EmptyCollection
    <3> QED BY ONLY <3>1, BatchedFacts
  <2> HIDE DEF b, N
  <2>2. \A k \in 1..N : RowStored(Empty, b, given[k])
    BY <1>1, <2>1
  <2>3. DOMAIN b = {given[k].id.size : k \in 1..N}
    BY <2>1, EmptyCollection
  <2> QED BY <2>1, <2>2, <2>3, EmptyCollection DEF RowStored
<1> HIDE DEF b, N
<1>4. DOMAIN b = DOMAIN c
  <2>1. \A id : id \in DOMAIN b <=> id \in DOMAIN c
    BY <1>1, <1>3
  <2> QED BY <2>1
<1>5. \A n \in 1..N : given[n].id.size \in DOMAIN b
  BY <1>3
<1>6. w = FirstSparse(b, given, N)
  BY <1>2, <1>3, <1>5, SparseRowsAre DEF N
<1>7. /\ DOMAIN w = DOMAIN b /\ w = [id \in DOMAIN w |-> w[id]]
      /\ \A id \in DOMAIN b :
           w[id] = IF SparseHits(given, N, id) = {} THEN b[id]
                   ELSE [vector |-> b[id].vector, fields |-> b[id].fields,
                         sparse |-> TermsOf(given[Newest(SparseHits(given, N, id))].sparse)]
  <2> HIDE DEF w
  <2> QED BY <1>6 DEF FirstSparse
<1> HIDE DEF w
<1>8. ASSUME NEW id \in DOMAIN c PROVE w[id] = c[id]
  <2>1. PICK k \in 1..N : given[k].id.size = id
    BY <1>1
  <2>2. given[k] = Row(c, id) /\ \A n \in 1..N : given[n].id.size = id => n = k
    BY <1>1, <2>1
  <2> DEFINE vec == c[id].vector
             fs == c[id].fields
             sp == c[id].sparse
  <2>3. /\ (given[k].sparse = <<>> <=> sp = <<>>)
        /\ VectorOf(given[k]) = vec /\ FieldsOf(given[k]) = fs /\ TermsOf(given[k].sparse) = sp
    BY <2>2, RowFacts
  <2>4. c[id] = [vector |-> vec, fields |-> fs, sparse |-> sp]
    BY PointForm DEF Portable
  <2> HIDE DEF vec, fs, sp
  <2>5. b[id] = [vector |-> vec, fields |-> fs, sparse |-> <<>>]
    BY <1>3, <2>1, <2>3
  <2>6. CASE given[k].sparse = <<>>
    <3>1. SparseHits(given, N, id) = {}
      BY <2>2, <2>6 DEF SparseHits
    <3> QED BY <1>4, <1>7, <2>3, <2>4, <2>5, <2>6, <3>1
  <2>7. CASE given[k].sparse # <<>>
    <3>1. SparseHits(given, N, id) = {k}
      BY <2>1, <2>2, <2>7 DEF SparseHits
    <3>2. SparseHits(given, N, id) \in SUBSET (1..N) /\ SparseHits(given, N, id) # {}
      BY <3>1
    <3>3. Newest(SparseHits(given, N, id)) = k
      BY <1>2, <3>1, <3>2, NewestFacts
    <3>4. b[id].vector = vec /\ b[id].fields = fs
      BY <2>5
    <3> QED BY <1>4, <1>7, <2>3, <2>4, <3>2, <3>3, <3>4
  <2> QED BY <2>6, <2>7
<1>9. c = [id \in DOMAIN c |-> c[id]]
  BY DEF Portable, Collection
<1>10. w = c
  BY <1>4, <1>7, <1>8, <1>9, SameFunction
<1>11. QED BY <1>10 DEF w, b, given

LEMMA SnapshotInstalls ==
  ASSUME Portable(collection), InstallSnapshot
  PROVE  outcome' = "installed" /\ copy' = collection
<1>1. rows' = export_records(collection)
  BY DEF InstallSnapshot
<1>2. /\ parse_snapshot_rows(rows') /\ TakesBatch(rows')
      /\ \A n \in 1..Len(rows') : rows'[n].sparse = <<>> \/ TakesSparse(rows'[n].sparse)
      /\ WithSparseRows(Batched(Empty, rows'), rows') = collection
  BY <1>1, ExportRows, StagedIs
<1>3. All(rows', LAMBDA r : r.sparse = <<>> \/ TakesSparse(r.sparse))
  BY <1>2 DEF All
<1> QED BY <1>2, <1>3 DEF InstallSnapshot

\* A snapshot of a serving replica is never refused, and the collection it leaves is the
\* replica's own, whatever was committed, refused or applied in part before it.
THEOREM SnapshotsMoveAll == Spec => SnapshotMovesAll
<1>1. Portable(collection) /\ [Next]_vars =>
        [InstallSnapshot => outcome' = "installed" /\ copy' = collection]_vars
  BY SnapshotInstalls
<1> QED BY <1>1, ReplicaInvariant, PTL DEF Spec, SnapshotMovesAll

-----------------------------------------------------------------------------
(***************************************************************************)
(* An import.                                                              *)
(***************************************************************************)
LEMMA ConvertedTypes ==
  ASSUME NEW r \in Record
  PROVE  /\ Converted(r) \in Record /\ Converted(r).sparse = r.sparse
         /\ (r.id.size # TINY => Converted(r) = r)
<1> DEFINE i == r.id
           v == r.vector
           f == r.fields
           s == r.sparse
           ty == i.type
           z == i.size
           y == IF z = TINY THEN ZERO ELSE z
           q == [type |-> ty, size |-> y]
<1>1. /\ r = [id |-> i, vector |-> v, fields |-> f, sparse |-> s]
      /\ i \in Number /\ v \in Seq(Number) /\ f \in Seq(Field) /\ s \in Seq(Term)
  BY DEF Record
<1>2. i = [type |-> ty, size |-> z] /\ ty \in {"int", "float", "bool", "str"} /\ z \in Size
  BY <1>1 DEF Number
<1> HIDE DEF ty, z
<1>3. y \in Size /\ y # TINY
  BY <1>2 DEF Size, NEGATIVE, ZERO, TINY, HUGE
<1> HIDE DEF y
<1>4. q \in Number
  BY <1>2, <1>3 DEF Number
<1>5. [i EXCEPT !.size = y] = q
  <2> HIDE DEF i
  <2> QED BY <1>2
<1>6. Converted(r) = [r EXCEPT !.id = [i EXCEPT !.size = y]]
  BY DEF Converted, y, z
<1> HIDE DEF i, v, f, s, q
<1>7. Converted(r) = [id |-> q, vector |-> v, fields |-> f, sparse |-> s]
  BY <1>1, <1>5, <1>6
<1>8. Converted(r) \in Record /\ Converted(r).sparse = s
  BY <1>1, <1>4, <1>7 DEF Record
<1>9. z # TINY => Converted(r) = r
  BY <1>1, <1>2, <1>7 DEF q, y
<1>10. QED BY <1>8, <1>9 DEF s, z, i

\* What the rows of an import become, and what they leave when they are refused.
LEMMA ImportedRows ==
  ASSUME NEW given \in Seq(Record), NEW fresh, ImportBatch(given, fresh)
  PROVE  /\ rows' \in Seq(Record) /\ Len(rows') = Len(given) /\ Len(given) \in Nat
         /\ \A n \in 1..Len(given) : rows'[n] = Converted(given[n]) /\ rows'[n].sparse = given[n].sparse
<1>1. rows' = [n \in 1..Len(given) |-> Converted(given[n])] /\ Len(given) \in Nat
  BY DEF ImportBatch
<1>2. \A n \in 1..Len(given) : Converted(given[n]) \in Record /\ Converted(given[n]).sparse = given[n].sparse
  BY ConvertedTypes
<1>3. rows' \in Seq(Record) /\ Len(rows') = Len(given)
  BY <1>1, <1>2
<1> QED BY <1>1, <1>2, <1>3

LEMMA BatchCopy ==
  ASSUME CopyInv, NEW given \in Seq(Record), NEW fresh \in BOOLEAN, ImportBatch(given, fresh),
         fresh => /\ \A n \in 1..Len(given) :
                       PortableRow(given[n]) /\ TakesPoint(given[n]) /\ validate_sparse(given[n].sparse)
                  /\ \A m, n \in 1..Len(given) : given[m].id.size = given[n].id.size => m = n
  PROVE  CopyInv'
<1> DEFINE N == Len(given)
<1>1. /\ rows' \in Seq(Record) /\ Len(rows') = N /\ N \in Nat
      /\ \A n \in 1..N : rows'[n] = Converted(given[n]) /\ rows'[n].sparse = given[n].sparse
  BY ImportedRows
<1>2. Collection(copy) /\ exported' = fresh
  BY DEF CopyInv, ImportBatch
<1>3. fresh => \A n \in 1..N : rows'[n] = given[n]
  BY <1>1, ConvertedTypes DEF PortableRow
<1>4. CASE ~(All(given, LAMBDA r : validate_sparse(r.sparse)) /\ TakesBatch(rows'))
  <2>1. outcome' = "refused" /\ copy' = copy
    BY <1>4 DEF ImportBatch
  <2>2. ~fresh
    <3>1. fresh => All(given, LAMBDA r : validate_sparse(r.sparse))
      BY DEF All
    <3>2. fresh => TakesBatch(rows')
      BY <1>1, <1>3 DEF TakesBatch, All
    <3> QED BY <1>4, <3>1, <3>2
  <2> QED BY <1>2, <2>1, <2>2 DEF CopyInv
<1>5. CASE All(given, LAMBDA r : validate_sparse(r.sparse)) /\ TakesBatch(rows')
  <2>1. /\ copy' = Batched(copy, rows') /\ outcome' = "importing" /\ TakesBatch(rows')
        /\ todo' = {n \in 1..N : given[n].sparse # <<>>}
    BY <1>5 DEF ImportBatch
  <2>2. /\ Collection(copy') /\ DOMAIN copy' = DOMAIN copy \cup {rows'[k].id.size : k \in 1..N}
        /\ \A k \in 1..N : (\A i \in 1..N : rows'[i].id.size = rows'[k].id.size => i = k)
                           => RowStored(copy, copy', rows'[k])
    <3>1. rows' \in Seq(Record) /\ TakesBatch(rows') /\ Collection(copy) /\ Len(rows') = N
      BY <1>1, <1>2, <2>1
    <3> QED BY ONLY <2>1, <3>1, BatchedFacts
  <2> HIDE DEF N
  <2>3. /\ todo' \subseteq 1..N /\ \A i \in todo' : rows'[i].sparse # <<>>
        /\ \A i \in 1..N : rows'[i].id.size \in DOMAIN copy'
    BY <1>1, <2>1, <2>2
  <2>4. ASSUME fresh, NEW k \in 1..N PROVE PortableRow(rows'[k]) /\ Arrived(k)'
    <3> DEFINE p == rows'[k]
               id == p.id.size
    <3>1. RowStored(copy, copy', p)
      BY <1>3, <2>2, <2>4 DEF N
    <3>2. PortableRow(p)
      BY <1>3, <2>4 DEF N
    <3>3. copy'[id].vector = VectorOf(p) /\ copy'[id].fields = FieldsOf(p)
      <4> HIDE DEF p
      <4> QED BY <3>1 DEF RowStored
    <3>4. Row(copy', id).vector = p.vector /\ Row(copy', id).fields = p.fields
      <4>1. /\ Row(copy', id).vector = Numbers("float", copy'[id].vector)
            /\ Row(copy', id).fields = RowFields(copy'[id].fields)
        <5> HIDE DEF id
        <5> QED BY RowReads
      <4>2. Numbers("float", VectorOf(p)) = p.vector /\ RowFields(FieldsOf(p)) = p.fields
        BY <3>2 DEF PortableRow
      <4> QED BY <3>3, <4>1, <4>2
    <3>5. k \in todo' \/ rows'[k].sparse = <<>>
      BY <1>1, <2>1
    <3> QED BY <2>3, <3>2, <3>4, <3>5 DEF Arrived
  <2>5. fresh => \A i, j \in 1..N : rows'[i].id.size = rows'[j].id.size => i = j
    BY <1>3 DEF N
  <2> QED BY <1>1, <1>2, <2>1, <2>2, <2>3, <2>4, <2>5 DEF CopyInv, N
<1> QED BY <1>4, <1>5

LEMMA SparseCopy ==
  ASSUME CopyInv, NEW i \in todo, ImportSparse(i)
  PROVE  CopyInv'
<1>1. /\ Collection(copy) /\ exported \in BOOLEAN /\ rows \in Seq(Record) /\ todo \subseteq 1..Len(rows)
      /\ rows[i].sparse # <<>> /\ outcome = "importing"
      /\ \A k \in todo : rows[k].sparse # <<>>
      /\ \A k \in 1..Len(rows) : rows[k].id.size \in DOMAIN copy
  BY DEF CopyInv, ImportSparse
<1>2. UNCHANGED <<rows, exported>>
  BY DEF ImportSparse
<1>3. exported => /\ \A k \in 1..Len(rows) : PortableRow(rows[k]) /\ Arrived(k)
                  /\ \A k, j \in 1..Len(rows) : rows[k].id.size = rows[j].id.size => k = j
  BY <1>1 DEF CopyInv
<1>4. i \in 1..Len(rows) /\ (exported => TakesSparse(rows[i].sparse))
  BY <1>1, <1>3 DEF PortableRow
<1>5. CASE ~TakesSparse(rows[i].sparse)
  <2>1. outcome' = "raised" /\ UNCHANGED <<copy, todo>> /\ ~exported
    BY <1>4, <1>5 DEF ImportSparse
  <2> QED BY <1>1, <1>2, <2>1 DEF CopyInv
<1>6. CASE TakesSparse(rows[i].sparse)
  <2> DEFINE p == rows[i]
             at == p.id.size
  <2>1. copy' = WithSparse(copy, p.id, p.sparse) /\ todo' = todo \ {i} /\ outcome' = "importing"
    BY <1>1, <1>6 DEF ImportSparse
  <2>2. at \in DOMAIN copy /\ p.sparse \in Seq(Term)
    <3>1. p \in Record
      BY <1>1, <1>4
    <3> QED BY <1>1, <1>4, <3>1 DEF Record
  <2>3. /\ Collection(copy') /\ DOMAIN copy' = DOMAIN copy
        /\ \A id \in DOMAIN copy : id # at => copy'[id] = copy[id]
        /\ copy'[at] = [vector |-> copy[at].vector, fields |-> copy[at].fields, sparse |-> TermsOf(p.sparse)]
    <3> HIDE DEF p
    <3> QED BY <1>1, <2>1, <2>2, WithSparseCollection
  <2>4. ASSUME exported, NEW k \in 1..Len(rows) PROVE Arrived(k)'
    <3> DEFINE id == rows[k].id.size
    <3>1. /\ id \in DOMAIN copy
          /\ Row(copy, id).vector = rows[k].vector /\ Row(copy, id).fields = rows[k].fields
          /\ k \notin todo /\ rows[k].sparse # <<>> => Row(copy, id).sparse = rows[k].sparse
      BY <1>3, <2>4 DEF Arrived
    <3>2. CASE k = i
      <4>1. copy'[id].vector = copy[id].vector /\ copy'[id].fields = copy[id].fields
            /\ copy'[id].sparse = TermsOf(rows[k].sparse)
        BY <2>3, <3>2
      <4>2. RowTerms(TermsOf(rows[k].sparse)) = rows[k].sparse
        BY <1>1, <1>3, <2>4, <3>2 DEF PortableRow
      <4>3. /\ Row(copy', id).vector = Row(copy, id).vector /\ Row(copy', id).fields = Row(copy, id).fields
            /\ Row(copy', id).sparse = rows[k].sparse
        <5>1. /\ Row(copy', id).vector = Numbers("float", copy'[id].vector)
              /\ Row(copy', id).fields = RowFields(copy'[id].fields)
              /\ Row(copy', id).sparse = RowTerms(copy'[id].sparse)
              /\ Row(copy, id).vector = Numbers("float", copy[id].vector)
              /\ Row(copy, id).fields = RowFields(copy[id].fields)
          <6> HIDE DEF id
          <6> QED BY RowReads
        <5> QED BY <4>1, <4>2, <5>1
      <4> QED BY <1>2, <2>3, <3>1, <4>3 DEF Arrived
    <3>3. CASE k # i
      <4>1. id # at
        BY <1>3, <1>4, <2>4, <3>3
      <4>2. copy'[id] = copy[id]
        BY <2>3, <3>1, <4>1
      <4>3. /\ Row(copy', id).vector = Row(copy, id).vector /\ Row(copy', id).fields = Row(copy, id).fields
            /\ Row(copy', id).sparse = Row(copy, id).sparse
        <5> HIDE DEF id
        <5> QED BY <4>2 DEF Row
      <4>4. k \notin todo' => k \notin todo
        BY <2>1, <3>3
      <4> QED BY <1>2, <2>3, <3>1, <4>3, <4>4 DEF Arrived
    <3> QED BY <3>2, <3>3
  <2> HIDE DEF p
  <2> QED BY <1>1, <1>2, <1>3, <2>1, <2>3, <2>4 DEF CopyInv
<1> QED BY <1>5, <1>6

LEMMA SnapshotCopy ==
  ASSUME CopyInv, Portable(collection), InstallSnapshot
  PROVE  CopyInv'
<1>1. outcome' = "installed" /\ copy' = collection /\ exported' = TRUE
  BY SnapshotInstalls DEF InstallSnapshot
<1> QED BY <1>1 DEF CopyInv, Portable

LEMMA ExportCopy ==
  ASSUME CopyInv, Portable(collection), ImportExport
  PROVE  CopyInv'
<1> DEFINE given == export_records(collection)
<1>1. /\ given \in Seq(Record) /\ TakesBatch(given)
      /\ \A n \in 1..Len(given) : PortableRow(given[n]) /\ validate_sparse(given[n].sparse)
      /\ \A m, n \in 1..Len(given) : given[m].id.size = given[n].id.size => m = n
  BY ExportRows
<1>2. ImportBatch(given, TRUE)
  BY DEF ImportExport
<1> HIDE DEF given
<1>3. \A n \in 1..Len(given) : TakesPoint(given[n])
  BY <1>1 DEF TakesBatch, All
<1> QED BY <1>1, <1>2, <1>3, BatchCopy

LEMMA NextCopy ==
  ASSUME CopyInv, Portable(collection), [Next]_vars
  PROVE  CopyInv'
<1>1. CASE UNCHANGED receiver
  BY <1>1 DEF receiver, CopyInv, Arrived
<1>2. CASE InstallSnapshot \/ ImportExport
  BY <1>2, SnapshotCopy, ExportCopy
<1>3. ASSUME NEW f \in Files, ImportBatch(f, FALSE) PROVE CopyInv'
  BY <1>3, BatchCopy, RecordsAssumption
<1>4. ASSUME NEW i \in todo, ImportSparse(i) PROVE CopyInv'
  BY <1>4, SparseCopy
<1>5. CASE ImportEnds
  BY <1>5 DEF ImportEnds, CopyInv, Arrived
<1>6. CASE ImportDies
  BY <1>6 DEF ImportDies, CopyInv, Arrived
<1> QED BY <1>1, <1>2, <1>3, <1>4, <1>5, <1>6
    DEF Next, vars, Commit, CommitAgain, KernelRaises, ApplyDelete, ApplyDense, ApplySparse, PublishState,
        Crash, Reopen

LEMMA InitCopy == Init => CopyInv
BY RecordsAssumption DEF Init, CopyInv

\* An export of a serving replica is never refused by an import, nor does one raise
\* halfway; when it ends, every exported point has the exported vector, payload and
\* sparse vector, whatever the collection held before and whichever imports died.
THEOREM ExportsImport == Spec => []ExportImports
<1>1. CopyInv => ExportImports
  BY DEF CopyInv, ExportImports, Arrived
<1>2. CopyInv /\ Portable(collection) /\ [Next]_vars => CopyInv'
  BY NextCopy
<1> QED BY <1>1, <1>2, InitCopy, ReplicaInvariant, PTL DEF Spec
=============================================================================
