----------------------- MODULE CollectionStoreProofs -----------------------
(***************************************************************************)
(* Proofs about CollectionStore for every set of points, values and calls, *)
(* every bound on sequence numbers and every number of faults.             *)
(*                                                                         *)
(* Three invariants, each on top of the one before and each for fewer      *)
(* kinds of fault:                                                         *)
(*   AnyFaultInv  the checkpoint and memory, whatever fails;               *)
(*   LogInv       the order and the torn tails of the logs, unless a       *)
(*                single write raises and the collection goes on;          *)
(*   StoreInv     the files and memory agree, when the process may die     *)
(*                and a batch may fail.                                    *)
(* The last one carries the refinement of DurableMap.  The lemmas before   *)
(* them are about the operators of recovery: what a replay makes of the    *)
(* records of one more call (ReplayDenseCall, ReplaySparseCall), of one    *)
(* more segment (Published), of shorter logs (Rotated) and of compacted    *)
(* segments (CompactedReplay).                                             *)
(***************************************************************************)
EXTENDS CollectionStore, SequenceTheorems, WellFoundedInduction, TLAPS

-----------------------------------------------------------------------------
(***************************************************************************)
(* Types.  Every sequence number is within the bound of the specification. *)
(***************************************************************************)
Entry == [seq : 0..MaxSequence, val : Value \cup {None}]
SparseEntry == [seq : 0..MaxSequence, val : Sparse \cup {None}]
DenseRecord == [seq : 1..MaxSequence, id : Id, val : Value \cup {None}]
SparseRecord == [seq : 1..MaxSequence, id : Id, val : Sparse]
DenseLog == Seq(Seq(DenseRecord))
SparseLog == Seq(Seq(SparseRecord))

Segment ==
  [level : {0, 1}, min : Nat, max : 0..MaxSequence, dense : [Id -> Entry], sparse : [Id -> SparseEntry]]
Memory ==
  [dense : [Id -> Entry], sparse : [Id -> Sparse \cup {None}], pending : [Id -> SparseEntry],
   last : 0..MaxSequence]

SparseCalls == {<<[id |-> i, val |-> s]>> : i \in Id, s \in Sparse}
IsWrite(c) ==
  \/ c.kind = "dense" /\ c.muts \in DenseCalls
  \/ c.kind = "sparse" /\ c.muts \in SparseCalls

TypeOK ==
  /\ wal \in DenseLog /\ sparse_wal \in SparseLog /\ segments \in Seq(Segment)
  /\ mem \in Memory /\ blocked \in BOOLEAN
  /\ pc \in {"down", "repair", "repair_sparse", "rewrite_sparse", "idle", "append", "apply",
             "publish", "rotate", "rotate_sparse"}
  /\ pc \in {"append", "apply"} => IsWrite(call) /\ mem.last + Len(call.muts) <= MaxSequence
  /\ pc = "rewrite_sparse" => call.records \in SparseLog /\ Accepted(call.records) = call.records
  /\ restored = Recovered
  /\ blocked => pc = "idle"

\* No segment holds a point newer than the checkpoint.
SegmentsBounded(segs) ==
  \A n \in 1..Len(segs), i \in Id : segs[n].dense[i].seq <= CheckpointSequence(segs)

\* A compaction replaces captured segments by what it made of them.
Captured(inputs) == inputs \in Seq(Segment) /\ inputs # <<>> /\ SegmentsBounded(inputs)
JobInv ==
  \/ job = NoJob
  \/ job.stage = "captured" /\ Captured(job.inputs)
  \/ job.stage = "built" /\ Captured(job.inputs) /\ job.output = CompactionOutput(job.inputs)

\* The files of a collection, with the records that a repair is writing back.
SparseFile == IF pc = "rewrite_sparse" THEN call.records ELSE sparse_wal
Durable == Recovery(wal, SparseFile, segments)

\* Until a collection is open it has what it recovered, and compacts nothing.
Repairing == pc \in {"repair", "repair_sparse", "rewrite_sparse"}
RepairInv == (Repairing => mem = Durable) /\ (~IsOpen => job = NoJob)

\* The checkpoint and the memory.
Within(m) ==
  \A i \in Id : m.dense[i].seq <= m.last /\ (m.dense[i].val # None => m.dense[i].seq > 0)
Segmented(segs, dense) ==
  \A i \in Id : dense[i].seq <= CheckpointSequence(segs) => dense[i].val = Newest(segs, "dense", i).val

CheckpointInv ==
  /\ SegmentsBounded(segments)
  /\ Within(mem)
  /\ pc # "down" => CheckpointSequence(segments) <= mem.last /\ Segmented(segments, mem.dense)
  /\ pc \in {"rotate", "rotate_sparse"} => segments # <<>> /\ mem.last = CheckpointSequence(segments)
  /\ IsOpen /\ wal = <<>> /\ sparse_wal = <<>> => mem.last = CheckpointSequence(segments)
  /\ pc = "apply" => wal # <<>> \/ sparse_wal # <<>>

AnyFaultInv == TypeOK /\ JobInv /\ RepairInv /\ CheckpointInv

-----------------------------------------------------------------------------
(***************************************************************************)
(* The logs, when no append raises and lets the collection go on.          *)
(***************************************************************************)
Untorn(log) == \A n \in 1..Len(log) : log[n] # Torn
Upto(log, s) == \A r \in Records(log) : r.seq <= s

Serving == IsOpen /\ ~blocked
Written == mem.last + IF pc = "apply" THEN Len(call.muts) ELSE 0

LogInv ==
  /\ Increasing(wal) /\ ~TornInside(wal) /\ Increasing(SparseFile) /\ ~TornInside(SparseFile)
  /\ Serving \/ pc \in {"repair_sparse", "rewrite_sparse"} => Untorn(wal)
  /\ Serving => Untorn(sparse_wal) /\ Upto(wal, Written) /\ Upto(sparse_wal, Written)
  /\ pc = "rewrite_sparse" => sparse_wal = <<>>

-----------------------------------------------------------------------------
(***************************************************************************)
(* Files and memory, when neither a single write nor a checkpoint raises   *)
(* and no repair is cut off.                                               *)
(***************************************************************************)
\* What the first n segments hold.
Through(segs, n, field, i) ==
  LET holding == {m \in 1..n : segs[m][field][i].seq > 0}
  IN IF holding = {} THEN NoEntry ELSE segs[Max(holding)][field][i]

\* A point that is not live has no sparse field: not in the files of a recovery,
\* and not in any number of first segments, which a compaction may have captured.
SegmentsClean(segs) ==
  \A n \in 1..Len(segs), i \in Id :
    Through(segs, n, "dense", i).val = None => Through(segs, n, "sparse", i).val = None
FieldsClean(ds, ss, segs) ==
  \A i \in Id : RecoveredDense(ds, segs, i).val = None => RecoveredSparse(ds, ss, segs, i).val = None

CleanInv ==
  /\ SegmentsClean(segments)
  /\ FieldsClean(Records(Accepted(wal)), Records(Accepted(SparseFile)), segments)

\* m serves what d restores, and knows what the next delta has to hold.
Agrees(m, d, from) ==
  /\ m.last = d.last /\ m.sparse = d.sparse
  /\ \A i \in Id : /\ m.dense[i].val = d.dense[i].val
                   /\ m.dense[i].seq > from \/ d.dense[i].seq > from => m.dense[i] = d.dense[i]

Applied(m, c) ==
  IF c.kind = "dense" THEN AppliedDense(m, c.muts)
                      ELSE AppliedSparse(m, c.muts[1].id, c.muts[1].val)

AgreeInv ==
  /\ pc \in {"idle", "append", "publish"} /\ ~blocked =>
       Agrees(mem, Durable, CheckpointSequence(segments)) /\ mem.pending = Durable.pending
  /\ pc = "append" /\ call.kind = "sparse" => Live(mem.dense, call.muts[1].id)
  /\ pc = "apply" => /\ Agrees(Applied(mem, call), Durable, CheckpointSequence(segments))
                     /\ Applied(mem, call).pending = Durable.pending
  /\ pc \in {"rotate", "rotate_sparse"} => /\ Agrees(mem, Durable, CheckpointSequence(segments))
                                           /\ Durable.pending = NoEntries

-----------------------------------------------------------------------------
(***************************************************************************)
(* Numbers.                                                                *)
(***************************************************************************)
LEMMA LeastNumber ==
  ASSUME NEW T, T \subseteq Nat, T # {}
  PROVE  \E x \in T : \A y \in T : x <= y
<1> DEFINE R == OpToRel(<, Nat)
<1>1. IsWellFoundedOn(R, Nat)
  BY NatLessThanWellFounded
<1> HIDE DEF R
<1>2. PICK x \in T : \A y \in T : ~(<<y, x>> \in R)
  BY <1>1, WFMin, Zenon
<1>3. \A y \in T : ~(y < x)
  BY <1>2 DEF R, OpToRel
<1> QED BY <1>3

LEMMA MinFacts ==
  ASSUME NEW T, T \subseteq Nat, T # {}
  PROVE  Min(T) \in T /\ \A y \in T : Min(T) <= y
<1>1. \E x \in T : \A y \in T : x <= y
  BY LeastNumber
<1> QED BY <1>1 DEF Min

LEMMA MaxFacts ==
  ASSUME NEW T, T \subseteq Nat, T # {}, NEW b \in Nat, \A y \in T : y <= b
  PROVE  Max(T) \in T /\ \A y \in T : Max(T) >= y
<1> DEFINE C == {b - y : y \in T}
<1>0. \A y \in T : y \in Nat /\ b - y \in Nat
  OBVIOUS
<1>1. C \subseteq Nat /\ C # {}
  BY <1>0
<1>2. PICK x \in C : \A y \in C : x <= y
  BY <1>1, LeastNumber
<1>3. PICK m \in T : x = b - m
  BY <1>2
<1>4. \A y \in T : m >= y
  BY <1>0, <1>2, <1>3
<1> QED BY <1>4 DEF Max

LEMMA MaxIs ==
  ASSUME NEW T, T \subseteq Nat, NEW x \in T, \A y \in T : y <= x
  PROVE  Max(T) = x
<1>1. Max(T) \in T /\ \A y \in T : Max(T) >= y
  <2>1. \A y \in T : x >= y
    OBVIOUS
  <2> QED BY <2>1 DEF Max
<1>2. Max(T) \in Nat /\ x \in Nat /\ Max(T) >= x /\ Max(T) <= x
  BY <1>1
<1> QED BY <1>2

LEMMA MinIs ==
  ASSUME NEW T, T \subseteq Nat, NEW x \in T, \A y \in T : x <= y
  PROVE  Min(T) = x
<1>1. Min(T) \in T /\ \A y \in T : Min(T) <= y
  BY DEF Min
<1>2. Min(T) \in Nat /\ x \in Nat /\ Min(T) <= x /\ x <= Min(T)
  BY <1>1
<1> QED BY <1>2

-----------------------------------------------------------------------------
(***************************************************************************)
(* Logs.                                                                   *)
(***************************************************************************)
LEMMA AcceptedFacts ==
  ASSUME NEW S, NEW log \in Seq(Seq(S))
  PROVE  /\ Accepted(log) \in Seq(Seq(S)) /\ Untorn(Accepted(log))
         /\ Len(Accepted(log)) <= Len(log)
         /\ \A n \in 1..Len(Accepted(log)) : Accepted(log)[n] = log[n]
         /\ \A n \in 1..Len(log) : n > Len(Accepted(log)) => \E m \in 1..n : log[m] = Torn
<1> DEFINE ends == {n \in 1..Len(log) : log[n] = Torn}
<1>1. Len(log) \in Nat /\ \A n \in 1..Len(log) : log[n] \in Seq(S)
  OBVIOUS
<1>2. CASE ends = {}
  <2>1. Accepted(log) = log
    BY <1>2 DEF Accepted
  <2>2. \A n \in 1..Len(log) : log[n] # Torn
    BY <1>2
  <2>3. Untorn(log) /\ ~\E n \in 1..Len(log) : n > Len(log)
    BY <1>1, <2>2 DEF Untorn
  <2> QED BY <1>1, <2>1, <2>3
<1>3. CASE ends # {}
  <2>1. Min(ends) \in ends /\ \A y \in ends : Min(ends) <= y
    <3>1. ends \subseteq Nat
      BY <1>1
    <3> QED BY <1>3, <3>1, MinFacts
  <2> DEFINE k == Min(ends)
  <2>2. Accepted(log) = SubSeq(log, 1, k - 1)
    BY <1>3 DEF Accepted
  <2> HIDE DEF ends
  <2>3. k \in 1..Len(log) /\ log[k] = Torn
    BY <2>1 DEF ends
  <2>4. \A n \in 1..(k - 1) : log[n] \in Seq(S) /\ log[n] # Torn
    <3> SUFFICES ASSUME NEW n \in 1..(k - 1) PROVE log[n] \in Seq(S) /\ log[n] # Torn
      OBVIOUS
    <3>1. n \in 1..Len(log) /\ ~(k <= n)
      BY <1>1, <2>3
    <3>2. n \notin ends
      BY <2>1, <3>1
    <3> QED BY <1>1, <3>1, <3>2 DEF ends
  <2> HIDE DEF k
  <2>5. /\ SubSeq(log, 1, k - 1) \in Seq(Seq(S))
        /\ Len(SubSeq(log, 1, k - 1)) = k - 1
        /\ \A n \in 1..(k - 1) : SubSeq(log, 1, k - 1)[n] = log[n]
    <3>1. 1 \in Int /\ k - 1 \in Int /\ \A n \in 1..(k - 1) : log[n] \in Seq(S)
      BY <1>1, <2>3, <2>4
    <3>2. /\ SubSeq(log, 1, k - 1) \in Seq(Seq(S))
          /\ Len(SubSeq(log, 1, k - 1)) = IF 1 <= k - 1 THEN k - 1 - 1 + 1 ELSE 0
          /\ \A n \in 1..(k - 1) - 1 + 1 : SubSeq(log, 1, k - 1)[n] = log[1 + n - 1]
      BY <3>1, SubSeqProperties
    <3> QED BY <1>1, <2>3, <3>2
  <2> QED BY <1>1, <2>2, <2>3, <2>4, <2>5 DEF Untorn
<1> QED BY <1>2, <1>3

LEMMA UntornAccepted ==
  ASSUME NEW S, NEW log \in Seq(Seq(S)), Untorn(log)
  PROVE  Accepted(log) = log
<1>1. {n \in 1..Len(log) : log[n] = Torn} = {}
  BY DEF Untorn
<1> QED BY <1>1 DEF Accepted

LEMMA AcceptedTwice ==
  ASSUME NEW S, NEW log \in Seq(Seq(S))
  PROVE  Accepted(Accepted(log)) = Accepted(log)
BY AcceptedFacts, UntornAccepted

LEMMA RecordTypes ==
  ASSUME NEW S, NEW log \in Seq(Seq(S))
  PROVE  /\ Records(log) \subseteq S
         /\ \A r : r \in Records(log) <=> \E n \in 1..Len(log) : \E a \in 1..Len(log[n]) : r = log[n][a]
<1>1. \A n \in 1..Len(log) : log[n] \in Seq(S)
  OBVIOUS
<1>2. \A n \in 1..Len(log) : /\ Range(log[n]) \subseteq S
                             /\ \A r : r \in Range(log[n]) <=> \E a \in 1..Len(log[n]) : r = log[n][a]
  BY <1>1 DEF Range
<1>3. \A r : r \in Records(log) <=> \E n \in 1..Len(log) : r \in Range(log[n])
  BY DEF Records
<1>4. Records(log) \subseteq S
  BY <1>2, <1>3
<1>5. ASSUME NEW r
      PROVE  r \in Records(log) <=> \E n \in 1..Len(log) : \E a \in 1..Len(log[n]) : r = log[n][a]
  <2>1. \A n \in 1..Len(log) : r \in Range(log[n]) <=> \E a \in 1..Len(log[n]) : r = log[n][a]
    BY <1>2
  <2> QED BY <1>3, <2>1
<1> QED BY <1>4, <1>5

LEMMA EmptyLog ==
  /\ Accepted(<<>>) = <<>> /\ Records(<<>>) = {} /\ Untorn(<<>>) /\ Increasing(<<>>) /\ ~TornInside(<<>>)
<1>1. {n \in 1..Len(<<>>) : <<>>[n] = Torn} = {}
  OBVIOUS
<1> QED BY <1>1 DEF Accepted, Records, Untorn, Increasing, TornInside

\* An envelope behind complete ones is accepted with all its records.
LEMMA AppendWhole ==
  ASSUME NEW S, NEW log \in Seq(Seq(S)), NEW e \in Seq(S), Untorn(log), e # Torn
  PROVE  /\ Append(log, e) \in Seq(Seq(S)) /\ Untorn(Append(log, e))
         /\ Accepted(Append(log, e)) = Append(log, e)
         /\ Records(Append(log, e)) = Records(log) \cup Range(e)
<1> DEFINE t == Append(log, e)
<1>1. /\ t \in Seq(Seq(S)) /\ Len(t) = Len(log) + 1 /\ t[Len(log) + 1] = e
      /\ \A n \in 1..Len(log) : t[n] = log[n]
      /\ Len(log) \in Nat
  OBVIOUS
<1> HIDE DEF t
<1>2. Untorn(t)
  <2> SUFFICES ASSUME NEW n \in 1..Len(t) PROVE t[n] # Torn
    BY DEF Untorn
  <2>1. n \in 1..Len(log) \/ n = Len(log) + 1
    BY <1>1
  <2> QED BY <1>1, <2>1 DEF Untorn
<1>3. Records(t) = Records(log) \cup Range(e)
  <2>1. 1..Len(t) = 1..Len(log) \cup {Len(log) + 1}
    BY <1>1
  <2> QED BY <1>1, <2>1 DEF Records
<1> QED BY <1>1, <1>2, <1>3, UntornAccepted DEF t

\* An incomplete one changes nothing that is accepted.
LEMMA AppendTorn ==
  ASSUME NEW S, NEW log \in Seq(Seq(S)), Untorn(log)
  PROVE  /\ Append(log, Torn) \in Seq(Seq(S)) /\ Accepted(Append(log, Torn)) = log
         /\ ~TornInside(Append(log, Torn)) /\ Records(Append(log, Torn)) = Records(log)
<1> DEFINE t == Append(log, Torn)
           a == Accepted(t)
<1>0. Torn \in Seq(S)
  BY DEF Torn
<1>1. /\ t \in Seq(Seq(S)) /\ Len(t) = Len(log) + 1 /\ t[Len(log) + 1] = Torn
      /\ \A n \in 1..Len(log) : t[n] = log[n]
      /\ Len(log) \in Nat
  BY <1>0
<1> HIDE DEF t
<1>2. /\ a \in Seq(Seq(S)) /\ Untorn(a) /\ Len(a) <= Len(t)
      /\ \A n \in 1..Len(a) : a[n] = t[n]
      /\ \A n \in 1..Len(t) : n > Len(a) => \E m \in 1..n : t[m] = Torn
  BY <1>1, AcceptedFacts
<1> HIDE DEF a
<1>3. Len(a) = Len(log)
  <2>0. Len(a) \in Nat /\ \A n \in 1..Len(a) : a[n] # Torn
    BY <1>2 DEF Untorn
  <2>1. Len(a) # Len(log) + 1
    BY <1>1, <1>2, <2>0
  <2>2. ~(Len(a) < Len(log))
    <3> SUFFICES ASSUME Len(a) < Len(log) PROVE FALSE
      OBVIOUS
    <3>1. Len(log) \in 1..Len(t) /\ Len(log) > Len(a)
      BY <1>1, <2>0
    <3>2. PICK m \in 1..Len(log) : t[m] = Torn
      BY <1>2, <3>1
    <3> QED BY <1>1, <3>2 DEF Untorn
  <2> QED BY <1>1, <1>2, <2>0, <2>1, <2>2
<1>4. a = log
  <2>1. \A n \in 1..Len(a) : a[n] = log[n]
    BY <1>1, <1>2, <1>3
  <2> QED BY <1>2, <1>3, <2>1, SeqEqual
<1>5. ~TornInside(t)
  <2>1. 1..Len(t) - 1 = 1..Len(log)
    BY <1>1
  <2> QED BY <1>1, <2>1 DEF TornInside, Untorn
<1>6. Records(t) = Records(log)
  <2>1. 1..Len(t) = 1..Len(log) \cup {Len(log) + 1} /\ Range(Torn) = {}
    BY <1>1 DEF Range, Torn
  <2> QED BY <1>1, <2>1 DEF Records
<1> QED BY <1>1, <1>4, <1>5, <1>6 DEF t, a

-----------------------------------------------------------------------------
(***************************************************************************)
(* Segments.                                                               *)
(***************************************************************************)
LEMMA CheckpointType ==
  ASSUME NEW segs \in Seq(Segment)
  PROVE  CheckpointSequence(segs) \in 0..MaxSequence
<1>1. CASE segs = <<>>
  BY <1>1, StoreAssumption DEF CheckpointSequence
<1>2. CASE segs # <<>>
  <2>1. Len(segs) \in 1..Len(segs) /\ segs[Len(segs)] \in Segment
    BY <1>2
  <2> QED BY <1>2, <2>1 DEF CheckpointSequence, Last, Segment
<1> QED BY <1>1, <1>2

LEMMA EntryTypes ==
  /\ NoEntry \in Entry /\ NoEntry \in SparseEntry /\ NoEntry.seq = 0 /\ NoEntry.val = None
  /\ NoEntries \in [Id -> Entry] /\ NoEntries \in [Id -> SparseEntry]
  /\ \A i \in Id : NoEntries[i] = NoEntry
BY StoreAssumption DEF NoEntry, NoEntries, Entry, SparseEntry

\* What the first segments hold of an ID: the newest state, or nothing.
LEMMA ThroughFacts ==
  ASSUME NEW segs \in Seq(Segment), NEW n \in 0..Len(segs), NEW i \in Id,
         NEW field \in {"dense", "sparse"}
  PROVE  \/ /\ Through(segs, n, field, i) = NoEntry
            /\ \A m \in 1..n : segs[m][field][i].seq = 0
         \/ \E m \in 1..n : /\ Through(segs, n, field, i) = segs[m][field][i]
                            /\ segs[m][field][i].seq > 0
                            /\ \A k \in 1..n : k > m => segs[k][field][i].seq = 0
<1> DEFINE holding == {m \in 1..n : segs[m][field][i].seq > 0}
<1>0. Len(segs) \in Nat /\ n \in Nat
  OBVIOUS
<1>1. \A m \in 1..n : segs[m] \in Segment
  BY <1>0
<1>2. \A m \in 1..n : segs[m][field][i].seq \in Nat
  BY SMTT(30), <1>1 DEF Segment, Entry, SparseEntry
<1>3. CASE holding = {}
  <2>1. Through(segs, n, field, i) = NoEntry
    BY <1>3 DEF Through
  <2>2. \A m \in 1..n : ~(segs[m][field][i].seq > 0)
    BY <1>3
  <2> QED BY <1>2, <2>1, <2>2
<1>4. CASE holding # {}
  <2> DEFINE m == Max(holding)
  <2>1. m \in holding /\ \A k \in holding : m >= k
    <3>1. holding \subseteq Nat /\ \A k \in holding : k <= n
      BY <1>0
    <3> QED BY <1>0, <1>4, <3>1, MaxFacts
  <2>2. Through(segs, n, field, i) = segs[m][field][i]
    BY <1>4 DEF Through
  <2>3. m \in 1..n /\ segs[m][field][i].seq > 0
    BY <2>1
  <2>4. ASSUME NEW k \in 1..n, k > m PROVE segs[k][field][i].seq = 0
    <3>1. k \notin holding
      BY SMTT(30), <1>0, <2>1, <2>3, <2>4
    <3> QED BY <1>2, <3>1
  <2> HIDE DEF m
  <2> QED BY <2>2, <2>3, <2>4
<1> QED BY <1>3, <1>4

LEMMA ThroughType ==
  ASSUME NEW segs \in Seq(Segment), NEW n \in 0..Len(segs), NEW i \in Id
  PROVE  /\ Through(segs, n, "dense", i) \in Entry
         /\ Through(segs, n, "sparse", i) \in SparseEntry
         /\ Through(segs, n, "dense", i).val # None => Through(segs, n, "dense", i).seq > 0
         /\ Through(segs, n, "sparse", i).val # None => Through(segs, n, "sparse", i).seq > 0
<1>1. \A m \in 1..n : segs[m] \in Segment
  OBVIOUS
<1>2. \A m \in 1..n : segs[m].dense[i] \in Entry /\ segs[m].sparse[i] \in SparseEntry
  BY <1>1 DEF Segment
<1>3. /\ Through(segs, n, "dense", i) \in Entry
      /\ Through(segs, n, "dense", i).val # None => Through(segs, n, "dense", i).seq > 0
  BY <1>2, ThroughFacts, EntryTypes
<1>4. /\ Through(segs, n, "sparse", i) \in SparseEntry
      /\ Through(segs, n, "sparse", i).val # None => Through(segs, n, "sparse", i).seq > 0
  BY <1>2, ThroughFacts, EntryTypes
<1> QED BY <1>3, <1>4

LEMMA NewestThrough ==
  ASSUME NEW segs, NEW field, NEW i
  PROVE  Newest(segs, field, i) = Through(segs, Len(segs), field, i)
BY DEF Newest, Through

\* What the first n segments hold depends on them alone.
LEMMA ThroughSame ==
  ASSUME NEW segs \in Seq(Segment), NEW t \in Seq(Segment), NEW n \in 0..Len(segs), n <= Len(t),
         NEW i \in Id, NEW field \in {"dense", "sparse"}, \A m \in 1..n : t[m] = segs[m]
  PROVE  Through(t, n, field, i) = Through(segs, n, field, i)
<1>1. {m \in 1..n : t[m][field][i].seq > 0} = {m \in 1..n : segs[m][field][i].seq > 0}
  OBVIOUS
<1> DEFINE h == {m \in 1..n : segs[m][field][i].seq > 0}
<1>2. h # {} => Max(h) \in 1..n
  <2> SUFFICES ASSUME h # {} PROVE Max(h) \in 1..n
    OBVIOUS
  <2>1. n \in Nat /\ h \subseteq Nat /\ \A k \in h : k <= n
    OBVIOUS
  <2>2. Max(h) \in h
    BY <2>1, MaxFacts
  <2> QED BY <2>2
<1>3. h # {} => t[Max(h)] = segs[Max(h)]
  BY <1>2
<1> QED BY <1>1, <1>3 DEF Through

\* One segment more.
LEMMA ThroughNext ==
  ASSUME NEW segs \in Seq(Segment), NEW n \in 1..Len(segs), NEW i \in Id,
         NEW field \in {"dense", "sparse"}
  PROVE  Through(segs, n, field, i) =
           IF segs[n][field][i].seq > 0 THEN segs[n][field][i] ELSE Through(segs, n - 1, field, i)
<1> DEFINE h(k) == {m \in 1..k : segs[m][field][i].seq > 0}
<1>0. n \in Nat /\ n - 1 \in Nat /\ 1..n = 1..(n - 1) \cup {n}
  OBVIOUS
<1>1. CASE segs[n][field][i].seq > 0
  <2>1. h(n) \subseteq Nat /\ n \in h(n) /\ \A y \in h(n) : y <= n
    BY <1>1
  <2>2. Max(h(n)) = n
    BY <2>1, MaxIs
  <2> QED BY <1>1, <2>1, <2>2 DEF Through
<1>2. CASE ~(segs[n][field][i].seq > 0)
  <2>1. h(n) = h(n - 1)
    BY <1>0, <1>2
  <2> QED BY <1>2, <2>1 DEF Through
<1> QED BY <1>1, <1>2

LEMMA NoSegments ==
  ASSUME NEW i \in Id, NEW field
  PROVE  Newest(<<>>, field, i) = NoEntry /\ CheckpointSequence(<<>>) = 0
<1>1. {n \in 1..Len(<<>>) : <<>>[n][field][i].seq > 0} = {}
  OBVIOUS
<1> QED BY <1>1 DEF Newest, CheckpointSequence

\* A segment is appended.
LEMMA AppendSegment ==
  ASSUME NEW segs \in Seq(Segment), NEW seg \in Segment
  PROVE  LET t == Append(segs, seg)
         IN  /\ t \in Seq(Segment) /\ CheckpointSequence(t) = seg.max /\ t # <<>>
             /\ Len(t) = Len(segs) + 1 /\ t[Len(segs) + 1] = seg
             /\ \A n \in 1..Len(segs) : t[n] = segs[n]
             /\ \A i \in Id, field \in {"dense", "sparse"} :
                  /\ \A n \in 1..Len(segs) : Through(t, n, field, i) = Through(segs, n, field, i)
                  /\ Newest(t, field, i) = IF seg[field][i].seq > 0 THEN seg[field][i]
                                           ELSE Newest(segs, field, i)
<1> DEFINE t == Append(segs, seg)
<1>1. /\ t \in Seq(Segment) /\ Len(t) = Len(segs) + 1 /\ t[Len(segs) + 1] = seg /\ t # <<>>
      /\ \A n \in 1..Len(segs) : t[n] = segs[n]
      /\ Len(segs) \in Nat
  OBVIOUS
<1> HIDE DEF t
<1>2. CheckpointSequence(t) = seg.max
  BY <1>1 DEF CheckpointSequence, Last
<1>3. ASSUME NEW i \in Id, NEW field \in {"dense", "sparse"}
      PROVE  /\ \A n \in 0..Len(segs) : Through(t, n, field, i) = Through(segs, n, field, i)
             /\ Newest(t, field, i) = IF seg[field][i].seq > 0 THEN seg[field][i]
                                      ELSE Newest(segs, field, i)
  <2>1. ASSUME NEW n \in 0..Len(segs)
        PROVE  Through(t, n, field, i) = Through(segs, n, field, i)
    <3>1. n <= Len(t) /\ \A m \in 1..n : t[m] = segs[m]
      BY <1>1
    <3> QED BY <1>1, <3>1, ThroughSame
  <2>2. Through(t, Len(segs) + 1, field, i) =
          IF t[Len(segs) + 1][field][i].seq > 0 THEN t[Len(segs) + 1][field][i]
          ELSE Through(t, Len(segs) + 1 - 1, field, i)
    <3>1. Len(segs) + 1 \in 1..Len(t)
      BY <1>1
    <3> QED BY <1>1, <3>1, ThroughNext
  <2>3. Len(segs) + 1 - 1 = Len(segs) /\ Len(segs) \in 0..Len(segs)
    BY <1>1
  <2> QED BY <1>1, <2>1, <2>2, <2>3, NewestThrough
<1> QED BY <1>1, <1>2, <1>3 DEF t

-----------------------------------------------------------------------------
(***************************************************************************)
(* Replay.                                                                 *)
(***************************************************************************)
LEMMA NewestOfFacts ==
  ASSUME NEW rs, rs # {}, \A r \in rs : r.seq \in 1..MaxSequence, NEW o
  PROVE  \E r \in rs : NewestOf(rs, o) = State(r) /\ \A s \in rs : s.seq <= r.seq
<1> DEFINE T == {r.seq : r \in rs}
<1>1. T \subseteq Nat /\ T # {} /\ \A y \in T : y <= MaxSequence
  BY StoreAssumption
<1>2. Max(T) \in T /\ \A y \in T : Max(T) >= y
  BY <1>1, StoreAssumption, MaxFacts
<1>3. PICK r \in rs : r.seq = Max(T)
  BY <1>2
<1>4. \A s \in rs : s.seq <= r.seq
  <2> SUFFICES ASSUME NEW s \in rs PROVE s.seq <= r.seq
    OBVIOUS
  <2>1. s.seq \in T
    OBVIOUS
  <2>2. Max(T) >= s.seq
    BY <1>2, <2>1
  <2> HIDE DEF T
  <2>3. s.seq \in Nat /\ r.seq \in Nat /\ r.seq >= s.seq
    BY <1>3, <2>2
  <2> QED BY <2>3
<1> DEFINE best == CHOOSE x \in rs : \A s \in rs : s.seq <= x.seq
<1>5. best \in rs /\ \A s \in rs : s.seq <= best.seq
  BY <1>4
<1>6. NewestOf(rs, o) = State(best)
  BY DEF NewestOf
<1> QED BY <1>5, <1>6

\* The newest is the one above all others.
LEMMA NewestOfIs ==
  ASSUME NEW rs, \A r \in rs : r.seq \in 1..MaxSequence, NEW o, NEW x \in rs,
         \A s \in rs : s.seq < x.seq \/ State(s) = State(x)
  PROVE  NewestOf(rs, o) = State(x)
<1>1. PICK r \in rs : NewestOf(rs, o) = State(r) /\ \A s \in rs : s.seq <= r.seq
  BY NewestOfFacts
<1>2. x.seq <= r.seq /\ x.seq \in 1..MaxSequence /\ r.seq \in 1..MaxSequence
  BY <1>1
<1>3. ~(r.seq < x.seq)
  BY <1>2
<1> QED BY <1>1, <1>3

LEMMA DenseAboveTypes ==
  ASSUME NEW ds \in SUBSET DenseRecord, NEW from, NEW i
  PROVE  \A r \in Above(ds, from, i) : /\ r \in DenseRecord /\ r.seq \in 1..MaxSequence
                                       /\ r.seq > from /\ r.id = i
                                       /\ State(r) \in Entry
                                       /\ State(r).seq = r.seq /\ State(r).val = r.val
<1>1. ASSUME NEW r \in DenseRecord
      PROVE  r.seq \in 1..MaxSequence /\ State(r) \in Entry /\ State(r).seq = r.seq /\ State(r).val = r.val
  BY StoreAssumption DEF DenseRecord, State, Entry
<1> QED BY <1>1 DEF Above

LEMMA SparseAboveTypes ==
  ASSUME NEW ss \in SUBSET SparseRecord, NEW from, NEW i
  PROVE  \A r \in Above(ss, from, i) : /\ r \in SparseRecord /\ r.seq \in 1..MaxSequence
                                       /\ r.seq > from /\ r.id = i
                                       /\ State(r) \in SparseEntry
                                       /\ State(r).val # None
                                       /\ State(r).seq = r.seq /\ State(r).val = r.val
<1>1. ASSUME NEW r \in SparseRecord
      PROVE  /\ r.seq \in 1..MaxSequence /\ State(r) \in SparseEntry /\ State(r).val # None
             /\ State(r).seq = r.seq /\ State(r).val = r.val
  BY StoreAssumption DEF SparseRecord, State, SparseEntry
<1> QED BY <1>1 DEF Above

\* The records of both logs and the segments.
Files(ds, ss, segs) ==
  ds \in SUBSET DenseRecord /\ ss \in SUBSET SparseRecord /\ segs \in Seq(Segment)

\* The dense field a recovery gives a point.
LEMMA DenseFacts ==
  ASSUME NEW ds, NEW ss, NEW segs, Files(ds, ss, segs), NEW i \in Id
  PROVE  LET from == CheckpointSequence(segs)
             a == Above(ds, from, i)
             d == RecoveredDense(ds, segs, i)
         IN  /\ d \in Entry
             /\ d.val # None => d.seq > 0
             /\ a = {} => d = Newest(segs, "dense", i)
             /\ a # {} => d.seq > from /\ \E r \in a : d = State(r) /\ \A s \in a : s.seq <= r.seq
<1> ds \in SUBSET DenseRecord /\ ss \in SUBSET SparseRecord /\ segs \in Seq(Segment)
  BY DEF Files
<1> DEFINE from == CheckpointSequence(segs)
           a == Above(ds, from, i)
           d == RecoveredDense(ds, segs, i)
<1>1. \A r \in a : /\ r \in DenseRecord /\ r.seq \in 1..MaxSequence /\ r.seq > from
                   /\ State(r) \in Entry /\ State(r).seq = r.seq /\ State(r).val = r.val
  BY DenseAboveTypes
<1>2. d = NewestOf(a, Newest(segs, "dense", i))
  BY DEF RecoveredDense
<1>3. Newest(segs, "dense", i) \in Entry /\ (Newest(segs, "dense", i).val # None => Newest(segs, "dense", i).seq > 0)
  <2>1. Len(segs) \in 0..Len(segs)
    OBVIOUS
  <2> QED BY <2>1, ThroughType, NewestThrough
<1> HIDE DEF a, d, from
<1>4. CASE a = {}
  <2>1. d = Newest(segs, "dense", i)
    BY <1>2, <1>4 DEF NewestOf
  <2> QED BY <1>3, <1>4, <2>1 DEF a, d, from
<1>5. CASE a # {}
  <2>1. PICK r \in a : d = State(r) /\ \A s \in a : s.seq <= r.seq
    BY <1>1, <1>2, <1>5, NewestOfFacts
  <2>2. d \in Entry /\ d.seq > 0 /\ d.seq > from
    BY <1>1, <2>1
  <2> QED BY <1>5, <2>1, <2>2 DEF a, d, from
<1> QED BY <1>4, <1>5

LEMMA WrittenFacts ==
  ASSUME NEW ds, NEW ss, NEW segs, Files(ds, ss, segs), NEW i \in Id
  PROVE  LET w == LastWritten(ss, segs, i)
             from == CheckpointSequence(segs)
         IN  /\ w \in SparseEntry /\ w.seq >= from
             /\ Logged(ss, segs, i) = {} =>
                  w = [seq |-> from, val |-> Newest(segs, "sparse", i).val]
             /\ Logged(ss, segs, i) # {} =>
                  /\ w.seq > from /\ w.val # None
                  /\ \E r \in ss : r.id = i /\ w = State(r)
                  /\ \A r \in Logged(ss, segs, i) : r.seq <= w.seq
<1> ds \in SUBSET DenseRecord /\ ss \in SUBSET SparseRecord /\ segs \in Seq(Segment)
  BY DEF Files
<1> DEFINE from == CheckpointSequence(segs)
           l == Logged(ss, segs, i)
           w == LastWritten(ss, segs, i)
           o == [seq |-> from, val |-> Newest(segs, "sparse", i).val]
<1>1. \A r \in l : /\ r \in ss /\ r.seq \in 1..MaxSequence /\ r.seq > from /\ r.id = i
                   /\ State(r) \in SparseEntry /\ State(r).seq = r.seq /\ State(r).val # None
  <2>1. l = Above(ss, from, i)
    BY DEF Logged
  <2>2. l \subseteq ss
    BY DEF Logged, Above
  <2> HIDE DEF l, from
  <2> QED BY <2>1, <2>2, SparseAboveTypes
<1>2. w = NewestOf(l, o)
  BY DEF LastWritten
<1>3. o \in SparseEntry /\ o.seq = from /\ from \in Nat
  <2>1. Len(segs) \in 0..Len(segs)
    OBVIOUS
  <2>2. Newest(segs, "sparse", i) \in SparseEntry
    BY <2>1, ThroughType, NewestThrough
  <2> QED BY <2>2, CheckpointType DEF SparseEntry
<1> HIDE DEF l, w, o, from
<1>4. CASE l = {}
  <2>1. w = o
    BY <1>2, <1>4 DEF NewestOf
  <2> QED BY <1>3, <1>4, <2>1 DEF l, w, o, from
<1>5. CASE l # {}
  <2>1. PICK r \in l : w = State(r) /\ \A s \in l : s.seq <= r.seq
    BY <1>1, <1>2, <1>5, NewestOfFacts
  <2>2. w \in SparseEntry /\ w.seq > from /\ w.seq >= from /\ w.val # None /\ r \in ss /\ r.id = i
        /\ \A s \in l : s.seq <= w.seq
    BY <1>1, <1>3, <2>1
  <2> QED BY <1>5, <2>1, <2>2 DEF l, w, from
<1> QED BY <1>4, <1>5

LEMMA DeletesTypes ==
  ASSUME NEW ds, NEW ss, NEW segs, Files(ds, ss, segs),
         NEW i \in Id
  PROVE  LET dels == DeletesAfter(ds, ss, segs, i)
         IN  /\ dels \subseteq 1..MaxSequence
             /\ \A n \in dels : n > CheckpointSequence(segs)
             /\ \A n : n \in dels <=> \E r \in Above(ds, CheckpointSequence(segs), i) :
                                        r.val = None /\ r.seq >= LastWritten(ss, segs, i).seq /\ n = r.seq
<1> ds \in SUBSET DenseRecord /\ ss \in SUBSET SparseRecord /\ segs \in Seq(Segment)
  BY DEF Files
<1> DEFINE from == CheckpointSequence(segs)
           a == Above(ds, from, i)
           dels == DeletesAfter(ds, ss, segs, i)
<1>1. \A r \in a : r.seq \in 1..MaxSequence /\ r.seq > from
  BY DenseAboveTypes
<1>2. dels = {r.seq : r \in {d \in a : d.val = None /\ d.seq >= LastWritten(ss, segs, i).seq}}
  BY DEF DeletesAfter
<1> HIDE DEF a, dels, from
<1> QED BY <1>1, <1>2 DEF a, dels, from

LEMMA SparseFacts ==
  ASSUME NEW ds, NEW ss, NEW segs, Files(ds, ss, segs),
         NEW i \in Id
  PROVE  LET s == RecoveredSparse(ds, ss, segs, i)
             w == LastWritten(ss, segs, i)
             dels == DeletesAfter(ds, ss, segs, i)
         IN  /\ s.val \in Sparse \cup {None} /\ s.pending \in SparseEntry
             /\ s.pending.seq > 0 => s.pending.seq > CheckpointSequence(segs)
             /\ s.pending.seq > 0 => s.val = s.pending.val
             /\ ~(s.pending.seq > 0) => s.val = Newest(segs, "sparse", i).val
             /\ w.val # None /\ dels # {} => s.val = None /\ s.pending = [seq |-> Min(dels), val |-> None]
             /\ w.val = None \/ dels = {} => s.val = w.val
             /\ (w.val = None \/ dels = {}) /\ Logged(ss, segs, i) = {} => s.pending = NoEntry
             /\ (w.val = None \/ dels = {}) /\ Logged(ss, segs, i) # {} => s.pending = w
<1> ds \in SUBSET DenseRecord /\ ss \in SUBSET SparseRecord /\ segs \in Seq(Segment)
  BY DEF Files
<1> DEFINE from == CheckpointSequence(segs)
           s == RecoveredSparse(ds, ss, segs, i)
           w == LastWritten(ss, segs, i)
           dels == DeletesAfter(ds, ss, segs, i)
           l == Logged(ss, segs, i)
<1>1. /\ w \in SparseEntry /\ w.seq >= from
      /\ l = {} => w = [seq |-> from, val |-> Newest(segs, "sparse", i).val]
      /\ l # {} => w.seq > from /\ w.val # None
  BY WrittenFacts
<1>2. dels \subseteq 1..MaxSequence /\ \A n \in dels : n > from
  BY DeletesTypes
<1>3. s = IF w.val # None /\ dels # {}
            THEN [val |-> None, pending |-> [seq |-> Min(dels), val |-> None]]
            ELSE [val |-> w.val, pending |-> IF l = {} THEN NoEntry ELSE w]
  BY DEF RecoveredSparse
<1>4. from \in Nat
  BY CheckpointType
<1> HIDE DEF s, w, dels, l, from
<1>5. CASE w.val # None /\ dels # {}
  <2>1. Min(dels) \in dels
    <3>1. dels \subseteq Nat
      BY <1>2
    <3> QED BY <1>5, <3>1, MinFacts
  <2>2. s.val = None /\ s.pending = [seq |-> Min(dels), val |-> None]
    BY <1>3, <1>5
  <2>3. Min(dels) \in 1..MaxSequence /\ Min(dels) > from
    BY <1>2, <2>1
  <2>4. s.pending \in SparseEntry /\ s.pending.seq > 0 /\ s.pending.seq > from /\ s.pending.val = None
    BY <2>2, <2>3 DEF SparseEntry
  <2> QED BY <1>5, <2>2, <2>4 DEF s, w, dels, l, from
<1>6. CASE ~(w.val # None /\ dels # {})
  <2>1. s.val = w.val /\ s.pending = IF l = {} THEN NoEntry ELSE w
    BY <1>3, <1>6
  <2>2. w.val \in Sparse \cup {None}
    BY <1>1 DEF SparseEntry
  <2>3. CASE l = {}
    <3>1. s.pending = NoEntry /\ s.val = Newest(segs, "sparse", i).val
      BY <1>1, <2>1, <2>3
    <3> QED BY <1>6, <2>1, <2>2, <2>3, <3>1, EntryTypes DEF s, w, dels, l, from
  <2>4. CASE l # {}
    <3>1. s.pending = w /\ w.seq > from /\ w.seq \in Nat
      BY <1>1, <2>1, <2>4 DEF SparseEntry
    <3>2. w.seq > 0
      BY <1>4, <3>1
    <3> QED BY <1>1, <1>6, <2>1, <2>2, <2>4, <3>1, <3>2 DEF s, w, dels, l, from
  <2> QED BY <2>3, <2>4
<1> QED BY <1>5, <1>6

\* The last sequence number.
LEMMA LastFacts ==
  ASSUME NEW ds, NEW ss, NEW segs, Files(ds, ss, segs)
  PROVE  LET last == Replayed(ds, ss, segs).last
         IN  /\ last \in 0..MaxSequence /\ last >= CheckpointSequence(segs)
             /\ \A r \in ds \cup ss : r.seq <= last
             /\ last = CheckpointSequence(segs) \/ \E r \in ds \cup ss : r.seq = last
<1> ds \in SUBSET DenseRecord /\ ss \in SUBSET SparseRecord /\ segs \in Seq(Segment)
  BY DEF Files
<1> DEFINE from == CheckpointSequence(segs)
           T == {from} \cup {r.seq : r \in ds} \cup {r.seq : r \in ss}
<1>1. from \in 0..MaxSequence /\ \A r \in ds \cup ss : r.seq \in 1..MaxSequence
  BY CheckpointType DEF DenseRecord, SparseRecord
<1>2. T \subseteq 0..MaxSequence /\ T # {}
  BY <1>1, StoreAssumption
<1>3. T \subseteq Nat /\ \A y \in T : y <= MaxSequence
  BY <1>2, StoreAssumption
<1>4. Max(T) \in T /\ \A y \in T : Max(T) >= y
  BY <1>2, <1>3, StoreAssumption, MaxFacts
<1>5. Replayed(ds, ss, segs).last = Max(T)
  BY DEF Replayed
<1>6. from \in T /\ \A r \in ds \cup ss : r.seq \in T
  OBVIOUS
<1>7. \A x \in T : x = from \/ \E r \in ds \cup ss : r.seq = x
  OBVIOUS
<1> HIDE DEF T, from
<1>8. Max(T) \in 0..MaxSequence /\ Max(T) >= from /\ \A r \in ds \cup ss : r.seq <= Max(T)
  BY <1>1, <1>2, <1>4, <1>6, StoreAssumption
<1> QED BY <1>4, <1>5, <1>7, <1>8 DEF from

LEMMA LastIs ==
  ASSUME NEW ds, NEW ss, NEW segs, Files(ds, ss, segs),
         NEW n \in 0..MaxSequence, n >= CheckpointSequence(segs), \A r \in ds \cup ss : r.seq <= n,
         n = CheckpointSequence(segs) \/ \E r \in ds \cup ss : r.seq = n
  PROVE  Replayed(ds, ss, segs).last = n
<1> ds \in SUBSET DenseRecord /\ ss \in SUBSET SparseRecord /\ segs \in Seq(Segment)
  BY DEF Files
<1> DEFINE last == Replayed(ds, ss, segs).last
<1>1. /\ last \in 0..MaxSequence /\ last >= CheckpointSequence(segs)
      /\ \A r \in ds \cup ss : r.seq <= last
      /\ last = CheckpointSequence(segs) \/ \E r \in ds \cup ss : r.seq = last
  BY LastFacts
<1>2. CheckpointSequence(segs) \in Nat
  BY CheckpointType
<1> HIDE DEF last
<1>3. last <= n /\ n <= last
  BY <1>1, <1>2
<1>4. last = n
  BY <1>1, <1>3
<1> QED BY <1>4 DEF last

LEMMA ReplayedFields ==
  ASSUME NEW ds, NEW ss, NEW segs
  PROVE  LET m == Replayed(ds, ss, segs)
         IN  /\ m.dense = [i \in Id |-> RecoveredDense(ds, segs, i)]
             /\ m.sparse = [i \in Id |-> IF RecoveredDense(ds, segs, i).val # None
                                           THEN RecoveredSparse(ds, ss, segs, i).val ELSE None]
             /\ m.pending = [i \in Id |-> RecoveredSparse(ds, ss, segs, i).pending]
             /\ m = [dense |-> m.dense, sparse |-> m.sparse, pending |-> m.pending, last |-> m.last]
BY DEF Replayed, Live

LEMMA ReplayedType ==
  ASSUME NEW ds, NEW ss, NEW segs, Files(ds, ss, segs)
  PROVE  Replayed(ds, ss, segs) \in Memory
<1> ds \in SUBSET DenseRecord /\ ss \in SUBSET SparseRecord /\ segs \in Seq(Segment)
  BY DEF Files
<1> DEFINE m == Replayed(ds, ss, segs)
<1>1. \A i \in Id : RecoveredDense(ds, segs, i) \in Entry
  BY DenseFacts
<1>2. \A i \in Id : /\ RecoveredSparse(ds, ss, segs, i).val \in Sparse \cup {None}
                    /\ RecoveredSparse(ds, ss, segs, i).pending \in SparseEntry
  BY SparseFacts
<1>3. m.last \in 0..MaxSequence
  BY LastFacts
<1>4. /\ m.dense \in [Id -> Entry] /\ m.sparse \in [Id -> Sparse \cup {None}]
      /\ m.pending \in [Id -> SparseEntry]
      /\ m = [dense |-> m.dense, sparse |-> m.sparse, pending |-> m.pending, last |-> m.last]
  <2>0. /\ m.dense = [i \in Id |-> RecoveredDense(ds, segs, i)]
        /\ m.sparse = [i \in Id |-> IF RecoveredDense(ds, segs, i).val # None
                                       THEN RecoveredSparse(ds, ss, segs, i).val ELSE None]
        /\ m.pending = [i \in Id |-> RecoveredSparse(ds, ss, segs, i).pending]
        /\ m = [dense |-> m.dense, sparse |-> m.sparse, pending |-> m.pending, last |-> m.last]
    BY DEF Replayed, Live
  <2> HIDE DEF m
  <2>1. m.dense \in [Id -> Entry]
    BY <1>1, <2>0
  <2>2. m.sparse \in [Id -> Sparse \cup {None}]
    BY <1>2, <2>0
  <2>3. m.pending \in [Id -> SparseEntry]
    BY <1>2, <2>0
  <2> QED BY <2>0, <2>1, <2>2, <2>3
<1> HIDE DEF m
<1>5. m \in Memory
  BY <1>3, <1>4 DEF Memory
<1> QED BY <1>5 DEF m

\* Two memories are the same when their fields are.
LEMMA SameMemory ==
  ASSUME NEW m \in Memory, NEW d \in Memory, m.last = d.last,
         \A i \in Id : m.dense[i] = d.dense[i] /\ m.sparse[i] = d.sparse[i] /\ m.pending[i] = d.pending[i]
  PROVE  m = d
<1>1. m.dense = d.dense
  BY DEF Memory
<1>2. m.sparse = d.sparse
  BY DEF Memory
<1>3. m.pending = d.pending
  BY DEF Memory
<1> QED BY <1>1, <1>2, <1>3 DEF Memory

-----------------------------------------------------------------------------
(***************************************************************************)
(* A call: replaying its records is applying it.                           *)
(***************************************************************************)
EnvelopeOf(last, muts) ==
  [n \in 1..Len(muts) |-> [seq |-> last + n, id |-> muts[n].id, val |-> muts[n].val]]

Touched(muts, i) == {n \in 1..Len(muts) : muts[n].id = i}
Deletes(muts, i) == {n \in Touched(muts, i) : muts[n].val = None}

LEMMA DenseCallTypes ==
  ASSUME NEW muts \in DenseCalls
  PROVE  /\ Len(muts) \in Nat /\ Len(muts) # 0
         /\ \A n \in 1..Len(muts) : muts[n].id \in Id /\ muts[n].val \in Value \cup {None}
<1> DEFINE M == [id : Id, val : Value \cup {None}]
<1>1. muts \in Seq(M) /\ muts # <<>>
  BY StoreAssumption
<1>2. \A x \in M : x.id \in Id /\ x.val \in Value \cup {None}
  OBVIOUS
<1> HIDE DEF M
<1>3. Len(muts) \in Nat /\ Len(muts) # 0 /\ \A n \in 1..Len(muts) : muts[n] \in M
  BY <1>1, EmptySeq
<1> QED BY <1>2, <1>3

LEMMA EnvelopeFacts ==
  ASSUME NEW last \in 0..MaxSequence, NEW muts \in DenseCalls, last + Len(muts) <= MaxSequence
  PROVE  LET e == EnvelopeOf(last, muts)
         IN  /\ e \in Seq(DenseRecord) /\ e # <<>> /\ Len(e) = Len(muts) /\ Len(muts) \in Nat \ {0}
             /\ \A n \in 1..Len(muts) : /\ e[n].seq = last + n /\ e[n].id = muts[n].id
                                        /\ e[n].val = muts[n].val
                                        /\ muts[n].id \in Id /\ muts[n].val \in Value \cup {None}
<1> DEFINE e == EnvelopeOf(last, muts)
<1>1. Len(muts) \in Nat \ {0}
  BY DenseCallTypes
<1>2. \A n \in 1..Len(muts) : muts[n].id \in Id /\ muts[n].val \in Value \cup {None}
  BY DenseCallTypes
<1>3. \A n \in 1..Len(muts) : last + n \in 1..MaxSequence
  BY <1>1, StoreAssumption
<1>4. \A n \in 1..Len(muts) : [seq |-> last + n, id |-> muts[n].id, val |-> muts[n].val] \in DenseRecord
  BY <1>2, <1>3 DEF DenseRecord
<1>5. e \in Seq(DenseRecord) /\ Len(e) = Len(muts)
  BY <1>1, <1>4 DEF EnvelopeOf
<1>6. \A n \in 1..Len(muts) : e[n].seq = last + n /\ e[n].id = muts[n].id /\ e[n].val = muts[n].val
  BY DEF EnvelopeOf
<1> QED BY <1>1, <1>2, <1>5, <1>6

LEMMA TouchedFacts ==
  ASSUME NEW muts \in DenseCalls, NEW i
  PROVE  /\ Touched(muts, i) \subseteq 1..Len(muts) /\ Deletes(muts, i) \subseteq Touched(muts, i)
         /\ Len(muts) \in Nat
         /\ Touched(muts, i) # {} => /\ Max(Touched(muts, i)) \in Touched(muts, i)
                                     /\ \A n \in Touched(muts, i) : n <= Max(Touched(muts, i))
         /\ Deletes(muts, i) # {} => /\ Min(Deletes(muts, i)) \in Deletes(muts, i)
                                     /\ \A n \in Deletes(muts, i) : Min(Deletes(muts, i)) <= n
<1> DEFINE t == Touched(muts, i)
           d == Deletes(muts, i)
<1>1. t \subseteq 1..Len(muts) /\ d \subseteq t /\ Len(muts) \in Nat
  BY StoreAssumption DEF Touched, Deletes
<1> HIDE DEF t, d
<1>2. t \subseteq Nat /\ d \subseteq Nat /\ \A n \in t : n <= Len(muts)
  BY <1>1
<1>3. t # {} => Max(t) \in t /\ \A n \in t : Max(t) >= n
  BY <1>1, <1>2, MaxFacts
<1>4. t # {} => \A n \in t : n <= Max(t)
  BY <1>2, <1>3
<1>5. d # {} => Min(d) \in d /\ \A n \in d : Min(d) <= n
  BY <1>2, MinFacts
<1> QED BY <1>1, <1>3, <1>4, <1>5 DEF t, d

LEMMA AppliedDenseFields ==
  ASSUME NEW m \in Memory, NEW muts \in DenseCalls, m.last + Len(muts) <= MaxSequence
  PROVE  LET a == AppliedDense(m, muts)
             drops(i) == Deletes(muts, i) # {} /\ m.sparse[i] # None
         IN  /\ a \in Memory /\ a.last = m.last + Len(muts)
             /\ \A i \in Id :
                  /\ a.dense[i] = IF Touched(muts, i) = {} THEN m.dense[i]
                                  ELSE [seq |-> m.last + Max(Touched(muts, i)),
                                        val |-> muts[Max(Touched(muts, i))].val]
                  /\ a.sparse[i] = IF drops(i) THEN None ELSE m.sparse[i]
                  /\ a.pending[i] = IF drops(i) THEN [seq |-> m.last + Min(Deletes(muts, i)), val |-> None]
                                    ELSE m.pending[i]
<1> DEFINE a == AppliedDense(m, muts)
           drops(i) == Deletes(muts, i) # {} /\ m.sparse[i] # None
           D == [i \in Id |-> IF Touched(muts, i) = {} THEN m.dense[i]
                              ELSE [seq |-> m.last + Max(Touched(muts, i)),
                                    val |-> muts[Max(Touched(muts, i))].val]]
           S == [i \in Id |-> IF drops(i) THEN None ELSE m.sparse[i]]
           P == [i \in Id |-> IF drops(i) THEN [seq |-> m.last + Min(Deletes(muts, i)), val |-> None]
                              ELSE m.pending[i]]
<1>1. a = [dense |-> D, sparse |-> S, pending |-> P, last |-> m.last + Len(muts)]
  BY DEF AppliedDense, Touched, Deletes
<1>2. /\ m.last \in 0..MaxSequence /\ m.dense \in [Id -> Entry] /\ m.sparse \in [Id -> Sparse \cup {None}]
      /\ m.pending \in [Id -> SparseEntry] /\ Len(muts) \in Nat
  BY StoreAssumption DEF Memory
<1>3. \A n \in 1..Len(muts) : m.last + n \in 0..MaxSequence /\ muts[n].val \in Value \cup {None}
  <2>2. \A n \in 1..Len(muts) : muts[n].val \in Value \cup {None}
    BY DenseCallTypes
  <2>3. \A n \in 1..Len(muts) : m.last + n \in 0..MaxSequence
    BY <1>2, StoreAssumption
  <2> QED BY <2>2, <2>3
<1>4. D \in [Id -> Entry]
  <2> SUFFICES ASSUME NEW i \in Id PROVE D[i] \in Entry
    BY <1>2
  <2>1. Touched(muts, i) # {} => Max(Touched(muts, i)) \in 1..Len(muts)
    BY TouchedFacts
  <2> QED BY <1>2, <1>3, <2>1 DEF Entry
<1>5. S \in [Id -> Sparse \cup {None}]
  BY <1>2
<1>6. P \in [Id -> SparseEntry]
  <2> SUFFICES ASSUME NEW i \in Id PROVE P[i] \in SparseEntry
    BY <1>2
  <2>1. Deletes(muts, i) # {} => Min(Deletes(muts, i)) \in 1..Len(muts)
    BY TouchedFacts
  <2> QED BY <1>2, <1>3, <2>1 DEF SparseEntry
<1>7. m.last + Len(muts) \in 0..MaxSequence
  BY <1>2, StoreAssumption
<1>8. \A i \in Id :
        /\ D[i] = IF Touched(muts, i) = {} THEN m.dense[i]
                  ELSE [seq |-> m.last + Max(Touched(muts, i)), val |-> muts[Max(Touched(muts, i))].val]
        /\ S[i] = IF drops(i) THEN None ELSE m.sparse[i]
        /\ P[i] = IF drops(i) THEN [seq |-> m.last + Min(Deletes(muts, i)), val |-> None] ELSE m.pending[i]
  OBVIOUS
<1> HIDE DEF D, S, P, a
<1>9. a \in Memory /\ a.last = m.last + Len(muts) /\ a.dense = D /\ a.sparse = S /\ a.pending = P
  BY <1>1, <1>4, <1>5, <1>6, <1>7 DEF Memory
<1> QED BY <1>8, <1>9 DEF a

LEMMA AppliedSparseFields ==
  ASSUME NEW m \in Memory, NEW i \in Id, NEW s \in Sparse, m.last + 1 <= MaxSequence
  PROVE  LET a == AppliedSparse(m, i, s)
         IN  /\ a \in Memory /\ a.last = m.last + 1 /\ a.dense = m.dense
             /\ \A j \in Id : /\ a.sparse[j] = IF j = i THEN s ELSE m.sparse[j]
                              /\ a.pending[j] = IF j = i THEN [seq |-> m.last + 1, val |-> s]
                                                ELSE m.pending[j]
<1> DEFINE e == [seq |-> m.last + 1, val |-> s]
<1>1. /\ m.last \in 0..MaxSequence /\ m.dense \in [Id -> Entry] /\ m.sparse \in [Id -> Sparse \cup {None}]
      /\ m.pending \in [Id -> SparseEntry]
      /\ m = [dense |-> m.dense, sparse |-> m.sparse, pending |-> m.pending, last |-> m.last]
  BY DEF Memory
<1>2. e \in SparseEntry
  BY <1>1, StoreAssumption DEF SparseEntry
<1> HIDE DEF e
<1>3. AppliedSparse(m, i, s) = [dense |-> m.dense, sparse |-> [m.sparse EXCEPT ![i] = s],
                                pending |-> [m.pending EXCEPT ![i] = e], last |-> m.last + 1]
  <2> DEFINE m1 == [dense |-> m.dense, sparse |-> [m.sparse EXCEPT ![i] = s],
                    pending |-> m.pending, last |-> m.last]
             m2 == [dense |-> m.dense, sparse |-> [m.sparse EXCEPT ![i] = s],
                    pending |-> [m.pending EXCEPT ![i] = e], last |-> m.last]
             m3 == [dense |-> m.dense, sparse |-> [m.sparse EXCEPT ![i] = s],
                    pending |-> [m.pending EXCEPT ![i] = e], last |-> m.last + 1]
  <2>1. [m EXCEPT !.sparse[i] = s] = m1
    BY <1>1
  <2>2. [m1 EXCEPT !.pending[i] = e] = m2
    OBVIOUS
  <2>3. [m2 EXCEPT !.last = m.last + 1] = m3
    OBVIOUS
  <2> HIDE DEF m1, m2, m3
  <2>4. [m EXCEPT !.sparse[i] = s, !.pending[i] = e, !.last = m.last + 1] = m3
    BY <2>1, <2>2, <2>3
  <2> QED BY <2>4 DEF AppliedSparse, m3, e
<1>4. m.last + 1 \in 0..MaxSequence
  BY <1>1, StoreAssumption
<1>5. /\ [m.sparse EXCEPT ![i] = s] \in [Id -> Sparse \cup {None}]
      /\ [m.pending EXCEPT ![i] = e] \in [Id -> SparseEntry]
  BY <1>1, <1>2
<1>6. AppliedSparse(m, i, s) \in Memory
  BY <1>1, <1>3, <1>4, <1>5 DEF Memory
<1> QED BY <1>1, <1>3, <1>6 DEF e

\* The state is at `last' and the next call fits behind it.
Bounded(ds, ss, segs, last) ==
  last \in 0..MaxSequence /\ CheckpointSequence(segs) <= last /\ \A r \in ds \cup ss : r.seq <= last
Fits(last, muts) == muts \in DenseCalls /\ last + Len(muts) <= MaxSequence

WithCall(ds, last, muts) == ds \cup Range(EnvelopeOf(last, muts))

\* The records of a dense call that a replay sees of an ID.
LEMMA AboveDense ==
  ASSUME NEW ds, NEW ss, NEW segs, NEW last, NEW muts, NEW i \in Id,
         Files(ds, ss, segs), Bounded(ds, ss, segs, last), Fits(last, muts)
  PROVE  LET e == EnvelopeOf(last, muts)
             ds2 == WithCall(ds, last, muts)
             from == CheckpointSequence(segs)
         IN
         /\ Files(ds2, ss, segs)
         /\ \A r : r \in ds2 <=> (r \in ds \/ \E n \in 1..Len(muts) : r = e[n])
         /\ \A r : r \in Above(ds2, from, i) <=>
                     (r \in Above(ds, from, i) \/ \E n \in Touched(muts, i) : r = e[n])
<1> /\ ds \in SUBSET DenseRecord /\ ss \in SUBSET SparseRecord /\ segs \in Seq(Segment)
    /\ last \in 0..MaxSequence /\ CheckpointSequence(segs) <= last /\ \A r \in ds \cup ss : r.seq <= last
    /\ muts \in DenseCalls /\ last + Len(muts) <= MaxSequence
  BY DEF Files, Bounded, Fits
<1> DEFINE e == EnvelopeOf(last, muts)
           ds2 == WithCall(ds, last, muts)
           from == CheckpointSequence(segs)
<1>0. from \in 0..MaxSequence
  BY CheckpointType
<1>1. /\ e \in Seq(DenseRecord) /\ Len(e) = Len(muts) /\ Len(muts) \in Nat
      /\ \A n \in 1..Len(muts) : e[n].seq = last + n /\ e[n].id = muts[n].id /\ e[n].val = muts[n].val
  BY EnvelopeFacts
<1>a. ds2 = ds \cup Range(e)
  BY DEF WithCall
<1> HIDE DEF e, ds2, from
<1>2. \A r : r \in Range(e) <=> \E n \in 1..Len(muts) : r = e[n]
  BY <1>1 DEF Range
<1>3. \A n \in 1..Len(muts) : e[n] \in DenseRecord
  BY <1>1
<1>4. \A r : r \in ds2 <=> (r \in ds \/ \E n \in 1..Len(muts) : r = e[n])
  BY <1>2, <1>a
<1>5. ds2 \in SUBSET DenseRecord
  BY <1>3, <1>4
<1>6. \A n \in 1..Len(muts) : e[n].seq > from
  BY <1>0, <1>1 DEF from
<1>7. ASSUME NEW r
      PROVE  r \in Above(ds2, from, i) <=>
               (r \in Above(ds, from, i) \/ \E n \in Touched(muts, i) : r = e[n])
  <2>1. \A n : n \in Touched(muts, i) <=> (n \in 1..Len(muts) /\ e[n].id = i)
    BY <1>1 DEF Touched
  <2>2. r \in Above(ds2, from, i) <=> (r \in ds2 /\ r.seq > from /\ r.id = i)
    BY DEF Above
  <2>3. r \in Above(ds, from, i) <=> (r \in ds /\ r.seq > from /\ r.id = i)
    BY DEF Above
  <2> QED BY <1>4, <1>6, <2>1, <2>2, <2>3
<1>8. Files(ds2, ss, segs)
  BY <1>5 DEF Files
<1> QED BY <1>4, <1>7, <1>8 DEF e, ds2, from

LEMMA DenseStep ==
  ASSUME NEW ds, NEW ss, NEW segs, NEW last, NEW muts, NEW i \in Id,
         Files(ds, ss, segs), Bounded(ds, ss, segs, last), Fits(last, muts)
  PROVE  RecoveredDense(WithCall(ds, last, muts), segs, i) =
           IF Touched(muts, i) = {} THEN RecoveredDense(ds, segs, i)
           ELSE [seq |-> last + Max(Touched(muts, i)), val |-> muts[Max(Touched(muts, i))].val]
<1> /\ ds \in SUBSET DenseRecord /\ ss \in SUBSET SparseRecord /\ segs \in Seq(Segment)
    /\ last \in 0..MaxSequence /\ CheckpointSequence(segs) <= last /\ \A r \in ds \cup ss : r.seq <= last
    /\ muts \in DenseCalls /\ last + Len(muts) <= MaxSequence
  BY DEF Files, Bounded, Fits
<1> DEFINE from == CheckpointSequence(segs)
           e == EnvelopeOf(last, muts)
           ds2 == WithCall(ds, last, muts)
           a == Above(ds, from, i)
           a2 == Above(ds2, from, i)
           t == Touched(muts, i)
           o == Newest(segs, "dense", i)
<1>1. from \in 0..MaxSequence
  BY CheckpointType
<1>2. /\ Files(ds2, ss, segs)
      /\ \A r : r \in a2 <=> (r \in a \/ \E n \in t : r = e[n])
  BY AboveDense
<1>3. \A n \in 1..Len(muts) : e[n].seq = last + n /\ e[n].id = muts[n].id /\ e[n].val = muts[n].val
  BY EnvelopeFacts
<1>4. /\ t \subseteq 1..Len(muts) /\ Len(muts) \in Nat
      /\ t # {} => Max(t) \in t /\ \A n \in t : n <= Max(t)
  BY TouchedFacts
<1>5. \A r \in a : r \in ds
  BY DEF Above
<1>6. \A r \in a2 : r.seq \in 1..MaxSequence
  BY <1>2, DenseAboveTypes DEF Files
<1>7. /\ RecoveredDense(ds2, segs, i) = NewestOf(a2, o)
      /\ RecoveredDense(ds, segs, i) = NewestOf(a, o)
  BY DEF RecoveredDense
<1> HIDE DEF from, e, ds2, a, a2, t, o
<1>8. CASE t = {}
  <2>1. a2 = a
    BY <1>2, <1>8
  <2> QED BY <1>7, <1>8, <2>1 DEF t, ds2
<1>9. CASE t # {}
  <2> DEFINE k == Max(t)
  <2>1. k \in t /\ k \in 1..Len(muts) /\ \A n \in t : n <= k /\ n \in 1..Len(muts)
    BY <1>4, <1>9
  <2> HIDE DEF k
  <2>2. e[k] \in a2
    BY <1>2, <2>1
  <2>3. \A s \in a2 : s.seq < e[k].seq \/ State(s) = State(e[k])
    <3> SUFFICES ASSUME NEW s \in a2 PROVE s.seq < e[k].seq \/ State(s) = State(e[k])
      OBVIOUS
    <3>1. CASE s \in a
      <4>1. s.seq <= last /\ s.seq \in 1..MaxSequence
        BY <1>5, <1>6, <3>1
      <4>2. e[k].seq = last + k
        BY <1>3, <2>1
      <4> QED BY <2>1, <4>1, <4>2
    <3>2. CASE \E n \in t : s = e[n]
      <4>1. PICK n \in t : s = e[n]
        BY <3>2
      <4>a. n \in 1..Len(muts) /\ k \in 1..Len(muts) /\ n <= k
        BY <2>1
      <4>b. e[n].seq = last + n /\ e[k].seq = last + k
        BY <1>3, <4>a
      <4>2. n <= k /\ n \in Nat /\ k \in Nat /\ e[n].seq = last + n /\ e[k].seq = last + k
        BY <1>4, <4>a, <4>b
      <4>3. n < k \/ n = k
        BY <4>2
      <4> QED BY <4>1, <4>2, <4>3
    <3> QED BY <1>2, <3>1, <3>2
  <2>4. NewestOf(a2, o) = State(e[k])
    BY <1>6, <2>2, <2>3, NewestOfIs
  <2>5. State(e[k]) = [seq |-> last + k, val |-> muts[k].val]
    BY <1>3, <2>1 DEF State
  <2> QED BY <1>7, <1>9, <2>4, <2>5 DEF t, k, ds2
<1> QED BY <1>8, <1>9

LEMMA DeletesStep ==
  ASSUME NEW ds, NEW ss, NEW segs, NEW last, NEW muts, NEW i \in Id,
         Files(ds, ss, segs), Bounded(ds, ss, segs, last), Fits(last, muts)
  PROVE  LET d == DeletesAfter(ds, ss, segs, i)
             d2 == DeletesAfter(WithCall(ds, last, muts), ss, segs, i)
         IN  /\ \A x \in d : x <= last
             /\ \A x : x \in d2 <=> (x \in d \/ \E n \in Deletes(muts, i) : x = last + n)
<1> /\ ds \in SUBSET DenseRecord /\ ss \in SUBSET SparseRecord /\ segs \in Seq(Segment)
    /\ last \in 0..MaxSequence /\ CheckpointSequence(segs) <= last /\ \A r \in ds \cup ss : r.seq <= last
    /\ muts \in DenseCalls /\ last + Len(muts) <= MaxSequence
  BY DEF Files, Bounded, Fits
<1> DEFINE from == CheckpointSequence(segs)
           e == EnvelopeOf(last, muts)
           ds2 == WithCall(ds, last, muts)
           a == Above(ds, from, i)
           a2 == Above(ds2, from, i)
           t == Touched(muts, i)
           w == LastWritten(ss, segs, i)
           d == DeletesAfter(ds, ss, segs, i)
           d2 == DeletesAfter(ds2, ss, segs, i)
<1>1. from \in 0..MaxSequence
  BY CheckpointType
<1>2. /\ Files(ds2, ss, segs)
      /\ \A r : r \in a2 <=> (r \in a \/ \E n \in t : r = e[n])
  BY AboveDense
<1>3. \A n \in 1..Len(muts) : e[n].seq = last + n /\ e[n].id = muts[n].id /\ e[n].val = muts[n].val
  BY EnvelopeFacts
<1>4. t \subseteq 1..Len(muts) /\ Len(muts) \in Nat
  BY TouchedFacts
<1>5. \A n : n \in Deletes(muts, i) <=> (n \in t /\ muts[n].val = None)
  BY DEF Deletes
<1>6. w.seq \in Nat /\ w.seq <= last
  <2>0. w \in SparseEntry
    BY WrittenFacts
  <2>1. Logged(ss, segs, i) = {} => w = [seq |-> from, val |-> Newest(segs, "sparse", i).val]
    BY WrittenFacts
  <2>a. Logged(ss, segs, i) # {} => \E r \in ss : r.id = i /\ w = State(r)
    BY WrittenFacts
  <2>2. w.seq \in Nat
    BY <2>0 DEF SparseEntry
  <2>3. CASE Logged(ss, segs, i) = {}
    BY <2>1, <2>2, <2>3
  <2>4. CASE Logged(ss, segs, i) # {}
    <3>1. PICK r \in ss : w = State(r)
      BY <2>a, <2>4
    <3>2. w.seq = r.seq
      BY <3>1 DEF State
    <3> QED BY <2>2, <3>2
  <2> QED BY <2>3, <2>4
<1>7. \A n : n \in d <=> \E r \in a : r.val = None /\ r.seq >= w.seq /\ n = r.seq
  BY DeletesTypes
<1>8. \A n : n \in d2 <=> \E r \in a2 : r.val = None /\ r.seq >= w.seq /\ n = r.seq
  BY <1>2, DeletesTypes
<1>9. \A r \in a : r \in ds
  BY DEF Above
<1> HIDE DEF from, e, ds2, a, a2, t, w, d, d2
<1>10. \A x \in d : x <= last
  BY <1>7, <1>9
<1>11. \A n \in t : e[n].seq >= w.seq /\ e[n].seq = last + n /\ e[n].val = muts[n].val
  BY <1>3, <1>4, <1>6
<1>12. ASSUME NEW x
       PROVE  x \in d2 <=> (x \in d \/ \E n \in Deletes(muts, i) : x = last + n)
  <2>1. ASSUME x \in d2 PROVE x \in d \/ \E n \in Deletes(muts, i) : x = last + n
    <3>1. PICK r \in a2 : r.val = None /\ r.seq >= w.seq /\ x = r.seq
      BY <1>8, <2>1
    <3> QED BY <1>2, <1>5, <1>7, <1>11, <3>1
  <2>2. ASSUME x \in d PROVE x \in d2
    BY <1>2, <1>7, <1>8, <2>2
  <2>3. ASSUME NEW n \in Deletes(muts, i), x = last + n PROVE x \in d2
    <3>1. e[n] \in a2 /\ e[n].val = None /\ e[n].seq >= w.seq /\ e[n].seq = x
      BY <1>2, <1>5, <1>11, <2>3
    <3> QED BY <1>8, <3>1
  <2> QED BY <2>1, <2>2, <2>3
<1> QED BY <1>10, <1>12 DEF d, d2, ds2

\* The sparse field of an ID, and what is pending of it, after a dense call.
LEMMA SparseStep ==
  ASSUME NEW ds, NEW ss, NEW segs, NEW last, NEW muts, NEW i \in Id,
         Files(ds, ss, segs), Bounded(ds, ss, segs, last), Fits(last, muts)
  PROVE  LET s == RecoveredSparse(ds, ss, segs, i)
             s2 == RecoveredSparse(WithCall(ds, last, muts), ss, segs, i)
             drops == Deletes(muts, i) # {} /\ s.val # None
         IN  /\ s2.val = IF drops THEN None ELSE s.val
             /\ s2.pending = IF drops THEN [seq |-> last + Min(Deletes(muts, i)), val |-> None] ELSE s.pending
<1> /\ ds \in SUBSET DenseRecord /\ ss \in SUBSET SparseRecord /\ segs \in Seq(Segment)
    /\ last \in 0..MaxSequence /\ CheckpointSequence(segs) <= last /\ \A r \in ds \cup ss : r.seq <= last
    /\ muts \in DenseCalls /\ last + Len(muts) <= MaxSequence
  BY DEF Files, Bounded, Fits
<1> DEFINE ds2 == WithCall(ds, last, muts)
           s == RecoveredSparse(ds, ss, segs, i)
           s2 == RecoveredSparse(ds2, ss, segs, i)
           d == DeletesAfter(ds, ss, segs, i)
           d2 == DeletesAfter(ds2, ss, segs, i)
           w == LastWritten(ss, segs, i)
           D == Deletes(muts, i)
           p == IF Logged(ss, segs, i) = {} THEN NoEntry ELSE w
<1>0. Files(ds2, ss, segs)
  BY AboveDense
<1>1. /\ \A x \in d : x <= last
      /\ \A x : x \in d2 <=> (x \in d \/ \E n \in D : x = last + n)
  BY DeletesStep
<1>2. D \subseteq Nat /\ (D # {} => Min(D) \in D /\ \A n \in D : Min(D) <= n)
      /\ \A n \in D : n >= 1
  BY TouchedFacts
<1>3. d \subseteq Nat
  <2>1. d \subseteq 1..MaxSequence
    BY DeletesTypes
  <2> QED BY <2>1
<1>4. d # {} => Min(d) \in d /\ \A x \in d : Min(d) <= x
  BY <1>3, MinFacts
<1>5. /\ w.val # None /\ d # {} => s.val = None /\ s.pending = [seq |-> Min(d), val |-> None]
      /\ w.val = None \/ d = {} => s.val = w.val /\ s.pending = p
  <2>1. s = IF w.val # None /\ d # {}
              THEN [val |-> None, pending |-> [seq |-> Min(d), val |-> None]]
              ELSE [val |-> w.val, pending |-> p]
    BY DEF RecoveredSparse
  <2> HIDE DEF s, d, w, p
  <2> QED BY <2>1
<1>6. /\ w.val # None /\ d2 # {} => s2.val = None /\ s2.pending = [seq |-> Min(d2), val |-> None]
      /\ w.val = None \/ d2 = {} => s2.val = w.val /\ s2.pending = p
  <2>1. s2 = IF w.val # None /\ d2 # {}
              THEN [val |-> None, pending |-> [seq |-> Min(d2), val |-> None]]
              ELSE [val |-> w.val, pending |-> p]
    BY DEF RecoveredSparse
  <2> HIDE DEF s2, d2, w, p
  <2> QED BY <2>1
<1> HIDE DEF s, s2, d, d2, w, D, p, ds2
<1>7. d2 \subseteq Nat
  <2>1. last \in Nat
    BY StoreAssumption
  <2>2. \A n \in D : last + n \in Nat
    BY <1>2, <2>1
  <2> QED BY <1>1, <1>3, <2>2
<1> SUFFICES /\ s2.val = IF D # {} /\ s.val # None THEN None ELSE s.val
             /\ s2.pending = IF D # {} /\ s.val # None THEN [seq |-> last + Min(D), val |-> None]
                             ELSE s.pending
  BY DEF s, s2, D, ds2
<1>8. CASE w.val = None
  BY <1>5, <1>6, <1>8
<1>9. CASE w.val # None /\ d # {}
  <2>1. Min(d) \in d2 /\ d2 # {}
    BY <1>1, <1>4, <1>9
  <2>2. \A x \in d2 : Min(d) <= x
    <3> SUFFICES ASSUME NEW x \in d2 PROVE Min(d) <= x
      OBVIOUS
    <3>1. CASE x \in d
      BY <1>4, <1>9, <3>1
    <3>2. CASE \E n \in D : x = last + n
      <4>1. PICK n \in D : x = last + n
        BY <3>2
      <4>2. n \in Nat /\ Min(d) \in Nat /\ Min(d) <= last
        BY <1>1, <1>2, <1>3, <1>4, <1>9
      <4> QED BY <4>1, <4>2
    <3> QED BY <1>1, <3>1, <3>2
  <2>3. Min(d2) = Min(d)
    BY <1>7, <2>1, <2>2, MinIs
  <2> QED BY <1>5, <1>6, <1>9, <2>1, <2>3
<1>10. CASE w.val # None /\ d = {} /\ D = {}
  <2>1. d2 = {}
    BY <1>1, <1>10
  <2> QED BY <1>5, <1>6, <1>10, <2>1
<1>11. CASE w.val # None /\ d = {} /\ D # {}
  <2>1. last + Min(D) \in d2 /\ \A x \in d2 : \E n \in D : x = last + n
    BY <1>1, <1>2, <1>11
  <2>2. \A x \in d2 : last + Min(D) <= x
    <3> SUFFICES ASSUME NEW x \in d2 PROVE last + Min(D) <= x
      OBVIOUS
    <3>1. PICK n \in D : x = last + n
      BY <2>1
    <3>2. Min(D) <= n /\ n \in Nat /\ Min(D) \in Nat
      BY <1>2, <1>11
    <3> QED BY <3>1, <3>2
  <2>3. Min(d2) = last + Min(D)
    BY <1>7, <2>1, <2>2, MinIs
  <2>4. s.val = w.val /\ s.val # None
    BY <1>5, <1>11
  <2>5. s2.val = None /\ s2.pending = [seq |-> last + Min(D), val |-> None]
    BY <1>6, <1>11, <2>1, <2>3
  <2> QED BY <1>11, <2>4, <2>5
<1> QED BY <1>8, <1>9, <1>10, <1>11

\* A recovery serves the sparse fields it replays, when only live points have them.
LEMMA CleanSparse ==
  ASSUME NEW ds, NEW ss, NEW segs, Files(ds, ss, segs), FieldsClean(ds, ss, segs), NEW i \in Id
  PROVE  Replayed(ds, ss, segs).sparse[i] = RecoveredSparse(ds, ss, segs, i).val
<1> DEFINE d(j) == RecoveredDense(ds, segs, j)
           s(j) == RecoveredSparse(ds, ss, segs, j)
<1>1. Replayed(ds, ss, segs).sparse = [j \in Id |-> IF d(j).val # None THEN s(j).val ELSE None]
  BY DEF Replayed, Live
<1>2. d(i).val = None => s(i).val = None
  BY DEF FieldsClean
<1> HIDE DEF d, s
<1> QED BY <1>1, <1>2 DEF s

LEMMA ReplayedAt ==
  ASSUME NEW ds, NEW ss, NEW segs, NEW i \in Id
  PROVE  /\ Replayed(ds, ss, segs).dense[i] = RecoveredDense(ds, segs, i)
         /\ Replayed(ds, ss, segs).pending[i] = RecoveredSparse(ds, ss, segs, i).pending
BY DEF Replayed

\* A state that a recovery restores is within its own last sequence number.
LEMMA RestoredBounded ==
  ASSUME NEW ds, NEW ss, NEW segs, Files(ds, ss, segs)
  PROVE  Bounded(ds, ss, segs, Replayed(ds, ss, segs).last)
BY LastFacts DEF Bounded

LEMMA DenseCallClean ==
  ASSUME NEW ds, NEW ss, NEW segs, NEW last, NEW muts,
         Files(ds, ss, segs), Bounded(ds, ss, segs, last), Fits(last, muts), FieldsClean(ds, ss, segs)
  PROVE  FieldsClean(WithCall(ds, last, muts), ss, segs)
<1> DEFINE ds2 == WithCall(ds, last, muts)
<1> SUFFICES ASSUME NEW i \in Id, RecoveredDense(ds2, segs, i).val = None
             PROVE  RecoveredSparse(ds2, ss, segs, i).val = None
  BY DEF FieldsClean
<1> DEFINE d == RecoveredDense(ds, segs, i)
           s == RecoveredSparse(ds, ss, segs, i)
           s2 == RecoveredSparse(ds2, ss, segs, i)
           t == Touched(muts, i)
           D == Deletes(muts, i)
<1>1. RecoveredDense(ds2, segs, i) = IF t = {} THEN d ELSE [seq |-> last + Max(t), val |-> muts[Max(t)].val]
  BY DenseStep
<1>2. /\ s2.val = IF D # {} /\ s.val # None THEN None ELSE s.val
      /\ s2.pending = IF D # {} /\ s.val # None THEN [seq |-> last + Min(D), val |-> None] ELSE s.pending
  BY SparseStep
<1>3. d.val = None => s.val = None
  BY DEF FieldsClean
<1>4. t # {} => Max(t) \in t
  BY TouchedFacts DEF Fits
<1>5. \A n \in t : muts[n].val = None => n \in D
  BY DEF Deletes
<1> HIDE DEF d, s, s2, t, D, ds2
<1>6. CASE t = {}
  <2>1. d.val = None
    BY <1>1, <1>6 DEF ds2
  <2> QED BY <1>2, <1>3, <2>1 DEF s2
<1>7. CASE t # {}
  <2>1. Max(t) \in D
    BY <1>1, <1>4, <1>5, <1>7 DEF ds2
  <2> QED BY <1>2, <2>1 DEF s2
<1> QED BY <1>6, <1>7

\* Replaying the records of a dense call is applying it.
LEMMA ReplayDenseCall ==
  ASSUME NEW ds, NEW ss, NEW segs, NEW muts, Files(ds, ss, segs),
         Fits(Replayed(ds, ss, segs).last, muts), FieldsClean(ds, ss, segs)
  PROVE  LET m == Replayed(ds, ss, segs)
         IN  /\ Replayed(WithCall(ds, m.last, muts), ss, segs) = AppliedDense(m, muts)
             /\ Files(WithCall(ds, m.last, muts), ss, segs)
             /\ FieldsClean(WithCall(ds, m.last, muts), ss, segs)
<1> DEFINE m == Replayed(ds, ss, segs)
           last == m.last
           ds2 == WithCall(ds, last, muts)
           r == Replayed(ds2, ss, segs)
           a == AppliedDense(m, muts)
<1>1. Bounded(ds, ss, segs, last) /\ last \in 0..MaxSequence
  BY RestoredBounded DEF Bounded
<1>2. FieldsClean(ds2, ss, segs)
  BY <1>1, DenseCallClean
<1>3. Files(ds2, ss, segs)
  <2>1. CASE Id = {}
    <3>1. EnvelopeOf(last, muts) \in Seq(DenseRecord)
      BY <1>1, EnvelopeFacts DEF Fits
    <3>2. Range(EnvelopeOf(last, muts)) \subseteq DenseRecord
      BY <3>1 DEF Range
    <3> QED BY <3>2 DEF Files, WithCall
  <2>2. CASE Id # {}
    BY <1>1, <2>2, AboveDense
  <2> QED BY <2>1, <2>2
<1>4. m \in Memory /\ r \in Memory
  BY <1>3, ReplayedType
<1>5. /\ a \in Memory /\ a.last = last + Len(muts)
      /\ \A i \in Id :
           /\ a.dense[i] = IF Touched(muts, i) = {} THEN m.dense[i]
                           ELSE [seq |-> last + Max(Touched(muts, i)), val |-> muts[Max(Touched(muts, i))].val]
           /\ a.sparse[i] = IF Deletes(muts, i) # {} /\ m.sparse[i] # None THEN None ELSE m.sparse[i]
           /\ a.pending[i] = IF Deletes(muts, i) # {} /\ m.sparse[i] # None
                               THEN [seq |-> last + Min(Deletes(muts, i)), val |-> None] ELSE m.pending[i]
  <2>1. muts \in DenseCalls /\ last + Len(muts) <= MaxSequence
    BY DEF Fits
  <2> HIDE DEF m
  <2> QED BY <1>4, <2>1, AppliedDenseFields
<1>6. ASSUME NEW i \in Id
      PROVE  r.dense[i] = a.dense[i] /\ r.sparse[i] = a.sparse[i] /\ r.pending[i] = a.pending[i]
  <2> DEFINE s == RecoveredSparse(ds, ss, segs, i)
             s2 == RecoveredSparse(ds2, ss, segs, i)
             D == Deletes(muts, i)
  <2>1. m.dense[i] = RecoveredDense(ds, segs, i) /\ m.pending[i] = s.pending
    BY ReplayedAt
  <2>2. r.dense[i] = RecoveredDense(ds2, segs, i) /\ r.pending[i] = s2.pending
    BY ReplayedAt
  <2>3. m.sparse[i] = s.val
    BY CleanSparse
  <2>4. r.sparse[i] = s2.val
    BY <1>2, <1>3, CleanSparse
  <2>5. RecoveredDense(ds2, segs, i) =
           IF Touched(muts, i) = {} THEN RecoveredDense(ds, segs, i)
           ELSE [seq |-> last + Max(Touched(muts, i)), val |-> muts[Max(Touched(muts, i))].val]
    BY <1>1, DenseStep
  <2>6. /\ s2.val = IF D # {} /\ s.val # None THEN None ELSE s.val
        /\ s2.pending = IF D # {} /\ s.val # None THEN [seq |-> last + Min(D), val |-> None] ELSE s.pending
    BY <1>1, SparseStep
  <2>7. r.dense[i] = a.dense[i]
    <3> HIDE DEF m, r, a, ds2, s, s2, D, last
    <3> QED BY <1>5, <2>1, <2>2, <2>5
  <2> HIDE DEF m, r, a, ds2, s, s2, last
  <2>8. r.sparse[i] = a.sparse[i]
    BY <1>5, <2>3, <2>4, <2>6
  <2>9. r.pending[i] = a.pending[i]
    BY <1>5, <2>1, <2>2, <2>3, <2>6
  <2> QED BY <2>7, <2>8, <2>9
<1>7. r.last = a.last
  <2> DEFINE e == EnvelopeOf(last, muts)
  <2>1. /\ e \in Seq(DenseRecord) /\ Len(e) = Len(muts) /\ Len(muts) \in Nat \ {0}
        /\ \A n \in 1..Len(muts) : e[n].seq = last + n
    BY <1>1, EnvelopeFacts DEF Fits
  <2>2. last + Len(muts) <= MaxSequence /\ last \in Nat /\ CheckpointSequence(segs) <= last
        /\ \A x \in ds \cup ss : x.seq <= last
    BY <1>1, StoreAssumption DEF Fits, Bounded
  <2>3. ds2 = ds \cup Range(e)
    BY DEF WithCall
  <2>4. ss \in SUBSET SparseRecord /\ ds \in SUBSET DenseRecord /\ CheckpointSequence(segs) \in Nat
    BY CheckpointType DEF Files
  <2>a. \A x \in ds \cup ss : x.seq \in Nat
    BY <2>4 DEF DenseRecord, SparseRecord
  <2> DEFINE k == last + Len(muts)
  <2> HIDE DEF e, last, ds2, m
  <2>5. k \in 0..MaxSequence /\ k >= CheckpointSequence(segs)
    BY <2>1, <2>2, <2>4, StoreAssumption
  <2>6. \A x : x \in Range(e) <=> \E n \in 1..Len(muts) : x = e[n]
    BY <2>1 DEF Range
  <2>7. \A x \in ds2 \cup ss : x.seq <= k
    <3> SUFFICES ASSUME NEW x \in ds2 \cup ss PROVE x.seq <= k
      OBVIOUS
    <3>1. CASE x \in ds \cup ss
      <4>1. x.seq \in Nat /\ x.seq <= last
        BY <2>2, <2>a, <3>1
      <4> QED BY <2>1, <2>2, <4>1
    <3>2. CASE x \in Range(e)
      <4>1. PICK n \in 1..Len(muts) : x = e[n]
        BY <2>6, <3>2
      <4>2. x.seq = last + n
        BY <2>1, <4>1
      <4> QED BY <2>1, <2>2, <4>1, <4>2
    <3> QED BY <2>3, <3>1, <3>2
  <2>8. \E x \in ds2 \cup ss : x.seq = k
    <3>1. Len(muts) \in 1..Len(muts)
      BY <2>1
    <3>2. e[Len(muts)] \in ds2 /\ e[Len(muts)].seq = k
      BY <2>1, <2>3, <2>6, <3>1
    <3> QED BY <3>2
  <2> HIDE DEF k
  <2>9. Replayed(ds2, ss, segs).last = k
    BY <1>3, <2>5, <2>7, <2>8, LastIs
  <2> QED BY <1>5, <2>9 DEF k
<1> HIDE DEF m, r, a, ds2, last
<1>8. r = a
  BY <1>4, <1>5, <1>6, <1>7, SameMemory
<1> QED BY <1>2, <1>3, <1>8 DEF m, r, a, ds2, last

WithField(ss, last, i, s) == ss \cup {[seq |-> last + 1, id |-> i, val |-> s]}

\* Replaying the record of a sparse call on a live point is applying it.
LEMMA ReplaySparseCall ==
  ASSUME NEW ds, NEW ss, NEW segs, NEW i \in Id, NEW s \in Sparse, Files(ds, ss, segs),
         Replayed(ds, ss, segs).last + 1 <= MaxSequence,
         Replayed(ds, ss, segs).dense[i].val # None, FieldsClean(ds, ss, segs)
  PROVE  LET m == Replayed(ds, ss, segs)
         IN  /\ Replayed(ds, WithField(ss, m.last, i, s), segs) = AppliedSparse(m, i, s)
             /\ Files(ds, WithField(ss, m.last, i, s), segs)
             /\ FieldsClean(ds, WithField(ss, m.last, i, s), segs)
<1> DEFINE m == Replayed(ds, ss, segs)
           last == m.last
           rec == [seq |-> last + 1, id |-> i, val |-> s]
           ss2 == WithField(ss, last, i, s)
           r == Replayed(ds, ss2, segs)
           a == AppliedSparse(m, i, s)
           from == CheckpointSequence(segs)
<1>1. Bounded(ds, ss, segs, last) /\ last \in 0..MaxSequence /\ from <= last /\ from \in 0..MaxSequence
      /\ last \in Nat /\ from \in Nat /\ \A x \in ds \cup ss : x.seq <= last
  <2>1. segs \in Seq(Segment)
    BY DEF Files
  <2>2. Bounded(ds, ss, segs, last)
    BY RestoredBounded
  <2>3. from \in 0..MaxSequence
    BY <2>1, CheckpointType
  <2> QED BY <2>2, <2>3, StoreAssumption DEF Bounded
<1>2. /\ rec \in SparseRecord /\ rec.seq = last + 1 /\ rec.id = i /\ rec.val = s
      /\ State(rec) = [seq |-> last + 1, val |-> s] /\ s # None
  BY <1>1, StoreAssumption DEF SparseRecord, State
<1>3. ss2 = ss \cup {rec}
  BY DEF WithField
<1> HIDE DEF rec, ss2, last
<1>4. Files(ds, ss2, segs)
  BY <1>2, <1>3 DEF Files
<1>5. ASSUME NEW j \in Id, j # i
      PROVE  RecoveredSparse(ds, ss2, segs, j) = RecoveredSparse(ds, ss, segs, j)
  <2>1. Above(ss2, from, j) = Above(ss, from, j)
    BY <1>2, <1>3, <1>5 DEF Above
  <2>2. Logged(ss2, segs, j) = Logged(ss, segs, j)
    BY <2>1 DEF Logged
  <2>3. LastWritten(ss2, segs, j) = LastWritten(ss, segs, j)
    BY <2>2 DEF LastWritten
  <2>4. DeletesAfter(ds, ss2, segs, j) = DeletesAfter(ds, ss, segs, j)
    BY <2>3 DEF DeletesAfter
  <2> QED BY <2>2, <2>3, <2>4 DEF RecoveredSparse
<1>6. RecoveredSparse(ds, ss2, segs, i) = [val |-> s, pending |-> [seq |-> last + 1, val |-> s]]
  <2> DEFINE l == Logged(ss2, segs, i)
             w == LastWritten(ss2, segs, i)
             d == DeletesAfter(ds, ss2, segs, i)
             o == [seq |-> from, val |-> Newest(segs, "sparse", i).val]
  <2>1. l = Above(ss2, from, i) /\ w = NewestOf(l, o)
    BY DEF Logged, LastWritten
  <2>2. /\ \A x : x \in Above(ss2, from, i) <=> (x \in ss2 /\ x.seq > from /\ x.id = i)
        /\ \A x : x \in Above(ds, from, i) => x \in ds
    BY DEF Above
  <2>3. \A x \in ss : x.seq \in 1..MaxSequence
    BY DEF Files, SparseRecord
  <2>4. rec \in l
    <3>1. rec.seq > from
      BY <1>1, <1>2
    <3> QED BY <1>2, <1>3, <2>1, <2>2, <3>1
  <2>5. \A x \in l : x.seq \in 1..MaxSequence /\ (x.seq < rec.seq \/ State(x) = State(rec))
    <3> SUFFICES ASSUME NEW x \in l
                 PROVE  x.seq \in 1..MaxSequence /\ (x.seq < rec.seq \/ State(x) = State(rec))
      OBVIOUS
    <3>1. CASE x = rec
      <4>1. rec.seq \in 1..MaxSequence
        BY <1>2 DEF SparseRecord
      <4> QED BY <3>1, <4>1
    <3>2. CASE x \in ss
      <4>1. x.seq <= last /\ x.seq \in 1..MaxSequence
        BY <1>1, <2>3, <3>2
      <4> QED BY <1>1, <1>2, <4>1
    <3> QED BY <1>3, <2>1, <2>2, <3>1, <3>2
  <2>6. \A x : x \in d <=> \E y \in Above(ds, from, i) : y.val = None /\ y.seq >= w.seq /\ x = y.seq
    BY <1>4, DeletesTypes
  <2>7. RecoveredSparse(ds, ss2, segs, i) =
          IF w.val # None /\ d # {}
            THEN [val |-> None, pending |-> [seq |-> Min(d), val |-> None]]
            ELSE [val |-> w.val, pending |-> IF l = {} THEN NoEntry ELSE w]
    BY DEF RecoveredSparse
  <2> HIDE DEF l, w, d, o
  <2>8. w = State(rec)
    BY <2>1, <2>4, <2>5, NewestOfIs
  <2>9. w.seq = last + 1 /\ w.val = s
    BY <1>2, <2>8
  <2>10. d = {}
    <3>1. \A y \in Above(ds, from, i) : ~(y.seq >= w.seq)
      <4> SUFFICES ASSUME NEW y \in Above(ds, from, i) PROVE ~(y.seq >= w.seq)
        OBVIOUS
      <4>1. y \in ds
        BY <2>2
      <4>2. y.seq \in Nat /\ y.seq <= last
        BY <1>1, <4>1 DEF Files, DenseRecord
      <4> QED BY <1>1, <2>9, <4>2
    <3> QED BY <2>6, <3>1
  <2> QED BY <1>2, <2>4, <2>7, <2>8, <2>9, <2>10
<1>7. FieldsClean(ds, ss2, segs)
  <2> SUFFICES ASSUME NEW j \in Id, RecoveredDense(ds, segs, j).val = None
               PROVE  RecoveredSparse(ds, ss2, segs, j).val = None
    BY DEF FieldsClean
  <2>1. RecoveredDense(ds, segs, i).val # None
    BY ReplayedAt
  <2>2. j # i
    BY <2>1
  <2>3. RecoveredSparse(ds, ss, segs, j).val = None
    BY DEF FieldsClean
  <2> QED BY <1>5, <2>2, <2>3
<1>8. m \in Memory /\ r \in Memory
  BY <1>4, ReplayedType
<1>9. /\ a \in Memory /\ a.last = last + 1 /\ a.dense = m.dense
      /\ \A j \in Id : /\ a.sparse[j] = IF j = i THEN s ELSE m.sparse[j]
                       /\ a.pending[j] = IF j = i THEN [seq |-> last + 1, val |-> s] ELSE m.pending[j]
  <2>1. m.last + 1 <= MaxSequence
    OBVIOUS
  <2> HIDE DEF m
  <2> QED BY <1>8, <2>1, AppliedSparseFields DEF last
<1>10. ASSUME NEW j \in Id
       PROVE  r.dense[j] = a.dense[j] /\ r.sparse[j] = a.sparse[j] /\ r.pending[j] = a.pending[j]
  <2> DEFINE s1 == RecoveredSparse(ds, ss, segs, j)
             s2 == RecoveredSparse(ds, ss2, segs, j)
  <2>1. m.dense[j] = RecoveredDense(ds, segs, j) /\ m.pending[j] = s1.pending
    BY ReplayedAt
  <2>2. r.dense[j] = RecoveredDense(ds, segs, j) /\ r.pending[j] = s2.pending
    BY ReplayedAt
  <2>3. m.sparse[j] = s1.val
    BY CleanSparse
  <2>4. r.sparse[j] = s2.val
    BY <1>4, <1>7, CleanSparse
  <2>5. CASE j = i
    <3>1. s2.val = s /\ s2.pending = [seq |-> last + 1, val |-> s]
      BY <1>6, <2>5
    <3> HIDE DEF m, r, a, s1, s2
    <3> QED BY <1>9, <2>1, <2>2, <2>4, <2>5, <3>1
  <2>6. CASE j # i
    <3>1. s2 = s1
      BY <1>5, <2>6
    <3> HIDE DEF m, r, a, s1, s2
    <3> QED BY <1>9, <2>1, <2>2, <2>3, <2>4, <2>6, <3>1
  <2> QED BY <2>5, <2>6
<1>11. r.last = a.last
  <2> DEFINE k == last + 1
  <2>1. k \in 0..MaxSequence /\ k >= from
    BY <1>1, StoreAssumption DEF last
  <2>2. \A x \in ds \cup ss2 : x.seq <= k
    <3> SUFFICES ASSUME NEW x \in ds \cup ss2 PROVE x.seq <= k
      OBVIOUS
    <3>1. CASE x = rec
      BY <1>1, <1>2, <3>1
    <3>2. CASE x \in ds \cup ss
      <4>1. x.seq \in Nat /\ x.seq <= last
        BY <1>1, <3>2 DEF Files, DenseRecord, SparseRecord
      <4> QED BY <1>1, <4>1
    <3> QED BY <1>3, <3>1, <3>2
  <2>3. \E x \in ds \cup ss2 : x.seq = k
    BY <1>2, <1>3
  <2> HIDE DEF k
  <2>4. r.last = k
    BY <1>4, <2>1, <2>2, <2>3, LastIs
  <2> QED BY <1>9, <2>4 DEF k
<1> HIDE DEF m, r, a
<1>12. r = a
  BY <1>8, <1>9, <1>10, <1>11, SameMemory
<1> QED BY <1>4, <1>7, <1>12 DEF m, r, a, ss2, last

-----------------------------------------------------------------------------
(***************************************************************************)
(* Memory and files take the same call and still agree.                    *)
(***************************************************************************)
LEMMA AgreesSame ==
  ASSUME NEW m, NEW from
  PROVE  Agrees(m, m, from)
BY DEF Agrees

LEMMA AgreesDense ==
  ASSUME NEW m \in Memory, NEW d \in Memory, NEW from, NEW muts, Agrees(m, d, from), Fits(m.last, muts)
  PROVE  /\ Agrees(AppliedDense(m, muts), AppliedDense(d, muts), from)
         /\ m.pending = d.pending => AppliedDense(m, muts).pending = AppliedDense(d, muts).pending
<1> DEFINE a == AppliedDense(m, muts)
           b == AppliedDense(d, muts)
<1>0. m.last = d.last /\ m.sparse = d.sparse /\ muts \in DenseCalls
      /\ m.last + Len(muts) <= MaxSequence /\ d.last + Len(muts) <= MaxSequence
  BY DEF Agrees, Fits
<1>1. /\ a \in Memory /\ a.last = m.last + Len(muts)
      /\ \A i \in Id :
           /\ a.dense[i] = IF Touched(muts, i) = {} THEN m.dense[i]
                           ELSE [seq |-> m.last + Max(Touched(muts, i)), val |-> muts[Max(Touched(muts, i))].val]
           /\ a.sparse[i] = IF Deletes(muts, i) # {} /\ m.sparse[i] # None THEN None ELSE m.sparse[i]
           /\ a.pending[i] = IF Deletes(muts, i) # {} /\ m.sparse[i] # None
                               THEN [seq |-> m.last + Min(Deletes(muts, i)), val |-> None] ELSE m.pending[i]
  BY <1>0, AppliedDenseFields
<1>2. /\ b \in Memory /\ b.last = d.last + Len(muts)
      /\ \A i \in Id :
           /\ b.dense[i] = IF Touched(muts, i) = {} THEN d.dense[i]
                           ELSE [seq |-> d.last + Max(Touched(muts, i)), val |-> muts[Max(Touched(muts, i))].val]
           /\ b.sparse[i] = IF Deletes(muts, i) # {} /\ d.sparse[i] # None THEN None ELSE d.sparse[i]
           /\ b.pending[i] = IF Deletes(muts, i) # {} /\ d.sparse[i] # None
                               THEN [seq |-> d.last + Min(Deletes(muts, i)), val |-> None] ELSE d.pending[i]
  BY <1>0, AppliedDenseFields
<1> HIDE DEF a, b
<1>3. a.last = b.last
  BY <1>0, <1>1, <1>2
<1>4. a.sparse = b.sparse
  <2>1. \A i \in Id : a.sparse[i] = b.sparse[i]
    BY ZenonT(60), <1>0, <1>1, <1>2
  <2> QED BY <1>1, <1>2, <2>1 DEF Memory
<1>5. ASSUME m.pending = d.pending PROVE a.pending = b.pending
  <2>1. \A i \in Id : a.pending[i] = b.pending[i]
    BY ZenonT(60), <1>0, <1>1, <1>2, <1>5
  <2> QED BY <1>1, <1>2, <2>1 DEF Memory
<1>6. ASSUME NEW i \in Id
      PROVE  /\ a.dense[i].val = b.dense[i].val
             /\ a.dense[i].seq > from \/ b.dense[i].seq > from => a.dense[i] = b.dense[i]
  <2>1. /\ m.dense[i].val = d.dense[i].val
        /\ m.dense[i].seq > from \/ d.dense[i].seq > from => m.dense[i] = d.dense[i]
    BY DEF Agrees
  <2>2. CASE Touched(muts, i) = {}
    <3>1. a.dense[i] = m.dense[i] /\ b.dense[i] = d.dense[i]
      BY <1>1, <1>2, <2>2
    <3> QED BY <2>1, <3>1
  <2>3. CASE Touched(muts, i) # {}
    <3>1. a.dense[i] = [seq |-> m.last + Max(Touched(muts, i)), val |-> muts[Max(Touched(muts, i))].val]
      BY <1>1, <2>3
    <3>2. b.dense[i] = [seq |-> d.last + Max(Touched(muts, i)), val |-> muts[Max(Touched(muts, i))].val]
      BY <1>2, <2>3
    <3>3. a.dense[i] = b.dense[i]
      BY <1>0, <3>1, <3>2
    <3> QED BY <3>3
  <2> QED BY <2>2, <2>3
<1>7. Agrees(a, b, from)
  BY <1>3, <1>4, <1>6 DEF Agrees
<1> QED BY <1>5, <1>7 DEF a, b

LEMMA AgreesSparse ==
  ASSUME NEW m \in Memory, NEW d \in Memory, NEW from, NEW i \in Id, NEW s \in Sparse,
         Agrees(m, d, from), m.last + 1 <= MaxSequence
  PROVE  /\ Agrees(AppliedSparse(m, i, s), AppliedSparse(d, i, s), from)
         /\ m.pending = d.pending => AppliedSparse(m, i, s).pending = AppliedSparse(d, i, s).pending
<1> DEFINE a == AppliedSparse(m, i, s)
           b == AppliedSparse(d, i, s)
<1>0. m.last = d.last /\ m.sparse = d.sparse /\ d.last + 1 <= MaxSequence
  BY DEF Agrees
<1>1. /\ a \in Memory /\ a.last = m.last + 1 /\ a.dense = m.dense
      /\ \A j \in Id : /\ a.sparse[j] = IF j = i THEN s ELSE m.sparse[j]
                       /\ a.pending[j] = IF j = i THEN [seq |-> m.last + 1, val |-> s] ELSE m.pending[j]
  BY AppliedSparseFields
<1>2. /\ b \in Memory /\ b.last = d.last + 1 /\ b.dense = d.dense
      /\ \A j \in Id : /\ b.sparse[j] = IF j = i THEN s ELSE d.sparse[j]
                       /\ b.pending[j] = IF j = i THEN [seq |-> d.last + 1, val |-> s] ELSE d.pending[j]
  BY <1>0, AppliedSparseFields
<1> HIDE DEF a, b
<1>3. a.last = b.last
  BY <1>0, <1>1, <1>2
<1>4. a.sparse = b.sparse
  <2>1. \A j \in Id : a.sparse[j] = b.sparse[j]
    BY <1>0, <1>1, <1>2
  <2> QED BY <1>1, <1>2, <2>1 DEF Memory
<1>5. ASSUME m.pending = d.pending PROVE a.pending = b.pending
  <2>1. \A j \in Id : a.pending[j] = b.pending[j]
    BY <1>0, <1>1, <1>2, <1>5
  <2> QED BY <1>1, <1>2, <2>1 DEF Memory
<1>6. Agrees(a, b, from)
  BY <1>1, <1>2, <1>3, <1>4 DEF Agrees
<1> QED BY <1>5, <1>6 DEF a, b

-----------------------------------------------------------------------------
(***************************************************************************)
(* Checkpoints.                                                            *)
(***************************************************************************)
\* Records that the checkpoint covers are not replayed.
LEMMA Covered ==
  ASSUME NEW ds, NEW ss, NEW segs, Files(ds, ss, segs),
         \A r \in ds \cup ss : r.seq <= CheckpointSequence(segs)
  PROVE  /\ Replayed(ds, ss, segs).last = CheckpointSequence(segs)
         /\ \A i \in Id : /\ RecoveredDense(ds, segs, i) = Newest(segs, "dense", i)
                          /\ RecoveredSparse(ds, ss, segs, i) =
                               [val |-> Newest(segs, "sparse", i).val, pending |-> NoEntry]
<1> DEFINE from == CheckpointSequence(segs)
<1>0. ds \in SUBSET DenseRecord /\ ss \in SUBSET SparseRecord /\ from \in 0..MaxSequence /\ from \in Nat
  BY CheckpointType, StoreAssumption DEF Files
<1>1. \A r \in ds \cup ss : r.seq \in Nat
  BY <1>0 DEF DenseRecord, SparseRecord
<1> HIDE DEF from
<1>2. \A r \in ds \cup ss : ~(r.seq > from)
  BY <1>0, <1>1 DEF from
<1>3. Replayed(ds, ss, segs).last = from
  <2>1. from >= CheckpointSequence(segs) /\ from = CheckpointSequence(segs)
    BY <1>0 DEF from
  <2> QED BY <1>0, <2>1, LastIs DEF from
<1>4. ASSUME NEW i \in Id
      PROVE  /\ RecoveredDense(ds, segs, i) = Newest(segs, "dense", i)
             /\ RecoveredSparse(ds, ss, segs, i) =
                               [val |-> Newest(segs, "sparse", i).val, pending |-> NoEntry]
  <2>1. Above(ds, from, i) = {} /\ Above(ss, from, i) = {}
    BY <1>2 DEF Above
  <2>2. RecoveredDense(ds, segs, i) = Newest(segs, "dense", i)
    BY <2>1 DEF RecoveredDense, NewestOf, from
  <2>3. Logged(ss, segs, i) = {}
    BY <2>1 DEF Logged, from
  <2>4. LastWritten(ss, segs, i) = [seq |-> from, val |-> Newest(segs, "sparse", i).val]
    BY <2>3 DEF LastWritten, NewestOf, from
  <2>5. DeletesAfter(ds, ss, segs, i) = {}
    BY <2>1 DEF DeletesAfter, from
  <2> QED BY <2>2, <2>3, <2>4, <2>5 DEF RecoveredSparse
<1> QED BY <1>3, <1>4 DEF from

\* So they may be dropped.
LEMMA Rotated ==
  ASSUME NEW ds, NEW ss, NEW segs, Files(ds, ss, segs),
         Replayed(ds, ss, segs).last = CheckpointSequence(segs),
         NEW ds2 \in SUBSET ds, NEW ss2 \in SUBSET ss
  PROVE  /\ Files(ds2, ss2, segs) /\ Replayed(ds2, ss2, segs) = Replayed(ds, ss, segs)
         /\ Replayed(ds, ss, segs).pending = NoEntries
         /\ FieldsClean(ds, ss, segs) => FieldsClean(ds2, ss2, segs)
<1>1. Files(ds2, ss2, segs)
  BY DEF Files
<1>2. \A r \in ds \cup ss : r.seq <= CheckpointSequence(segs)
  BY LastFacts
<1>3. \A r \in ds2 \cup ss2 : r.seq <= CheckpointSequence(segs)
  BY <1>2
<1>4. /\ Replayed(ds2, ss2, segs).last = Replayed(ds, ss, segs).last
      /\ \A i \in Id : /\ RecoveredDense(ds2, segs, i) = RecoveredDense(ds, segs, i)
                       /\ RecoveredSparse(ds2, ss2, segs, i) = RecoveredSparse(ds, ss, segs, i)
                       /\ RecoveredSparse(ds, ss, segs, i).pending = NoEntry
  <2>1. Replayed(ds2, ss2, segs).last = CheckpointSequence(segs)
    BY <1>1, <1>3, Covered
  <2>2. \A i \in Id : /\ RecoveredDense(ds2, segs, i) = Newest(segs, "dense", i)
                      /\ RecoveredSparse(ds2, ss2, segs, i) =
                               [val |-> Newest(segs, "sparse", i).val, pending |-> NoEntry]
    BY <1>1, <1>3, Covered
  <2>3. \A i \in Id : /\ RecoveredDense(ds, segs, i) = Newest(segs, "dense", i)
                      /\ RecoveredSparse(ds, ss, segs, i) =
                               [val |-> Newest(segs, "sparse", i).val, pending |-> NoEntry]
    BY <1>2, Covered
  <2> QED BY <2>1, <2>2, <2>3
<1> DEFINE m == Replayed(ds, ss, segs)
           k == Replayed(ds2, ss2, segs)
<1>5. m \in Memory /\ k \in Memory
  BY <1>1, ReplayedType
<1>6. ASSUME NEW i \in Id
      PROVE  /\ k.dense[i] = m.dense[i] /\ k.sparse[i] = m.sparse[i] /\ k.pending[i] = m.pending[i]
             /\ m.pending[i] = NoEntry
  <2>1. RecoveredDense(ds2, segs, i) = RecoveredDense(ds, segs, i)
        /\ RecoveredSparse(ds2, ss2, segs, i) = RecoveredSparse(ds, ss, segs, i)
        /\ RecoveredSparse(ds, ss, segs, i).pending = NoEntry
    BY <1>4
  <2> QED BY <2>1 DEF Replayed, Live
<1>7. FieldsClean(ds, ss, segs) => FieldsClean(ds2, ss2, segs)
  BY <1>4 DEF FieldsClean
<1> HIDE DEF m, k
<1>8. k = m
  BY <1>4, <1>5, <1>6, SameMemory DEF m, k
<1>9. m.pending = NoEntries
  BY <1>5, <1>6 DEF Memory, NoEntries
<1> QED BY <1>1, <1>7, <1>8, <1>9 DEF m, k

\* The segment that a checkpoint of m writes behind segs.
SegmentOf(m, segs) ==
  IF segs = <<>> THEN BaseSegment(m.dense, m.sparse, m.last) ELSE DeltaSegment(m, CheckpointSequence(segs))

LEMMA SegmentFields ==
  ASSUME NEW m \in Memory, NEW segs \in Seq(Segment)
  PROVE  LET g == SegmentOf(m, segs)
             from == CheckpointSequence(segs)
         IN  /\ g \in Segment /\ g.max = m.last
             /\ \A i \in Id :
                  /\ segs = <<>> => /\ g.dense[i] = IF m.dense[i].val # None THEN m.dense[i] ELSE NoEntry
                                    /\ g.sparse[i] = IF m.sparse[i] = None THEN NoEntry
                                                     ELSE [seq |-> m.last, val |-> m.sparse[i]]
                  /\ segs # <<>> => /\ g.dense[i] = IF m.dense[i].seq > from THEN m.dense[i] ELSE NoEntry
                                    /\ g.sparse[i] = m.pending[i]
<1> DEFINE g == SegmentOf(m, segs)
           from == CheckpointSequence(segs)
<1>1. /\ m.last \in 0..MaxSequence /\ m.dense \in [Id -> Entry] /\ m.sparse \in [Id -> Sparse \cup {None}]
      /\ m.pending \in [Id -> SparseEntry]
  BY DEF Memory
<1>2. from \in 0..MaxSequence /\ from + 1 \in Nat /\ from \in Nat
  BY CheckpointType, StoreAssumption
<1>3. NoEntry \in Entry /\ NoEntry \in SparseEntry
  BY EntryTypes
<1>4. CASE segs = <<>>
  <2> DEFINE D == [i \in Id |-> IF m.dense[i].val # None THEN m.dense[i] ELSE NoEntry]
             S == [i \in Id |-> IF m.sparse[i] = None THEN NoEntry ELSE [seq |-> m.last, val |-> m.sparse[i]]]
  <2>1. g = [level |-> 1, min |-> 0, max |-> m.last, dense |-> D, sparse |-> S]
    BY <1>4 DEF SegmentOf, BaseSegment, Live
  <2>2. D \in [Id -> Entry]
    BY <1>1, <1>3
  <2>3. S \in [Id -> SparseEntry]
    <3> SUFFICES ASSUME NEW i \in Id PROVE S[i] \in SparseEntry
      OBVIOUS
    <3> QED BY <1>1, <1>3 DEF SparseEntry
  <2>4. \A i \in Id : /\ D[i] = IF m.dense[i].val # None THEN m.dense[i] ELSE NoEntry
                      /\ S[i] = IF m.sparse[i] = None THEN NoEntry ELSE [seq |-> m.last, val |-> m.sparse[i]]
    OBVIOUS
  <2> HIDE DEF D, S, g
  <2>5. g \in Segment /\ g.max = m.last /\ g.dense = D /\ g.sparse = S
    BY <1>1, <2>1, <2>2, <2>3 DEF Segment
  <2> QED BY <1>4, <2>4, <2>5 DEF g
<1>5. CASE segs # <<>>
  <2> DEFINE D == [i \in Id |-> IF m.dense[i].seq > from THEN m.dense[i] ELSE NoEntry]
  <2>1. g = [level |-> 0, min |-> from + 1, max |-> m.last, dense |-> D, sparse |-> m.pending]
    BY <1>5 DEF SegmentOf, DeltaSegment
  <2>2. D \in [Id -> Entry]
    BY <1>1, <1>3
  <2>4. \A i \in Id : D[i] = IF m.dense[i].seq > from THEN m.dense[i] ELSE NoEntry
    OBVIOUS
  <2> HIDE DEF D, g, from
  <2>5. g \in Segment /\ g.max = m.last /\ g.dense = D /\ g.sparse = m.pending
    BY <1>1, <1>2, <2>1, <2>2 DEF Segment
  <2> QED BY <1>5, <2>4, <2>5 DEF g, from
<1> QED BY <1>4, <1>5

\* A checkpoint stores the dense field of every point, whatever happened before.
LEMMA PublishedDense ==
  ASSUME NEW m \in Memory, NEW segs \in Seq(Segment), Within(m), Segmented(segs, m.dense),
         SegmentsBounded(segs), CheckpointSequence(segs) <= m.last
  PROVE  LET t == Append(segs, SegmentOf(m, segs))
         IN  /\ t \in Seq(Segment) /\ t # <<>> /\ CheckpointSequence(t) = m.last
             /\ SegmentsBounded(t)
             /\ \A i \in Id : Newest(t, "dense", i).val = m.dense[i].val
<1> DEFINE g == SegmentOf(m, segs)
           t == Append(segs, g)
           from == CheckpointSequence(segs)
<1>1. g \in Segment /\ g.max = m.last
  BY SegmentFields
<1>2. \A i \in Id :
        /\ segs = <<>> => g.dense[i] = IF m.dense[i].val # None THEN m.dense[i] ELSE NoEntry
        /\ segs # <<>> => g.dense[i] = IF m.dense[i].seq > from THEN m.dense[i] ELSE NoEntry
  BY SegmentFields
<1>3. from \in Nat /\ m.last \in Nat /\ \A i \in Id : m.dense[i].seq \in Nat
  BY CheckpointType DEF Memory, Entry
<1> HIDE DEF g
<1>4. /\ t \in Seq(Segment) /\ CheckpointSequence(t) = g.max /\ t # <<>>
      /\ Len(t) = Len(segs) + 1 /\ t[Len(segs) + 1] = g
      /\ \A n \in 1..Len(segs) : t[n] = segs[n]
  BY <1>1, AppendSegment
<1>5. \A i \in Id : Newest(t, "dense", i) = IF g.dense[i].seq > 0 THEN g.dense[i] ELSE Newest(segs, "dense", i)
  BY <1>1, AppendSegment
<1> HIDE DEF t, from
<1>6. NoEntry.seq = 0 /\ NoEntry.val = None
  BY EntryTypes
<1>7. ASSUME NEW i \in Id
      PROVE  Newest(t, "dense", i).val = m.dense[i].val /\ g.dense[i].seq <= m.last
  <2>1. m.dense[i].seq <= m.last /\ (m.dense[i].val # None => m.dense[i].seq > 0) /\ m.dense[i].seq \in Nat
    BY <1>3 DEF Within
  <2>2. CASE segs = <<>>
    <3>1. Newest(segs, "dense", i) = NoEntry
      BY <2>2, NoSegments
    <3>2. CASE m.dense[i].val # None
      <4>1. g.dense[i] = m.dense[i]
        BY <1>2, <2>2, <3>2
      <4> QED BY <1>5, <2>1, <3>2, <4>1
    <3>3. CASE m.dense[i].val = None
      <4>1. g.dense[i] = NoEntry
        BY <1>2, <2>2, <3>3
      <4>2. ~(g.dense[i].seq > 0) /\ g.dense[i].seq <= m.last
        BY <1>3, <1>6, <4>1
      <4> QED BY <1>5, <1>6, <3>1, <3>3, <4>2
    <3> QED BY <3>2, <3>3
  <2>3. CASE segs # <<>>
    <3>1. CASE m.dense[i].seq > from
      <4>1. g.dense[i] = m.dense[i]
        BY <1>2, <2>3, <3>1
      <4>2. g.dense[i].seq > 0
        BY <1>3, <2>1, <3>1, <4>1
      <4> QED BY <1>5, <2>1, <4>1, <4>2
    <3>2. CASE ~(m.dense[i].seq > from)
      <4>1. g.dense[i] = NoEntry
        BY <1>2, <2>3, <3>2
      <4>2. ~(g.dense[i].seq > 0) /\ g.dense[i].seq <= m.last
        BY <1>3, <1>6, <4>1
      <4>3. m.dense[i].seq <= from
        BY <1>3, <3>2
      <4>4. m.dense[i].val = Newest(segs, "dense", i).val
        BY <4>3 DEF Segmented, from
      <4> QED BY <1>5, <4>2, <4>4
    <3> QED BY <3>1, <3>2
  <2> QED BY <2>2, <2>3
<1>8. SegmentsBounded(t)
  <2> SUFFICES ASSUME NEW n \in 1..Len(t), NEW i \in Id PROVE t[n].dense[i].seq <= m.last
    BY <1>1, <1>4 DEF SegmentsBounded
  <2>1. n \in 1..Len(segs) \/ n = Len(segs) + 1
    BY <1>4
  <2>2. CASE n \in 1..Len(segs)
    <3>1. segs[n].dense[i].seq <= from /\ t[n] = segs[n]
      BY <1>4, <2>2 DEF SegmentsBounded, from
    <3>2. segs[n].dense[i].seq \in Nat
      <4>1. segs[n] \in Segment
        BY <2>2
      <4> QED BY <4>1 DEF Segment, Entry
    <3>3. from <= m.last
      BY DEF from
    <3> QED BY <1>3, <3>1, <3>2, <3>3
  <2>3. CASE n = Len(segs) + 1
    BY <1>4, <1>7, <2>3
  <2> QED BY <2>1, <2>2, <2>3
<1> QED BY <1>1, <1>4, <1>7, <1>8 DEF t, g

\* The field a recovery gives a point no newer than the checkpoint is in the segments.
LEMMA NewestBounded ==
  ASSUME NEW segs \in Seq(Segment), SegmentsBounded(segs), NEW i \in Id
  PROVE  Newest(segs, "dense", i).seq <= CheckpointSequence(segs)
<1>1. Len(segs) \in 0..Len(segs) /\ CheckpointSequence(segs) \in Nat
  BY CheckpointType
<1>2. \/ Through(segs, Len(segs), "dense", i) = NoEntry
      \/ \E n \in 1..Len(segs) : Through(segs, Len(segs), "dense", i) = segs[n]["dense"][i]
  BY <1>1, ThroughFacts
<1>3. CASE Newest(segs, "dense", i) = NoEntry
  BY <1>1, <1>3, EntryTypes
<1>4. ASSUME NEW n \in 1..Len(segs), Newest(segs, "dense", i) = segs[n].dense[i]
      PROVE  Newest(segs, "dense", i).seq <= CheckpointSequence(segs)
  BY <1>4 DEF SegmentsBounded
<1> QED BY <1>2, <1>3, <1>4, NewestThrough

LEMMA PublishedSparse ==
  ASSUME NEW ds, NEW ss, NEW segs, NEW m \in Memory, Files(ds, ss, segs), FieldsClean(ds, ss, segs),
         Agrees(m, Replayed(ds, ss, segs), CheckpointSequence(segs)),
         m.pending = Replayed(ds, ss, segs).pending, Within(m), NEW i \in Id
  PROVE  /\ Newest(Append(segs, SegmentOf(m, segs)), "sparse", i).val = m.sparse[i]
         /\ m.dense[i].val = None => m.sparse[i] = None
<1> DEFINE g == SegmentOf(m, segs)
           t == Append(segs, g)
           d == Replayed(ds, ss, segs)
           s == RecoveredSparse(ds, ss, segs, i)
<1>0. segs \in Seq(Segment)
  BY DEF Files
<1>1. /\ g \in Segment
      /\ segs = <<>> => g.sparse[i] = IF m.sparse[i] = None THEN NoEntry ELSE [seq |-> m.last, val |-> m.sparse[i]]
      /\ segs # <<>> => g.sparse[i] = m.pending[i]
  BY <1>0, SegmentFields
<1> HIDE DEF g
<1>2. Newest(t, "sparse", i) = IF g.sparse[i].seq > 0 THEN g.sparse[i] ELSE Newest(segs, "sparse", i)
  BY <1>0, <1>1, AppendSegment
<1> HIDE DEF t
<1>3. d.sparse[i] = s.val /\ d.dense[i] = RecoveredDense(ds, segs, i) /\ d.pending[i] = s.pending
  BY CleanSparse, ReplayedAt
<1>4. m.sparse[i] = d.sparse[i] /\ m.dense[i].val = d.dense[i].val /\ m.pending[i] = d.pending[i]
  BY DEF Agrees
<1>5. /\ s.pending.seq > 0 => s.val = s.pending.val
      /\ ~(s.pending.seq > 0) => s.val = Newest(segs, "sparse", i).val
  BY ZenonT(60), SparseFacts
<1>6. m.dense[i].val = None => m.sparse[i] = None
  <2>1. RecoveredDense(ds, segs, i).val = None => s.val = None
    BY DEF FieldsClean
  <2> QED BY <1>3, <1>4, <2>1
<1>7. NoEntry.seq = 0 /\ NoEntry.val = None
  BY EntryTypes
<1> HIDE DEF d, s
<1>8. CASE segs = <<>>
  <2>1. Newest(segs, "sparse", i) = NoEntry
    BY <1>8, NoSegments
  <2>2. CASE m.sparse[i] = None
    <3>1. g.sparse[i] = NoEntry
      BY <1>1, <1>8, <2>2
    <3>2. ~(g.sparse[i].seq > 0)
      BY <1>7, <3>1
    <3> QED BY <1>2, <1>6, <1>7, <2>1, <2>2, <3>2 DEF t, g
  <2>3. CASE m.sparse[i] # None
    <3>1. g.sparse[i] = [seq |-> m.last, val |-> m.sparse[i]]
      BY <1>1, <1>8, <2>3
    <3>2. m.dense[i].seq > 0 /\ m.dense[i].seq <= m.last
      BY <1>6, <2>3 DEF Within
    <3>3. m.dense[i].seq \in Nat /\ m.last \in Nat
      BY DEF Memory, Entry
    <3>4. g.sparse[i].seq > 0 /\ g.sparse[i].val = m.sparse[i]
      BY <3>1, <3>2, <3>3
    <3> QED BY <1>2, <1>6, <3>4 DEF t, g
  <2> QED BY <2>2, <2>3
<1>9. CASE segs # <<>>
  <2>1. g.sparse[i] = s.pending
    BY <1>1, <1>3, <1>4, <1>9
  <2> QED BY <1>2, <1>3, <1>4, <1>5, <1>6, <2>1 DEF t, g
<1> QED BY <1>8, <1>9

\* Publishing a checkpoint changes nothing a recovery restores but what is pending.
LEMMA Published ==
  ASSUME NEW ds, NEW ss, NEW segs, NEW m \in Memory, Files(ds, ss, segs), FieldsClean(ds, ss, segs),
         SegmentsClean(segs), SegmentsBounded(segs), Segmented(segs, m.dense), Within(m),
         Agrees(m, Replayed(ds, ss, segs), CheckpointSequence(segs)),
         m.pending = Replayed(ds, ss, segs).pending
  PROVE  LET t == Append(segs, SegmentOf(m, segs))
         IN  /\ Files(ds, ss, t) /\ FieldsClean(ds, ss, t) /\ SegmentsClean(t)
             /\ Agrees(m, Replayed(ds, ss, t), m.last)
             /\ Replayed(ds, ss, t).pending = NoEntries
<1> DEFINE g == SegmentOf(m, segs)
           t == Append(segs, g)
           d == Replayed(ds, ss, segs)
           r == Replayed(ds, ss, t)
<1>0. segs \in Seq(Segment) /\ m.last = d.last
  BY DEF Files, Agrees
<1>1. CheckpointSequence(segs) <= m.last /\ \A x \in ds \cup ss : x.seq <= m.last
  BY <1>0, LastFacts
<1>2. /\ t \in Seq(Segment) /\ t # <<>> /\ CheckpointSequence(t) = m.last /\ SegmentsBounded(t)
      /\ \A i \in Id : Newest(t, "dense", i).val = m.dense[i].val
  BY <1>0, <1>1, PublishedDense
<1>3. \A i \in Id : Newest(t, "sparse", i).val = m.sparse[i] /\ (m.dense[i].val = None => m.sparse[i] = None)
  BY PublishedSparse
<1>4. Files(ds, ss, t)
  BY <1>2 DEF Files
<1>5. g \in Segment
  BY <1>0, SegmentFields
<1>a. /\ Len(t) = Len(segs) + 1 /\ Len(segs) \in Nat
      /\ \A i \in Id, field \in {"dense", "sparse"} :
           \A n \in 1..Len(segs) : Through(t, n, field, i) = Through(segs, n, field, i)
  <2> HIDE DEF g
  <2> QED BY <1>0, <1>5, AppendSegment
<1> HIDE DEF t
<1>6. /\ r.last = m.last
      /\ \A i \in Id : /\ RecoveredDense(ds, t, i) = Newest(t, "dense", i)
                       /\ RecoveredSparse(ds, ss, t, i) = [val |-> Newest(t, "sparse", i).val, pending |-> NoEntry]
  BY <1>1, <1>2, <1>4, Covered
<1>7. FieldsClean(ds, ss, t)
  <2> SUFFICES ASSUME NEW i \in Id, RecoveredDense(ds, t, i).val = None
               PROVE  RecoveredSparse(ds, ss, t, i).val = None
    BY DEF FieldsClean
  <2> QED BY <1>2, <1>3, <1>6
<1>8. SegmentsClean(t)
  <2> SUFFICES ASSUME NEW n \in 1..Len(t), NEW i \in Id, Through(t, n, "dense", i).val = None
               PROVE  Through(t, n, "sparse", i).val = None
    BY DEF SegmentsClean
  <2>1. n \in 1..Len(segs) \/ n = Len(t)
    BY <1>a
  <2>2. CASE n \in 1..Len(segs)
    <3>1. Through(t, n, "dense", i) = Through(segs, n, "dense", i)
          /\ Through(t, n, "sparse", i) = Through(segs, n, "sparse", i)
      BY <1>a, <2>2
    <3> QED BY <2>2, <3>1 DEF SegmentsClean
  <2>3. CASE n = Len(t)
    <3>1. Newest(t, "dense", i) = Through(t, n, "dense", i) /\ Newest(t, "sparse", i) = Through(t, n, "sparse", i)
      BY <2>3, NewestThrough
    <3> QED BY <1>2, <1>3, <3>1
  <2> QED BY <2>1, <2>2, <2>3
<1>9. r \in Memory
  BY <1>4, ReplayedType
<1>10. ASSUME NEW i \in Id
       PROVE  /\ r.dense[i] = Newest(t, "dense", i) /\ r.sparse[i] = m.sparse[i] /\ r.pending[i] = NoEntry
  <2>1. r.dense[i] = RecoveredDense(ds, t, i) /\ r.pending[i] = RecoveredSparse(ds, ss, t, i).pending
    BY ReplayedAt
  <2>2. r.sparse[i] = RecoveredSparse(ds, ss, t, i).val
    BY <1>4, <1>7, CleanSparse
  <2> HIDE DEF r
  <2> QED BY <1>3, <1>6, <2>1, <2>2
<1> HIDE DEF r
<1>11. r.pending = NoEntries
  BY <1>9, <1>10 DEF Memory, NoEntries
<1>12. Agrees(m, r, m.last)
  <2>1. r.sparse = m.sparse
    BY <1>9, <1>10 DEF Memory
  <2>2. ASSUME NEW i \in Id
        PROVE  /\ m.dense[i].val = r.dense[i].val
               /\ ~(m.dense[i].seq > m.last) /\ ~(r.dense[i].seq > m.last)
    <3>1. Newest(t, "dense", i).seq <= m.last
      BY <1>2, NewestBounded
    <3>2. m.dense[i].seq <= m.last
      BY DEF Within
    <3>3. m.dense[i].seq \in Nat /\ m.last \in Nat /\ r.dense[i].seq \in Nat
      BY <1>9 DEF Memory, Entry
    <3> QED BY <1>2, <1>10, <3>1, <3>2, <3>3
  <2> QED BY <1>6, <2>1, <2>2 DEF Agrees
<1> QED BY <1>4, <1>7, <1>8, <1>11, <1>12 DEF t, g, r

-----------------------------------------------------------------------------
(***************************************************************************)
(* Compaction.                                                             *)
(***************************************************************************)
\* What the first segments hold, from the segment that holds it.
LEMMA ThroughIs ==
  ASSUME NEW segs \in Seq(Segment), NEW n \in 0..Len(segs), NEW i \in Id,
         NEW field \in {"dense", "sparse"}, NEW m \in 1..n, segs[m][field][i].seq > 0,
         \A k \in 1..n : k > m => ~(segs[k][field][i].seq > 0)
  PROVE  Through(segs, n, field, i) = segs[m][field][i]
<1> DEFINE h == {k \in 1..n : segs[k][field][i].seq > 0}
<1>1. n \in Nat /\ h \subseteq Nat /\ m \in h
  OBVIOUS
<1>2. \A k \in h : k <= m
  BY <1>1
<1> HIDE DEF h
<1>3. Max(h) = m
  BY <1>1, <1>2, MaxIs
<1> QED BY <1>1, <1>3 DEF Through, h

LEMMA ThroughNone ==
  ASSUME NEW segs \in Seq(Segment), NEW n \in 0..Len(segs), NEW i \in Id,
         NEW field \in {"dense", "sparse"}, \A k \in 1..n : ~(segs[k][field][i].seq > 0)
  PROVE  Through(segs, n, field, i) = NoEntry
<1>1. {k \in 1..n : segs[k][field][i].seq > 0} = {}
  OBVIOUS
<1> QED BY <1>1 DEF Through

\* The segments with the first k of them replaced by one.
Compacted(segs, k, g) == <<g>> \o SubSeq(segs, k + 1, Len(segs))

LEMMA CompactedSeq ==
  ASSUME NEW segs \in Seq(Segment), NEW k \in 1..Len(segs), NEW g \in Segment
  PROVE  LET t == Compacted(segs, k, g)
         IN  /\ t \in Seq(Segment) /\ Len(t) = Len(segs) - k + 1 /\ t[1] = g /\ t # <<>>
             /\ Len(segs) \in Nat /\ k \in Nat
             /\ \A n \in 2..Len(t) : t[n] = segs[n + k - 1]
             /\ g.max = segs[k].max => CheckpointSequence(t) = CheckpointSequence(segs)
<1> DEFINE u == SubSeq(segs, k + 1, Len(segs))
           v == <<g>>
           t == Compacted(segs, k, g)
<1>0. Len(segs) \in Nat /\ k \in Nat /\ k >= 1 /\ k <= Len(segs)
  OBVIOUS
<1>1. /\ u \in Seq(Segment) /\ Len(u) = Len(segs) - k
      /\ \A n \in 1..Len(u) : u[n] = segs[n + k]
  <2>1. CASE k = Len(segs)
    <3>1. u = <<>>
      BY <1>0, <2>1
    <3>2. Len(u) = 0 /\ u \in Seq(Segment)
      BY SMTT(30), <3>1
    <3> QED BY <1>0, <2>1, <3>2
  <2>2. CASE k # Len(segs)
    <3>1. k + 1 \in 1..Len(segs) /\ Len(segs) \in 1..Len(segs)
      BY <1>0, <2>2
    <3>2. u \in Seq(Segment) /\ Len(u) = Len(segs) - (k + 1) + 1 /\ \A n \in 1..Len(u) : u[n] = segs[k + 1 + n - 1]
      BY <1>0, <2>2, <3>1
    <3> HIDE DEF u
    <3>3. \A n \in 1..Len(u) : k + 1 + n - 1 = n + k
      BY <1>0, <3>2
    <3> QED BY <1>0, <3>2, <3>3
  <2> QED BY <2>1, <2>2
<1>2. t = v \o u /\ v \in Seq(Segment) /\ Len(v) = 1 /\ v[1] = g
  BY DEF Compacted
<1> HIDE DEF u, v, t
<1>a. /\ t \in Seq(Segment) /\ Len(t) = Len(v) + Len(u) /\ Len(u) \in Nat
      /\ \A n \in 1..Len(v) + Len(u) : t[n] = IF n <= Len(v) THEN v[n] ELSE u[n - Len(v)]
  <2>1. Len(u) \in Nat /\ u \in Seq(Segment) /\ v \in Seq(Segment)
    BY <1>1, <1>2
  <2>2. v \o u \in Seq(Segment) /\ Len(v \o u) = Len(v) + Len(u)
    BY <2>1, ConcatProperties
  <2>3. \A n \in 1..Len(v) + Len(u) : (v \o u)[n] = IF n <= Len(v) THEN v[n] ELSE u[n - Len(v)]
    BY <2>1, ConcatProperties, Zenon
  <2> QED BY <1>2, <2>1, <2>2, <2>3
<1>3. t \in Seq(Segment) /\ Len(t) = 1 + Len(u) /\ t[1] = g
  BY <1>2, <1>a
<1>4. \A n \in 2..Len(t) : t[n] = u[n - 1]
  BY <1>2, <1>a
<1>5. Len(t) = Len(segs) - k + 1
  BY <1>0, <1>1, <1>3
<1>6. \A n \in 2..Len(t) : t[n] = segs[n + k - 1]
  <2> SUFFICES ASSUME NEW n \in 2..Len(t) PROVE t[n] = segs[n + k - 1]
    OBVIOUS
  <2>1. n - 1 \in 1..Len(u) /\ n - 1 + k = n + k - 1
    BY <1>0, <1>1, <1>3
  <2> QED BY <1>1, <1>4, <2>1
<1>7. t # <<>>
  BY <1>0, <1>3, <1>5
<1>8. ASSUME g.max = segs[k].max
      PROVE  CheckpointSequence(t) = CheckpointSequence(segs)
  <2>1. CheckpointSequence(t) = t[Len(t)].max
    BY <1>7 DEF CheckpointSequence, Last
  <2>2. segs # <<>>
    BY <1>0
  <2>3. CheckpointSequence(segs) = segs[Len(segs)].max
    BY <2>2 DEF CheckpointSequence, Last
  <2>4. CASE k = Len(segs)
    <3>1. Len(t) = 1
      BY <1>0, <1>5, <2>4
    <3> QED BY <1>3, <1>8, <2>1, <2>3, <2>4, <3>1
  <2>5. CASE k # Len(segs)
    <3>1. Len(t) \in 2..Len(t) /\ Len(t) + k - 1 = Len(segs)
      BY <1>0, <1>5, <2>5
    <3>2. t[Len(t)] = segs[Len(segs)]
      BY <1>6, <3>1
    <3> QED BY <2>1, <2>3, <3>2
  <2> QED BY <2>4, <2>5
<1> QED BY <1>0, <1>3, <1>5, <1>6, <1>7, <1>8 DEF t

\* What the first segments of a compacted list hold.
LEMMA CompactedThrough ==
  ASSUME NEW segs \in Seq(Segment), NEW k \in 1..Len(segs), NEW g \in Segment,
         NEW n \in k..Len(segs), NEW i \in Id, NEW field \in {"dense", "sparse"},
         (IF g[field][i].seq > 0 THEN g[field][i].val ELSE None) = Through(segs, k, field, i).val
  PROVE  Through(Compacted(segs, k, g), n - k + 1, field, i).val = Through(segs, n, field, i).val
<1> DEFINE t == Compacted(segs, k, g)
           q == n - k + 1
           holds(m) == segs[m][field][i].seq > 0
<1>0. Len(segs) \in Nat /\ k \in Nat /\ n \in Nat /\ k <= n /\ n <= Len(segs) /\ k >= 1
      /\ k \in 0..Len(segs) /\ n \in 0..Len(segs)
  OBVIOUS
<1>1. /\ t \in Seq(Segment) /\ Len(t) = Len(segs) - k + 1 /\ t[1] = g
      /\ \A m \in 2..Len(t) : t[m] = segs[m + k - 1]
  BY CompactedSeq
<1> HIDE DEF t
<1>2. q \in Nat /\ q \in 0..Len(t) /\ q >= 1
  BY <1>0, <1>1
<1>3. ASSUME NEW m \in k + 1..n
      PROVE  m - k + 1 \in 2..q /\ t[m - k + 1] = segs[m]
  <2>a. m \in Int /\ k + 1 <= m /\ m <= n
    BY <1>0
  <2>b. m - k + 1 \in Int /\ 2 <= m - k + 1 /\ m - k + 1 <= n - k + 1 /\ n - k + 1 <= Len(t)
    BY <1>0, <1>1, <2>a
  <2>c. Len(t) \in Int /\ n - k + 1 \in Int
    BY <1>0, <1>1
  <2>1. m - k + 1 \in 2..q /\ m - k + 1 \in 2..Len(t) /\ m - k + 1 + k - 1 = m
    BY <1>0, <2>a, <2>b, <2>c
  <2> QED BY <1>1, <2>1
<1>4. ASSUME NEW p \in 2..q
      PROVE  p + k - 1 \in k + 1..n /\ t[p] = segs[p + k - 1]
  <2>1. p + k - 1 \in k + 1..n /\ p \in 2..Len(t)
    BY <1>0, <1>1
  <2> QED BY <1>1, <2>1
<1>5. CASE \E m \in k + 1..n : holds(m)
  <2> DEFINE T == {m \in 1..n : holds(m)}
  <2>1. T \subseteq Nat /\ T # {} /\ \A m \in T : m <= n
    BY <1>0, <1>5
  <2> DEFINE m == Max(T)
  <2>2. m \in T /\ \A y \in T : m >= y
    BY <1>0, <2>1, MaxFacts
  <2> HIDE DEF m
  <2>3. m \in 1..n /\ holds(m) /\ \A y \in 1..n : y > m => ~holds(y)
    <3>1. m \in 1..n /\ holds(m)
      BY <2>2
    <3>2. ASSUME NEW y \in 1..n, y > m, holds(y) PROVE FALSE
      <4>1. y \in T
        BY <3>2
      <4>2. m >= y
        BY <2>2, <4>1
      <4> QED BY <1>0, <3>1, <3>2, <4>2
    <3> QED BY <3>1, <3>2
  <2>4. m \in k + 1..n
    <3>1. PICK y \in k + 1..n : holds(y)
      BY <1>5
    <3>2. y \in T
      BY <1>0, <3>1
    <3>3. m >= y
      BY <2>2, <3>2
    <3> QED BY <1>0, <2>3, <3>3
  <2> HIDE DEF T
  <2>5. Through(segs, n, field, i) = segs[m][field][i]
    BY <1>0, <2>3, ThroughIs
  <2> DEFINE p == m - k + 1
  <2>6. p \in 2..q /\ t[p] = segs[m] /\ p \in 1..q
    BY <1>2, <1>3, <2>4
  <2>7. ASSUME NEW y \in 1..q, y > p
        PROVE  ~(t[y][field][i].seq > 0)
    <3>1. y \in 2..q
      BY <1>2, <2>6, <2>7
    <3>2. t[y] = segs[y + k - 1] /\ y + k - 1 \in k + 1..n
      BY <1>4, <3>1
    <3>3. y + k - 1 > m /\ y + k - 1 \in 1..n
      BY <1>0, <1>2, <2>4, <2>7, <3>1
    <3> QED BY <2>3, <3>2, <3>3
  <2> HIDE DEF p, q
  <2>8. t[p][field][i].seq > 0
    BY <2>3, <2>6
  <2>9. Through(t, q, field, i) = t[p][field][i]
    BY <1>1, <1>2, <2>6, <2>7, <2>8, ThroughIs
  <2> QED BY <2>5, <2>6, <2>9 DEF t, q
<1>6. CASE ~\E m \in k + 1..n : holds(m)
  <2>1. Through(segs, n, field, i) = Through(segs, k, field, i)
    <3>1. {m \in 1..n : segs[m][field][i].seq > 0} = {m \in 1..k : segs[m][field][i].seq > 0}
      <4>1. \A m \in 1..n : m \in 1..k \/ m \in k + 1..n
        BY <1>0
      <4>2. \A m \in 1..k : m \in 1..n
        BY <1>0
      <4> QED BY <1>6, <4>1, <4>2
    <3> QED BY <3>1 DEF Through
  <2>2. \A p \in 2..q : ~(t[p][field][i].seq > 0)
    BY <1>4, <1>6
  <2>3. 1 \in 1..q /\ \A p \in 1..q : p > 1 => p \in 2..q
    BY <1>2
  <2>4. Through(t, q, field, i).val = IF g[field][i].seq > 0 THEN g[field][i].val ELSE None
    <3> HIDE DEF q
    <3>1. CASE g[field][i].seq > 0
      <4>1. t[1][field][i].seq > 0 /\ \A p \in 1..q : p > 1 => ~(t[p][field][i].seq > 0)
        BY <1>1, <2>2, <2>3, <3>1
      <4>2. Through(t, q, field, i) = t[1][field][i]
        BY <1>1, <1>2, <2>3, <4>1, ThroughIs
      <4> QED BY <1>1, <3>1, <4>2
    <3>2. CASE ~(g[field][i].seq > 0)
      <4>1. \A p \in 1..q : p = 1 \/ p > 1
        BY <1>2
      <4>2. \A p \in 1..q : ~(t[p][field][i].seq > 0)
        BY <1>1, <2>2, <2>3, <3>2, <4>1
      <4>3. Through(t, q, field, i) = NoEntry
        BY <1>1, <1>2, <4>2, ThroughNone
      <4> QED BY <3>2, <4>3, EntryTypes
    <3> QED BY <3>1, <3>2
  <2> QED BY <2>1, <2>4 DEF t, q
<1> QED BY <1>5, <1>6

\* What a compaction makes of its inputs.
LEMMA CompactionFields ==
  ASSUME NEW inputs, Captured(inputs)
  PROVE  LET g == CompactionOutput(inputs)
             k == Len(inputs)
         IN  /\ g \in Segment /\ g.max = CheckpointSequence(inputs) /\ g.max = inputs[k].max
             /\ \A i \in Id :
                  /\ (IF g.dense[i].seq > 0 THEN g.dense[i].val ELSE None) = Through(inputs, k, "dense", i).val
                  /\ g.dense[i].seq <= CheckpointSequence(inputs)
                  /\ SegmentsClean(inputs) =>
                       (IF g.sparse[i].seq > 0 THEN g.sparse[i].val ELSE None) = Through(inputs, k, "sparse", i).val
<1> DEFINE g == CompactionOutput(inputs)
           k == Len(inputs)
           max == CheckpointSequence(inputs)
           d(i) == Newest(inputs, "dense", i)
           s(i) == Newest(inputs, "sparse", i).val
           D == [i \in Id |-> IF d(i).val # None THEN d(i) ELSE NoEntry]
           v(i) == IF d(i).val # None THEN s(i) ELSE None
           S == [i \in Id |-> IF v(i) = None THEN NoEntry ELSE [seq |-> max, val |-> v(i)]]
<1>0. inputs \in Seq(Segment) /\ inputs # <<>> /\ SegmentsBounded(inputs)
  BY DEF Captured
<1>1. g = [level |-> 1, min |-> 0, max |-> max, dense |-> D, sparse |-> S]
  <2> DEFINE ld == [i \in Id |-> d(i)]
             sp == [i \in Id |-> v(i)]
  <2>1. LoadDense(inputs) = ld
    BY DEF LoadDense
  <2>2. [i \in Id |-> IF Live(ld, i) THEN LoadSparse(inputs)[i] ELSE None] = sp
    <3>1. \A i \in Id : LoadSparse(inputs)[i] = s(i)
      BY DEF LoadSparse
    <3>2. \A i \in Id : Live(ld, i) <=> d(i).val # None
      BY DEF Live
    <3> HIDE DEF d, s, ld
    <3> QED BY <3>1, <3>2
  <2>3. g = BaseSegment(ld, sp, max)
    BY <2>1, <2>2 DEF CompactionOutput
  <2>4. /\ \A i \in Id : ld[i] = d(i) /\ sp[i] = v(i)
        /\ \A i \in Id : Live(ld, i) <=> d(i).val # None
    BY DEF Live
  <2> HIDE DEF ld, sp, d, v, max, g
  <2>5. [i \in Id |-> IF Live(ld, i) THEN ld[i] ELSE NoEntry] = D
    BY <2>4
  <2>6. [i \in Id |-> IF sp[i] = None THEN NoEntry ELSE [seq |-> max, val |-> sp[i]]] = S
    BY <2>4
  <2> HIDE DEF D, S
  <2> QED BY <2>3, <2>5, <2>6 DEF BaseSegment
<1>2. max \in 0..MaxSequence /\ max \in Nat
  BY <1>0, CheckpointType, StoreAssumption
<1>3. k \in 0..Len(inputs) /\ k \in 1..Len(inputs) /\ max = inputs[k].max
  <2>1. k \in Nat /\ k # 0
    BY <1>0, EmptySeq
  <2>2. max = inputs[k].max
    BY <1>0 DEF CheckpointSequence, Last
  <2> QED BY <2>1, <2>2
<1>4. ASSUME NEW i \in Id
      PROVE  /\ d(i) \in Entry /\ s(i) \in Sparse \cup {None} /\ d(i).seq <= max
             /\ d(i).val # None => d(i).seq > 0
             /\ d(i) = Through(inputs, k, "dense", i) /\ s(i) = Through(inputs, k, "sparse", i).val
  <2>1. d(i) = Through(inputs, k, "dense", i) /\ Newest(inputs, "sparse", i) = Through(inputs, k, "sparse", i)
    BY NewestThrough
  <2>2. /\ Through(inputs, k, "dense", i) \in Entry
        /\ Through(inputs, k, "sparse", i) \in SparseEntry
        /\ Through(inputs, k, "dense", i).val # None => Through(inputs, k, "dense", i).seq > 0
    BY <1>0, <1>3, ThroughType
  <2>3. d(i).seq <= max
    BY <1>0, NewestBounded
  <2>4. Through(inputs, k, "sparse", i).val \in Sparse \cup {None}
    BY <2>2 DEF SparseEntry
  <2> HIDE DEF d, max, k
  <2> QED BY <2>1, <2>2, <2>3, <2>4
<1>5. SegmentsClean(inputs) => \A i \in Id : d(i).val = None => s(i) = None
  <2> SUFFICES ASSUME SegmentsClean(inputs), NEW i \in Id, d(i).val = None PROVE s(i) = None
    OBVIOUS
  <2>1. Through(inputs, k, "dense", i).val = None => Through(inputs, k, "sparse", i).val = None
    BY <1>3 DEF SegmentsClean
  <2> QED BY <1>4, <2>1
<1> HIDE DEF d, s, max, g, k
<1>6. D \in [Id -> Entry]
  BY <1>4, EntryTypes
<1>7. S \in [Id -> SparseEntry]
  <2> SUFFICES ASSUME NEW i \in Id PROVE S[i] \in SparseEntry
    OBVIOUS
  <2>1. s(i) \in Sparse \cup {None}
    BY <1>4
  <2> QED BY <1>2, <2>1, EntryTypes DEF SparseEntry
<1>8. \A i \in Id : /\ D[i] = IF d(i).val # None THEN d(i) ELSE NoEntry
                    /\ S[i] = IF v(i) = None THEN NoEntry ELSE [seq |-> max, val |-> v(i)]
  OBVIOUS
<1> HIDE DEF D, S
<1>9. g \in Segment /\ g.max = max /\ g.dense = D /\ g.sparse = S
  BY <1>1, <1>2, <1>6, <1>7 DEF Segment
<1>10. ASSUME NEW i \in Id
       PROVE  /\ (IF g.dense[i].seq > 0 THEN g.dense[i].val ELSE None) = Through(inputs, k, "dense", i).val
              /\ g.dense[i].seq <= max
              /\ SegmentsClean(inputs) =>
                   (IF g.sparse[i].seq > 0 THEN g.sparse[i].val ELSE None) = Through(inputs, k, "sparse", i).val
  <2>0. NoEntry.seq = 0 /\ NoEntry.val = None
    BY EntryTypes
  <2>1. d(i).seq \in Nat
    BY <1>4 DEF Entry
  <2>2. CASE d(i).val # None
    <3>1. g.dense[i] = d(i) /\ d(i).seq > 0 /\ d(i).seq <= max
      BY <1>4, <1>8, <1>9, <2>2
    <3>2. max > 0
      BY <1>2, <2>1, <3>1
    <3>3. g.sparse[i] = IF s(i) = None THEN NoEntry ELSE [seq |-> max, val |-> s(i)]
      BY <1>8, <1>9, <2>2
    <3>4. (IF g.sparse[i].seq > 0 THEN g.sparse[i].val ELSE None) = s(i)
      BY <2>0, <3>2, <3>3
    <3> QED BY <1>4, <3>1, <3>4
  <2>3. CASE d(i).val = None
    <3>1. g.dense[i] = NoEntry /\ g.sparse[i] = NoEntry
      BY <1>8, <1>9, <2>3
    <3>2. SegmentsClean(inputs) => s(i) = None
      BY <1>5, <2>3
    <3> QED BY <1>2, <1>4, <2>0, <2>3, <3>1, <3>2
  <2> QED BY <2>2, <2>3
<1> QED BY <1>3, <1>9, <1>10 DEF g, k, max

\* A finished compaction: the checkpoint and the newest fields are the same.
LEMMA CompactedSegments ==
  ASSUME NEW segs \in Seq(Segment), NEW inputs, Captured(inputs), IsPrefix(inputs, segs),
         SegmentsBounded(segs)
  PROVE  LET t == Compacted(segs, Len(inputs), CompactionOutput(inputs))
         IN  /\ t \in Seq(Segment) /\ t # <<>> /\ CheckpointSequence(t) = CheckpointSequence(segs)
             /\ SegmentsBounded(t)
             /\ \A i \in Id : Newest(t, "dense", i).val = Newest(segs, "dense", i).val
             /\ SegmentsClean(segs) =>
                  /\ SegmentsClean(t)
                  /\ \A i \in Id : Newest(t, "sparse", i).val = Newest(segs, "sparse", i).val
<1> DEFINE k == Len(inputs)
           g == CompactionOutput(inputs)
           t == Compacted(segs, k, g)
<1>0. inputs \in Seq(Segment) /\ inputs # <<>> /\ SegmentsBounded(inputs) /\ k \in Nat /\ k # 0
  BY EmptySeq DEF Captured
<1>1. k \in 1..Len(segs) /\ k \in 0..Len(segs) /\ k \in 1..Len(inputs) /\ Len(segs) \in Nat
      /\ \A n \in 1..k : inputs[n] = segs[n]
  <2>1. k <= Len(segs) /\ SubSeq(inputs, 1, k) = SubSeq(segs, 1, k)
    BY DEF IsPrefix
  <2>2. \A n \in 1..k : SubSeq(inputs, 1, k)[n] = inputs[n] /\ SubSeq(segs, 1, k)[n] = segs[n]
    BY <1>0, <2>1
  <2> QED BY <1>0, <2>1, <2>2
<1>2. g \in Segment /\ g.max = CheckpointSequence(inputs) /\ g.max = inputs[k].max
  BY CompactionFields
<1>3. \A i \in Id :
        /\ (IF g.dense[i].seq > 0 THEN g.dense[i].val ELSE None) = Through(inputs, k, "dense", i).val
        /\ g.dense[i].seq <= CheckpointSequence(inputs)
        /\ SegmentsClean(inputs) =>
             (IF g.sparse[i].seq > 0 THEN g.sparse[i].val ELSE None) = Through(inputs, k, "sparse", i).val
  BY CompactionFields
<1> HIDE DEF g, k
<1>4. \A i \in Id, field \in {"dense", "sparse"} : \A n \in 1..k :
        Through(inputs, n, field, i) = Through(segs, n, field, i)
  <2> SUFFICES ASSUME NEW i \in Id, NEW field \in {"dense", "sparse"}, NEW n \in 1..k
               PROVE  Through(inputs, n, field, i) = Through(segs, n, field, i)
    OBVIOUS
  <2>1. n \in 0..Len(segs) /\ n <= Len(inputs) /\ \A m \in 1..n : inputs[m] = segs[m]
    BY <1>0, <1>1
  <2> QED BY <1>0, <2>1, ThroughSame
<1>5. SegmentsClean(segs) => SegmentsClean(inputs)
  <2> SUFFICES ASSUME SegmentsClean(segs), NEW n \in 1..k, NEW i \in Id,
                      Through(inputs, n, "dense", i).val = None
               PROVE  Through(inputs, n, "sparse", i).val = None
    BY DEF SegmentsClean, k
  <2>1. n \in 1..Len(segs)
    BY <1>1
  <2> QED BY <1>4, <2>1 DEF SegmentsClean
<1>6. /\ t \in Seq(Segment) /\ Len(t) = Len(segs) - k + 1 /\ t[1] = g /\ t # <<>>
      /\ \A n \in 2..Len(t) : t[n] = segs[n + k - 1]
      /\ CheckpointSequence(t) = CheckpointSequence(segs)
  <2>1. g.max = segs[k].max
    BY <1>0, <1>1, <1>2
  <2> QED BY <1>1, <1>2, <2>1, CompactedSeq
<1>a. Len(t) \in Nat /\ Len(t) - 1 + k = Len(segs)
  BY <1>0, <1>1, <1>6
<1>7. ASSUME NEW q \in 1..Len(t)
      PROVE  /\ q + k - 1 \in k..Len(segs) /\ q + k - 1 \in 1..Len(segs)
             /\ \A i \in Id : /\ Through(t, q, "dense", i).val = Through(segs, q + k - 1, "dense", i).val
                              /\ SegmentsClean(segs) =>
                                   Through(t, q, "sparse", i).val = Through(segs, q + k - 1, "sparse", i).val
  <2> DEFINE n == q + k - 1
  <2>1. n \in k..Len(segs) /\ n \in 1..Len(segs) /\ n - k + 1 = q
    BY <1>0, <1>1, <1>a
  <2> HIDE DEF n
  <2>2. ASSUME NEW i \in Id
        PROVE  Through(t, q, "dense", i).val = Through(segs, n, "dense", i).val
    <3>1. (IF g["dense"][i].seq > 0 THEN g["dense"][i].val ELSE None) = Through(segs, k, "dense", i).val
      <4>1. Through(inputs, k, "dense", i) = Through(segs, k, "dense", i)
        BY <1>0, <1>1, <1>4
      <4> QED BY <1>3, <4>1
    <3>2. Through(t, n - k + 1, "dense", i).val = Through(segs, n, "dense", i).val
      BY <1>1, <1>2, <2>1, <3>1, CompactedThrough
    <3> QED BY <2>1, <3>2
  <2>3. ASSUME NEW i \in Id, SegmentsClean(segs)
        PROVE  Through(t, q, "sparse", i).val = Through(segs, n, "sparse", i).val
    <3>1. (IF g["sparse"][i].seq > 0 THEN g["sparse"][i].val ELSE None) = Through(segs, k, "sparse", i).val
      <4>1. Through(inputs, k, "sparse", i) = Through(segs, k, "sparse", i)
        BY <1>0, <1>1, <1>4
      <4> QED BY <1>3, <1>5, <2>3, <4>1
    <3>2. Through(t, n - k + 1, "sparse", i).val = Through(segs, n, "sparse", i).val
      BY <1>1, <1>2, <2>1, <3>1, CompactedThrough
    <3> QED BY <2>1, <3>2
  <2> QED BY <2>1, <2>2, <2>3 DEF n
<1> HIDE DEF t
<1>8. SegmentsBounded(t)
  <2> SUFFICES ASSUME NEW q \in 1..Len(t), NEW i \in Id PROVE t[q].dense[i].seq <= CheckpointSequence(segs)
    BY <1>6 DEF SegmentsBounded
  <2>1. CASE q = 1
    <3>1. g.dense[i].seq <= CheckpointSequence(inputs)
      BY <1>3
    <3>2. CheckpointSequence(inputs) <= CheckpointSequence(segs) \/ g.dense[i].seq <= CheckpointSequence(segs)
      <4>1. g.dense[i].seq = 0 \/ \E n \in 1..k : g.dense[i].seq = inputs[n].dense[i].seq
        <5>1. LoadDense(inputs)[i] = Through(inputs, k, "dense", i)
          BY NewestThrough DEF LoadDense, k
        <5>2. g.dense[i] = IF LoadDense(inputs)[i].val # None THEN LoadDense(inputs)[i] ELSE NoEntry
          BY DEF g, CompactionOutput, BaseSegment, Live
        <5>3. \/ Through(inputs, k, "dense", i) = NoEntry
              \/ \E n \in 1..k : Through(inputs, k, "dense", i) = inputs[n]["dense"][i]
          <6>1. k \in 0..Len(inputs)
            BY <1>1
          <6> QED BY <1>0, <6>1, ThroughFacts
        <5> QED BY <5>1, <5>2, <5>3, EntryTypes
      <4>2. \A n \in 1..k : inputs[n].dense[i].seq <= CheckpointSequence(segs)
        <5> SUFFICES ASSUME NEW n \in 1..k PROVE inputs[n].dense[i].seq <= CheckpointSequence(segs)
          OBVIOUS
        <5>1. n \in 1..Len(segs) /\ inputs[n] = segs[n]
          BY <1>1
        <5> QED BY <5>1 DEF SegmentsBounded
      <4>3. CheckpointSequence(segs) \in Nat
        BY CheckpointType
      <4>4. g.dense[i].seq = 0 => g.dense[i].seq <= CheckpointSequence(segs)
        BY <4>3
      <4> QED BY <4>1, <4>2, <4>4
    <3>3. g.dense[i].seq \in Nat /\ CheckpointSequence(segs) \in Nat /\ CheckpointSequence(inputs) \in Nat
      <4>1. g.dense[i] \in Entry
        BY <1>2 DEF Segment
      <4>2. g.dense[i].seq \in Nat
        BY <4>1 DEF Entry
      <4>3. CheckpointSequence(segs) \in Nat
        BY CheckpointType
      <4>4. CheckpointSequence(inputs) \in Nat
        BY <1>0, CheckpointType
      <4> QED BY <4>2, <4>3, <4>4
    <3> QED BY <1>6, <2>1, <3>1, <3>2, <3>3
  <2>2. CASE q # 1
    <3>1. q \in 2..Len(t)
      BY <1>a, <2>2
    <3>2. t[q] = segs[q + k - 1] /\ q + k - 1 \in 1..Len(segs)
      BY <1>6, <1>7, <3>1
    <3> QED BY <3>2 DEF SegmentsBounded
  <2> QED BY <2>1, <2>2
<1>9. /\ \A i \in Id : Newest(t, "dense", i).val = Newest(segs, "dense", i).val
      /\ SegmentsClean(segs) => \A i \in Id : Newest(t, "sparse", i).val = Newest(segs, "sparse", i).val
  <2>1. Len(t) \in 1..Len(t) /\ Len(t) + k - 1 = Len(segs)
    BY <1>0, <1>1, <1>6, <1>a
  <2>2. \A i \in Id : /\ Through(t, Len(t), "dense", i).val = Through(segs, Len(segs), "dense", i).val
                      /\ SegmentsClean(segs) =>
                           Through(t, Len(t), "sparse", i).val = Through(segs, Len(segs), "sparse", i).val
    BY <1>7, <2>1
  <2> QED BY <2>2, NewestThrough
<1>10. SegmentsClean(segs) => SegmentsClean(t)
  <2> SUFFICES ASSUME SegmentsClean(segs), NEW q \in 1..Len(t), NEW i \in Id,
                      Through(t, q, "dense", i).val = None
               PROVE  Through(t, q, "sparse", i).val = None
    BY DEF SegmentsClean
  <2> QED BY <1>7 DEF SegmentsClean
<1> QED BY <1>6, <1>8, <1>9, <1>10 DEF t, g, k

\* A recovery from the compacted segments restores the same state.
LEMMA CompactedReplay ==
  ASSUME NEW ds, NEW ss, NEW segs, NEW t, Files(ds, ss, segs), Files(ds, ss, t),
         CheckpointSequence(t) = CheckpointSequence(segs), SegmentsBounded(segs), SegmentsBounded(t),
         \A i \in Id : /\ Newest(t, "dense", i).val = Newest(segs, "dense", i).val
                       /\ Newest(t, "sparse", i).val = Newest(segs, "sparse", i).val
  PROVE  /\ FieldsClean(ds, ss, segs) => FieldsClean(ds, ss, t)
         /\ Agrees(Replayed(ds, ss, t), Replayed(ds, ss, segs), CheckpointSequence(segs))
         /\ Replayed(ds, ss, t).pending = Replayed(ds, ss, segs).pending
<1> DEFINE from == CheckpointSequence(segs)
           d == Replayed(ds, ss, segs)
           e == Replayed(ds, ss, t)
<1>0. segs \in Seq(Segment) /\ t \in Seq(Segment) /\ from \in Nat
  BY CheckpointType DEF Files
<1>1. ASSUME NEW i \in Id
      PROVE  /\ RecoveredDense(ds, t, i).val = RecoveredDense(ds, segs, i).val
             /\ RecoveredDense(ds, t, i).seq > from \/ RecoveredDense(ds, segs, i).seq > from =>
                  RecoveredDense(ds, t, i) = RecoveredDense(ds, segs, i)
             /\ RecoveredSparse(ds, ss, t, i) = RecoveredSparse(ds, ss, segs, i)
  <2>1. Logged(ss, t, i) = Logged(ss, segs, i) /\ LastWritten(ss, t, i) = LastWritten(ss, segs, i)
    BY DEF Logged, LastWritten
  <2>2. DeletesAfter(ds, ss, t, i) = DeletesAfter(ds, ss, segs, i)
    BY <2>1 DEF DeletesAfter
  <2>3. RecoveredSparse(ds, ss, t, i) = RecoveredSparse(ds, ss, segs, i)
    BY <2>1, <2>2 DEF RecoveredSparse
  <2>4. CASE Above(ds, from, i) = {}
    <3>1. RecoveredDense(ds, t, i) = Newest(t, "dense", i) /\ RecoveredDense(ds, segs, i) = Newest(segs, "dense", i)
      BY <2>4 DEF RecoveredDense, NewestOf
    <3>2. Newest(t, "dense", i).seq <= from /\ Newest(segs, "dense", i).seq <= from
      BY <1>0, NewestBounded
    <3>3. RecoveredDense(ds, t, i) \in Entry /\ RecoveredDense(ds, segs, i) \in Entry
      BY DenseFacts
    <3>4. Newest(t, "dense", i).seq \in Nat /\ Newest(segs, "dense", i).seq \in Nat
      BY <3>1, <3>3 DEF Entry
    <3>5. ~(Newest(t, "dense", i).seq > from) /\ ~(Newest(segs, "dense", i).seq > from)
      BY <1>0, <3>2, <3>4
    <3> QED BY <2>3, <3>1, <3>5
  <2>5. CASE Above(ds, from, i) # {}
    <3>1. RecoveredDense(ds, t, i) = RecoveredDense(ds, segs, i)
      BY <2>5 DEF RecoveredDense, NewestOf
    <3> QED BY <2>3, <3>1
  <2> QED BY <2>4, <2>5
<1>2. FieldsClean(ds, ss, segs) => FieldsClean(ds, ss, t)
  BY <1>1 DEF FieldsClean
<1>3. d \in Memory /\ e \in Memory
  BY ReplayedType
<1>4. e.last = d.last
  BY DEF Replayed
<1>5. ASSUME NEW i \in Id
      PROVE  /\ e.dense[i].val = d.dense[i].val
             /\ e.dense[i].seq > from \/ d.dense[i].seq > from => e.dense[i] = d.dense[i]
             /\ e.pending[i] = d.pending[i]
             /\ e.sparse[i] = d.sparse[i]
  <2>1. e.dense[i] = RecoveredDense(ds, t, i) /\ e.pending[i] = RecoveredSparse(ds, ss, t, i).pending
    BY ReplayedAt
  <2>2. d.dense[i] = RecoveredDense(ds, segs, i) /\ d.pending[i] = RecoveredSparse(ds, ss, segs, i).pending
    BY ReplayedAt
  <2>3. /\ d.sparse[i] = IF RecoveredDense(ds, segs, i).val # None THEN RecoveredSparse(ds, ss, segs, i).val ELSE None
        /\ e.sparse[i] = IF RecoveredDense(ds, t, i).val # None THEN RecoveredSparse(ds, ss, t, i).val ELSE None
    BY DEF Replayed, Live
  <2> HIDE DEF d, e, from
  <2> QED BY <1>1, <2>1, <2>2, <2>3
<1> HIDE DEF d, e, from
<1>6. e.pending = d.pending /\ e.sparse = d.sparse
  BY <1>3, <1>5 DEF Memory
<1>7. Agrees(e, d, from)
  BY <1>4, <1>5, <1>6 DEF Agrees
<1> QED BY <1>2, <1>6, <1>7 DEF d, e, from

LEMMA AgreesBoth ==
  ASSUME NEW m, NEW d, NEW e, NEW from, Agrees(m, d, from), Agrees(e, d, from)
  PROVE  Agrees(m, e, from)
<1>1. ASSUME NEW i \in Id
      PROVE  /\ m.dense[i].val = e.dense[i].val
             /\ m.dense[i].seq > from \/ e.dense[i].seq > from => m.dense[i] = e.dense[i]
  <2>1. /\ m.dense[i].val = d.dense[i].val /\ e.dense[i].val = d.dense[i].val
        /\ m.dense[i].seq > from \/ d.dense[i].seq > from => m.dense[i] = d.dense[i]
        /\ e.dense[i].seq > from \/ d.dense[i].seq > from => e.dense[i] = d.dense[i]
    BY DEF Agrees
  <2>2. ASSUME m.dense[i].seq > from PROVE m.dense[i] = e.dense[i]
    BY <2>1, <2>2
  <2>3. ASSUME e.dense[i].seq > from PROVE m.dense[i] = e.dense[i]
    BY <2>1, <2>3
  <2> QED BY <2>1, <2>2, <2>3
<1>2. m.last = e.last /\ m.sparse = e.sparse
  BY DEF Agrees
<1> QED BY <1>1, <1>2 DEF Agrees

-----------------------------------------------------------------------------
(***************************************************************************)
(* The types of the files, and what an append leaves.                      *)
(***************************************************************************)
LEMMA FilesOf ==
  ASSUME NEW dlog \in DenseLog, NEW slog \in SparseLog, NEW segs \in Seq(Segment)
  PROVE  /\ Files(Records(Accepted(dlog)), Records(Accepted(slog)), segs)
         /\ Recovery(dlog, slog, segs) \in Memory
         /\ Recovery(Accepted(dlog), slog, segs) = Recovery(dlog, slog, segs)
         /\ Recovery(dlog, Accepted(slog), segs) = Recovery(dlog, slog, segs)
<1>1. Accepted(dlog) \in DenseLog /\ Accepted(Accepted(dlog)) = Accepted(dlog)
  BY AcceptedFacts, AcceptedTwice DEF DenseLog
<1>2. Accepted(slog) \in SparseLog /\ Accepted(Accepted(slog)) = Accepted(slog)
  BY AcceptedFacts, AcceptedTwice DEF SparseLog
<1>3. Records(Accepted(dlog)) \subseteq DenseRecord
  BY <1>1, RecordTypes DEF DenseLog
<1>4. Records(Accepted(slog)) \subseteq SparseRecord
  BY <1>2, RecordTypes DEF SparseLog
<1>5. Files(Records(Accepted(dlog)), Records(Accepted(slog)), segs)
  BY <1>3, <1>4 DEF Files
<1>6. Recovery(dlog, slog, segs) \in Memory
  BY <1>5, ReplayedType DEF Recovery
<1> QED BY <1>1, <1>2, <1>5, <1>6 DEF Recovery

LEMMA EmptyMemory ==
  EmptyMem \in Memory /\ Within(EmptyMem)
<1>1. NoEntries \in [Id -> Entry] /\ NoEntries \in [Id -> SparseEntry] /\ \A i \in Id : NoEntries[i] = NoEntry
      /\ NoEntry.seq = 0 /\ NoEntry.val = None
  BY EntryTypes
<1>2. [i \in Id |-> None] \in [Id -> Sparse \cup {None}] /\ 0 \in 0..MaxSequence
  BY StoreAssumption
<1>3. EmptyMem.dense = NoEntries /\ EmptyMem.last = 0
  BY DEF EmptyMem
<1>4. EmptyMem \in Memory
  BY <1>1, <1>2 DEF EmptyMem, Memory
<1>5. Within(EmptyMem)
  BY <1>1, <1>3 DEF Within
<1> QED BY <1>4, <1>5

\* What a recovery restores is within its bounds and agrees with the segments.
LEMMA RestoredWithin ==
  ASSUME NEW ds, NEW ss, NEW segs, Files(ds, ss, segs), SegmentsBounded(segs)
  PROVE  LET m == Replayed(ds, ss, segs)
         IN  Within(m) /\ Segmented(segs, m.dense) /\ CheckpointSequence(segs) <= m.last
<1> DEFINE m == Replayed(ds, ss, segs)
           from == CheckpointSequence(segs)
<1>0. segs \in Seq(Segment) /\ ds \in SUBSET DenseRecord /\ from \in Nat
  BY CheckpointType DEF Files
<1>1. from <= m.last /\ m.last \in Nat /\ \A r \in ds : r.seq <= m.last
  <2>1. m.last \in 0..MaxSequence /\ m.last >= from /\ \A r \in ds \cup ss : r.seq <= m.last
    BY LastFacts
  <2> HIDE DEF m
  <2> QED BY <1>0, <2>1, StoreAssumption
<1>2. ASSUME NEW i \in Id
      PROVE  /\ m.dense[i].seq <= m.last /\ (m.dense[i].val # None => m.dense[i].seq > 0)
             /\ m.dense[i].seq <= from => m.dense[i].val = Newest(segs, "dense", i).val
  <2> DEFINE a == Above(ds, from, i)
             d == RecoveredDense(ds, segs, i)
  <2>1. m.dense[i] = d
    BY ReplayedAt
  <2>2. /\ d \in Entry /\ (d.val # None => d.seq > 0)
        /\ a = {} => d = Newest(segs, "dense", i)
        /\ a # {} => d.seq > from
    BY DenseFacts
  <2>a. a # {} => \E r \in a : d = State(r)
    BY DenseFacts
  <2>3. d.seq \in Nat
    BY <2>2 DEF Entry
  <2>4. Newest(segs, "dense", i).seq <= from
    BY <1>0, NewestBounded
  <2>5. a \subseteq ds
    BY DEF Above
  <2> HIDE DEF a, d, m
  <2>6. CASE a = {}
    <3>1. d.seq <= from /\ from <= m.last
      BY <1>1, <2>2, <2>4, <2>6
    <3> QED BY <1>0, <1>1, <2>1, <2>2, <2>3, <2>6, <3>1
  <2>7. CASE a # {}
    <3>1. PICK r \in a : d = State(r)
      BY <2>a, <2>7
    <3>2. d.seq = r.seq /\ r.seq <= m.last
      BY <1>1, <2>5, <3>1 DEF State
    <3>3. d.seq > from
      BY <2>2, <2>7
    <3>4. ~(d.seq <= from)
      BY <1>0, <2>3, <3>3
    <3> QED BY <2>1, <2>2, <3>2, <3>4
  <2> QED BY <2>6, <2>7
<1> HIDE DEF m
<1> QED BY <1>1, <1>2 DEF Within, Segmented, m

\* A call that is being written.
LEMMA WriteForms ==
  ASSUME TypeOK, pc \in {"append", "apply"}
  PROVE  /\ \/ call.kind = "dense" /\ Fits(mem.last, call.muts)
            \/ /\ call.kind = "sparse" /\ mem.last + 1 <= MaxSequence /\ Len(call.muts) = 1
               /\ call.muts[1].id \in Id /\ call.muts[1].val \in Sparse
         /\ mem \in Memory /\ mem.last \in 0..MaxSequence
<1>1. IsWrite(call) /\ mem.last + Len(call.muts) <= MaxSequence /\ mem \in Memory
  BY DEF TypeOK
<1>2. mem.last \in 0..MaxSequence
  BY <1>1 DEF Memory
<1>3. CASE call.kind = "dense" /\ call.muts \in DenseCalls
  BY <1>1, <1>2, <1>3 DEF Fits
<1>4. CASE call.kind = "sparse" /\ call.muts \in SparseCalls
  <2>1. PICK i \in Id, s \in Sparse : call.muts = <<[id |-> i, val |-> s]>>
    BY <1>4 DEF SparseCalls
  <2>2. Len(call.muts) = 1 /\ call.muts[1].id = i /\ call.muts[1].val = s
    BY <2>1
  <2> QED BY <1>1, <1>2, <1>4, <2>2
<1> QED BY <1>1, <1>3, <1>4 DEF IsWrite

LEMMA EnvelopeForms ==
  ASSUME TypeOK, pc = "append"
  PROVE  /\ Envelope = EnvelopeOf(mem.last, call.muts) /\ Envelope # Torn
         /\ call.kind = "dense" => Envelope \in Seq(DenseRecord)
         /\ call.kind = "sparse" =>
              /\ Envelope \in Seq(SparseRecord)
              /\ Range(Envelope) = {[seq |-> mem.last + 1, id |-> call.muts[1].id, val |-> call.muts[1].val]}
              /\ Len(Envelope) = 1 /\ Envelope[1].seq = mem.last + 1
<1>1. Envelope = EnvelopeOf(mem.last, call.muts)
  BY DEF Envelope, EnvelopeOf
<1>2. CASE call.kind = "dense"
  <2>1. Fits(mem.last, call.muts) /\ mem.last \in 0..MaxSequence
    BY <1>2, WriteForms
  <2>2. EnvelopeOf(mem.last, call.muts) \in Seq(DenseRecord) /\ EnvelopeOf(mem.last, call.muts) # <<>>
    BY <2>1, EnvelopeFacts DEF Fits
  <2> QED BY <1>1, <1>2, <2>2 DEF Torn
<1>3. CASE call.kind = "sparse"
  <2> DEFINE r == [seq |-> mem.last + 1, id |-> call.muts[1].id, val |-> call.muts[1].val]
  <2>1. /\ mem.last + 1 <= MaxSequence /\ Len(call.muts) = 1 /\ mem.last \in 0..MaxSequence
        /\ call.muts[1].id \in Id /\ call.muts[1].val \in Sparse
    BY <1>3, WriteForms
  <2>2. r \in SparseRecord /\ r.seq = mem.last + 1
    BY <2>1, StoreAssumption DEF SparseRecord
  <2>3. Envelope = [n \in 1..1 |-> [seq |-> mem.last + n, id |-> call.muts[n].id, val |-> call.muts[n].val]]
    BY <2>1 DEF Envelope
  <2> HIDE DEF r
  <2>4. Envelope = <<r>>
    BY <2>3 DEF r
  <2>5. <<r>> \in Seq(SparseRecord) /\ <<r>> # <<>> /\ Range(<<r>>) = {r} /\ Len(<<r>>) = 1 /\ <<r>>[1] = r
    BY <2>2 DEF Range
  <2> QED BY <1>1, <1>3, <2>2, <2>4, <2>5 DEF Torn, r
<1>4. call.kind = "dense" \/ call.kind = "sparse"
  BY WriteForms
<1> QED BY <1>2, <1>3, <1>4

LEMMA AppendType ==
  ASSUME NEW S, NEW log \in Seq(S), NEW e \in S
  PROVE  Append(log, e) \in Seq(S) /\ Append(log, e) # <<>>
<1>1. Len(Append(log, e)) = Len(log) + 1 /\ Len(log) \in Nat /\ Append(log, e) \in Seq(S)
  OBVIOUS
<1>2. Len(Append(log, e)) # 0
  BY <1>1
<1> QED BY <1>1, <1>2

LEMMA AppendedForms ==
  ASSUME TypeOK, pc = "append", NEW n \in {"none", "torn", "whole"}, Appended(n)
  PROVE  /\ wal' \in DenseLog /\ sparse_wal' \in SparseLog /\ segments' = segments
         /\ restored' = Recovered'
         /\ n = "none" => wal' = wal /\ sparse_wal' = sparse_wal
         /\ n # "none" => wal' # <<>> \/ sparse_wal' # <<>>
         /\ call.kind = "dense" =>
              /\ sparse_wal' = sparse_wal
              /\ n = "torn" => wal' = Append(wal, Torn)
              /\ n = "whole" => wal' = Append(wal, Envelope)
         /\ call.kind = "sparse" =>
              /\ wal' = wal
              /\ n = "torn" => sparse_wal' = Append(sparse_wal, Torn)
              /\ n = "whole" => sparse_wal' = Append(sparse_wal, Envelope)
<1>0. wal \in DenseLog /\ sparse_wal \in SparseLog
  BY DEF TypeOK
<1>1. wal' = WalAfter(n) /\ sparse_wal' = SparseWalAfter(n) /\ segments' = segments /\ restored' = Recovered'
  BY DEF Appended, Record
<1>2. call.kind = "dense" \/ call.kind = "sparse"
  BY WriteForms
<1>3. CASE call.kind = "dense"
  <2>1. SparseWalAfter(n) = sparse_wal
    BY <1>3 DEF SparseWalAfter
  <2>2. /\ n = "none" => WalAfter(n) = wal
        /\ n = "torn" => WalAfter(n) = Append(wal, Torn)
        /\ n = "whole" => WalAfter(n) = Append(wal, Envelope)
    BY <1>3 DEF WalAfter, Grown
  <2>3. Torn \in Seq(DenseRecord) /\ Envelope \in Seq(DenseRecord)
    BY <1>3, EnvelopeForms DEF Torn
  <2>4. /\ Append(wal, Torn) \in DenseLog /\ Append(wal, Torn) # <<>>
        /\ Append(wal, Envelope) \in DenseLog /\ Append(wal, Envelope) # <<>>
    BY <1>0, <2>3, AppendType DEF DenseLog
  <2> QED BY <1>0, <1>1, <1>3, <2>1, <2>2, <2>4
<1>4. CASE call.kind = "sparse"
  <2>1. WalAfter(n) = wal
    BY <1>4 DEF WalAfter
  <2>2. /\ n = "none" => SparseWalAfter(n) = sparse_wal
        /\ n = "torn" => SparseWalAfter(n) = Append(sparse_wal, Torn)
        /\ n = "whole" => SparseWalAfter(n) = Append(sparse_wal, Envelope)
    BY <1>4 DEF SparseWalAfter, Grown
  <2>3. Torn \in Seq(SparseRecord) /\ Envelope \in Seq(SparseRecord)
    BY <1>4, EnvelopeForms DEF Torn
  <2>4. /\ Append(sparse_wal, Torn) \in SparseLog /\ Append(sparse_wal, Torn) # <<>>
        /\ Append(sparse_wal, Envelope) \in SparseLog /\ Append(sparse_wal, Envelope) # <<>>
    BY <1>0, <2>3, AppendType DEF SparseLog
  <2> QED BY <1>0, <1>1, <1>4, <2>1, <2>2, <2>4
<1> QED BY <1>2, <1>3, <1>4

-----------------------------------------------------------------------------
(***************************************************************************)
(* What holds after any faults: every step keeps AnyFaultInv.              *)
(***************************************************************************)
LEMMA InitAnyFault == Init => AnyFaultInv
<1> SUFFICES ASSUME Init PROVE AnyFaultInv
  OBVIOUS
<1> USE DEF Init
<1>1. wal \in DenseLog /\ sparse_wal \in SparseLog /\ segments \in Seq(Segment)
  BY DEF DenseLog, SparseLog
<1>2. EmptyMem \in Memory /\ Within(EmptyMem)
  BY EmptyMemory
<1>3. Recovered = EmptyMem
  <2>1. Recovered = Replayed({}, {}, <<>>)
    BY EmptyLog DEF Recovered, Recovery
  <2>2. Files({}, {}, <<>>)
    BY DEF Files
  <2>3. CheckpointSequence(<<>>) = 0
    BY DEF CheckpointSequence
  <2>4. /\ Replayed({}, {}, <<>>).last = 0
        /\ \A i \in Id : /\ RecoveredDense({}, <<>>, i) = Newest(<<>>, "dense", i)
                         /\ RecoveredSparse({}, {}, <<>>, i) =
                              [val |-> Newest(<<>>, "sparse", i).val, pending |-> NoEntry]
    BY <2>2, <2>3, Covered
  <2>5. \A i \in Id : /\ RecoveredDense({}, <<>>, i) = NoEntry
                      /\ RecoveredSparse({}, {}, <<>>, i) = [val |-> None, pending |-> NoEntry]
    BY <2>4, NoSegments, EntryTypes
  <2> DEFINE m == Replayed({}, {}, <<>>)
  <2>6. m \in Memory
    BY <2>2, ReplayedType
  <2>7. ASSUME NEW i \in Id
        PROVE  m.dense[i] = EmptyMem.dense[i] /\ m.sparse[i] = EmptyMem.sparse[i]
               /\ m.pending[i] = EmptyMem.pending[i]
    <3>1. RecoveredDense({}, <<>>, i) = NoEntry
          /\ RecoveredSparse({}, {}, <<>>, i) = [val |-> None, pending |-> NoEntry] /\ NoEntry.val = None
      BY <2>5, EntryTypes
    <3>2. m.dense[i] = NoEntry /\ m.sparse[i] = None /\ m.pending[i] = NoEntry
      BY <3>1 DEF Replayed, Live
    <3>3. EmptyMem.dense[i] = NoEntry /\ EmptyMem.sparse[i] = None /\ EmptyMem.pending[i] = NoEntry
      BY DEF EmptyMem, NoEntries
    <3> QED BY <3>2, <3>3
  <2>8. m.last = EmptyMem.last
    BY <2>4 DEF EmptyMem
  <2> HIDE DEF m
  <2>9. m = EmptyMem
    BY <1>2, <2>6, <2>7, <2>8, SameMemory
  <2> QED BY <2>1, <2>9 DEF m
<1>4. TypeOK
  BY <1>1, <1>2, <1>3 DEF TypeOK
<1>5. SegmentsBounded(segments)
  BY DEF SegmentsBounded
<1>6. CheckpointInv
  BY <1>2, <1>5 DEF CheckpointInv, IsOpen
<1> QED BY <1>4, <1>6 DEF AnyFaultInv, JobInv, RepairInv, Repairing

LEMMA DurableForms ==
  ASSUME TypeOK
  PROVE  /\ SparseFile \in SparseLog /\ Durable \in Memory
         /\ Files(Records(Accepted(wal)), Records(Accepted(SparseFile)), segments)
         /\ pc # "rewrite_sparse" => SparseFile = sparse_wal /\ Durable = restored
         /\ restored \in Memory
<1>1. wal \in DenseLog /\ sparse_wal \in SparseLog /\ segments \in Seq(Segment) /\ restored = Recovered
  BY DEF TypeOK
<1>2. SparseFile \in SparseLog
  BY <1>1 DEF TypeOK, SparseFile
<1>3. Durable \in Memory /\ Files(Records(Accepted(wal)), Records(Accepted(SparseFile)), segments)
  BY <1>1, <1>2, FilesOf DEF Durable
<1>4. restored \in Memory
  BY <1>1, FilesOf DEF Recovered
<1> QED BY <1>1, <1>2, <1>3, <1>4 DEF SparseFile, Durable, Recovered

LEMMA OpenAnyFault ==
  ASSUME AnyFaultInv, Open
  PROVE  AnyFaultInv'
<1>0. TypeOK /\ CheckpointInv
  BY DEF AnyFaultInv
<1>1. /\ pc = "down" /\ mem' = restored /\ pc' = "repair" /\ call' = NoCall /\ blocked' = FALSE /\ job' = NoJob
      /\ wal' = wal /\ sparse_wal' = sparse_wal /\ segments' = segments /\ restored' = restored
  BY DEF Open, disk
<1>2. restored \in Memory /\ restored = Recovered
  BY <1>0, DurableForms DEF TypeOK
<1>3. Recovered' = Recovered
  BY <1>1 DEF Recovered
<1>4. TypeOK'
  BY <1>0, <1>1, <1>2, <1>3 DEF TypeOK
<1>5. RepairInv'
  <2>1. Durable' = Recovered
    BY <1>1 DEF Durable, SparseFile, Recovered
  <2> QED BY <1>1, <1>2, <2>1 DEF RepairInv
<1>6. CheckpointInv'
  <2>1. SegmentsBounded(segments) /\ segments \in Seq(Segment)
    BY <1>0 DEF CheckpointInv, TypeOK
  <2>2. Within(restored) /\ Segmented(segments, restored.dense) /\ CheckpointSequence(segments) <= restored.last
    <3>1. Files(Records(Accepted(wal)), Records(Accepted(sparse_wal)), segments)
      BY <1>0, FilesOf DEF TypeOK
    <3> QED BY <1>2, <2>1, <3>1, RestoredWithin DEF Recovered, Recovery
  <2> QED BY <1>1, <2>1, <2>2 DEF CheckpointInv, IsOpen
<1> QED BY <1>1, <1>4, <1>5, <1>6 DEF AnyFaultInv, JobInv

\* With nothing to replay a recovery resumes at the checkpoint.
LEMMA EmptyLogs ==
  ASSUME NEW segs \in Seq(Segment)
  PROVE  /\ Recovery(<<>>, <<>>, segs).last = CheckpointSequence(segs)
         /\ \A i \in Id : Recovery(<<>>, <<>>, segs).dense[i] = Newest(segs, "dense", i)
<1>1. Recovery(<<>>, <<>>, segs) = Replayed({}, {}, segs)
  BY EmptyLog DEF Recovery
<1>2. Files({}, {}, segs)
  BY DEF Files
<1>3. /\ Replayed({}, {}, segs).last = CheckpointSequence(segs)
      /\ \A i \in Id : RecoveredDense({}, segs, i) = Newest(segs, "dense", i)
  BY <1>2, Covered
<1> QED BY <1>1, <1>3, ReplayedAt

LEMMA RepairAnyFault ==
  ASSUME AnyFaultInv, RepairWal \/ EmptySparseWal \/ RewriteSparseWal
  PROVE  AnyFaultInv' /\ Durable' = Durable /\ mem' = mem
<1>0. TypeOK /\ CheckpointInv /\ RepairInv /\ wal \in DenseLog /\ sparse_wal \in SparseLog
      /\ segments \in Seq(Segment)
  BY DEF AnyFaultInv, TypeOK
<1>1. Repairing /\ segments' = segments /\ mem' = mem /\ blocked' = blocked /\ job' = job
      /\ restored' = Recovered' /\ pc # "down" /\ pc # "idle"
  BY DEF RepairWal, EmptySparseWal, RewriteSparseWal, Repairing, Record
<1>2. mem = Durable /\ job = NoJob
  BY <1>0, <1>1 DEF RepairInv, IsOpen, Repairing
<1>3. ASSUME wal' \in DenseLog, sparse_wal' \in SparseLog, Durable' = Durable,
             \/ pc' \in {"repair_sparse", "idle"}
             \/ pc' = "rewrite_sparse" /\ call'.records \in SparseLog /\ Accepted(call'.records) = call'.records
      PROVE  AnyFaultInv'
  <2>1. TypeOK'
    <3>1. blocked = FALSE /\ mem \in Memory
      BY <1>0, <1>1 DEF TypeOK
    <3> QED BY <1>0, <1>1, <1>3, <3>1 DEF TypeOK
  <2>2. RepairInv'
    BY <1>1, <1>2, <1>3 DEF RepairInv
  <2>3. SegmentsBounded(segments) /\ Within(mem) /\ CheckpointSequence(segments) <= mem.last
        /\ Segmented(segments, mem.dense)
    BY <1>0, <1>1 DEF CheckpointInv
  <2>4. pc' = "idle" /\ wal' = <<>> /\ sparse_wal' = <<>> => mem.last = CheckpointSequence(segments)
    <3> SUFFICES ASSUME pc' = "idle" /\ wal' = <<>> /\ sparse_wal' = <<>>
                 PROVE  mem.last = CheckpointSequence(segments)
      OBVIOUS
    <3>1. Durable' = Recovery(<<>>, <<>>, segments)
      BY <1>1 DEF Durable, SparseFile
    <3> QED BY <1>0, <1>2, <1>3, <3>1, EmptyLogs
  <2>5. CheckpointInv'
    BY <1>1, <1>3, <2>3, <2>4 DEF CheckpointInv, IsOpen
  <2> QED BY <1>1, <1>2, <2>1, <2>2, <2>5 DEF AnyFaultInv, JobInv
<1>4. CASE RepairWal
  <2>1. pc = "repair" /\ wal' = Accepted(wal) /\ sparse_wal' = sparse_wal /\ pc' \in {"repair_sparse", "idle"}
    BY <1>4 DEF RepairWal
  <2>2. Accepted(wal) \in DenseLog
    BY <1>0, AcceptedFacts DEF DenseLog
  <2>3. Durable' = Recovery(Accepted(wal), sparse_wal, segments) /\ Durable = Recovery(wal, sparse_wal, segments)
    BY <1>1, <2>1 DEF Durable, SparseFile
  <2>4. Durable' = Durable
    BY <1>0, <2>3, FilesOf
  <2> QED BY <1>0, <1>1, <1>3, <2>1, <2>2, <2>4
<1>5. CASE EmptySparseWal
  <2>1. /\ pc = "repair_sparse" /\ wal' = wal /\ sparse_wal' = <<>> /\ pc' = "rewrite_sparse"
        /\ call'.records = Accepted(sparse_wal)
    BY <1>5 DEF EmptySparseWal
  <2>2. Accepted(sparse_wal) \in SparseLog /\ Accepted(Accepted(sparse_wal)) = Accepted(sparse_wal)
        /\ <<>> \in SparseLog
    BY <1>0, AcceptedFacts, AcceptedTwice DEF SparseLog
  <2>3. Durable' = Recovery(wal, Accepted(sparse_wal), segments) /\ Durable = Recovery(wal, sparse_wal, segments)
    BY <1>1, <2>1 DEF Durable, SparseFile
  <2>4. Durable' = Durable
    BY <1>0, <2>3, FilesOf
  <2> QED BY <1>0, <1>1, <1>3, <2>1, <2>2, <2>4
<1>6. CASE RewriteSparseWal
  <2>1. pc = "rewrite_sparse" /\ wal' = wal /\ sparse_wal' = call.records /\ pc' = "idle"
    BY <1>6 DEF RewriteSparseWal
  <2>2. call.records \in SparseLog
    BY <1>0, <2>1 DEF TypeOK
  <2>3. Durable' = Durable
    BY <1>1, <2>1 DEF Durable, SparseFile
  <2> QED BY <1>0, <1>1, <1>3, <2>1, <2>2, <2>3
<1> QED BY <1>4, <1>5, <1>6

\* A step of an open collection, from what it does to the files and to memory.
LEMMA OpenStep ==
  ASSUME AnyFaultInv, IsOpen', pc' \in {"idle", "append", "apply", "publish", "rotate", "rotate_sparse"},
         wal' \in DenseLog, sparse_wal' \in SparseLog, segments' \in Seq(Segment), restored' = Recovered',
         mem' \in Memory, blocked' \in BOOLEAN, blocked' => pc' = "idle", JobInv',
         pc' \in {"append", "apply"} => IsWrite(call') /\ mem'.last + Len(call'.muts) <= MaxSequence,
         SegmentsBounded(segments'), Within(mem'), CheckpointSequence(segments') <= mem'.last,
         Segmented(segments', mem'.dense),
         pc' \in {"rotate", "rotate_sparse"} => segments' # <<>> /\ mem'.last = CheckpointSequence(segments'),
         wal' = <<>> /\ sparse_wal' = <<>> => mem'.last = CheckpointSequence(segments'),
         pc' = "apply" => wal' # <<>> \/ sparse_wal' # <<>>
  PROVE  AnyFaultInv'
<1>1. TypeOK'
  BY DEF TypeOK
<1>2. RepairInv'
  BY DEF RepairInv, Repairing, IsOpen
<1>3. CheckpointInv'
  BY DEF CheckpointInv
<1> QED BY <1>1, <1>2, <1>3 DEF AnyFaultInv

LEMMA OpenFacts ==
  ASSUME AnyFaultInv, IsOpen
  PROVE  /\ wal \in DenseLog /\ sparse_wal \in SparseLog /\ segments \in Seq(Segment)
         /\ restored = Recovered /\ mem \in Memory /\ blocked \in BOOLEAN /\ (blocked => pc = "idle") /\ JobInv
         /\ SegmentsBounded(segments) /\ Within(mem) /\ CheckpointSequence(segments) <= mem.last
         /\ Segmented(segments, mem.dense) /\ mem.last \in 0..MaxSequence
         /\ pc \in {"rotate", "rotate_sparse"} => segments # <<>> /\ mem.last = CheckpointSequence(segments)
         /\ wal = <<>> /\ sparse_wal = <<>> => mem.last = CheckpointSequence(segments)
         /\ pc = "apply" => wal # <<>> \/ sparse_wal # <<>>
<1>1. TypeOK /\ JobInv /\ CheckpointInv
  BY DEF AnyFaultInv
<1>2. pc # "down"
  BY DEF IsOpen
<1>3. /\ wal \in DenseLog /\ sparse_wal \in SparseLog /\ segments \in Seq(Segment)
      /\ restored = Recovered /\ mem \in Memory /\ blocked \in BOOLEAN /\ (blocked => pc = "idle")
  BY <1>1 DEF TypeOK
<1>4. mem.last \in 0..MaxSequence
  BY <1>3 DEF Memory
<1> QED BY <1>1, <1>2, <1>3, <1>4 DEF CheckpointInv

\* Steps that change neither the files nor memory.
LEMMA QuietAnyFault ==
  ASSUME AnyFaultInv,
         \/ \E muts \in DenseCalls : WriteDense(muts)
         \/ \E i \in Id, s \in Sparse : WriteSparse(i, s)
         \/ Flush \/ BeginCompaction \/ BuildCompaction
  PROVE  /\ AnyFaultInv' /\ IsOpen /\ IsOpen' /\ blocked' = blocked /\ UNCHANGED <<disk, mem>>
         /\ Durable' = Durable
<1>1. ASSUME NEW muts \in DenseCalls, WriteDense(muts)
      PROVE  AnyFaultInv' /\ IsOpen /\ IsOpen' /\ blocked' = blocked /\ UNCHANGED <<disk, mem>>
  <2>1. /\ pc = "idle" /\ ~blocked /\ mem.last + Len(muts) <= MaxSequence
        /\ call' = [kind |-> "dense", muts |-> muts] /\ pc' = "append" /\ wal' = wal /\ sparse_wal' = sparse_wal
        /\ segments' = segments /\ restored' = restored /\ mem' = mem /\ blocked' = blocked /\ job' = job
        /\ disk' = disk
    BY <1>1 DEF WriteDense, Ready, disk
  <2>2. IsOpen /\ IsOpen'
    BY <2>1 DEF IsOpen
  <2>3. IsWrite(call') /\ call'.muts = muts
    BY <2>1 DEF IsWrite
  <2>4. restored' = Recovered' /\ JobInv'
    BY <2>1, <2>2, OpenFacts DEF Recovered, JobInv
  <2> QED BY <2>1, <2>2, <2>3, <2>4, OpenFacts, OpenStep
<1>2. ASSUME NEW i \in Id, NEW s \in Sparse, WriteSparse(i, s)
      PROVE  AnyFaultInv' /\ IsOpen /\ IsOpen' /\ blocked' = blocked /\ UNCHANGED <<disk, mem>>
  <2> DEFINE muts == <<[id |-> i, val |-> s]>>
  <2>1. /\ pc = "idle" /\ ~blocked /\ mem.last < MaxSequence
        /\ call' = [kind |-> "sparse", muts |-> muts] /\ pc' = "append" /\ wal' = wal /\ sparse_wal' = sparse_wal
        /\ segments' = segments /\ restored' = restored /\ mem' = mem /\ blocked' = blocked /\ job' = job
        /\ disk' = disk
    BY <1>2 DEF WriteSparse, Ready, disk
  <2>2. IsOpen /\ IsOpen'
    BY <2>1 DEF IsOpen
  <2>3. muts \in SparseCalls /\ Len(muts) = 1
    BY DEF SparseCalls
  <2> HIDE DEF muts
  <2>4. IsWrite(call') /\ call'.muts = muts
    BY <2>1, <2>3 DEF IsWrite
  <2>5. restored' = Recovered' /\ JobInv'
    BY <2>1, <2>2, OpenFacts DEF Recovered, JobInv
  <2>6. mem'.last + Len(call'.muts) <= MaxSequence
    <3>1. mem.last \in 0..MaxSequence
      BY <2>2, OpenFacts
    <3>2. mem.last + Len(muts) <= MaxSequence
      BY <2>1, <2>3, <3>1, StoreAssumption
    <3> QED BY <2>1, <2>4, <3>2
  <2> QED BY <2>1, <2>2, <2>4, <2>5, <2>6, OpenFacts, OpenStep
<1>3. ASSUME Flush
      PROVE  AnyFaultInv' /\ IsOpen /\ IsOpen' /\ blocked' = blocked /\ UNCHANGED <<disk, mem>>
  <2>1. /\ pc = "idle" /\ ~blocked /\ pc' \in {"rotate", "publish", "idle"} /\ wal' = wal /\ sparse_wal' = sparse_wal
        /\ segments' = segments /\ restored' = restored /\ mem' = mem /\ blocked' = blocked /\ job' = job
        /\ disk' = disk /\ (pc' = "rotate" => UpToDate)
    BY <1>3 DEF Flush, Ready, disk
  <2>2. IsOpen /\ IsOpen'
    BY <2>1 DEF IsOpen
  <2>3. restored' = Recovered' /\ JobInv'
    BY <2>1, <2>2, OpenFacts DEF Recovered, JobInv
  <2>4. pc' = "rotate" => segments' # <<>> /\ mem'.last = CheckpointSequence(segments')
    BY <2>1 DEF UpToDate
  <2>5. /\ pc' \in {"idle", "append", "apply", "publish", "rotate", "rotate_sparse"}
        /\ pc' \notin {"append", "apply", "rotate_sparse"} /\ ~blocked'
    BY <2>1
  <2>6. /\ pc' \in {"rotate", "rotate_sparse"} => segments' # <<>> /\ mem'.last = CheckpointSequence(segments')
        /\ pc' \in {"append", "apply"} => IsWrite(call') /\ mem'.last + Len(call'.muts) <= MaxSequence
        /\ pc' = "apply" => wal' # <<>> \/ sparse_wal' # <<>>
        /\ blocked' \in BOOLEAN /\ (blocked' => pc' = "idle")
    BY <2>1, <2>2, <2>4, <2>5, OpenFacts
  <2>7. /\ wal' \in DenseLog /\ sparse_wal' \in SparseLog /\ segments' \in Seq(Segment) /\ mem' \in Memory
        /\ SegmentsBounded(segments') /\ Within(mem') /\ CheckpointSequence(segments') <= mem'.last
        /\ Segmented(segments', mem'.dense)
        /\ wal' = <<>> /\ sparse_wal' = <<>> => mem'.last = CheckpointSequence(segments')
    BY <2>1, <2>2, OpenFacts
  <2>8. AnyFaultInv'
    BY <2>2, <2>3, <2>5, <2>6, <2>7, OpenStep
  <2> QED BY <2>1, <2>2, <2>8
<1>4. ASSUME BeginCompaction \/ BuildCompaction
      PROVE  AnyFaultInv' /\ IsOpen /\ IsOpen' /\ blocked' = blocked /\ UNCHANGED <<disk, mem>>
  <2>1. /\ pc' = pc /\ wal' = wal /\ sparse_wal' = sparse_wal /\ call' = call
        /\ segments' = segments /\ restored' = restored /\ mem' = mem /\ blocked' = blocked
        /\ disk' = disk
    BY <1>4 DEF BeginCompaction, BuildCompaction, disk
  <2>2. IsOpen
    <3>1. CASE BeginCompaction
      BY <3>1 DEF BeginCompaction, IsOpen
    <3>2. CASE BuildCompaction
      <4>1. job # NoJob
        BY <3>2 DEF BuildCompaction, NoJob
      <4> QED BY <4>1 DEF AnyFaultInv, RepairInv
    <3> QED BY <1>4, <3>1, <3>2
  <2>3. IsOpen'
    BY <2>1, <2>2 DEF IsOpen
  <2>4. restored' = Recovered'
    BY <2>1, <2>2, OpenFacts DEF Recovered
  <2>5. JobInv'
    <3>1. CASE BeginCompaction
      <4>1. job'.stage = "captured" /\ job'.inputs = segments /\ segments # <<>>
        <5>1. Len(segments) > 1
          BY <3>1 DEF BeginCompaction
        <5> QED BY <3>1, <5>1 DEF BeginCompaction
      <4>2. Captured(segments)
        BY <2>2, <4>1, OpenFacts DEF Captured
      <4> QED BY <4>1, <4>2 DEF JobInv
    <3>2. CASE BuildCompaction
      <4>1. /\ job.stage = "captured" /\ job'.stage = "built" /\ job'.inputs = job.inputs
            /\ job'.output = CompactionOutput(job.inputs)
        BY <3>2 DEF BuildCompaction
      <4>2. Captured(job.inputs)
        BY <2>2, <4>1, OpenFacts DEF JobInv, NoJob
      <4> QED BY <4>1, <4>2 DEF JobInv
    <3> QED BY <1>4, <3>1, <3>2
  <2>6. pc \in {"append", "apply"} => IsWrite(call) /\ mem.last + Len(call.muts) <= MaxSequence
    BY DEF AnyFaultInv, TypeOK
  <2>7. pc \in {"idle", "append", "apply", "publish", "rotate", "rotate_sparse"}
    BY <2>2 DEF AnyFaultInv, TypeOK, IsOpen
  <2> QED BY <2>1, <2>2, <2>3, <2>4, <2>5, <2>6, <2>7, OpenFacts, OpenStep
<1>5. AnyFaultInv' /\ IsOpen /\ IsOpen' /\ blocked' = blocked /\ UNCHANGED <<disk, mem>>
  BY <1>1, <1>2, <1>3, <1>4
<1>6. Durable' = Durable
  BY <1>5 DEF disk, IsOpen, Durable, SparseFile
<1> QED BY <1>5, <1>6

\* The process is gone; the files are what they are.
LEMMA DownStep ==
  ASSUME AnyFaultInv, pc' = "down", mem' = EmptyMem, blocked' = FALSE, job' = NoJob,
         wal' \in DenseLog, sparse_wal' \in SparseLog, segments' = segments, restored' = Recovered'
  PROVE  AnyFaultInv'
<1>1. segments \in Seq(Segment) /\ SegmentsBounded(segments)
  BY DEF AnyFaultInv, TypeOK, CheckpointInv
<1>2. EmptyMem \in Memory /\ Within(EmptyMem)
  BY EmptyMemory
<1>3. TypeOK'
  BY <1>1, <1>2 DEF TypeOK
<1>4. CheckpointInv'
  BY <1>1, <1>2 DEF CheckpointInv, IsOpen
<1> QED BY <1>3, <1>4 DEF AnyFaultInv, JobInv, RepairInv, Repairing

LEMMA DownAnyFault ==
  ASSUME AnyFaultInv, Close \/ Crash
  PROVE  AnyFaultInv' /\ ~IsOpen' /\ segments' = segments /\ pc' = "down"
<1>0. TypeOK /\ wal \in DenseLog /\ sparse_wal \in SparseLog /\ restored = Recovered
  BY DEF AnyFaultInv, TypeOK
<1>1. pc' = "down" /\ mem' = EmptyMem /\ blocked' = FALSE /\ job' = NoJob
  BY DEF Close, Crash
<1>2. ASSUME UNCHANGED disk
      PROVE  wal' \in DenseLog /\ sparse_wal' \in SparseLog /\ segments' = segments /\ restored' = Recovered'
  <2>1. wal' = wal /\ sparse_wal' = sparse_wal /\ segments' = segments /\ restored' = restored
    BY <1>2 DEF disk
  <2> QED BY <1>0, <2>1 DEF Recovered
<1>3. ASSUME pc = "append", NEW n \in {"none", "torn", "whole"}, Appended(n)
      PROVE  wal' \in DenseLog /\ sparse_wal' \in SparseLog /\ segments' = segments /\ restored' = Recovered'
  BY <1>0, <1>3, AppendedForms
<1>4. wal' \in DenseLog /\ sparse_wal' \in SparseLog /\ segments' = segments /\ restored' = Recovered'
  <2>1. UNCHANGED disk \/ (pc = "append" /\ \E n \in {"none", "torn", "whole"} : Appended(n))
    BY DEF Close, Crash
  <2> QED BY <1>2, <1>3, <2>1
<1> QED BY <1>1, <1>4, DownStep DEF IsOpen

\* An append leaves the segments and memory alone.
LEMMA AppendAnyFault ==
  ASSUME AnyFaultInv, AppendLog \/ AppendRaises
  PROVE  /\ AnyFaultInv' /\ pc = "append" /\ IsOpen' /\ mem' = mem /\ segments' = segments
         /\ \E n \in {"none", "torn", "whole"} : Appended(n) /\ (AppendLog => n = "whole")
<1>0. TypeOK /\ pc = "append" /\ IsOpen
  BY DEF AnyFaultInv, AppendLog, AppendRaises, IsOpen
<1>1. PICK n \in {"none", "torn", "whole"} : Appended(n) /\ (AppendLog => n = "whole")
  <2>1. CASE AppendLog
    BY <2>1 DEF AppendLog
  <2>2. CASE ~AppendLog
    BY <2>2 DEF AppendRaises
  <2> QED BY <2>1, <2>2
<1>2. /\ wal' \in DenseLog /\ sparse_wal' \in SparseLog /\ segments' = segments /\ restored' = Recovered'
      /\ n = "none" => wal' = wal /\ sparse_wal' = sparse_wal
      /\ n # "none" => wal' # <<>> \/ sparse_wal' # <<>>
  BY <1>0, <1>1, AppendedForms
<1>3. /\ mem' = mem /\ job' = job
      /\ \/ AppendLog /\ pc' = "apply" /\ call' = call /\ blocked' = blocked
         \/ pc' = "idle" /\ blocked' \in BOOLEAN
  <2>1. blocked \in BOOLEAN
    BY <1>0 DEF TypeOK
  <2>2. CASE AppendLog
    BY <2>2 DEF AppendLog
  <2>3. CASE AppendRaises
    BY <2>1, <2>3 DEF AppendRaises
  <2> QED BY <2>2, <2>3
<1>4. IsOpen' /\ JobInv'
  BY <1>0, <1>3, OpenFacts DEF IsOpen, JobInv
<1>5. wal' = <<>> /\ sparse_wal' = <<>> => mem'.last = CheckpointSequence(segments')
  BY <1>0, <1>2, <1>3, OpenFacts
<1>6. IsWrite(call) /\ mem.last + Len(call.muts) <= MaxSequence /\ ~blocked
  BY <1>0 DEF TypeOK
<1>7. /\ segments' \in Seq(Segment) /\ mem' \in Memory
      /\ SegmentsBounded(segments') /\ Within(mem') /\ CheckpointSequence(segments') <= mem'.last
      /\ Segmented(segments', mem'.dense)
  BY <1>0, <1>2, <1>3, OpenFacts
<1>8. /\ pc' \in {"idle", "append", "apply", "publish", "rotate", "rotate_sparse"}
      /\ pc' \notin {"append", "rotate", "rotate_sparse"}
      /\ blocked' \in BOOLEAN /\ (blocked' => pc' = "idle")
      /\ pc' \in {"append", "apply"} => IsWrite(call') /\ mem'.last + Len(call'.muts) <= MaxSequence
  <2>1. CASE pc' = "apply" /\ call' = call /\ blocked' = blocked
    <3>1. blocked' = FALSE /\ IsWrite(call') /\ mem'.last + Len(call'.muts) <= MaxSequence
      BY <1>3, <1>6, <2>1, OpenFacts, <1>0
    <3> QED BY <2>1, <3>1
  <2>2. CASE pc' = "idle" /\ blocked' \in BOOLEAN
    BY <2>2
  <2> QED BY <1>3, <2>1, <2>2
<1>9. pc' = "apply" => wal' # <<>> \/ sparse_wal' # <<>>
  BY <1>1, <1>2, <1>3
<1>10. pc' \in {"rotate", "rotate_sparse"} => segments' # <<>> /\ mem'.last = CheckpointSequence(segments')
  BY <1>8
<1>11. AnyFaultInv'
  BY <1>2, <1>4, <1>5, <1>7, <1>8, <1>9, <1>10, OpenStep
<1> QED BY <1>0, <1>1, <1>2, <1>3, <1>4, <1>11

\* What a call makes of memory.
LEMMA AppliedKeeps ==
  ASSUME TypeOK, pc \in {"append", "apply"}, Within(mem), NEW segs \in Seq(Segment),
         CheckpointSequence(segs) <= mem.last, Segmented(segs, mem.dense)
  PROVE  LET a == Applied(mem, call)
         IN  /\ a \in Memory /\ a.last = mem.last + Len(call.muts) /\ Within(a)
             /\ CheckpointSequence(segs) <= a.last /\ Segmented(segs, a.dense)
<1> DEFINE a == Applied(mem, call)
           from == CheckpointSequence(segs)
<1>0. mem \in Memory /\ mem.last \in 0..MaxSequence /\ from \in Nat /\ mem.last \in Nat
  BY WriteForms, CheckpointType, StoreAssumption
<1>1. CASE call.kind = "dense"
  <2> DEFINE muts == call.muts
  <2>1. Fits(mem.last, muts) /\ muts \in DenseCalls /\ mem.last + Len(muts) <= MaxSequence
    BY <1>1, WriteForms DEF Fits
  <2>2. a = AppliedDense(mem, muts)
    BY <1>1 DEF Applied
  <2> HIDE DEF a, muts
  <2>3. /\ a \in Memory /\ a.last = mem.last + Len(muts)
        /\ \A i \in Id : a.dense[i] = IF Touched(muts, i) = {} THEN mem.dense[i]
                                  ELSE [seq |-> mem.last + Max(Touched(muts, i)),
                                        val |-> muts[Max(Touched(muts, i))].val]
    BY <1>0, <2>1, <2>2, AppliedDenseFields
  <2>4. Len(muts) \in Nat
    BY <2>1, DenseCallTypes
  <2> HIDE DEF a, muts, from
  <2>5. ASSUME NEW i \in Id
        PROVE  /\ a.dense[i].seq <= a.last /\ (a.dense[i].val # None => a.dense[i].seq > 0)
               /\ a.dense[i].seq <= from => a.dense[i].val = Newest(segs, "dense", i).val
    <3>1. CASE Touched(muts, i) = {}
      <4>1. a.dense[i] = mem.dense[i]
        BY <2>3, <3>1
      <4>2. /\ mem.dense[i].seq <= mem.last /\ (mem.dense[i].val # None => mem.dense[i].seq > 0)
            /\ mem.dense[i].seq <= from => mem.dense[i].val = Newest(segs, "dense", i).val
        BY DEF Within, Segmented, from
      <4>3. mem.dense[i].seq \in Nat
        BY <1>0 DEF Memory, Entry
      <4> QED BY <1>0, <2>3, <2>4, <4>1, <4>2, <4>3
    <3>2. CASE Touched(muts, i) # {}
      <4> DEFINE n == Max(Touched(muts, i))
      <4>1. n \in 1..Len(muts)
        BY <2>1, <3>2, TouchedFacts
      <4> HIDE DEF n
      <4>a. a.dense[i] = [seq |-> mem.last + n, val |-> muts[n].val]
        BY <2>3, <3>2 DEF n
      <4>2. a.dense[i].seq = mem.last + n
        BY <4>a
      <4>3. from <= mem.last
        BY DEF from
      <4> QED BY <1>0, <2>3, <2>4, <4>1, <4>2, <4>3
    <3> QED BY <3>1, <3>2
  <2>6. from <= a.last
    BY <1>0, <2>3, <2>4 DEF from
  <2> QED BY <2>3, <2>5, <2>6 DEF Within, Segmented, muts, a, from
<1>2. CASE call.kind = "sparse"
  <2>1. /\ mem.last + 1 <= MaxSequence /\ Len(call.muts) = 1
        /\ call.muts[1].id \in Id /\ call.muts[1].val \in Sparse
    BY <1>2, WriteForms
  <2> DEFINE i1 == call.muts[1].id
             s1 == call.muts[1].val
  <2>2. a = AppliedSparse(mem, i1, s1) /\ i1 \in Id /\ s1 \in Sparse
    BY <1>2, <2>1 DEF Applied
  <2> HIDE DEF a, i1, s1
  <2> DEFINE b == AppliedSparse(mem, i1, s1)
  <2>b. /\ b \in Memory /\ b.last = mem.last + 1 /\ b.dense = mem.dense
        /\ \A j \in Id : /\ b.sparse[j] = IF j = i1 THEN s1 ELSE mem.sparse[j]
                         /\ b.pending[j] = IF j = i1 THEN [seq |-> mem.last + 1, val |-> s1] ELSE mem.pending[j]
    BY <1>0, <2>1, <2>2, AppliedSparseFields
  <2>3. a \in Memory /\ a.last = mem.last + 1 /\ a.dense = mem.dense
    BY <2>2, <2>b
  <2> HIDE DEF a
  <2>4. ASSUME NEW i \in Id
        PROVE  a.dense[i].seq <= a.last /\ (a.dense[i].val # None => a.dense[i].seq > 0)
    <3>1. mem.dense[i].seq <= mem.last /\ (mem.dense[i].val # None => mem.dense[i].seq > 0)
      BY DEF Within
    <3>2. mem.dense[i].seq \in Nat
      BY <1>0 DEF Memory, Entry
    <3> QED BY <1>0, <2>3, <3>1, <3>2
  <2>5. Within(a) /\ from <= a.last
    BY <1>0, <2>3, <2>4 DEF Within
  <2> QED BY <2>1, <2>3, <2>5 DEF a
<1> QED BY <1>1, <1>2, WriteForms

LEMMA ApplyAnyFault ==
  ASSUME AnyFaultInv, Apply
  PROVE  /\ AnyFaultInv' /\ IsOpen /\ pc' = "idle" /\ mem' = Applied(mem, call) /\ UNCHANGED disk
         /\ blocked' = blocked
<1>0. TypeOK /\ pc = "apply" /\ IsOpen
  BY DEF AnyFaultInv, Apply, IsOpen
<1>1. /\ mem' = Applied(mem, call) /\ pc' = "idle" /\ disk' = disk /\ wal' = wal /\ sparse_wal' = sparse_wal
      /\ segments' = segments /\ restored' = restored /\ blocked' = blocked /\ job' = job
  BY DEF Apply, Applied, disk
<1>2. /\ mem' \in Memory /\ Within(mem') /\ CheckpointSequence(segments') <= mem'.last
      /\ Segmented(segments', mem'.dense)
  <2>1. segments \in Seq(Segment) /\ Within(mem) /\ CheckpointSequence(segments) <= mem.last
        /\ Segmented(segments, mem.dense)
    BY <1>0, OpenFacts
  <2> QED BY <1>0, <1>1, <2>1, AppliedKeeps
<1>3. IsOpen' /\ JobInv' /\ restored' = Recovered'
  BY <1>0, <1>1, OpenFacts DEF IsOpen, JobInv, Recovered
<1>4. /\ wal' \in DenseLog /\ sparse_wal' \in SparseLog /\ segments' \in Seq(Segment)
      /\ SegmentsBounded(segments') /\ blocked' \in BOOLEAN
      /\ ~(wal' = <<>> /\ sparse_wal' = <<>>)
  BY <1>0, <1>1, OpenFacts
<1>5. AnyFaultInv'
  BY <1>1, <1>2, <1>3, <1>4, OpenStep
<1> QED BY <1>0, <1>1, <1>5

\* Steps of a checkpoint or a compaction: memory serves what it did, and the
\* segments have the state of every point up to the checkpoint.
LEMMA SegmentsStep ==
  ASSUME AnyFaultInv, IsOpen, pc' \in {"idle", "rotate", "rotate_sparse"}, mem' \in Memory,
         mem'.dense = mem.dense, mem'.last = mem.last, blocked' = blocked, blocked => pc' = "idle", JobInv',
         wal' \in {<<>>, wal}, sparse_wal' \in {<<>>, sparse_wal}, restored' = Recovered',
         segments' \in Seq(Segment), SegmentsBounded(segments'), CheckpointSequence(segments') <= mem.last,
         Segmented(segments', mem.dense),
         pc' \in {"rotate", "rotate_sparse"} => segments' # <<>> /\ mem.last = CheckpointSequence(segments'),
         wal' = <<>> /\ sparse_wal' = <<>> => mem.last = CheckpointSequence(segments')
  PROVE  AnyFaultInv'
<1>1. /\ wal \in DenseLog /\ sparse_wal \in SparseLog /\ Within(mem) /\ blocked \in BOOLEAN
      /\ <<>> \in DenseLog /\ <<>> \in SparseLog
  BY OpenFacts DEF DenseLog, SparseLog
<1>2. wal' \in DenseLog /\ sparse_wal' \in SparseLog
  BY <1>1
<1>3. Within(mem')
  BY <1>1 DEF Within
<1>4. IsOpen' /\ pc' \in {"idle", "append", "apply", "publish", "rotate", "rotate_sparse"}
  BY DEF IsOpen
<1>5. CheckpointSequence(segments') <= mem'.last /\ Segmented(segments', mem'.dense)
  OBVIOUS
<1>6. /\ pc' \in {"rotate", "rotate_sparse"} => segments' # <<>> /\ mem'.last = CheckpointSequence(segments')
      /\ wal' = <<>> /\ sparse_wal' = <<>> => mem'.last = CheckpointSequence(segments')
  OBVIOUS
<1>7. /\ pc' \notin {"append", "apply"} /\ pc' # "apply" /\ blocked' \in BOOLEAN
      /\ (blocked' => pc' = "idle")
  BY <1>1
<1>8. /\ pc' \in {"append", "apply"} => IsWrite(call') /\ mem'.last + Len(call'.muts) <= MaxSequence
      /\ pc' = "apply" => wal' # <<>> \/ sparse_wal' # <<>>
  BY <1>7
<1> QED BY <1>2, <1>3, <1>4, <1>5, <1>6, <1>7, <1>8, OpenStep

\* The segments once the manifest of a checkpoint is published.
LEMMA PublishedSegments ==
  ASSUME AnyFaultInv, pc = "publish", segments' = Append(segments, NewSegment)
  PROVE  /\ segments' = Append(segments, SegmentOf(mem, segments))
         /\ segments' \in Seq(Segment) /\ segments' # <<>> /\ SegmentsBounded(segments')
         /\ CheckpointSequence(segments') = mem.last /\ Segmented(segments', mem.dense)
<1>0. IsOpen
  BY DEF IsOpen
<1>1. /\ segments \in Seq(Segment) /\ mem \in Memory /\ Within(mem) /\ Segmented(segments, mem.dense)
      /\ SegmentsBounded(segments) /\ CheckpointSequence(segments) <= mem.last
  BY <1>0, OpenFacts
<1>2. NewSegment = SegmentOf(mem, segments)
  BY DEF NewSegment, SegmentOf
<1>3. segments' = Append(segments, SegmentOf(mem, segments))
  BY <1>2
<1> DEFINE t == Append(segments, SegmentOf(mem, segments))
<1>4. /\ t \in Seq(Segment) /\ t # <<>> /\ CheckpointSequence(t) = mem.last
      /\ SegmentsBounded(t)
      /\ \A i \in Id : Newest(t, "dense", i).val = mem.dense[i].val
  BY <1>1, PublishedDense
<1>5. Segmented(t, mem.dense)
  BY <1>4 DEF Segmented
<1> HIDE DEF t
<1> QED BY <1>3, <1>4, <1>5 DEF t

LEMMA CheckpointAnyFault ==
  ASSUME AnyFaultInv, PublishManifest \/ RotateWal \/ RotateSparseWal \/ FlushRaises
  PROVE  /\ AnyFaultInv' /\ IsOpen /\ IsOpen' /\ mem'.dense = mem.dense /\ mem'.sparse = mem.sparse
<1>0. pc \in {"publish", "rotate", "rotate_sparse"} /\ IsOpen
  BY DEF PublishManifest, RotateWal, RotateSparseWal, FlushRaises, IsOpen
<1>1. /\ wal \in DenseLog /\ sparse_wal \in SparseLog /\ segments \in Seq(Segment) /\ mem \in Memory
      /\ SegmentsBounded(segments) /\ CheckpointSequence(segments) <= mem.last /\ Segmented(segments, mem.dense)
      /\ ~blocked /\ mem.last \in 0..MaxSequence
  BY <1>0, OpenFacts
<1>2. pc \in {"rotate", "rotate_sparse"} => segments # <<>> /\ mem.last = CheckpointSequence(segments)
  BY <1>0, OpenFacts
<1>3. wal = <<>> /\ sparse_wal = <<>> => mem.last = CheckpointSequence(segments)
  BY <1>0, OpenFacts
<1>4. mem.last <= mem.last
  BY <1>1
<1>5. /\ pc' \in {"idle", "rotate", "rotate_sparse"} /\ blocked' = blocked /\ job' = job /\ restored' = Recovered'
      /\ wal' \in {<<>>, wal} /\ sparse_wal' \in {<<>>, sparse_wal}
      /\ mem' = mem \/ RotateSparseWal
      /\ \/ pc = "publish" /\ segments' = Append(segments, NewSegment) /\ wal' = wal /\ sparse_wal' = sparse_wal
         \/ /\ segments' = segments
            /\ pc \in {"rotate", "rotate_sparse"} \/ (pc' = "idle" /\ wal' = wal /\ sparse_wal' = sparse_wal)
  <2>1. CASE PublishManifest
    BY <2>1 DEF PublishManifest, Record
  <2>2. CASE RotateWal
    BY <2>2 DEF RotateWal, Record
  <2>3. CASE RotateSparseWal
    BY <2>3 DEF RotateSparseWal, Record
  <2>4. CASE FlushRaises
    <3>1. /\ pc' = "idle" /\ mem' = mem /\ blocked' = blocked /\ job' = job /\ restored' = Recovered'
          /\ pc \in {"publish", "rotate", "rotate_sparse"}
      BY <2>4 DEF FlushRaises, Record
    <3>2. \/ wal' = wal /\ sparse_wal' = sparse_wal /\ segments' = segments
          \/ pc = "publish" /\ segments' = Append(segments, NewSegment) /\ wal' = wal /\ sparse_wal' = sparse_wal
          \/ pc = "rotate" /\ wal' = <<>> /\ sparse_wal' = sparse_wal /\ segments' = segments
          \/ pc = "rotate_sparse" /\ sparse_wal' = <<>> /\ wal' = wal /\ segments' = segments
      BY <2>4 DEF FlushRaises
    <3> HIDE <2>4
    <3> QED BY <3>1, <3>2
  <2> QED BY <2>1, <2>2, <2>3, <2>4
<1>6. mem' \in Memory /\ mem'.dense = mem.dense /\ mem'.last = mem.last /\ mem'.sparse = mem.sparse
  <2>1. CASE mem' = mem
    BY <1>1, <2>1
  <2>2. CASE RotateSparseWal
    <3>1. mem' = [mem EXCEPT !.pending = NoEntries]
      BY <2>2 DEF RotateSparseWal
    <3>2. NoEntries \in [Id -> SparseEntry]
      BY EntryTypes
    <3> QED BY <1>1, <3>1, <3>2 DEF Memory
  <2> QED BY <1>5, <2>1, <2>2
<1>7. JobInv' /\ IsOpen'
  BY <1>0, <1>5, OpenFacts DEF JobInv, IsOpen
<1>8. /\ segments' \in Seq(Segment) /\ SegmentsBounded(segments') /\ CheckpointSequence(segments') <= mem.last
      /\ Segmented(segments', mem.dense)
      /\ pc' \in {"rotate", "rotate_sparse"} => segments' # <<>> /\ mem.last = CheckpointSequence(segments')
      /\ wal' = <<>> /\ sparse_wal' = <<>> => mem.last = CheckpointSequence(segments')
  <2>1. CASE pc = "publish" /\ segments' = Append(segments, NewSegment)
    BY <1>1, <1>4, <2>1, PublishedSegments
  <2>2. CASE segments' = segments /\ pc \in {"rotate", "rotate_sparse"}
    BY <1>1, <1>2, <2>2
  <2>3. CASE segments' = segments /\ pc' = "idle" /\ wal' = wal /\ sparse_wal' = sparse_wal
    BY <1>1, <1>3, <2>3
  <2> QED BY <1>5, <2>1, <2>2, <2>3
<1>9. AnyFaultInv'
  BY <1>0, <1>1, <1>5, <1>6, <1>7, <1>8, SegmentsStep
<1> QED BY <1>0, <1>6, <1>7, <1>9

\* The segments once a compaction is published.
LEMMA FinishAnyFault ==
  ASSUME AnyFaultInv, FinishCompaction
  PROVE  /\ AnyFaultInv' /\ IsOpen /\ pc' = pc /\ pc = "idle" /\ wal' = wal /\ sparse_wal' = sparse_wal /\ mem' = mem
         /\ blocked' = blocked
         /\ \/ segments' = segments
            \/ /\ Captured(job.inputs) /\ IsPrefix(job.inputs, segments)
               /\ segments' = Compacted(segments, Len(job.inputs), CompactionOutput(job.inputs))
<1>0. pc = "idle" /\ IsOpen /\ job.stage = "built"
  BY DEF FinishCompaction, IsOpen
<1>1. /\ segments \in Seq(Segment) /\ mem \in Memory
      /\ SegmentsBounded(segments) /\ CheckpointSequence(segments) <= mem.last /\ Segmented(segments, mem.dense)
      /\ (wal = <<>> /\ sparse_wal = <<>> => mem.last = CheckpointSequence(segments)) /\ JobInv
  BY <1>0, OpenFacts
<1>2. Captured(job.inputs) /\ job.output = CompactionOutput(job.inputs)
  BY <1>0, <1>1 DEF JobInv, NoJob
<1>3. /\ pc' = pc /\ wal' = wal /\ sparse_wal' = sparse_wal /\ mem' = mem /\ blocked' = blocked
      /\ job' = NoJob /\ restored' = Recovered'
      /\ \/ segments' = segments
         \/ /\ IsPrefix(job.inputs, segments)
            /\ segments' = Compacted(segments, Len(job.inputs), CompactionOutput(job.inputs))
  <2>1. pc' = pc /\ wal' = wal /\ sparse_wal' = sparse_wal /\ mem' = mem /\ blocked' = blocked
        /\ job' = NoJob /\ restored' = Recovered'
    BY DEF FinishCompaction, Record
  <2>2. segments' = IF IsPrefix(job.inputs, segments)
                      THEN <<job.output>> \o SubSeq(segments, Len(job.inputs) + 1, Len(segments)) ELSE segments
    BY DEF FinishCompaction
  <2> QED BY <1>2, <2>1, <2>2 DEF Compacted
<1>4. /\ segments' \in Seq(Segment) /\ SegmentsBounded(segments')
      /\ CheckpointSequence(segments') = CheckpointSequence(segments) /\ Segmented(segments', mem.dense)
  <2>1. CASE segments' = segments
    BY <1>1, <2>1
  <2>2. CASE IsPrefix(job.inputs, segments)
             /\ segments' = Compacted(segments, Len(job.inputs), CompactionOutput(job.inputs))
    <3> DEFINE t == Compacted(segments, Len(job.inputs), CompactionOutput(job.inputs))
    <3>1. /\ t \in Seq(Segment) /\ t # <<>> /\ CheckpointSequence(t) = CheckpointSequence(segments)
          /\ SegmentsBounded(t)
          /\ \A i \in Id : Newest(t, "dense", i).val = Newest(segments, "dense", i).val
      BY <1>1, <1>2, <2>2, CompactedSegments
    <3> HIDE DEF t
    <3>2. Segmented(t, mem.dense)
      BY <1>1, <3>1 DEF Segmented
    <3> QED BY <2>2, <3>1, <3>2 DEF t
  <2> QED BY <1>3, <2>1, <2>2
<1>5. JobInv'
  BY <1>3 DEF JobInv
<1>6. AnyFaultInv'
  BY <1>0, <1>1, <1>3, <1>4, <1>5, SegmentsStep
<1> QED BY <1>0, <1>2, <1>3, <1>6

LEMMA StutterAnyFault ==
  ASSUME AnyFaultInv, UNCHANGED vars
  PROVE  AnyFaultInv' /\ Durable' = Durable
<1>1. /\ wal' = wal /\ sparse_wal' = sparse_wal /\ segments' = segments /\ restored' = restored /\ mem' = mem
      /\ pc' = pc /\ call' = call /\ blocked' = blocked /\ job' = job
  BY DEF vars, disk
<1>2. Durable' = Durable /\ Recovered' = Recovered /\ (IsOpen' <=> IsOpen) /\ (Repairing' <=> Repairing)
  BY <1>1 DEF Durable, SparseFile, Recovered, IsOpen, Repairing
<1>3. TypeOK'
  BY <1>1, <1>2 DEF AnyFaultInv, TypeOK
<1>4. JobInv' /\ RepairInv'
  BY <1>1, <1>2 DEF AnyFaultInv, JobInv, RepairInv
<1>5. CheckpointInv'
  BY <1>1, <1>2 DEF AnyFaultInv, CheckpointInv
<1> QED BY <1>2, <1>3, <1>4, <1>5 DEF AnyFaultInv

LEMMA NextAnyFault ==
  ASSUME AnyFaultInv, [Next]_vars
  PROVE  AnyFaultInv'
BY OpenAnyFault, RepairAnyFault, QuietAnyFault, AppendAnyFault, ApplyAnyFault, CheckpointAnyFault,
   FinishAnyFault, DownAnyFault, StutterAnyFault DEF Next

\* Whatever appends, checkpoints and repairs fail or are cut off, the files, memory and
\* the compaction job of a collection are well formed, no segment holds a point newer
\* than the checkpoint, and memory agrees with the segments up to it.
THEOREM AnyFaultInvariant == Spec => []AnyFaultInv
<1>1. Init => AnyFaultInv
  BY InitAnyFault
<1>2. AnyFaultInv /\ [Next]_vars => AnyFaultInv'
  BY NextAnyFault
<1> QED BY <1>1, <1>2, PTL DEF Spec

\* A checkpoint (_checkpoint_unlocked) ends every disagreement between the files and
\* memory that failed appends and failed checkpoints left: once both logs are empty a
\* reopen serves the points of memory.  For every kind and number of faults.
THEOREM CheckpointAlwaysHeals == Spec => []CheckpointHeals
<1>1. AnyFaultInv => CheckpointHeals
  <2> SUFFICES ASSUME AnyFaultInv, IsOpen, wal = <<>>, sparse_wal = <<>>
               PROVE  View(restored).dense = View(mem).dense /\ restored.last = mem.last
    BY DEF CheckpointHeals
  <2>1. /\ segments \in Seq(Segment) /\ restored = Recovered /\ mem.last = CheckpointSequence(segments)
        /\ Within(mem) /\ Segmented(segments, mem.dense)
    BY OpenFacts
  <2>2. restored = Recovery(<<>>, <<>>, segments)
    BY <2>1 DEF Recovered
  <2>3. restored.last = CheckpointSequence(segments)
        /\ \A i \in Id : restored.dense[i] = Newest(segments, "dense", i)
    BY <2>1, <2>2, EmptyLogs
  <2>4. ASSUME NEW i \in Id
        PROVE  restored.dense[i].val = mem.dense[i].val
    <3>1. mem.dense[i].seq <= CheckpointSequence(segments)
      BY <2>1 DEF Within
    <3> QED BY <2>1, <2>3, <3>1 DEF Segmented
  <2>5. View(restored).dense = View(mem).dense
    BY <2>4 DEF View
  <2> QED BY <2>1, <2>3, <2>5
<1> QED BY <1>1, AnyFaultInvariant, PTL

-----------------------------------------------------------------------------
(***************************************************************************)
(* The logs, when no single write fails and lets the collection go on.     *)
(***************************************************************************)
LEMMA IncreasingAccepted ==
  ASSUME NEW S, NEW log \in Seq(Seq(S)), Increasing(log)
  PROVE  Increasing(Accepted(log))
<1> DEFINE a == Accepted(log)
<1>1. Len(a) \in Nat /\ Len(log) \in Nat /\ Len(a) <= Len(log) /\ \A n \in 1..Len(a) : a[n] = log[n]
  BY AcceptedFacts
<1> HIDE DEF a
<1>2. \A n \in 1..Len(a) : n \in 1..Len(log)
  BY <1>1
<1>3. Increasing(a)
  BY <1>1, <1>2 DEF Increasing
<1> QED BY <1>3 DEF a

LEMMA UntornTidy ==
  ASSUME NEW S, NEW log \in Seq(Seq(S)), Untorn(log)
  PROVE  ~TornInside(log)
<1>1. Len(log) \in Nat
  OBVIOUS
<1>2. \A n \in 1..Len(log) - 1 : n \in 1..Len(log)
  BY <1>1
<1> QED BY <1>2 DEF Untorn, TornInside

LEMMA IncreasingTorn ==
  ASSUME NEW S, NEW log \in Seq(Seq(S)), Increasing(log)
  PROVE  Increasing(Append(log, Torn))
<1> DEFINE t == Append(log, Torn)
<1>0. Torn \in Seq(S) /\ Len(Torn) = 0
  BY DEF Torn
<1>1. /\ Len(t) = Len(log) + 1 /\ t[Len(log) + 1] = Torn
      /\ \A n \in 1..Len(log) : t[n] = log[n]
      /\ Len(log) \in Nat
  BY <1>0
<1> HIDE DEF t
<1>2. ASSUME NEW m \in 1..Len(t), NEW n \in 1..Len(t), NEW a \in 1..Len(t[m]), NEW b \in 1..Len(t[n]),
             m < n \/ (m = n /\ a < b)
      PROVE  t[m][a].seq < t[n][b].seq
  <2>1. m \in 1..Len(log) \/ m = Len(log) + 1
    BY <1>1
  <2>2. n \in 1..Len(log) \/ n = Len(log) + 1
    BY <1>1
  <2>3. m # Len(log) + 1 /\ n # Len(log) + 1
    BY <1>0, <1>1
  <2>4. m \in 1..Len(log) /\ n \in 1..Len(log) /\ t[m] = log[m] /\ t[n] = log[n]
    BY <1>1, <2>1, <2>2, <2>3
  <2> QED BY <1>2, <2>4 DEF Increasing
<1>3. Increasing(t)
  BY <1>2 DEF Increasing
<1> QED BY <1>3 DEF t

LEMMA IncreasingWhole ==
  ASSUME NEW S, \A r \in S : r.seq \in Nat, NEW log \in Seq(Seq(S)), Increasing(log), NEW last \in Nat, Upto(log, last),
         NEW e \in Seq(S), \A n \in 1..Len(e) : e[n].seq = last + n
  PROVE  Increasing(Append(log, e))
<1> DEFINE t == Append(log, e)
<1>1. /\ Len(t) = Len(log) + 1 /\ t[Len(log) + 1] = e
      /\ \A n \in 1..Len(log) : t[n] = log[n]
      /\ Len(log) \in Nat /\ Len(e) \in Nat
  OBVIOUS
<1>2. ASSUME NEW n \in 1..Len(log), NEW a \in 1..Len(log[n])
      PROVE  log[n][a].seq \in Nat /\ log[n][a].seq <= last
  <2>1. log[n] \in Seq(S)
    OBVIOUS
  <2>2. log[n][a] \in S
    BY <2>1
  <2>3. log[n][a] \in Records(log)
    BY RecordTypes
  <2> QED BY <2>2, <2>3 DEF Upto
<1> HIDE DEF t
<1>5. \A k \in 1..Len(t) : k \in 1..Len(log) \/ k = Len(log) + 1
  <2>1. Len(t) = Len(log) + 1 /\ Len(log) \in Nat
    BY <1>1
  <2> QED BY <2>1
<1>3. ASSUME NEW m \in 1..Len(t), NEW n \in 1..Len(t), NEW a \in 1..Len(t[m]), NEW b \in 1..Len(t[n]),
             m < n \/ (m = n /\ a < b)
      PROVE  t[m][a].seq < t[n][b].seq
  <2>1. m \in 1..Len(log) \/ m = Len(log) + 1
    BY <1>5
  <2>2. n \in 1..Len(log) \/ n = Len(log) + 1
    BY <1>5
  <2>3. CASE m \in 1..Len(log) /\ n \in 1..Len(log)
    <3>1. t[m] = log[m] /\ t[n] = log[n]
      BY <1>1, <2>3
    <3> QED BY <1>3, <2>3, <3>1 DEF Increasing
  <2>4. CASE m \in 1..Len(log) /\ n = Len(log) + 1
    <3>1. t[m] = log[m] /\ t[n] = e
      BY <1>1, <2>4
    <3>2. log[m][a].seq \in Nat /\ log[m][a].seq <= last
      BY <1>2, <2>4, <3>1
    <3>3. b \in 1..Len(e) /\ e[b].seq = last + b
      BY <3>1
    <3> QED BY SMTT(30), <1>1, <3>1, <3>2, <3>3
  <2>5. CASE m = Len(log) + 1 /\ n = Len(log) + 1
    <3>1. t[m] = e /\ t[n] = e /\ a < b
      BY <1>1, <1>3, <2>5
    <3>2. a \in 1..Len(e) /\ b \in 1..Len(e) /\ e[a].seq = last + a /\ e[b].seq = last + b
      BY <3>1
    <3> QED BY <1>1, <3>1, <3>2
  <2>6. ~(m = Len(log) + 1 /\ n \in 1..Len(log))
    BY <1>1, <1>3
  <2> QED BY <2>1, <2>2, <2>3, <2>4, <2>5, <2>6
<1>4. Increasing(t)
  BY <1>3 DEF Increasing
<1> QED BY <1>4 DEF t

\* A log after an append, whether it finished or not.
LEMMA GrownLog ==
  ASSUME NEW S, \A r \in S : r.seq \in Nat, NEW log \in Seq(Seq(S)), Increasing(log), Untorn(log),
         NEW last \in Nat, Upto(log, last),
         NEW e \in Seq(S), e # Torn, \A n \in 1..Len(e) : e[n].seq = last + n
  PROVE  /\ Increasing(Append(log, Torn)) /\ ~TornInside(Append(log, Torn))
         /\ Increasing(Append(log, e)) /\ ~TornInside(Append(log, e)) /\ Untorn(Append(log, e))
         /\ Upto(Append(log, e), last + Len(e))
<1>1. Increasing(Append(log, Torn)) /\ ~TornInside(Append(log, Torn))
  BY IncreasingTorn, AppendTorn
<1>2. Increasing(Append(log, e))
  BY IncreasingWhole
<1>3. Untorn(Append(log, e)) /\ Append(log, e) \in Seq(Seq(S)) /\ Records(Append(log, e)) = Records(log) \cup Range(e)
  BY AppendWhole
<1>4. ~TornInside(Append(log, e))
  BY <1>3, UntornTidy
<1>5. Len(e) \in Nat
  OBVIOUS
<1>6. ASSUME NEW r \in Records(log) \cup Range(e)
      PROVE  r.seq <= last + Len(e)
  <2>1. CASE r \in Records(log)
    <3>1. r \in S /\ r.seq <= last
      BY <2>1, RecordTypes DEF Upto
    <3> QED BY <1>5, <3>1
  <2>2. CASE r \in Range(e)
    <3>1. PICK n \in 1..Len(e) : r = e[n]
      BY <2>2 DEF Range
    <3> QED BY <1>5, <3>1
  <2> QED BY <2>1, <2>2
<1>7. Upto(Append(log, e), last + Len(e))
  BY <1>3, <1>6 DEF Upto
<1> QED BY <1>1, <1>2, <1>3, <1>4, <1>7

\* No write of a single mutation raises and lets the collection go on.
NoAppendError == "append_error" \notin Faults

LEMMA WrittenType ==
  ASSUME TypeOK
  PROVE  /\ Written \in Nat /\ mem.last \in Nat /\ (pc # "apply" => Written = mem.last)
         /\ pc = "apply" => Written = mem.last + Len(call.muts)
<1>1. mem.last \in Nat
  BY StoreAssumption DEF TypeOK, Memory
<1>2. CASE pc = "apply"
  <2>1. Len(call.muts) \in Nat
    <3>1. CASE call.kind = "dense"
      BY <1>2, <3>1, WriteForms, DenseCallTypes DEF Fits
    <3>2. CASE call.kind = "sparse"
      BY <1>2, <3>2, WriteForms
    <3> QED BY <1>2, <3>1, <3>2, WriteForms
  <2> QED BY <1>1, <1>2, <2>1 DEF Written
<1>3. CASE pc # "apply"
  BY <1>1, <1>3 DEF Written
<1> QED BY <1>1, <1>2, <1>3

\* A step that leaves each log alone or empties it.
LEMMA LogKept ==
  ASSUME LogInv, wal' \in {<<>>, wal}, sparse_wal' \in {<<>>, sparse_wal},
         pc # "rewrite_sparse", pc' \notin {"repair_sparse", "rewrite_sparse"},
         Serving' => Serving /\ Written' = Written
  PROVE  LogInv'
<1>1. SparseFile = sparse_wal /\ SparseFile' = sparse_wal'
  BY DEF SparseFile
<1>2. /\ Accepted(<<>>) = <<>> /\ Records(<<>>) = {} /\ Untorn(<<>>) /\ Increasing(<<>>) /\ ~TornInside(<<>>)
      /\ \A n : Upto(<<>>, n)
  BY EmptyLog DEF Upto
<1>3. Increasing(wal') /\ ~TornInside(wal') /\ Increasing(sparse_wal') /\ ~TornInside(sparse_wal')
  BY <1>1, <1>2 DEF LogInv
<1>4. ASSUME Serving'
      PROVE  Untorn(wal') /\ Untorn(sparse_wal') /\ Upto(wal', Written') /\ Upto(sparse_wal', Written')
  <2>1. Untorn(wal) /\ Untorn(sparse_wal) /\ Upto(wal, Written) /\ Upto(sparse_wal, Written) /\ Written' = Written
    BY <1>4 DEF LogInv
  <2>2. Untorn(wal') /\ Untorn(sparse_wal')
    BY <1>2, <2>1
  <2>3. Upto(wal', Written) /\ Upto(sparse_wal', Written)
    BY <1>2, <2>1
  <2> QED BY <2>1, <2>2, <2>3
<1> QED BY <1>1, <1>3, <1>4 DEF LogInv

LEMMA InitLog ==
  ASSUME Init
  PROVE  LogInv
<1>1. SparseFile = <<>> /\ wal = <<>> /\ ~Serving /\ pc = "down"
  BY DEF Init, SparseFile, Serving, IsOpen
<1> QED BY <1>1, EmptyLog DEF LogInv

LEMMA QuietLog ==
  ASSUME AnyFaultInv, LogInv,
         \/ \E muts \in DenseCalls : WriteDense(muts)
         \/ \E i \in Id, s \in Sparse : WriteSparse(i, s)
         \/ Flush \/ BeginCompaction \/ BuildCompaction
  PROVE  LogInv'
<1>1. /\ AnyFaultInv' /\ IsOpen /\ IsOpen' /\ blocked' = blocked /\ UNCHANGED <<disk, mem>>
  BY QuietAnyFault
<1>2. wal' = wal /\ sparse_wal' = sparse_wal /\ mem' = mem /\ (Serving' <=> Serving)
  BY <1>1 DEF disk, Serving
<1>3. pc # "rewrite_sparse" /\ pc' \notin {"repair_sparse", "rewrite_sparse"}
  BY <1>1 DEF IsOpen
<1>4. Written' = Written
  <2>1. (pc' # "apply" /\ pc # "apply") \/ (pc' = pc /\ call' = call)
    BY DEF WriteDense, WriteSparse, Ready, Flush, BeginCompaction, BuildCompaction
  <2> QED BY <1>2, <2>1 DEF Written
<1> QED BY <1>2, <1>3, <1>4, LogKept

LEMMA ApplyLog ==
  ASSUME AnyFaultInv, LogInv, Apply
  PROVE  LogInv'
<1>1. AnyFaultInv' /\ IsOpen /\ pc' = "idle" /\ mem' = Applied(mem, call) /\ UNCHANGED disk /\ blocked' = blocked
  BY ApplyAnyFault
<1>2. pc = "apply" /\ wal' = wal /\ sparse_wal' = sparse_wal /\ TypeOK /\ TypeOK'
  BY <1>1 DEF Apply, disk, AnyFaultInv
<1>3. Applied(mem, call).last = mem.last + Len(call.muts)
  <2>1. segments \in Seq(Segment) /\ Within(mem) /\ CheckpointSequence(segments) <= mem.last
        /\ Segmented(segments, mem.dense)
    BY <1>1, OpenFacts
  <2> QED BY <1>2, <2>1, AppliedKeeps
<1>4. Written' = Written
  <2>1. Written' = mem'.last
    <3>1. mem'.last \in Nat /\ Written' = mem'.last + 0
      BY <1>1, <1>2, StoreAssumption DEF Written, TypeOK, Memory
    <3> QED BY <3>1
  <2> QED BY <1>1, <1>2, <1>3, <2>1, WrittenType
<1>5. Serving' => Serving
  BY <1>1 DEF Serving
<1> QED BY <1>1, <1>2, <1>4, <1>5, LogKept

LEMMA CheckpointLog ==
  ASSUME AnyFaultInv, LogInv, PublishManifest \/ RotateWal \/ RotateSparseWal \/ FlushRaises \/ FinishCompaction
  PROVE  LogInv'
<1>1. /\ wal' \in {<<>>, wal} /\ sparse_wal' \in {<<>>, sparse_wal} /\ blocked' = blocked
      /\ pc \in {"idle", "publish", "rotate", "rotate_sparse"} /\ pc' \in {"idle", "rotate", "rotate_sparse"}
  BY DEF PublishManifest, RotateWal, RotateSparseWal, FlushRaises, FinishCompaction
<1>2. mem'.last = mem.last
  <2>1. CASE RotateSparseWal
    <3>1. mem \in Memory /\ mem' = [mem EXCEPT !.pending = NoEntries]
      BY <2>1 DEF AnyFaultInv, TypeOK, RotateSparseWal
    <3> QED BY <3>1 DEF Memory
  <2>2. CASE ~RotateSparseWal
    BY <2>2 DEF PublishManifest, RotateWal, FlushRaises, FinishCompaction
  <2> QED BY <2>1, <2>2
<1>3. Written' = Written
  BY <1>1, <1>2 DEF Written
<1>4. Serving' => Serving
  BY <1>1 DEF Serving, IsOpen
<1> QED BY <1>1, <1>3, <1>4, LogKept

LEMMA OpenLog ==
  ASSUME LogInv, Open \/ Close
  PROVE  LogInv'
<1>1. wal' = wal /\ sparse_wal' = sparse_wal /\ pc \in {"down", "idle"} /\ pc' \in {"down", "repair"}
  BY DEF Open, Close, disk
<1>2. ~Serving'
  BY <1>1 DEF Serving, IsOpen
<1> QED BY <1>1, <1>2, LogKept

\* What is recovered covers every record of the repaired logs.
LEMMA RecoveredCovers ==
  ASSUME TypeOK
  PROVE  \A r \in Records(Accepted(wal)) \cup Records(Accepted(SparseFile)) : r.seq <= Durable.last
<1> DEFINE ds == Records(Accepted(wal))
           ss == Records(Accepted(SparseFile))
<1>1. Files(ds, ss, segments)
  BY DurableForms
<1>2. Durable = Replayed(ds, ss, segments)
  BY DEF Durable, Recovery
<1> HIDE DEF ds, ss
<1>3. \A r \in ds \cup ss : r.seq <= Replayed(ds, ss, segments).last
  BY <1>1, LastFacts
<1> QED BY <1>2, <1>3 DEF ds, ss

LEMMA RepairLog ==
  ASSUME AnyFaultInv, LogInv, RepairWal \/ EmptySparseWal \/ RewriteSparseWal
  PROVE  LogInv'
<1>0. /\ TypeOK /\ wal \in DenseLog /\ sparse_wal \in SparseLog /\ RepairInv /\ Repairing
      /\ AnyFaultInv' /\ mem' = mem
  <2>1. AnyFaultInv' /\ mem' = mem
    BY RepairAnyFault
  <2>2. Repairing
    BY DEF RepairWal, EmptySparseWal, RewriteSparseWal, Repairing
  <2> QED BY <2>1, <2>2 DEF AnyFaultInv, TypeOK
<1>1. mem = Durable
  BY <1>0 DEF RepairInv
<1>2. \A r \in Records(Accepted(wal)) \cup Records(Accepted(SparseFile)) : r.seq <= mem.last
  BY <1>0, <1>1, RecoveredCovers
<1>3. pc' # "apply" => Written' = mem.last
  <2>1. mem.last \in Nat
    BY <1>0, WrittenType
  <2> QED BY <1>0, <2>1 DEF Written
<1>4. /\ Increasing(Accepted(wal)) /\ Untorn(Accepted(wal)) /\ ~TornInside(Accepted(wal))
      /\ Accepted(Accepted(wal)) = Accepted(wal)
  <2>1. Accepted(wal) \in DenseLog
    BY <1>0, AcceptedFacts DEF DenseLog
  <2>2. Increasing(wal)
    BY DEF LogInv
  <2> QED BY <1>0, <2>1, <2>2, AcceptedFacts, IncreasingAccepted, UntornTidy, AcceptedTwice DEF DenseLog
<1>5. CASE RepairWal
  <2>1. /\ pc = "repair" /\ wal' = Accepted(wal) /\ sparse_wal' = sparse_wal
        /\ \/ pc' = "repair_sparse"
           \/ pc' = "idle" /\ Accepted(sparse_wal) = sparse_wal
    BY <1>5 DEF RepairWal
  <2>2. SparseFile = sparse_wal /\ SparseFile' = sparse_wal
    BY <2>1 DEF SparseFile
  <2>3. Increasing(sparse_wal) /\ ~TornInside(sparse_wal)
    BY <2>2 DEF LogInv
  <2>4. ASSUME Serving'
        PROVE  Untorn(sparse_wal') /\ Upto(wal', Written') /\ Upto(sparse_wal', Written')
    <3>1. pc' = "idle" /\ Accepted(sparse_wal) = sparse_wal
      BY <2>1, <2>4 DEF Serving, IsOpen
    <3>2. Untorn(sparse_wal)
      BY <1>0, <3>1, AcceptedFacts DEF SparseLog
    <3>3. Written' = mem.last
      BY <1>3, <3>1
    <3>4. Upto(Accepted(wal), mem.last) /\ Upto(sparse_wal, mem.last)
      BY <1>2, <2>2, <3>1 DEF Upto
    <3> QED BY <2>1, <3>2, <3>3, <3>4
  <2>5. pc' # "rewrite_sparse"
    BY <2>1
  <2> QED BY <1>4, <2>1, <2>2, <2>3, <2>4, <2>5 DEF LogInv
<1>6. CASE EmptySparseWal
  <2>1. /\ pc = "repair_sparse" /\ wal' = wal /\ sparse_wal' = <<>> /\ pc' = "rewrite_sparse"
        /\ call'.records = Accepted(sparse_wal)
    BY <1>6 DEF EmptySparseWal
  <2>2. SparseFile = sparse_wal /\ SparseFile' = Accepted(sparse_wal) /\ ~Serving'
    BY <2>1 DEF SparseFile, Serving, IsOpen
  <2>3. Increasing(Accepted(sparse_wal)) /\ ~TornInside(Accepted(sparse_wal))
    <3>1. Increasing(sparse_wal)
      BY <2>2 DEF LogInv
    <3>2. Accepted(sparse_wal) \in SparseLog
      BY <1>0, AcceptedFacts DEF SparseLog
    <3> QED BY <1>0, <3>1, <3>2, AcceptedFacts, IncreasingAccepted, UntornTidy DEF SparseLog
  <2>4. Increasing(wal) /\ ~TornInside(wal) /\ Untorn(wal)
    BY <2>1 DEF LogInv
  <2> QED BY <2>1, <2>2, <2>3, <2>4 DEF LogInv
<1>7. CASE RewriteSparseWal
  <2>1. pc = "rewrite_sparse" /\ wal' = wal /\ sparse_wal' = call.records /\ pc' = "idle"
    BY <1>7 DEF RewriteSparseWal
  <2>2. SparseFile = call.records /\ SparseFile' = call.records
    BY <2>1 DEF SparseFile
  <2>3. call.records \in SparseLog /\ Accepted(call.records) = call.records
    BY <1>0, <2>1 DEF TypeOK
  <2>4. Increasing(wal) /\ ~TornInside(wal) /\ Untorn(wal) /\ Increasing(SparseFile) /\ ~TornInside(SparseFile)
    BY <2>1 DEF LogInv
  <2>5. Untorn(call.records)
    BY <2>3, AcceptedFacts DEF SparseLog
  <2>6. Accepted(wal) = wal
    BY <1>0, <2>4, UntornAccepted DEF DenseLog
  <2>7. Upto(wal, mem.last) /\ Upto(call.records, mem.last) /\ Written' = mem.last
    BY <1>2, <1>3, <2>1, <2>2, <2>3, <2>6 DEF Upto
  <2> QED BY <2>1, <2>2, <2>4, <2>5, <2>7 DEF LogInv
<1> QED BY <1>5, <1>6, <1>7

LEMMA UptoMore ==
  ASSUME NEW S, \A r \in S : r.seq \in Nat, NEW log \in Seq(Seq(S)), NEW a \in Nat, NEW b \in Nat, a <= b, Upto(log, a)
  PROVE  Upto(log, b)
<1> SUFFICES ASSUME NEW r \in Records(log) PROVE r.seq <= b
  BY DEF Upto
<1>1. r \in S /\ r.seq <= a
  BY RecordTypes DEF Upto
<1> QED BY <1>1

LEMMA AppendedLogs ==
  ASSUME TypeOK, LogInv, pc = "append", NEW n \in {"none", "torn", "whole"}, Appended(n)
  PROVE  /\ Increasing(wal') /\ ~TornInside(wal') /\ Increasing(sparse_wal') /\ ~TornInside(sparse_wal')
         /\ n = "whole" => /\ Untorn(wal') /\ Upto(wal', mem.last + Len(call.muts))
                           /\ Untorn(sparse_wal') /\ Upto(sparse_wal', mem.last + Len(call.muts))
<1>0. Serving /\ SparseFile = sparse_wal
  BY DEF TypeOK, Serving, IsOpen, SparseFile
<1>1. /\ wal \in DenseLog /\ sparse_wal \in SparseLog /\ mem.last \in Nat /\ Written = mem.last
      /\ (\A r \in DenseRecord : r.seq \in Nat) /\ \A r \in SparseRecord : r.seq \in Nat
  BY WrittenType DEF TypeOK, DenseRecord, SparseRecord
<1>2. /\ Increasing(wal) /\ ~TornInside(wal) /\ Increasing(sparse_wal) /\ ~TornInside(sparse_wal)
      /\ Untorn(wal) /\ Untorn(sparse_wal) /\ Upto(wal, mem.last) /\ Upto(sparse_wal, mem.last)
  BY <1>0, <1>1 DEF LogInv
<1> DEFINE e == Envelope
           k == Len(call.muts)
<1>3. CASE call.kind = "dense"
  <2>1. Fits(mem.last, call.muts) /\ mem.last \in 0..MaxSequence
    BY <1>3, WriteForms
  <2>2. e = EnvelopeOf(mem.last, call.muts) /\ e # Torn /\ e \in Seq(DenseRecord)
    BY <1>3, EnvelopeForms
  <2>3. Len(EnvelopeOf(mem.last, call.muts)) = k /\ k \in Nat
        /\ \A m \in 1..k : EnvelopeOf(mem.last, call.muts)[m].seq = mem.last + m
    BY <2>1, EnvelopeFacts DEF Fits
  <2> HIDE DEF e, k
  <2>4. Len(e) = k /\ \A m \in 1..Len(e) : e[m].seq = mem.last + m
    BY <2>2, <2>3
  <2>5. /\ Increasing(Append(wal, Torn)) /\ ~TornInside(Append(wal, Torn))
        /\ Increasing(Append(wal, e)) /\ ~TornInside(Append(wal, e)) /\ Untorn(Append(wal, e))
        /\ Upto(Append(wal, e), mem.last + Len(e))
    BY <1>1, <1>2, <2>2, <2>4, GrownLog DEF DenseLog
  <2>6. sparse_wal' = sparse_wal /\ (n = "none" => wal' = wal) /\ (n = "torn" => wal' = Append(wal, Torn))
        /\ (n = "whole" => wal' = Append(wal, e))
    BY <1>3, AppendedForms DEF e
  <2>7. Upto(sparse_wal, mem.last + k)
    <3>1. mem.last + k \in Nat /\ mem.last <= mem.last + k
      BY <1>1, <2>3
    <3> QED BY <1>1, <1>2, <3>1, UptoMore DEF SparseLog
  <2> QED BY <1>2, <2>4, <2>5, <2>6, <2>7 DEF k
<1>4. CASE call.kind = "sparse"
  <2>1. e # Torn /\ e \in Seq(SparseRecord) /\ Len(e) = 1 /\ e[1].seq = mem.last + 1
    BY <1>4, EnvelopeForms
  <2>2. k = 1
    BY <1>4, WriteForms
  <2> HIDE DEF e, k
  <2>4. \A m \in 1..Len(e) : e[m].seq = mem.last + m
    BY <2>1
  <2>5. /\ Increasing(Append(sparse_wal, Torn)) /\ ~TornInside(Append(sparse_wal, Torn))
        /\ Increasing(Append(sparse_wal, e)) /\ ~TornInside(Append(sparse_wal, e)) /\ Untorn(Append(sparse_wal, e))
        /\ Upto(Append(sparse_wal, e), mem.last + Len(e))
    BY <1>1, <1>2, <2>1, <2>4, GrownLog DEF SparseLog
  <2>6. wal' = wal /\ (n = "none" => sparse_wal' = sparse_wal)
        /\ (n = "torn" => sparse_wal' = Append(sparse_wal, Torn))
        /\ (n = "whole" => sparse_wal' = Append(sparse_wal, e))
    BY <1>4, AppendedForms DEF e
  <2>7. Upto(wal, mem.last + k)
    <3>1. mem.last + k \in Nat /\ mem.last <= mem.last + k
      BY <1>1, <2>2
    <3> QED BY <1>1, <1>2, <3>1, UptoMore DEF DenseLog
  <2> QED BY <1>2, <2>1, <2>2, <2>5, <2>6, <2>7 DEF k
<1> QED BY <1>3, <1>4, WriteForms

LEMMA AppendLogInv ==
  ASSUME AnyFaultInv, LogInv, NoAppendError, AppendLog \/ AppendRaises
  PROVE  LogInv'
<1>1. pc = "append" /\ TypeOK /\ mem' = mem
  BY AppendAnyFault DEF AnyFaultInv
<1>2. PICK n \in {"none", "torn", "whole"} : Appended(n) /\ (AppendLog => n = "whole")
  BY AppendAnyFault
<1>3. /\ Increasing(wal') /\ ~TornInside(wal') /\ Increasing(sparse_wal') /\ ~TornInside(sparse_wal')
      /\ n = "whole" => /\ Untorn(wal') /\ Upto(wal', mem.last + Len(call.muts))
                        /\ Untorn(sparse_wal') /\ Upto(sparse_wal', mem.last + Len(call.muts))
  BY <1>1, <1>2, AppendedLogs
<1>4. CASE AppendLog
  <2>1. pc' = "apply" /\ call' = call
    BY <1>4 DEF AppendLog
  <2>2. Written' = mem.last + Len(call.muts)
    BY <1>1, <2>1 DEF Written
  <2>3. SparseFile' = sparse_wal'
    BY <2>1 DEF SparseFile
  <2> QED BY <1>2, <1>3, <1>4, <2>1, <2>2, <2>3 DEF LogInv
<1>5. CASE AppendRaises
  <2>1. pc' = "idle" /\ blocked' = TRUE
    BY <1>5 DEF AppendRaises, Fault, NoAppendError
  <2>2. SparseFile' = sparse_wal' /\ ~Serving'
    BY <2>1 DEF SparseFile, Serving
  <2> QED BY <1>3, <2>1, <2>2 DEF LogInv
<1> QED BY <1>4, <1>5

LEMMA CrashLog ==
  ASSUME AnyFaultInv, LogInv, Crash
  PROVE  LogInv'
<1>0. TypeOK /\ pc' = "down"
  BY DEF AnyFaultInv, Crash
<1>1. SparseFile' = sparse_wal' /\ ~Serving'
  BY <1>0 DEF SparseFile, Serving, IsOpen
<1>2. CASE pc = "append"
  <2>1. PICK n \in {"none", "torn", "whole"} : Appended(n)
    BY <1>2 DEF Crash
  <2>2. Increasing(wal') /\ ~TornInside(wal') /\ Increasing(sparse_wal') /\ ~TornInside(sparse_wal')
    BY <1>0, <1>2, <2>1, AppendedLogs
  <2> QED BY <1>0, <1>1, <2>2 DEF LogInv
<1>3. CASE pc # "append"
  <2>1. wal' = wal /\ sparse_wal' = sparse_wal
    BY <1>3 DEF Crash, disk
  <2>2. Increasing(wal) /\ ~TornInside(wal)
    BY DEF LogInv
  <2>3. Increasing(sparse_wal) /\ ~TornInside(sparse_wal)
    <3>1. CASE pc = "rewrite_sparse"
      BY <3>1, EmptyLog DEF LogInv
    <3>2. CASE pc # "rewrite_sparse"
      BY <3>2 DEF LogInv, SparseFile
    <3> QED BY <3>1, <3>2
  <2> QED BY <1>0, <1>1, <2>1, <2>2, <2>3 DEF LogInv
<1> QED BY <1>2, <1>3

LEMMA StutterLog ==
  ASSUME LogInv, UNCHANGED vars
  PROVE  LogInv'
<1>1. /\ wal' = wal /\ sparse_wal' = sparse_wal /\ mem' = mem /\ pc' = pc /\ call' = call /\ blocked' = blocked
  BY DEF vars, disk
<1>2. SparseFile' = SparseFile /\ (Serving' <=> Serving) /\ Written' = Written
  BY <1>1 DEF SparseFile, Serving, IsOpen, Written
<1> QED BY <1>1, <1>2 DEF LogInv

LEMMA NextLog ==
  ASSUME NoAppendError, AnyFaultInv, LogInv, [Next]_vars
  PROVE  LogInv'
BY OpenLog, RepairLog, QuietLog, AppendLogInv, ApplyLog, CheckpointLog, CrashLog, StutterLog DEF Next

\* The write-ahead logs are in sequence order, only their last envelope may be
\* incomplete, and none is while the collection takes writes.
THEOREM LogInvariant ==
  ASSUME NoAppendError
  PROVE  Spec => [](AnyFaultInv /\ LogInv)
<1>1. Init => LogInv
  BY InitLog
<1>2. AnyFaultInv /\ LogInv /\ [Next]_vars => LogInv'
  BY NextLog
<1> QED BY <1>1, <1>2, AnyFaultInvariant, PTL DEF Spec

\* Both logs that a closed or dead collection leaves can be read to their end by the
\* preflight of the next open, also after a death in the middle of a repair or a failed
\* checkpoint, unless a single write raised in a process that went on.
THEOREM AlwaysReopenable ==
  ASSUME NoAppendError
  PROVE  Spec => []Reopenable
<1>1. AnyFaultInv /\ LogInv => Reopenable
  <2> SUFFICES ASSUME AnyFaultInv, LogInv, pc = "down"
               PROVE  /\ Increasing(Accepted(wal)) /\ Increasing(Accepted(sparse_wal))
                      /\ ~TornInside(wal) /\ ~TornInside(sparse_wal)
    BY DEF Reopenable
  <2>1. wal \in DenseLog /\ sparse_wal \in SparseLog
    BY DEF AnyFaultInv, TypeOK
  <2>2. Increasing(wal) /\ ~TornInside(wal) /\ Increasing(sparse_wal) /\ ~TornInside(sparse_wal)
    BY DEF LogInv, SparseFile
  <2> QED BY <2>1, <2>2, IncreasingAccepted DEF DenseLog, SparseLog
<1> QED BY <1>1, LogInvariant, PTL

-----------------------------------------------------------------------------
(***************************************************************************)
(* Files and memory, when the process may die and a batch may fail.        *)
(***************************************************************************)
CrashesAndBatches == Faults \subseteq {"crash", "batch_error"}

\* The records a recovery reads.
DenseFile == Records(Accepted(wal))
FieldFile == Records(Accepted(SparseFile))
StoreInv == AnyFaultInv /\ LogInv /\ CleanInv /\ AgreeInv

LEMMA DurableIs ==
  ASSUME TypeOK
  PROVE  /\ Durable = Replayed(DenseFile, FieldFile, segments) /\ Files(DenseFile, FieldFile, segments)
         /\ Durable \in Memory
BY DurableForms DEF Durable, Recovery, DenseFile, FieldFile

LEMMA CleanIs ==
  CleanInv <=> SegmentsClean(segments) /\ FieldsClean(DenseFile, FieldFile, segments)
BY DEF CleanInv, DenseFile, FieldFile

LEMMA SameFiles ==
  ASSUME CleanInv, Accepted(wal') = Accepted(wal), Accepted(SparseFile') = Accepted(SparseFile), segments' = segments
  PROVE  CleanInv' /\ Durable' = Durable
BY DEF CleanInv, Durable, Recovery

LEMMA InitClean ==
  ASSUME Init
  PROVE  CleanInv /\ AgreeInv
<1>1. wal = <<>> /\ SparseFile = <<>> /\ segments = <<>> /\ pc = "down"
  BY DEF Init, SparseFile
<1>2. DenseFile = {} /\ FieldFile = {}
  BY <1>1, EmptyLog DEF DenseFile, FieldFile
<1>3. SegmentsClean(<<>>)
  BY DEF SegmentsClean
<1>4. FieldsClean({}, {}, <<>>)
  <2>1. Files({}, {}, <<>>)
    BY DEF Files
  <2>2. \A i \in Id : RecoveredSparse({}, {}, <<>>, i) =
                        [val |-> Newest(<<>>, "sparse", i).val, pending |-> NoEntry]
    BY <2>1, Covered
  <2>3. \A i \in Id : RecoveredSparse({}, {}, <<>>, i).val = None
    BY <2>2, NoSegments, EntryTypes
  <2> QED BY <2>3 DEF FieldsClean
<1>5. CleanInv
  BY <1>1, <1>2, <1>3, <1>4, CleanIs
<1> QED BY <1>1, <1>5 DEF AgreeInv

\* Opening and repairing.
LEMMA OpenClean ==
  ASSUME AnyFaultInv, CleanInv, Open \/ Close
  PROVE  CleanInv' /\ AgreeInv' /\ Durable' = Durable
<1>1. wal' = wal /\ sparse_wal' = sparse_wal /\ segments' = segments /\ pc \in {"down", "idle"}
      /\ pc' \in {"repair", "down"}
  BY DEF Open, Close, disk
<1>2. SparseFile' = SparseFile
  BY <1>1 DEF SparseFile
<1>3. CleanInv' /\ Durable' = Durable
  BY <1>1, <1>2, SameFiles
<1> QED BY <1>1, <1>3 DEF AgreeInv

LEMMA RepairClean ==
  ASSUME AnyFaultInv, CleanInv, RepairWal \/ EmptySparseWal \/ RewriteSparseWal
  PROVE  CleanInv' /\ AgreeInv' /\ Durable' = Durable
<1>0. /\ TypeOK /\ wal \in DenseLog /\ sparse_wal \in SparseLog /\ Durable' = Durable /\ mem' = mem /\ RepairInv
      /\ segments' = segments
  BY RepairAnyFault DEF AnyFaultInv, TypeOK, RepairWal, EmptySparseWal, RewriteSparseWal
<1>1. mem = Durable
  BY <1>0 DEF RepairInv, Repairing, RepairWal, EmptySparseWal, RewriteSparseWal
<1>2. Accepted(wal') = Accepted(wal) /\ Accepted(SparseFile') = Accepted(SparseFile)
  <2>1. Accepted(Accepted(wal)) = Accepted(wal) /\ Accepted(Accepted(sparse_wal)) = Accepted(sparse_wal)
    BY <1>0, AcceptedTwice DEF DenseLog, SparseLog
  <2>2. CASE RepairWal
    BY <2>1, <2>2 DEF RepairWal, SparseFile
  <2>3. CASE EmptySparseWal
    BY <2>1, <2>3 DEF EmptySparseWal, SparseFile
  <2>4. CASE RewriteSparseWal
    BY <2>4 DEF RewriteSparseWal, SparseFile
  <2> QED BY <2>2, <2>3, <2>4
<1>3. CleanInv'
  BY <1>0, <1>2, SameFiles
<1>4. pc' \in {"repair_sparse", "rewrite_sparse", "idle"}
  BY DEF RepairWal, EmptySparseWal, RewriteSparseWal
<1>5. Agrees(mem', Durable', CheckpointSequence(segments')) /\ mem'.pending = Durable'.pending
  <2>1. mem' = Durable'
    BY <1>0, <1>1
  <2> QED BY <2>1, AgreesSame
<1> QED BY <1>0, <1>3, <1>4, <1>5 DEF AgreeInv

\* Steps that change neither the files nor memory.
LEMMA QuietClean ==
  ASSUME AnyFaultInv, CleanInv, AgreeInv,
         \/ \E muts \in DenseCalls : WriteDense(muts)
         \/ \E i \in Id, s \in Sparse : WriteSparse(i, s)
         \/ Flush \/ BeginCompaction \/ BuildCompaction
  PROVE  CleanInv' /\ AgreeInv' /\ Durable' = Durable
<1>0. /\ IsOpen /\ IsOpen' /\ blocked' = blocked /\ mem' = mem /\ Durable' = Durable
      /\ wal' = wal /\ sparse_wal' = sparse_wal /\ segments' = segments /\ TypeOK
  BY QuietAnyFault DEF disk, AnyFaultInv
<1>1. CleanInv'
  <2>1. SparseFile' = SparseFile
    BY <1>0 DEF IsOpen, SparseFile
  <2> QED BY <1>0, <2>1, SameFiles
<1>2. ASSUME pc = "idle", ~blocked, pc' \in {"idle", "publish", "append"},
             pc' = "append" => call'.kind = "dense" \/ Live(mem.dense, call'.muts[1].id)
      PROVE  AgreeInv'
  <2>1. Agrees(mem', Durable', CheckpointSequence(segments')) /\ mem'.pending = Durable'.pending
    BY <1>0, <1>2 DEF AgreeInv
  <2>2. pc' = "append" /\ call'.kind = "sparse" => Live(mem'.dense, call'.muts[1].id)
    BY <1>0, <1>2
  <2> QED BY <1>2, <2>1, <2>2 DEF AgreeInv
<1>3. ASSUME NEW muts \in DenseCalls, WriteDense(muts) PROVE AgreeInv'
  <2>1. pc = "idle" /\ ~blocked /\ pc' = "append" /\ call'.kind = "dense"
    BY <1>3 DEF WriteDense, Ready
  <2> QED BY <1>2, <2>1
<1>4. ASSUME NEW i \in Id, NEW s \in Sparse, WriteSparse(i, s) PROVE AgreeInv'
  <2>1. pc = "idle" /\ ~blocked /\ pc' = "append" /\ call'.muts[1].id = i /\ Live(mem.dense, i)
    BY <1>4 DEF WriteSparse, Ready
  <2>2. Live(mem.dense, call'.muts[1].id)
    BY <2>1
  <2> QED BY <1>2, <2>1, <2>2
<1>5. ASSUME Flush PROVE AgreeInv'
  <2>1. pc = "idle" /\ ~blocked /\ pc' \in {"rotate", "publish", "idle"} /\ (pc' = "rotate" => UpToDate)
    BY <1>5 DEF Flush, Ready
  <2>2. CASE pc' # "rotate"
    BY <1>2, <2>1, <2>2
  <2>3. CASE pc' = "rotate"
    <3>1. Agrees(mem, Durable, CheckpointSequence(segments)) /\ mem.last = CheckpointSequence(segments)
      BY <2>1, <2>3 DEF AgreeInv, UpToDate
    <3>2. Durable.last = CheckpointSequence(segments)
      BY <3>1 DEF Agrees
    <3>3. Durable.pending = NoEntries
      BY <1>0, <3>2, DurableIs, Rotated
    <3>4. Agrees(mem', Durable', CheckpointSequence(segments')) /\ Durable'.pending = NoEntries
      BY <1>0, <3>1, <3>3
    <3> QED BY <2>3, <3>4 DEF AgreeInv
  <2> QED BY <2>2, <2>3
<1>6. ASSUME BeginCompaction \/ BuildCompaction PROVE AgreeInv'
  <2>1. pc' = pc /\ call' = call
    BY <1>6 DEF BeginCompaction, BuildCompaction
  <2>2. Applied(mem', call') = Applied(mem, call)
    BY <1>0, <2>1
  <2> QED BY <1>0, <2>1, <2>2 DEF AgreeInv
<1> QED BY <1>0, <1>1, <1>3, <1>4, <1>5, <1>6

\* What an append leaves for a recovery: all of the call, or nothing of it.
LEMMA AppendedFiles ==
  ASSUME StoreInv, pc = "append", NEW n \in {"none", "torn", "whole"}, Appended(n), pc' # "rewrite_sparse"
  PROVE  /\ CleanInv'
         /\ n # "whole" => Durable' = Durable
         /\ n = "whole" => Durable' = Applied(Durable, call)
<1>0. /\ TypeOK /\ LogInv /\ CleanInv /\ AgreeInv /\ wal \in DenseLog /\ sparse_wal \in SparseLog
      /\ segments \in Seq(Segment) /\ mem \in Memory
  BY DEF StoreInv, AnyFaultInv, TypeOK
<1>1. Serving /\ ~blocked /\ SparseFile = sparse_wal /\ SparseFile' = sparse_wal' /\ segments' = segments
  BY <1>0, AppendedForms DEF TypeOK, Serving, IsOpen, SparseFile
<1>2. Untorn(wal) /\ Untorn(sparse_wal) /\ Accepted(wal) = wal /\ Accepted(sparse_wal) = sparse_wal
  BY <1>0, <1>1, UntornAccepted DEF LogInv, DenseLog, SparseLog
<1>3. Agrees(mem, Durable, CheckpointSequence(segments)) /\ mem.pending = Durable.pending
      /\ (call.kind = "sparse" => Live(mem.dense, call.muts[1].id))
  BY <1>0, <1>1 DEF AgreeInv
<1>4. mem.last = Durable.last
  BY <1>3 DEF Agrees
<1>5. Durable = Replayed(DenseFile, FieldFile, segments) /\ Files(DenseFile, FieldFile, segments)
      /\ FieldsClean(DenseFile, FieldFile, segments) /\ SegmentsClean(segments)
  BY <1>0, DurableIs, CleanIs
<1>6. Durable' = Replayed(DenseFile', FieldFile', segments)
  BY <1>1 DEF Durable, Recovery, DenseFile, FieldFile
<1>7. CASE call.kind = "dense"
  <2>1. Fits(mem.last, call.muts)
    BY <1>0, <1>7, WriteForms
  <2>2. /\ sparse_wal' = sparse_wal /\ (n = "none" => wal' = wal) /\ (n = "torn" => wal' = Append(wal, Torn))
        /\ (n = "whole" => wal' = Append(wal, Envelope))
    BY <1>0, <1>7, AppendedForms
  <2>3. Envelope = EnvelopeOf(mem.last, call.muts) /\ Envelope # Torn /\ Envelope \in Seq(DenseRecord)
    BY <1>0, <1>7, EnvelopeForms
  <2>4. FieldFile' = FieldFile
    BY <1>1, <2>2 DEF FieldFile
  <2>5. CASE n # "whole"
    <3>1. Accepted(wal') = wal
      BY <1>0, <1>2, <2>2, <2>5, AppendTorn DEF DenseLog
    <3>2. Accepted(wal') = Accepted(wal) /\ Accepted(SparseFile') = Accepted(SparseFile)
      BY <1>1, <1>2, <2>2, <3>1
    <3> QED BY <1>0, <1>1, <2>5, <3>2, SameFiles
  <2>6. CASE n = "whole"
    <3>1. Accepted(Append(wal, Envelope)) = Append(wal, Envelope)
          /\ Records(Append(wal, Envelope)) = Records(wal) \cup Range(Envelope)
      BY <1>0, <1>2, <2>3, AppendWhole DEF DenseLog
    <3>2. DenseFile' = WithCall(DenseFile, Durable.last, call.muts)
      BY <1>2, <1>4, <2>2, <2>3, <2>6, <3>1 DEF DenseFile, WithCall
    <3> DEFINE ds == DenseFile
               ss == FieldFile
               m == Replayed(ds, ss, segments)
    <3>3. Fits(m.last, call.muts)
      BY <1>4, <1>5, <2>1
    <3>4. /\ Replayed(WithCall(ds, m.last, call.muts), ss, segments) = AppliedDense(m, call.muts)
          /\ FieldsClean(WithCall(ds, m.last, call.muts), ss, segments)
      BY <1>5, <3>3, ReplayDenseCall
    <3> HIDE DEF ds, ss, m
    <3>5. Durable = m
      BY <1>5 DEF ds, ss, m
    <3>6. Durable' = AppliedDense(Durable, call.muts) /\ FieldsClean(DenseFile', FieldFile', segments)
      BY <1>6, <2>4, <3>2, <3>4, <3>5 DEF ds, ss
    <3>7. Durable' = Applied(Durable, call)
      BY <1>7, <3>6 DEF Applied
    <3>8. CleanInv'
      BY <1>1, <1>5, <3>6, CleanIs DEF CleanInv, DenseFile, FieldFile
    <3> QED BY <2>6, <3>7, <3>8
  <2> QED BY <2>5, <2>6
<1>8. CASE call.kind = "sparse"
  <2> DEFINE i == call.muts[1].id
             s == call.muts[1].val
  <2>1. mem.last + 1 <= MaxSequence /\ i \in Id /\ s \in Sparse
    BY <1>0, <1>8, WriteForms
  <2>2. /\ wal' = wal /\ (n = "none" => sparse_wal' = sparse_wal) /\ (n = "torn" => sparse_wal' = Append(sparse_wal, Torn))
        /\ (n = "whole" => sparse_wal' = Append(sparse_wal, Envelope))
    BY <1>0, <1>8, AppendedForms
  <2>3. Envelope # Torn /\ Envelope \in Seq(SparseRecord)
        /\ Range(Envelope) = {[seq |-> mem.last + 1, id |-> i, val |-> s]}
    BY <1>0, <1>8, EnvelopeForms
  <2>4. DenseFile' = DenseFile
    BY <2>2 DEF DenseFile
  <2>5. CASE n # "whole"
    <3>1. Accepted(sparse_wal') = sparse_wal
      BY <1>0, <1>2, <2>2, <2>5, AppendTorn DEF SparseLog
    <3>2. Accepted(wal') = Accepted(wal) /\ Accepted(SparseFile') = Accepted(SparseFile)
      BY <1>1, <1>2, <2>2, <3>1
    <3> QED BY <1>0, <1>1, <2>5, <3>2, SameFiles
  <2>6. CASE n = "whole"
    <3>1. Accepted(Append(sparse_wal, Envelope)) = Append(sparse_wal, Envelope)
          /\ Records(Append(sparse_wal, Envelope)) = Records(sparse_wal) \cup Range(Envelope)
      BY <1>0, <1>2, <2>3, AppendWhole DEF SparseLog
    <3>2. FieldFile' = WithField(FieldFile, Durable.last, i, s)
      BY <1>1, <1>2, <1>4, <2>2, <2>3, <2>6, <3>1 DEF FieldFile, WithField
    <3>a. mem.dense[i].val # None /\ Durable.dense[i].val = mem.dense[i].val
      BY <1>3, <1>8, <2>1 DEF Live, Agrees
    <3> DEFINE ds == DenseFile
               ss == FieldFile
               m == Replayed(ds, ss, segments)
    <3>3. m.last + 1 <= MaxSequence /\ m.dense[i].val # None
      BY <1>4, <1>5, <2>1, <3>a
    <3> HIDE DEF i, s
    <3>4. /\ Replayed(ds, WithField(ss, m.last, i, s), segments) = AppliedSparse(m, i, s)
          /\ FieldsClean(ds, WithField(ss, m.last, i, s), segments)
      BY <1>5, <2>1, <3>3, ReplaySparseCall
    <3> HIDE DEF ds, ss, m
    <3>5. Durable = m
      BY <1>5 DEF ds, ss, m
    <3>6. Durable' = AppliedSparse(Durable, i, s) /\ FieldsClean(DenseFile', FieldFile', segments)
      BY <1>6, <2>4, <3>2, <3>4, <3>5 DEF ds, ss
    <3>7. Durable' = Applied(Durable, call)
      BY <1>8, <3>6 DEF Applied, i, s
    <3>8. CleanInv'
      BY <1>1, <1>5, <3>6, CleanIs DEF CleanInv, DenseFile, FieldFile
    <3> QED BY <2>6, <3>7, <3>8
  <2> QED BY <2>5, <2>6
<1> QED BY <1>0, <1>7, <1>8, WriteForms

\* A call applied to memory and to what a recovery restores.
LEMMA AgreesApplied ==
  ASSUME TypeOK, pc \in {"append", "apply"}, NEW d \in Memory, NEW from, Agrees(mem, d, from), mem.pending = d.pending
  PROVE  Agrees(Applied(mem, call), Applied(d, call), from) /\ Applied(mem, call).pending = Applied(d, call).pending
<1>0. mem \in Memory
  BY WriteForms
<1>1. CASE call.kind = "dense"
  <2>1. Fits(mem.last, call.muts) /\ Applied(mem, call) = AppliedDense(mem, call.muts)
        /\ Applied(d, call) = AppliedDense(d, call.muts)
    BY <1>1, WriteForms DEF Applied
  <2>2. /\ Agrees(AppliedDense(mem, call.muts), AppliedDense(d, call.muts), from)
        /\ AppliedDense(mem, call.muts).pending = AppliedDense(d, call.muts).pending
    BY <1>0, <2>1, AgreesDense
  <2> QED BY <2>1, <2>2
<1>2. CASE call.kind = "sparse"
  <2> DEFINE i == call.muts[1].id
             s == call.muts[1].val
  <2>1. mem.last + 1 <= MaxSequence /\ i \in Id /\ s \in Sparse
    BY <1>2, WriteForms
  <2>2. Applied(mem, call) = AppliedSparse(mem, i, s) /\ Applied(d, call) = AppliedSparse(d, i, s)
    BY <1>2 DEF Applied
  <2> HIDE DEF i, s
  <2>3. /\ Agrees(AppliedSparse(mem, i, s), AppliedSparse(d, i, s), from)
        /\ AppliedSparse(mem, i, s).pending = AppliedSparse(d, i, s).pending
    BY <1>0, <2>1, AgreesSparse
  <2> QED BY <2>2, <2>3
<1> QED BY <1>1, <1>2, WriteForms

LEMMA AppendLogClean ==
  ASSUME StoreInv, AppendLog
  PROVE  CleanInv' /\ AgreeInv' /\ Durable' = Applied(Durable, call)
<1>0. /\ TypeOK /\ AgreeInv /\ pc = "append" /\ pc' = "apply" /\ mem' = mem /\ call' = call /\ Appended("whole")
      /\ ~blocked /\ segments' = segments
  BY DEF StoreInv, AnyFaultInv, TypeOK, AppendLog, Appended
<1>1. CleanInv' /\ Durable' = Applied(Durable, call)
  BY <1>0, AppendedFiles
<1>2. Agrees(mem, Durable, CheckpointSequence(segments)) /\ mem.pending = Durable.pending /\ Durable \in Memory
  BY <1>0, DurableIs DEF AgreeInv
<1>3. Agrees(Applied(mem, call), Applied(Durable, call), CheckpointSequence(segments))
      /\ Applied(mem, call).pending = Applied(Durable, call).pending
  BY <1>0, <1>2, AgreesApplied
<1>4. Applied(mem', call') = Applied(mem, call)
  BY <1>0
<1>5. AgreeInv'
  BY <1>0, <1>1, <1>3, <1>4 DEF AgreeInv
<1> QED BY <1>1, <1>5

LEMMA AppendRaisesClean ==
  ASSUME StoreInv, CrashesAndBatches, AppendRaises
  PROVE  /\ CleanInv' /\ AgreeInv' /\ pc = "append" /\ (Durable' = Durable \/ Durable' = Applied(Durable, call))
<1>0. pc = "append" /\ pc' = "idle" /\ blocked' = TRUE
  BY DEF AppendRaises, Fault, CrashesAndBatches
<1>1. PICK n \in {"none", "torn", "whole"} : Appended(n)
  BY DEF AppendRaises
<1>2. CleanInv' /\ (Durable' = Durable \/ Durable' = Applied(Durable, call))
  BY <1>0, <1>1, AppendedFiles
<1> QED BY <1>0, <1>2 DEF AgreeInv

LEMMA CrashClean ==
  ASSUME StoreInv, CrashesAndBatches, Crash
  PROVE  /\ CleanInv' /\ AgreeInv'
         /\ \/ Durable' = Durable
            \/ pc = "append" /\ Durable' = Applied(Durable, call)
<1>0. pc' = "down" /\ pc # "rewrite_sparse"
  BY DEF Crash, Fault, CrashesAndBatches
<1>1. AgreeInv'
  BY <1>0 DEF AgreeInv
<1>2. CASE pc = "append"
  <2>1. PICK n \in {"none", "torn", "whole"} : Appended(n)
    BY <1>2 DEF Crash
  <2>2. CleanInv' /\ (Durable' = Durable \/ Durable' = Applied(Durable, call))
    BY <1>0, <1>2, <2>1, AppendedFiles
  <2> QED BY <1>1, <1>2, <2>2
<1>3. CASE pc # "append"
  <2>1. wal' = wal /\ sparse_wal' = sparse_wal /\ segments' = segments
    BY <1>3 DEF Crash, disk
  <2>2. SparseFile' = SparseFile /\ CleanInv
    BY <1>0, <2>1 DEF SparseFile, StoreInv
  <2> QED BY <1>1, <2>1, <2>2, SameFiles
<1> QED BY <1>2, <1>3

LEMMA ApplyClean ==
  ASSUME StoreInv, Apply
  PROVE  CleanInv' /\ AgreeInv' /\ Durable' = Durable
<1>0. pc = "apply" /\ pc' = "idle" /\ mem' = Applied(mem, call) /\ wal' = wal /\ sparse_wal' = sparse_wal
      /\ segments' = segments /\ CleanInv /\ AgreeInv
  BY ApplyAnyFault DEF StoreInv, Apply, disk
<1>1. SparseFile' = SparseFile
  BY <1>0 DEF SparseFile
<1>2. CleanInv' /\ Durable' = Durable
  BY <1>0, <1>1, SameFiles
<1>3. Agrees(Applied(mem, call), Durable, CheckpointSequence(segments)) /\ Applied(mem, call).pending = Durable.pending
  BY <1>0 DEF AgreeInv
<1> QED BY <1>0, <1>2, <1>3 DEF AgreeInv

LEMMA AgreesView ==
  ASSUME NEW m, NEW d, NEW from, Agrees(m, d, from)
  PROVE  View(m) = View(d)
<1>1. m.sparse = d.sparse /\ \A i \in Id : m.dense[i].val = d.dense[i].val
  BY DEF Agrees
<1>2. [i \in Id |-> m.dense[i].val] = [i \in Id |-> d.dense[i].val]
  BY <1>1
<1> QED BY <1>1, <1>2 DEF View

LEMMA PublishClean ==
  ASSUME StoreInv, PublishManifest
  PROVE  CleanInv' /\ AgreeInv' /\ View(Durable') = View(Durable)
<1>0. /\ TypeOK /\ AnyFaultInv /\ CleanInv /\ AgreeInv /\ pc = "publish" /\ pc' = "rotate" /\ mem' = mem /\ ~blocked
      /\ wal' = wal /\ sparse_wal' = sparse_wal /\ segments' = Append(segments, NewSegment) /\ IsOpen
  BY DEF StoreInv, AnyFaultInv, TypeOK, PublishManifest, IsOpen
<1>1. /\ segments' = Append(segments, SegmentOf(mem, segments)) /\ CheckpointSequence(segments') = mem.last
  BY <1>0, PublishedSegments
<1>2. /\ mem \in Memory /\ Within(mem) /\ Segmented(segments, mem.dense) /\ SegmentsBounded(segments)
  BY <1>0, OpenFacts
<1>3. Durable = Replayed(DenseFile, FieldFile, segments) /\ Files(DenseFile, FieldFile, segments)
      /\ FieldsClean(DenseFile, FieldFile, segments) /\ SegmentsClean(segments)
  BY <1>0, DurableIs, CleanIs
<1>4. Agrees(mem, Durable, CheckpointSequence(segments)) /\ mem.pending = Durable.pending
  BY <1>0 DEF AgreeInv
<1>5. DenseFile' = DenseFile /\ FieldFile' = FieldFile
  BY <1>0 DEF DenseFile, FieldFile, SparseFile
<1>6. Durable' = Replayed(DenseFile, FieldFile, segments')
  BY <1>5 DEF Durable, Recovery, DenseFile, FieldFile
<1> DEFINE ds == DenseFile
           ss == FieldFile
           t == Append(segments, SegmentOf(mem, segments))
<1>7. /\ FieldsClean(ds, ss, t) /\ SegmentsClean(t)
      /\ Agrees(mem, Replayed(ds, ss, t), mem.last)
      /\ Replayed(ds, ss, t).pending = NoEntries
  BY <1>2, <1>3, <1>4, Published
<1> HIDE DEF ds, ss, t
<1>8. CleanInv'
  BY <1>1, <1>5, <1>7 DEF CleanInv, DenseFile, FieldFile, ds, ss, t
<1>9. Agrees(mem, Durable', mem.last) /\ Durable'.pending = NoEntries
  BY <1>1, <1>6, <1>7 DEF ds, ss, t
<1>10. AgreeInv'
  BY <1>0, <1>1, <1>9 DEF AgreeInv
<1>11. View(mem) = View(Durable) /\ View(mem) = View(Durable')
  BY <1>4, <1>9, AgreesView
<1> QED BY <1>8, <1>10, <1>11

LEMMA RotateClean ==
  ASSUME StoreInv, RotateWal \/ RotateSparseWal
  PROVE  CleanInv' /\ AgreeInv' /\ Durable' = Durable
<1>0. /\ TypeOK /\ AnyFaultInv /\ CleanInv /\ AgreeInv /\ pc \in {"rotate", "rotate_sparse"} /\ IsOpen
      /\ segments' = segments /\ pc' \in {"rotate_sparse", "idle"} /\ blocked' = blocked
  BY DEF StoreInv, AnyFaultInv, RotateWal, RotateSparseWal, IsOpen
<1>1. Agrees(mem, Durable, CheckpointSequence(segments)) /\ Durable.pending = NoEntries
  BY <1>0 DEF AgreeInv
<1>2. Durable.last = CheckpointSequence(segments)
  <2>1. mem.last = CheckpointSequence(segments)
    BY <1>0, OpenFacts
  <2> QED BY <1>1, <2>1 DEF Agrees
<1>3. Durable = Replayed(DenseFile, FieldFile, segments) /\ Files(DenseFile, FieldFile, segments)
      /\ FieldsClean(DenseFile, FieldFile, segments) /\ SegmentsClean(segments)
  BY <1>0, DurableIs, CleanIs
<1>4. Durable' = Replayed(DenseFile', FieldFile', segments)
  BY <1>0 DEF Durable, Recovery, DenseFile, FieldFile
<1>5. DenseFile' \in SUBSET DenseFile /\ FieldFile' \in SUBSET FieldFile
  <2>1. CASE RotateWal
    <3>1. DenseFile' = {} /\ FieldFile' = FieldFile
      BY <2>1, EmptyLog DEF RotateWal, DenseFile, FieldFile, SparseFile
    <3> QED BY <3>1
  <2>2. CASE RotateSparseWal
    <3>1. DenseFile' = DenseFile /\ FieldFile' = {}
      BY <2>2, EmptyLog DEF RotateSparseWal, DenseFile, FieldFile, SparseFile
    <3> QED BY <3>1
  <2> QED BY <2>1, <2>2
<1> DEFINE ds == DenseFile
           ss == FieldFile
           ds2 == DenseFile'
           ss2 == FieldFile'
<1>6. Replayed(ds2, ss2, segments) = Replayed(ds, ss, segments) /\ FieldsClean(ds2, ss2, segments)
  <2>1. Replayed(ds, ss, segments).last = CheckpointSequence(segments) /\ Files(ds, ss, segments)
        /\ FieldsClean(ds, ss, segments)
    BY <1>2, <1>3
  <2>2. ds2 \in SUBSET ds /\ ss2 \in SUBSET ss
    BY <1>5
  <2> HIDE DEF ds, ss, ds2, ss2
  <2> QED BY <2>1, <2>2, Rotated
<1>7. Durable' = Durable
  BY <1>3, <1>4, <1>6
<1>8. CleanInv'
  BY <1>0, <1>3, <1>6 DEF CleanInv, DenseFile, FieldFile
<1>9. AgreeInv'
  <2>1. CASE RotateWal
    <3>1. pc' = "rotate_sparse" /\ mem' = mem
      BY <2>1 DEF RotateWal
    <3> QED BY <1>0, <1>1, <1>7, <3>1 DEF AgreeInv
  <2>2. CASE RotateSparseWal
    <3>1. pc' = "idle" /\ mem' = [mem EXCEPT !.pending = NoEntries] /\ mem \in Memory
      BY <1>0, <2>2 DEF RotateSparseWal, TypeOK
    <3>2. mem'.pending = NoEntries /\ mem'.last = mem.last /\ mem'.dense = mem.dense /\ mem'.sparse = mem.sparse
      BY <3>1 DEF Memory
    <3>3. Agrees(mem', Durable, CheckpointSequence(segments))
      BY <1>1, <3>2 DEF Agrees
    <3> QED BY <1>0, <1>1, <1>7, <3>1, <3>2, <3>3 DEF AgreeInv
  <2> QED BY <2>1, <2>2
<1> QED BY <1>7, <1>8, <1>9

LEMMA FinishClean ==
  ASSUME StoreInv, FinishCompaction
  PROVE  CleanInv' /\ AgreeInv' /\ View(Durable') = View(Durable)
<1>0. /\ TypeOK /\ AnyFaultInv /\ CleanInv /\ AgreeInv /\ IsOpen /\ pc = "idle" /\ pc' = "idle" /\ mem' = mem
      /\ wal' = wal /\ sparse_wal' = sparse_wal /\ blocked' = blocked
  BY FinishAnyFault DEF StoreInv, AnyFaultInv
<1>1. Durable = Replayed(DenseFile, FieldFile, segments) /\ Files(DenseFile, FieldFile, segments)
      /\ FieldsClean(DenseFile, FieldFile, segments) /\ SegmentsClean(segments)
  BY <1>0, DurableIs, CleanIs
<1>2. DenseFile' = DenseFile /\ FieldFile' = FieldFile
  BY <1>0 DEF DenseFile, FieldFile, SparseFile
<1>3. Durable' = Replayed(DenseFile, FieldFile, segments')
  BY <1>2 DEF Durable, Recovery, DenseFile, FieldFile
<1>4. segments \in Seq(Segment) /\ SegmentsBounded(segments)
  BY <1>0, OpenFacts
<1>5. CASE segments' = segments
  <2>1. SparseFile' = SparseFile
    BY <1>0 DEF SparseFile
  <2>2. CleanInv' /\ Durable' = Durable
    BY <1>0, <1>5, <2>1, SameFiles
  <2> QED BY <1>0, <1>5, <2>2 DEF AgreeInv
<1>6. CASE segments' # segments
  <2> DEFINE t == Compacted(segments, Len(job.inputs), CompactionOutput(job.inputs))
             ds == DenseFile
             ss == FieldFile
  <2>1. segments' = t /\ Captured(job.inputs) /\ IsPrefix(job.inputs, segments)
    BY <1>6, FinishAnyFault DEF StoreInv
  <2>2. /\ t \in Seq(Segment) /\ CheckpointSequence(t) = CheckpointSequence(segments)
        /\ SegmentsBounded(t)
        /\ \A i \in Id : Newest(t, "dense", i).val = Newest(segments, "dense", i).val
        /\ SegmentsClean(t)
        /\ \A i \in Id : Newest(t, "sparse", i).val = Newest(segments, "sparse", i).val
    BY <1>1, <1>4, <2>1, CompactedSegments
  <2> HIDE DEF t
  <2>3. Files(ds, ss, segments) /\ FieldsClean(ds, ss, segments)
    BY <1>1
  <2>4. Files(ds, ss, t)
    BY <2>2, <2>3 DEF Files
  <2> HIDE DEF ds, ss
  <2>5. /\ FieldsClean(ds, ss, t)
        /\ Agrees(Replayed(ds, ss, t), Replayed(ds, ss, segments), CheckpointSequence(segments))
        /\ Replayed(ds, ss, t).pending = Replayed(ds, ss, segments).pending
    BY <1>4, <2>2, <2>3, <2>4, CompactedReplay
  <2>6. Durable = Replayed(ds, ss, segments) /\ Durable' = Replayed(ds, ss, t)
    BY <1>1, <1>3, <2>1 DEF ds, ss
  <2>7. CleanInv'
    BY <1>2, <2>1, <2>2, <2>5 DEF CleanInv, DenseFile, FieldFile, ds, ss
  <2>8. Agrees(Durable', Durable, CheckpointSequence(segments)) /\ Durable'.pending = Durable.pending
    BY <2>5, <2>6
  <2>9. View(Durable') = View(Durable)
    BY <2>8, AgreesView
  <2>10. AgreeInv'
    <3>1. CASE blocked
      BY <1>0, <3>1 DEF AgreeInv
    <3>2. CASE ~blocked
      <4>1. Agrees(mem, Durable, CheckpointSequence(segments)) /\ mem.pending = Durable.pending
        BY <1>0, <3>2 DEF AgreeInv
      <4>2. Agrees(mem, Durable', CheckpointSequence(segments))
        BY <2>8, <4>1, AgreesBoth
      <4>3. CheckpointSequence(segments') = CheckpointSequence(segments)
        BY <2>1, <2>2
      <4> QED BY <1>0, <2>8, <4>1, <4>2, <4>3 DEF AgreeInv
    <3> QED BY <3>1, <3>2
  <2> QED BY <2>7, <2>9, <2>10
<1> QED BY <1>5, <1>6

LEMMA StutterClean ==
  ASSUME StoreInv, UNCHANGED vars
  PROVE  CleanInv' /\ AgreeInv' /\ Durable' = Durable
<1>1. /\ wal' = wal /\ sparse_wal' = sparse_wal /\ segments' = segments /\ mem' = mem /\ pc' = pc /\ call' = call
      /\ blocked' = blocked /\ CleanInv /\ AgreeInv
  BY DEF vars, disk, StoreInv
<1>2. SparseFile' = SparseFile /\ Applied(mem', call') = Applied(mem, call)
  BY <1>1 DEF SparseFile
<1>3. CleanInv' /\ Durable' = Durable
  BY <1>1, <1>2, SameFiles
<1>4. AgreeInv'
  BY <1>1, <1>2, <1>3 DEF AgreeInv
<1> QED BY <1>3, <1>4

LEMMA NoFlushError ==
  ASSUME CrashesAndBatches
  PROVE  ~FlushRaises /\ NoAppendError
BY DEF CrashesAndBatches, FlushRaises, Fault, NoAppendError

LEMMA NextStore ==
  ASSUME CrashesAndBatches, StoreInv, [Next]_vars
  PROVE  StoreInv'
<1>1. AnyFaultInv /\ LogInv /\ CleanInv /\ AgreeInv
  BY DEF StoreInv
<1>2. AnyFaultInv' /\ LogInv'
  BY <1>1, NextAnyFault, NextLog, NoFlushError
<1>3. CleanInv' /\ AgreeInv'
  BY <1>1, NoFlushError, OpenClean, RepairClean, QuietClean, AppendLogClean, AppendRaisesClean, ApplyClean,
     PublishClean, RotateClean, FinishClean, CrashClean, StutterClean DEF Next
<1> QED BY <1>2, <1>3 DEF StoreInv

\* Between the steps of a call a recovery from the files restores what memory serves
\* and has pending, but for the one call that is durable and not yet applied.
THEOREM StoreInvariant ==
  ASSUME CrashesAndBatches
  PROVE  Spec => []StoreInv
<1>1. Init => StoreInv
  BY InitAnyFault, InitLog, InitClean DEF StoreInv
<1>2. StoreInv /\ [Next]_vars => StoreInv'
  BY NextStore
<1> QED BY <1>1, <1>2, PTL DEF Spec

LEMMA ReadyAgrees ==
  ASSUME StoreInv, Ready
  PROVE  /\ restored = Durable /\ restored.pending = mem.pending /\ restored.last = mem.last
<1>1. pc = "idle" /\ ~blocked /\ TypeOK /\ AgreeInv
  BY DEF Ready, StoreInv, AnyFaultInv
<1>2. restored = Durable
  BY <1>1, DurableForms
<1>3. Agrees(mem, Durable, CheckpointSequence(segments)) /\ mem.pending = Durable.pending
  BY <1>1 DEF AgreeInv
<1> QED BY <1>2, <1>3 DEF Agrees

\* A reopen at any moment between two calls resumes with the sequence number and the
\* sparse_pending of memory, deletes that only dense records imply included.
THEOREM ReopenAlwaysKeepsPending ==
  ASSUME CrashesAndBatches
  PROVE  Spec => []ReopenKeepsPending
<1>1. StoreInv => ReopenKeepsPending
  BY ReadyAgrees DEF ReopenKeepsPending
<1> QED BY <1>1, StoreInvariant, PTL

\* Whenever a flush may start, write_sparse_segment accepts the pending sparse changes:
\* they lie above the checkpoint.
THEOREM CheckpointCanAlwaysRun ==
  ASSUME CrashesAndBatches
  PROVE  Spec => []CheckpointCanRun
<1>1. StoreInv => CheckpointCanRun
  <2> SUFFICES ASSUME StoreInv, Ready PROVE Encodable
    BY DEF CheckpointCanRun
  <2>1. mem.pending = Durable.pending /\ TypeOK
    BY ReadyAgrees DEF StoreInv, AnyFaultInv
  <2>2. Durable = Replayed(DenseFile, FieldFile, segments) /\ Files(DenseFile, FieldFile, segments)
    BY <2>1, DurableIs
  <2>3. ASSUME NEW i \in Id
        PROVE  mem.pending[i].seq > 0 => mem.pending[i].seq > CheckpointSequence(segments)
    <3>1. mem.pending[i] = RecoveredSparse(DenseFile, FieldFile, segments, i).pending
      BY <2>1, <2>2, ReplayedAt
    <3> DEFINE ds == DenseFile
               ss == FieldFile
               s == RecoveredSparse(ds, ss, segments, i)
    <3>2. s.pending.seq > 0 => s.pending.seq > CheckpointSequence(segments)
      BY <2>2, SparseFacts
    <3> QED BY <3>1, <3>2
  <2> QED BY <2>3 DEF Encodable
<1> QED BY <1>1, StoreInvariant, PTL

-----------------------------------------------------------------------------
(***************************************************************************)
(* A collection is a durable map.                                          *)
(***************************************************************************)
\* The first n mutations of a dense call, on a map.
FirstOf(map, muts, n) ==
  LET touched(i) == {k \in 1..n : muts[k].id = i}
  IN [dense |-> [i \in Id |-> IF touched(i) = {} THEN map.dense[i] ELSE muts[Max(touched(i))].val],
      sparse |-> [i \in Id |-> IF \E k \in touched(i) : muts[k].val = None THEN None ELSE map.sparse[i]]]
IsMap(map) == map = [dense |-> [i \in Id |-> map.dense[i]], sparse |-> [i \in Id |-> map.sparse[i]]]

LEMMA FirstOne ==
  ASSUME NEW map, IsMap(map), NEW muts \in DenseCalls, NEW n \in 1..Len(muts)
  PROVE  FirstOf(map, muts, n) = Map!Mutated(FirstOf(map, muts, n - 1), muts[n])
<1> DEFINE a(i) == {k \in 1..(n - 1) : muts[k].id = i}
           b(i) == {k \in 1..n : muts[k].id = i}
           f == FirstOf(map, muts, n - 1)
           g == FirstOf(map, muts, n)
<1>0. n \in Nat /\ n - 1 \in Nat /\ Len(muts) \in Nat /\ muts[n].id \in Id
  BY DenseCallTypes
<1>1. 1..n = 1..(n - 1) \cup {n} /\ n \notin 1..(n - 1)
  BY <1>0
<1>2. /\ f = [dense |-> [i \in Id |-> IF a(i) = {} THEN map.dense[i] ELSE muts[Max(a(i))].val],
              sparse |-> [i \in Id |-> IF \E k \in a(i) : muts[k].val = None THEN None ELSE map.sparse[i]]]
      /\ g = [dense |-> [i \in Id |-> IF b(i) = {} THEN map.dense[i] ELSE muts[Max(b(i))].val],
              sparse |-> [i \in Id |-> IF \E k \in b(i) : muts[k].val = None THEN None ELSE map.sparse[i]]]
  BY DEF FirstOf
<1>3. ASSUME NEW i \in Id
      PROVE  /\ i # muts[n].id => b(i) = a(i)
             /\ i = muts[n].id => b(i) = a(i) \cup {n} /\ b(i) # {} /\ Max(b(i)) = n
  <2>1. i # muts[n].id => b(i) = a(i)
    BY <1>1
  <2>2. ASSUME i = muts[n].id PROVE b(i) = a(i) \cup {n} /\ b(i) # {} /\ Max(b(i)) = n
    <3>1. b(i) = a(i) \cup {n}
      BY <1>1, <2>2
    <3>2. b(i) \subseteq Nat /\ n \in b(i) /\ \A k \in b(i) : k <= n
      BY <1>0, <2>2
    <3>3. Max(b(i)) = n
      <4> HIDE DEF b
      <4> QED BY <3>2, MaxIs
    <3> QED BY <3>1, <3>2, <3>3
  <2> QED BY <2>1, <2>2
<1> HIDE DEF a, b, f, g
<1>4. f.dense = [i \in Id |-> f.dense[i]] /\ f.sparse = [i \in Id |-> f.sparse[i]]
  BY <1>2
<1>5. ASSUME NEW i \in Id
      PROVE  /\ g.dense[i] = IF i = muts[n].id THEN muts[n].val ELSE f.dense[i]
             /\ g.sparse[i] = IF i = muts[n].id /\ muts[n].val = None THEN None ELSE f.sparse[i]
  <2>1. /\ g.dense[i] = IF b(i) = {} THEN map.dense[i] ELSE muts[Max(b(i))].val
        /\ g.sparse[i] = IF \E k \in b(i) : muts[k].val = None THEN None ELSE map.sparse[i]
    BY <1>2
  <2>2. /\ f.dense[i] = IF a(i) = {} THEN map.dense[i] ELSE muts[Max(a(i))].val
        /\ f.sparse[i] = IF \E k \in a(i) : muts[k].val = None THEN None ELSE map.sparse[i]
    BY <1>2
  <2>3. CASE i # muts[n].id
    <3>1. b(i) = a(i)
      BY <1>3, <2>3
    <3> QED BY <2>1, <2>2, <2>3, <3>1
  <2>4. CASE i = muts[n].id
    <3>1. b(i) = a(i) \cup {n} /\ b(i) # {} /\ Max(b(i)) = n
      BY <1>3, <2>4
    <3>2. g.dense[i] = muts[n].val
      BY <2>1, <3>1
    <3>3. (\E k \in b(i) : muts[k].val = None) <=> ((\E k \in a(i) : muts[k].val = None) \/ muts[n].val = None)
      BY <3>1
    <3>4. g.sparse[i] = IF muts[n].val = None THEN None ELSE f.sparse[i]
      BY <2>1, <2>2, <3>3
    <3> QED BY <2>4, <3>2, <3>4
  <2> QED BY <2>3, <2>4
<1> DEFINE h == Map!Mutated(f, muts[n])
<1>6. h = [dense |-> [f.dense EXCEPT ![muts[n].id] = muts[n].val],
           sparse |-> IF muts[n].val = None THEN [f.sparse EXCEPT ![muts[n].id] = None] ELSE f.sparse]
  BY DEF Map!Mutated
<1> HIDE DEF h
<1>7. g.dense = [i \in Id |-> g.dense[i]] /\ g.sparse = [i \in Id |-> g.sparse[i]]
      /\ g = [dense |-> g.dense, sparse |-> g.sparse]
  BY <1>2
<1>8. h.dense = g.dense
  BY <1>0, <1>4, <1>5, <1>6, <1>7
<1>9. h.sparse = g.sparse
  <2>1. CASE muts[n].val = None
    <3>1. h.sparse = [f.sparse EXCEPT ![muts[n].id] = None]
      BY <1>6, <2>1
    <3> QED BY <1>0, <1>4, <1>5, <1>7, <2>1, <3>1
  <2>2. CASE muts[n].val # None
    <3>1. h.sparse = f.sparse /\ \A i \in Id : g.sparse[i] = f.sparse[i]
      BY <1>5, <1>6, <2>2
    <3> QED BY <1>4, <1>7, <3>1
  <2> QED BY <2>1, <2>2
<1>10. h = g
  BY <1>6, <1>7, <1>8, <1>9
<1> QED BY <1>10 DEF h, g, f

LEMMA WrittenIs ==
  ASSUME NEW map, IsMap(map), NEW muts \in DenseCalls
  PROVE  Map!Written(map, muts) = FirstOf(map, muts, Len(muts))
<1> DEFINE N == Len(muts)
           IsUpto(f) == f = [n \in 0..N |-> IF n = 0 THEN map ELSE Map!Mutated(f[n - 1], muts[n])]
           g == [n \in 0..N |-> FirstOf(map, muts, n)]
<1>1. N \in Nat
  BY DenseCallTypes
<1>2. FirstOf(map, muts, 0) = map
  <2>1. 1..0 = {}
    OBVIOUS
  <2> QED BY <2>1 DEF FirstOf, IsMap
<1>3. \A n \in 0..N : g[n] = IF n = 0 THEN map ELSE Map!Mutated(g[n - 1], muts[n])
  <2> SUFFICES ASSUME NEW n \in 0..N
               PROVE  g[n] = IF n = 0 THEN map ELSE Map!Mutated(g[n - 1], muts[n])
    OBVIOUS
  <2>1. CASE n = 0
    BY <1>2, <2>1
  <2>2. CASE n # 0
    <3>1. n \in 1..N /\ n - 1 \in 0..N
      BY <1>1, <2>2
    <3>2. FirstOf(map, muts, n) = Map!Mutated(FirstOf(map, muts, n - 1), muts[n])
      BY <3>1, FirstOne
    <3> QED BY <2>2, <3>1, <3>2
  <2> QED BY <2>1, <2>2
<1>4. IsUpto(g)
  BY <1>3
<1>5. ASSUME NEW f, IsUpto(f)
      PROVE  f[N] = g[N]
  <2> DEFINE W == {n \in 0..N : f[n] # g[n]}
  <2>1. \A n \in 0..N : f[n] = IF n = 0 THEN map ELSE Map!Mutated(f[n - 1], muts[n])
    BY <1>5
  <2> HIDE DEF g, IsUpto
  <2>3. SUFFICES ASSUME W # {} PROVE FALSE
    BY <1>1
  <2>4. W \subseteq Nat
    OBVIOUS
  <2>5. PICK x \in W : \A y \in W : x <= y
    BY <2>3, <2>4, LeastNumber
  <2>6. x # 0 /\ x - 1 \in 0..N
    BY <1>1, <1>3, <2>1, <2>5
  <2>7. f[x - 1] = g[x - 1]
    BY <2>5, <2>6
  <2> QED BY <1>3, <2>1, <2>5, <2>6, <2>7
<1>6. Map!Written(map, muts) = (CHOOSE f : IsUpto(f))[N]
  BY DEF Map!Written
<1>7. IsUpto(CHOOSE f : IsUpto(f))
  <2> HIDE DEF IsUpto, g
  <2> QED BY <1>4, Zenon
<1>8. Map!Written(map, muts) = g[N]
  <2> HIDE DEF IsUpto, g
  <2> QED BY <1>5, <1>6, <1>7
<1> QED BY <1>1, <1>8

LEMMA ViewIsMap ==
  ASSUME NEW m \in Memory
  PROVE  IsMap(View(m))
<1>1. m.sparse = [i \in Id |-> m.sparse[i]]
  BY DEF Memory
<1> QED BY <1>1 DEF IsMap, View

\* A dense call does to the served map what its mutations do one after another.
LEMMA AppliedDenseView ==
  ASSUME NEW m \in Memory, NEW muts, Fits(m.last, muts)
  PROVE  View(AppliedDense(m, muts)) = Map!Written(View(m), muts)
<1> DEFINE a == AppliedDense(m, muts)
           f == FirstOf(View(m), muts, Len(muts))
<1>0. muts \in DenseCalls /\ m.last + Len(muts) <= MaxSequence /\ Len(muts) \in Nat
  BY DenseCallTypes DEF Fits
<1>1. a \in Memory
      /\ \A i \in Id :
           /\ a.dense[i] = IF Touched(muts, i) = {} THEN m.dense[i]
                           ELSE [seq |-> m.last + Max(Touched(muts, i)), val |-> muts[Max(Touched(muts, i))].val]
           /\ a.sparse[i] = IF Deletes(muts, i) # {} /\ m.sparse[i] # None THEN None ELSE m.sparse[i]
           /\ a.pending[i] = IF Deletes(muts, i) # {} /\ m.sparse[i] # None
                               THEN [seq |-> m.last + Min(Deletes(muts, i)), val |-> None] ELSE m.pending[i]
  BY <1>0, AppliedDenseFields
<1>2. Map!Written(View(m), muts) = f
  BY <1>0, ViewIsMap, WrittenIs
<1>3. f = [dense |-> [i \in Id |-> IF Touched(muts, i) = {} THEN View(m).dense[i] ELSE muts[Max(Touched(muts, i))].val],
           sparse |-> [i \in Id |-> IF \E k \in Touched(muts, i) : muts[k].val = None THEN None ELSE View(m).sparse[i]]]
  BY DEF FirstOf, Touched
<1> HIDE DEF a, f
<1>4. ASSUME NEW i \in Id
      PROVE  f.dense[i] = a.dense[i].val /\ f.sparse[i] = a.sparse[i]
  <2>1. View(m).dense[i] = m.dense[i].val /\ View(m).sparse[i] = m.sparse[i]
    BY DEF View
  <2>2. f.dense[i] = a.dense[i].val
    <3>1. f.dense[i] = IF Touched(muts, i) = {} THEN m.dense[i].val ELSE muts[Max(Touched(muts, i))].val
      BY <1>3, <2>1
    <3>2. CASE Touched(muts, i) = {}
      BY <1>1, <3>1, <3>2
    <3>3. CASE Touched(muts, i) # {}
      <4>1. a.dense[i] = [seq |-> m.last + Max(Touched(muts, i)), val |-> muts[Max(Touched(muts, i))].val]
        BY <1>1, <3>3
      <4> QED BY <3>1, <3>3, <4>1
    <3> QED BY <3>2, <3>3
  <2>3. f.sparse[i] = a.sparse[i]
    <3>1. f.sparse[i] = IF \E k \in Touched(muts, i) : muts[k].val = None THEN None ELSE m.sparse[i]
      BY <1>3, <2>1
    <3>2. (\E k \in Touched(muts, i) : muts[k].val = None) <=> Deletes(muts, i) # {}
      BY DEF Deletes
    <3>3. a.sparse[i] = IF Deletes(muts, i) # {} /\ m.sparse[i] # None THEN None ELSE m.sparse[i]
      BY <1>1
    <3> QED BY <3>1, <3>2, <3>3
  <2> QED BY <2>2, <2>3
<1>5. View(a) = [dense |-> [i \in Id |-> a.dense[i].val], sparse |-> a.sparse] /\ a.sparse = [i \in Id |-> a.sparse[i]]
  BY <1>1 DEF View, Memory
<1>6. f.dense = [i \in Id |-> f.dense[i]] /\ f.sparse = [i \in Id |-> f.sparse[i]]
      /\ f = [dense |-> f.dense, sparse |-> f.sparse]
  BY <1>3
<1>7. f.dense = [i \in Id |-> a.dense[i].val] /\ f.sparse = a.sparse
  BY <1>4, <1>5, <1>6
<1> QED BY <1>2, <1>5, <1>6, <1>7 DEF a

LEMMA AppliedSparseView ==
  ASSUME NEW m \in Memory, NEW i \in Id, NEW s \in Sparse, m.last + 1 <= MaxSequence
  PROVE  View(AppliedSparse(m, i, s)) = [View(m) EXCEPT !.sparse[i] = s]
<1> DEFINE a == AppliedSparse(m, i, s)
<1>1. /\ a \in Memory /\ a.last = m.last + 1 /\ a.dense = m.dense
      /\ \A j \in Id : /\ a.sparse[j] = IF j = i THEN s ELSE m.sparse[j]
                       /\ a.pending[j] = IF j = i THEN [seq |-> m.last + 1, val |-> s] ELSE m.pending[j]
  BY AppliedSparseFields
<1> HIDE DEF a
<1>2. a.sparse = [j \in Id |-> a.sparse[j]] /\ m.sparse = [j \in Id |-> m.sparse[j]]
  BY <1>1 DEF Memory
<1>3. a.sparse = [m.sparse EXCEPT ![i] = s]
  BY <1>1, <1>2
<1>4. View(a) = [dense |-> [j \in Id |-> m.dense[j].val], sparse |-> [m.sparse EXCEPT ![i] = s]]
  BY <1>1, <1>3 DEF View
<1>5. View(m) = [dense |-> [j \in Id |-> m.dense[j].val], sparse |-> m.sparse]
  BY DEF View
<1>6. [View(m) EXCEPT !.sparse[i] = s] = [dense |-> [j \in Id |-> m.dense[j].val], sparse |-> [m.sparse EXCEPT ![i] = s]]
  BY <1>5
<1> QED BY <1>4, <1>6 DEF a

\* What a call makes of the durable map is one of its results.
LEMMA ResultIs ==
  ASSUME StoreInv, pc = "append"
  PROVE  View(Applied(Durable, call)) \in Map!Results(View(Durable)) /\ View(mem) = View(Durable)
<1>0. TypeOK /\ AgreeInv /\ ~blocked
  BY DEF StoreInv, AnyFaultInv, TypeOK
<1>1. Agrees(mem, Durable, CheckpointSequence(segments)) /\ Durable \in Memory
      /\ (call.kind = "sparse" => Live(mem.dense, call.muts[1].id))
  BY <1>0, DurableIs DEF AgreeInv
<1>2. mem.last = Durable.last /\ View(mem) = View(Durable)
  BY <1>1, AgreesView DEF Agrees
<1>3. CASE call.kind = "dense"
  <2>1. Fits(Durable.last, call.muts) /\ Applied(Durable, call) = AppliedDense(Durable, call.muts)
        /\ call.muts \in DenseCalls
    BY <1>0, <1>2, <1>3, WriteForms DEF Applied, Fits
  <2>2. View(Applied(Durable, call)) = Map!Written(View(Durable), call.muts)
    BY <1>1, <2>1, AppliedDenseView
  <2> QED BY <1>2, <2>1, <2>2 DEF Map!Results
<1>4. CASE call.kind = "sparse"
  <2> DEFINE i == call.muts[1].id
             s == call.muts[1].val
             d == Durable
  <2>1. d.last + 1 <= MaxSequence /\ i \in Id /\ s \in Sparse /\ d \in Memory
    BY <1>0, <1>1, <1>2, <1>4, WriteForms
  <2>2. Applied(d, call) = AppliedSparse(d, i, s)
    BY <1>4 DEF Applied
  <2>3. View(d).dense[i] # None
    <3>1. mem.dense[i].val # None /\ d.dense[i].val = mem.dense[i].val
      BY <1>1, <1>4, <2>1 DEF Live, Agrees
    <3> QED BY <2>1, <3>1 DEF View
  <2> HIDE DEF i, s, d
  <2>4. View(Applied(d, call)) = [View(d) EXCEPT !.sparse[i] = s]
    BY <2>1, <2>2, AppliedSparseView
  <2>5. [View(d) EXCEPT !.sparse[i] = s] \in Map!Results(View(d))
    BY <2>1, <2>3 DEF Map!Results
  <2> QED BY <1>2, <2>4, <2>5 DEF d
<1> QED BY <1>0, <1>3, <1>4, WriteForms

\* The maps of the abstract specification.
DurableView == View(IF pc = "rewrite_sparse" THEN mem ELSE restored)
VisibleView == View(IF IsOpen THEN mem ELSE EmptyMem)

LEMMA DurableViewIs ==
  ASSUME AnyFaultInv
  PROVE  DurableView = View(Durable)
<1>1. CASE pc = "rewrite_sparse"
  BY <1>1 DEF AnyFaultInv, RepairInv, Repairing, DurableView
<1>2. CASE pc # "rewrite_sparse"
  BY <1>2, DurableForms DEF AnyFaultInv, DurableView
<1> QED BY <1>1, <1>2

LEMMA MapStep ==
  ASSUME \/ IsOpen /\ IsOpen' /\ VisibleView = DurableView /\ VisibleView' = VisibleView
            /\ DurableView' \in Map!Results(DurableView)
         \/ IsOpen /\ IsOpen' /\ VisibleView' = DurableView /\ DurableView' = DurableView
         \/ IsOpen /\ ~IsOpen' /\ VisibleView' = Map!Empty
            /\ (DurableView' = DurableView \/ (VisibleView = DurableView /\ DurableView' \in Map!Results(DurableView)))
         \/ ~IsOpen /\ IsOpen' /\ VisibleView' = DurableView /\ DurableView' = DurableView
         \/ DurableView' = DurableView /\ IsOpen' = IsOpen /\ VisibleView' = VisibleView
  PROVE  [Map!DNext]_(Map!dvars)
<1>1. CASE IsOpen /\ IsOpen' /\ VisibleView = DurableView /\ VisibleView' = VisibleView
           /\ DurableView' \in Map!Results(DurableView)
  <2>1. CASE DurableView' = DurableView
    <3>1. IsOpen' = IsOpen
      BY <1>1
    <3> QED BY <1>1, <2>1, <3>1 DEF Map!dvars, DurableView, VisibleView
  <2>2. CASE DurableView' # DurableView
    <3>1. Map!Commit
      BY <1>1, <2>2 DEF Map!Commit, DurableView, VisibleView
    <3> QED BY <3>1 DEF Map!DNext
  <2> QED BY <2>1, <2>2
<1>2. CASE IsOpen /\ IsOpen' /\ VisibleView' = DurableView /\ DurableView' = DurableView
  <2>1. IsOpen' = IsOpen
    BY <1>2
  <2>2. Map!Publish
    BY <1>2, <2>1 DEF Map!Publish, DurableView, VisibleView
  <2> QED BY <2>2 DEF Map!DNext
<1>3. CASE IsOpen /\ ~IsOpen' /\ VisibleView' = Map!Empty
           /\ (DurableView' = DurableView \/ (VisibleView = DurableView /\ DurableView' \in Map!Results(DurableView)))
  <2>1. Map!Stop
    BY <1>3 DEF Map!Stop, DurableView, VisibleView
  <2> QED BY <2>1 DEF Map!DNext
<1>4. CASE ~IsOpen /\ IsOpen' /\ VisibleView' = DurableView /\ DurableView' = DurableView
  <2>1. Map!Recover
    BY <1>4 DEF Map!Recover, DurableView, VisibleView
  <2> QED BY <2>1 DEF Map!DNext
<1>5. CASE DurableView' = DurableView /\ IsOpen' = IsOpen /\ VisibleView' = VisibleView
  BY <1>5 DEF Map!dvars, DurableView, VisibleView
<1> QED BY <1>1, <1>2, <1>3, <1>4, <1>5

LEMMA EmptyView ==
  View(EmptyMem) = Map!Empty
<1>1. \A i \in Id : EmptyMem.dense[i].val = None
  BY EntryTypes DEF EmptyMem
<1>2. EmptyMem.sparse = [i \in Id |-> None]
  BY DEF EmptyMem
<1> QED BY <1>1, <1>2 DEF View, Map!Empty

LEMMA DurableViewNext ==
  ASSUME AnyFaultInv'
  PROVE  DurableView' = View(Durable')
<1>1. CASE pc' = "rewrite_sparse"
  BY <1>1 DEF AnyFaultInv, RepairInv, Repairing, DurableView
<1>2. CASE pc' # "rewrite_sparse"
  <2>1. restored' = Recovered' /\ Durable' = Recovered'
    BY <1>2 DEF AnyFaultInv, TypeOK, Durable, SparseFile, Recovered
  <2> QED BY <1>2, <2>1 DEF DurableView
<1> QED BY <1>1, <1>2

\* A step that changes neither map, and neither opens nor closes the collection.
LEMMA HiddenStep ==
  ASSUME AnyFaultInv, AnyFaultInv', View(Durable') = View(Durable),
         \/ IsOpen /\ IsOpen' /\ View(mem') = View(mem)
         \/ ~IsOpen /\ ~IsOpen'
  PROVE  [Map!DNext]_(Map!dvars)
<1>1. DurableView' = DurableView
  BY DurableViewIs, DurableViewNext
<1>2. IsOpen' = IsOpen
  BY DEF IsOpen
<1>3. VisibleView' = VisibleView
  BY DEF VisibleView
<1> QED BY <1>1, <1>2, <1>3, MapStep

LEMMA MapNext ==
  ASSUME CrashesAndBatches, StoreInv, [Next]_vars
  PROVE  [Map!DNext]_(Map!dvars)
<1>0. AnyFaultInv /\ LogInv /\ CleanInv /\ AgreeInv /\ AnyFaultInv' /\ TypeOK
  BY NextStore DEF StoreInv, AnyFaultInv
<1>1. DurableView = View(Durable) /\ DurableView' = View(Durable')
  BY <1>0, DurableViewIs, DurableViewNext
<1>2. CASE Open
  <2>1. ~IsOpen /\ ~IsOpen'
    BY <1>2 DEF Open, IsOpen
  <2> QED BY <1>0, <1>2, <2>1, OpenClean, HiddenStep
<1>3. CASE RepairWal \/ EmptySparseWal \/ RewriteSparseWal
  <2>1. Durable' = Durable /\ mem' = mem
    BY <1>0, <1>3, RepairAnyFault
  <2>2. ~IsOpen /\ mem = Durable
    BY <1>0, <1>3 DEF RepairWal, EmptySparseWal, RewriteSparseWal, IsOpen, AnyFaultInv, RepairInv, Repairing
  <2>3. CASE IsOpen'
    <3>1. VisibleView' = View(mem')
      BY <2>3 DEF VisibleView
    <3>2. VisibleView' = DurableView /\ DurableView' = DurableView
      BY <1>1, <2>1, <2>2, <3>1
    <3> QED BY <2>2, <2>3, <3>2, MapStep
  <2>4. CASE ~IsOpen'
    BY <1>0, <2>1, <2>2, <2>4, HiddenStep
  <2> QED BY <2>3, <2>4
<1>4. CASE \/ \E muts \in DenseCalls : WriteDense(muts)
           \/ \E i \in Id, s \in Sparse : WriteSparse(i, s)
           \/ Flush \/ BeginCompaction \/ BuildCompaction
  <2>1. Durable' = Durable /\ IsOpen /\ IsOpen' /\ mem' = mem
    BY <1>0, <1>4, QuietAnyFault
  <2> QED BY <1>0, <2>1, HiddenStep
<1>5. CASE AppendLog \/ AppendRaises
  <2>1. pc = "append" /\ IsOpen /\ IsOpen' /\ mem' = mem
    BY <1>0, <1>5, AppendAnyFault DEF IsOpen
  <2>2. Durable' = Durable \/ Durable' = Applied(Durable, call)
    BY <1>5, AppendLogClean, AppendRaisesClean
  <2>3. CASE Durable' = Durable
    BY <1>0, <2>1, <2>3, HiddenStep
  <2>4. CASE Durable' = Applied(Durable, call)
    <3>1. View(Durable') \in Map!Results(View(Durable)) /\ View(mem) = View(Durable)
      BY <2>1, <2>4, ResultIs
    <3>2. VisibleView = View(mem) /\ VisibleView' = View(mem)
      BY <2>1 DEF VisibleView
    <3> QED BY <1>1, <2>1, <3>1, <3>2, MapStep
  <2> QED BY <2>2, <2>3, <2>4
<1>6. CASE Apply
  <2>1. IsOpen /\ IsOpen' /\ mem' = Applied(mem, call) /\ pc = "apply"
    BY <1>0, <1>6, ApplyAnyFault DEF IsOpen, Apply
  <2>2. Durable' = Durable
    BY <1>6, ApplyClean
  <2>3. View(mem') = View(Durable)
    <3>1. Agrees(Applied(mem, call), Durable, CheckpointSequence(segments))
      BY <1>0, <2>1 DEF AgreeInv
    <3> QED BY <2>1, <3>1, AgreesView
  <2>4. VisibleView' = View(mem')
    BY <2>1 DEF VisibleView
  <2> QED BY <1>1, <2>1, <2>2, <2>3, <2>4, MapStep
<1>7. CASE PublishManifest \/ RotateWal \/ RotateSparseWal
  <2>1. IsOpen /\ IsOpen' /\ mem'.dense = mem.dense /\ mem'.sparse = mem.sparse
    BY <1>0, <1>7, CheckpointAnyFault
  <2>2. View(mem') = View(mem)
    BY <2>1 DEF View
  <2>3. View(Durable') = View(Durable)
    BY <1>7, PublishClean, RotateClean
  <2> QED BY <1>0, <2>1, <2>2, <2>3, HiddenStep
<1>8. CASE FinishCompaction
  <2>1. IsOpen /\ IsOpen' /\ mem' = mem
    BY <1>0, <1>8, FinishAnyFault DEF IsOpen
  <2> QED BY <1>0, <1>8, <2>1, FinishClean, HiddenStep
<1>9. CASE Close
  <2>1. IsOpen /\ ~IsOpen' /\ Durable' = Durable
    BY <1>0, <1>9, OpenClean DEF Close, IsOpen
  <2>2. VisibleView' = Map!Empty
    BY <2>1, <1>9, EmptyView DEF Close, VisibleView
  <2> QED BY <1>1, <2>1, <2>2, MapStep
<1>10. CASE Crash
  <2>1. ~IsOpen'
    BY <1>10 DEF Crash, IsOpen
  <2>2. VisibleView' = Map!Empty
    BY <2>1, EmptyView DEF VisibleView
  <2>3. Durable' = Durable \/ (pc = "append" /\ Durable' = Applied(Durable, call))
    BY <1>10, CrashClean
  <2>4. CASE ~IsOpen
    <3>1. Durable' = Durable
      BY <2>3, <2>4 DEF IsOpen
    <3> QED BY <1>0, <2>1, <2>4, <3>1, HiddenStep
  <2>5. CASE IsOpen /\ Durable' = Durable
    BY <1>1, <2>1, <2>2, <2>5, MapStep
  <2>6. CASE IsOpen /\ pc = "append" /\ Durable' = Applied(Durable, call)
    <3>1. View(Durable') \in Map!Results(View(Durable)) /\ View(mem) = View(Durable)
      BY <2>6, ResultIs
    <3>2. VisibleView = View(mem)
      BY <2>6 DEF VisibleView
    <3> QED BY <1>1, <2>1, <2>2, <2>6, <3>1, <3>2, MapStep
  <2> QED BY <2>3, <2>4, <2>5, <2>6
<1>11. CASE UNCHANGED vars
  <2>1. Durable' = Durable
    BY <1>11, StutterClean
  <2>2. (IsOpen /\ IsOpen' /\ mem' = mem) \/ (~IsOpen /\ ~IsOpen')
    BY <1>11 DEF vars, IsOpen
  <2> QED BY <1>0, <2>1, <2>2, HiddenStep
<1> QED BY <1>2, <1>3, <1>4, <1>5, <1>6, <1>7, <1>8, <1>9, <1>10, <1>11, NoFlushError DEF Next

LEMMA MapInit ==
  ASSUME Init
  PROVE  Map!DInit
<1>1. ~IsOpen /\ restored = EmptyMem /\ pc # "rewrite_sparse"
  BY DEF Init, IsOpen
<1>2. View(IF pc = "rewrite_sparse" THEN mem ELSE restored) = Map!Empty
  BY <1>1, EmptyView
<1>3. View(IF IsOpen THEN mem ELSE EmptyMem) = Map!Empty
  BY <1>1, EmptyView
<1> QED BY <1>1, <1>2, <1>3 DEF Map!DInit

\* PersistentCollection implements the durable map: every call commits as a whole in
\* its log append, and checkpoints, log rotations, compactions and tail repairs change
\* nothing a recovery would restore, wherever the process dies or a batch fails.
THEOREM CollectionIsDurableMap ==
  ASSUME CrashesAndBatches
  PROVE  Spec => ImplementsDurableMap
<1>1. Init => Map!DInit
  BY MapInit
<1>2. StoreInv /\ [Next]_vars => [Map!DNext]_(Map!dvars)
  BY MapNext
<1>3. Spec => []StoreInv
  BY StoreInvariant
<1> QED BY <1>1, <1>2, <1>3, PTL DEF Spec, ImplementsDurableMap, Map!DSpec
=============================================================================
