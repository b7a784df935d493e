-------------------------- MODULE CollectionStore --------------------------
(***************************************************************************)
(* The durable state of one PersistentCollection (api/collection.mojo and  *)
(* the storage modules under it): a dense and a sparse write-ahead log     *)
(* that share one sequence, the manifest's list of base and delta          *)
(* segments, incremental checkpoints, compaction and recovery.             *)
(*                                                                         *)
(* Calls hold the writer lock, so one is in progress at a time; `pc' is    *)
(* its next step and the process may crash before any of them.  Only a     *)
(* compaction job runs beside the calls.  A mutation is an ID and a value, *)
(* None for a delete; bytes, checksums and file names are left out, except *)
(* that a log may end in (or contain) the bytes of an incomplete record.   *)
(***************************************************************************)
EXTENDS Integers, Sequences, FiniteSets, SequencesExt, FiniteSetsExt

CONSTANTS
  Id, Value, Sparse, None,
  DenseCalls,   \* the mutation sequences of upsert, delete and apply_batch
  Faults,       \* the kinds of fault that may happen
  MaxFaults,    \* how many of them (bound)
  MaxSequence   \* how many sequence numbers may be used (bound)

FaultKinds == {"crash", "repair_crash", "batch_error", "append_error", "flush_error"}

ASSUME StoreAssumption ==
  /\ None \notin Value \cup Sparse
  /\ DenseCalls \subseteq Seq([id : Id, val : Value \cup {None}]) \ {<<>>}
  /\ Faults \subseteq FaultKinds
  /\ MaxFaults \in Nat /\ MaxSequence \in Nat

VARIABLES
  wal,        \* wal.bin: envelopes, each a sequence of records
  sparse_wal, \* sparse.wal: the same, of one record each
  segments,   \* the manifest: its segments; <<>> when there is no manifest
  mem,        \* MemTable, sparse index, sparse_pending, last_sequence
  pc,         \* the next step of the call, open or recovery in progress
  call,       \* the call being written
  blocked,    \* _batch_failed
  job,        \* a compaction between capture and publish
  faults,
  restored    \* history variable: what a recovery from these files restores

disk == <<wal, sparse_wal, segments, restored>>
vars == <<disk, mem, pc, call, blocked, job, faults>>

(***************************************************************************)
(* Data.  A MemTable entry with sequence 0 is an ID never seen; with value *)
(* None and a positive sequence it is a tombstone.  A pending sparse       *)
(* record with sequence 0 is none; sparse_pending is kept collapsed to the *)
(* newest record of each ID (latest_sparse_records).                       *)
(***************************************************************************)
NoEntry == [seq |-> 0, val |-> None]
NoEntries == [i \in Id |-> NoEntry]
NoCall == [kind |-> "none"]
NoJob == [stage |-> "none"]
EmptyMem == [dense |-> NoEntries, sparse |-> [i \in Id |-> None],
             pending |-> NoEntries, last |-> 0]

\* The bytes of an incomplete envelope, in either log.
Torn == <<>>

Live(dense, i) == dense[i].val # None

(***************************************************************************)
(* Recovery (storage/legacy_recovery.mojo).                                *)
(***************************************************************************)
CheckpointSequence(segs) == IF segs = <<>> THEN 0 ELSE Last(segs).max

\* The newest state a list of segments holds for an ID, later segments winning.
Newest(segs, field, i) ==
  LET holding == {n \in 1..Len(segs) : segs[n][field][i].seq > 0}
  IN IF holding = {} THEN NoEntry ELSE segs[Max(holding)][field][i]

LoadDense(segs) == [i \in Id |-> Newest(segs, "dense", i)]
LoadSparse(segs) == [i \in Id |-> Newest(segs, "sparse", i).val]

\* Both readers stop at the first incomplete envelope.
Accepted(log) ==
  LET ends == {n \in 1..Len(log) : log[n] = Torn}
  IN IF ends = {} THEN log ELSE SubSeq(log, 1, Min(ends) - 1)
TornInside(log) == \E n \in 1..Len(log) - 1 : log[n] = Torn

Records(log) == UNION {Range(log[n]) : n \in 1..Len(log)}

\* Sequence numbers increase from one record to the next.
Increasing(log) ==
  \A m, n \in 1..Len(log) : \A a \in 1..Len(log[m]), b \in 1..Len(log[n]) :
    m < n \/ (m = n /\ a < b) => log[m][a].seq < log[n][b].seq

\* Of some records those above the checkpoint, by ID, and the newest of them.
Above(records, from, i) == {r \in records : r.seq > from /\ r.id = i}
State(r) == [seq |-> r.seq, val |-> r.val]
NewestOf(records, otherwise) ==
  IF records = {} THEN otherwise
  ELSE State(CHOOSE r \in records : \A s \in records : s.seq =< r.seq)

\* The dense field of an ID once the records of both logs, `ds' and `ss', are
\* replayed over the segments in sequence order.
RecoveredDense(ds, segs, i) ==
  NewestOf(Above(ds, CheckpointSequence(segs), i), Newest(segs, "dense", i))

\* The sparse records of an ID above the checkpoint, the newest sparse field they
\* or the segments give it, and the deletes of the point after that.
Logged(ss, segs, i) == Above(ss, CheckpointSequence(segs), i)
LastWritten(ss, segs, i) ==
  NewestOf(Logged(ss, segs, i),
           [seq |-> CheckpointSequence(segs), val |-> Newest(segs, "sparse", i).val])
DeletesAfter(ds, ss, segs, i) ==
  {r.seq : r \in {d \in Above(ds, CheckpointSequence(segs), i) :
                    d.val = None /\ d.seq >= LastWritten(ss, segs, i).seq}}

\* Mutant: replay pends only what the sparse log holds.
RecoveredSparse_NoDeletes(ds, ss, segs, i) ==
  [val |-> IF DeletesAfter(ds, ss, segs, i) # {} THEN None ELSE LastWritten(ss, segs, i).val,
   pending |-> IF Logged(ss, segs, i) = {} THEN NoEntry ELSE LastWritten(ss, segs, i)]

\* Its sparse field: the first delete after the field was written drops it,
\* and the next sparse delta must then carry that delete.  On a tie the sparse
\* record goes first.
RecoveredSparse(ds, ss, segs, i) ==
  LET written == LastWritten(ss, segs, i)
      deletes == DeletesAfter(ds, ss, segs, i)
  IN IF written.val # None /\ deletes # {}
       THEN [val |-> None, pending |-> [seq |-> Min(deletes), val |-> None]]
       ELSE [val |-> written.val,
             pending |-> IF Logged(ss, segs, i) = {} THEN NoEntry ELSE written]

\* Segments, then the records of both logs above the checkpoint; a sparse field
\* of a point that is not live is dropped last.
Replayed(ds, ss, segs) ==
  LET dense == [i \in Id |-> RecoveredDense(ds, segs, i)]
  IN [dense |-> dense,
      sparse |-> [i \in Id |-> IF Live(dense, i) THEN RecoveredSparse(ds, ss, segs, i).val
                               ELSE None],
      pending |-> [i \in Id |-> RecoveredSparse(ds, ss, segs, i).pending],
      last |-> Max({CheckpointSequence(segs)} \cup {r.seq : r \in ds} \cup {r.seq : r \in ss})]

Recovery(dlog, slog, segs) == Replayed(Records(Accepted(dlog)), Records(Accepted(slog)), segs)
Recovered == Recovery(wal, sparse_wal, segments)

\* Every step that changes a file brings the history variable up to date.
Record == restored' = Recovered'

Init ==
  /\ wal = <<>> /\ sparse_wal = <<>> /\ segments = <<>>
  /\ mem = EmptyMem /\ pc = "down" /\ call = NoCall /\ blocked = FALSE
  /\ job = NoJob /\ faults = 0 /\ restored = EmptyMem

\* open: the preflight reads everything before anything is repaired.  Bytes
\* behind an incomplete record fail it, or are taken for a longer torn tail.
Open ==
  /\ pc = "down"
  /\ Increasing(Accepted(wal)) /\ Increasing(Accepted(sparse_wal))
  /\ mem' = restored
  /\ pc' = "repair" /\ call' = NoCall /\ blocked' = FALSE /\ job' = NoJob
  /\ UNCHANGED <<disk, faults>>

\* Mutant: the torn tail stays.
RepairWal_Skipped ==
  /\ pc = "repair"
  /\ pc' = IF Accepted(sparse_wal) = sparse_wal THEN "idle" ELSE "repair_sparse"
  /\ UNCHANGED <<disk, mem, call, blocked, job, faults>>

\* repair_wal_tail truncates in place; the sparse log is opened for writing,
\* which empties it, and its accepted prefix written back.
RepairWal ==
  /\ pc = "repair"
  /\ wal' = Accepted(wal)
  /\ pc' = IF Accepted(sparse_wal) = sparse_wal THEN "idle" ELSE "repair_sparse"
  /\ UNCHANGED <<sparse_wal, segments, mem, call, blocked, job, faults>>
  /\ Record

EmptySparseWal ==
  /\ pc = "repair_sparse"
  /\ call' = [kind |-> "repair", records |-> Accepted(sparse_wal)]
  /\ sparse_wal' = <<>>
  /\ pc' = "rewrite_sparse"
  /\ UNCHANGED <<wal, segments, mem, blocked, job, faults>>
  /\ Record

RewriteSparseWal ==
  /\ pc = "rewrite_sparse"
  /\ sparse_wal' = call.records
  /\ call' = NoCall
  /\ pc' = "idle"
  /\ UNCHANGED <<wal, segments, mem, blocked, job, faults>>
  /\ Record

(***************************************************************************)
(* Writes (upsert, upsert_document, delete, apply_batch, upsert_sparse).   *)
(***************************************************************************)
Ready == pc = "idle" /\ ~blocked

WriteDense(muts) ==
  /\ Ready /\ mem.last + Len(muts) =< MaxSequence
  /\ call' = [kind |-> "dense", muts |-> muts]
  /\ pc' = "append"
  /\ UNCHANGED <<disk, mem, blocked, job, faults>>

\* Sparse vectors require an existing live point.
WriteSparse(i, s) ==
  /\ Ready /\ mem.last < MaxSequence /\ Live(mem.dense, i)
  /\ call' = [kind |-> "sparse", muts |-> <<[id |-> i, val |-> s]>>]
  /\ pc' = "append"
  /\ UNCHANGED <<disk, mem, blocked, job, faults>>

\* The records of the call: one contiguous range of the shared sequence.
Envelope ==
  [n \in 1..Len(call.muts) |-> [seq |-> mem.last + n, id |-> call.muts[n].id,
                                val |-> call.muts[n].val]]

\* What an append may leave behind when it does not finish.
Grown(log, n) ==
  CASE n = "none" -> log [] n = "torn" -> Append(log, Torn) [] n = "whole" -> Append(log, Envelope)
WalAfter(n) == IF call.kind = "dense" THEN Grown(wal, n) ELSE wal
SparseWalAfter(n) == IF call.kind = "sparse" THEN Grown(sparse_wal, n) ELSE sparse_wal
Appended(n) ==
  /\ wal' = WalAfter(n) /\ sparse_wal' = SparseWalAfter(n)
  /\ UNCHANGED segments /\ Record

AppendLog ==
  /\ pc = "append"
  /\ Appended("whole")
  /\ pc' = "apply"
  /\ UNCHANGED <<mem, call, blocked, job, faults>>

\* Mutant: a delete leaves no pending sparse delete.
AppliedDense_NoPendingDelete(m, muts) ==
  LET touched(i) == {n \in 1..Len(muts) : muts[n].id = i}
      drops(i) == \E n \in touched(i) : muts[n].val = None
  IN [m EXCEPT !.dense = [i \in Id |-> IF touched(i) = {} THEN @[i]
                                        ELSE [seq |-> m.last + Max(touched(i)),
                                              val |-> muts[Max(touched(i))].val]],
               !.sparse = [i \in Id |-> IF drops(i) THEN None ELSE @[i]],
               !.last = m.last + Len(muts)]

\* The final state of each ID enters the MemTable; every delete of a point
\* with a sparse field leaves a pending sparse delete.
AppliedDense(m, muts) ==
  LET touched(i) == {n \in 1..Len(muts) : muts[n].id = i}
      deletes(i) == {n \in touched(i) : muts[n].val = None}
      drops(i) == deletes(i) # {} /\ m.sparse[i] # None
  IN [dense |-> [i \in Id |-> IF touched(i) = {} THEN m.dense[i]
                              ELSE [seq |-> m.last + Max(touched(i)),
                                    val |-> muts[Max(touched(i))].val]],
      sparse |-> [i \in Id |-> IF drops(i) THEN None ELSE m.sparse[i]],
      pending |-> [i \in Id |-> IF drops(i) THEN [seq |-> m.last + Min(deletes(i)), val |-> None]
                                ELSE m.pending[i]],
      last |-> m.last + Len(muts)]

AppliedSparse(m, i, s) ==
  [m EXCEPT !.sparse[i] = s, !.pending[i] = [seq |-> m.last + 1, val |-> s],
            !.last = m.last + 1]

Apply ==
  /\ pc = "apply"
  /\ mem' = IF call.kind = "dense"
              THEN AppliedDense(mem, call.muts)
              ELSE AppliedSparse(mem, call.muts[1].id, call.muts[1].val)
  /\ call' = NoCall
  /\ pc' = "idle"
  /\ UNCHANGED <<disk, blocked, job, faults>>

Fault(kind) == kind \in Faults /\ faults < MaxFaults /\ faults' = faults + 1

\* An append that raises: apply_batch blocks the collection; a single write,
\* which is not a batch of one, raises to its caller and the collection goes on.
AppendRaises ==
  /\ pc = "append"
  /\ \/ call.kind = "dense" /\ Fault("batch_error") /\ blocked' = TRUE
     \/ Len(call.muts) = 1 /\ Fault("append_error") /\ UNCHANGED blocked
  /\ \E n \in {"none", "torn", "whole"} : Appended(n)
  /\ call' = NoCall /\ pc' = "idle"
  /\ UNCHANGED <<mem, job>>

(***************************************************************************)
(* Checkpoints (_checkpoint_unlocked).                                     *)
(***************************************************************************)
UpToDate == segments # <<>> /\ mem.last = CheckpointSequence(segments)

\* The first checkpoint is a base of the live points and all sparse fields;
\* a later one holds what changed since.
BaseSegment(dense, sparse, max) ==
  [level |-> 1, min |-> 0, max |-> max,
   dense |-> [i \in Id |-> IF Live(dense, i) THEN dense[i] ELSE NoEntry],
   sparse |-> [i \in Id |-> IF sparse[i] = None THEN NoEntry
                            ELSE [seq |-> max, val |-> sparse[i]]]]
\* Mutant: a delta misses the first change after the checkpoint.
DeltaSegment_SkipsFirst(m, from) ==
  [level |-> 0, min |-> from + 1, max |-> m.last,
   dense |-> [i \in Id |-> IF m.dense[i].seq > from + 1 THEN m.dense[i] ELSE NoEntry],
   sparse |-> m.pending]
DeltaSegment(m, from) ==
  [level |-> 0, min |-> from + 1, max |-> m.last,
   dense |-> [i \in Id |-> IF m.dense[i].seq > from THEN m.dense[i] ELSE NoEntry],
   sparse |-> m.pending]

NewSegment ==
  IF segments = <<>> THEN BaseSegment(mem.dense, mem.sparse, mem.last)
                     ELSE DeltaSegment(mem, CheckpointSequence(segments))

\* write_sparse_segment refuses a record outside the segment's interval.
Encodable ==
  \/ segments = <<>> \/ UpToDate
  \/ \A i \in Id : mem.pending[i].seq > 0 =>
                     mem.pending[i].seq > CheckpointSequence(segments)

\* The data files are written and synced first; nothing refers to them yet.
Flush ==
  /\ Ready
  /\ pc' = IF UpToDate THEN "rotate" ELSE IF Encodable THEN "publish" ELSE "idle"
  /\ UNCHANGED <<disk, mem, call, blocked, job, faults>>

\* The manifest rename is the commit point.
PublishManifest ==
  /\ pc = "publish"
  /\ segments' = Append(segments, NewSegment)
  /\ pc' = "rotate"
  /\ UNCHANGED <<wal, sparse_wal, mem, call, blocked, job, faults>>
  /\ Record

RotateWal ==
  /\ pc = "rotate"
  /\ wal' = <<>>
  /\ pc' = "rotate_sparse"
  /\ UNCHANGED <<sparse_wal, segments, mem, call, blocked, job, faults>>
  /\ Record
\* Mutant: the pending sparse changes are not reset.
RotateSparseWal_KeepsPending ==
  /\ pc = "rotate_sparse"
  /\ sparse_wal' = <<>>
  /\ pc' = "idle"
  /\ UNCHANGED <<wal, segments, mem, call, blocked, job, faults>>
  /\ Record

RotateSparseWal ==
  /\ pc = "rotate_sparse"
  /\ sparse_wal' = <<>>
  /\ mem' = [mem EXCEPT !.pending = NoEntries]
  /\ pc' = "idle"
  /\ UNCHANGED <<wal, segments, call, blocked, job, faults>>
  /\ Record

\* A step of a checkpoint raises; its rename may have happened already.
FlushRaises ==
  /\ pc \in {"publish", "rotate", "rotate_sparse"}
  /\ Fault("flush_error")
  /\ pc' = "idle"
  /\ \/ UNCHANGED <<wal, sparse_wal, segments>>
     \/ pc = "publish" /\ segments' = Append(segments, NewSegment)
                       /\ UNCHANGED <<wal, sparse_wal>>
     \/ pc = "rotate" /\ wal' = <<>> /\ UNCHANGED <<sparse_wal, segments>>
     \/ pc = "rotate_sparse" /\ sparse_wal' = <<>> /\ UNCHANGED <<wal, segments>>
  /\ UNCHANGED <<mem, call, blocked, job>>
  /\ Record

(***************************************************************************)
(* Compaction (storage/committed_compaction.mojo): capture and publish     *)
(* hold the writer lock, the build does not.                               *)
(***************************************************************************)
\* (compact() and maintenance() take a checkpoint first: Flush, then this step.)
BeginCompaction ==
  /\ pc = "idle" /\ job = NoJob /\ Len(segments) > 1
  /\ job' = [stage |-> "captured", inputs |-> segments]
  /\ UNCHANGED <<disk, mem, pc, call, blocked, faults>>

\* One base of the inputs; sparse fields of dead points are dropped.
CompactionOutput(inputs) ==
  LET dense == LoadDense(inputs)
      sparse == [i \in Id |-> IF Live(dense, i) THEN LoadSparse(inputs)[i] ELSE None]
  IN BaseSegment(dense, sparse, CheckpointSequence(inputs))

BuildCompaction ==
  /\ job.stage = "captured"
  /\ job' = [stage |-> "built", inputs |-> job.inputs,
             output |-> CompactionOutput(job.inputs)]
  /\ UNCHANGED <<disk, mem, pc, call, blocked, faults>>

\* The output replaces its inputs; segments appended since stay behind it.
FinishCompaction ==
  /\ pc = "idle" /\ job.stage = "built"
  /\ job' = NoJob
  /\ segments' = IF IsPrefix(job.inputs, segments)
                   THEN <<job.output>> \o SubSeq(segments, Len(job.inputs) + 1, Len(segments))
                   ELSE segments
  /\ UNCHANGED <<wal, sparse_wal, mem, pc, call, blocked, faults>>
  /\ Record

(***************************************************************************)
(* Close and crash.                                                        *)
(***************************************************************************)
Close ==
  /\ pc = "idle"
  /\ pc' = "down" /\ mem' = EmptyMem /\ blocked' = FALSE /\ job' = NoJob
  /\ UNCHANGED <<disk, call, faults>>

\* Memory is lost; an append in progress may have got any way.
Crash ==
  /\ pc # "down"
  /\ Fault(IF pc = "rewrite_sparse" THEN "repair_crash" ELSE "crash")
  /\ IF pc = "append" THEN \E n \in {"none", "torn", "whole"} : Appended(n)
                      ELSE UNCHANGED disk
  /\ pc' = "down" /\ mem' = EmptyMem /\ call' = NoCall /\ blocked' = FALSE
  /\ job' = NoJob

Next ==
  \/ Open \/ RepairWal \/ EmptySparseWal \/ RewriteSparseWal
  \/ \E muts \in DenseCalls : WriteDense(muts)
  \/ \E i \in Id, s \in Sparse : WriteSparse(i, s)
  \/ AppendLog \/ AppendRaises \/ Apply
  \/ Flush \/ PublishManifest \/ RotateWal \/ RotateSparseWal \/ FlushRaises
  \/ BeginCompaction \/ BuildCompaction \/ FinishCompaction
  \/ Close \/ Crash

Spec == Init /\ [][Next]_vars

(***************************************************************************)
(* Properties.                                                             *)
(***************************************************************************)
View(m) == [dense |-> [i \in Id |-> m.dense[i].val], sparse |-> m.sparse]
IsOpen == pc \notin {"down", "repair", "repair_sparse", "rewrite_sparse"}

\* A collection behaves as a durable map: every call commits as a whole in its
\* log append, before it is visible; checkpoints, log rotations, compactions,
\* tail repairs and crashes change nothing a recovery would restore.
Map == INSTANCE DurableMap WITH
  durable <- View(IF pc = "rewrite_sparse" THEN mem ELSE restored),
  open <- IsOpen,
  visible <- View(IF IsOpen THEN mem ELSE EmptyMem)
ImplementsDurableMap == Map!DSpec

\* Between calls a reopen would resume at the same sequence number and with the
\* same sparse changes waiting for the next delta segment, the deletes that
\* only dense records imply included.
ReopenKeepsPending ==
  Ready => restored.pending = mem.pending /\ restored.last = mem.last

\* Whenever a flush may start, the sparse changes it would write as a delta lie
\* above the checkpoint, so write_sparse_segment accepts them.
CheckpointCanRun == Ready => Encodable

\* A checkpoint ends every disagreement between files and memory that a failed
\* append or an earlier failed checkpoint left in the dense field: with both
\* logs empty, a reopen serves the same points at the same sequence number.
CheckpointHeals ==
  IsOpen /\ wal = <<>> /\ sparse_wal = <<>> =>
    View(restored).dense = View(mem).dense /\ restored.last = mem.last

\* The logs of a collection that is not open can be read to their end: sequence
\* numbers increase and only the last record may be incomplete.
Reopenable ==
  pc = "down" =>
    /\ Increasing(Accepted(wal)) /\ Increasing(Accepted(sparse_wal))
    /\ ~TornInside(wal) /\ ~TornInside(sparse_wal)

-----------------------------------------------------------------------------
(***************************************************************************)
(* What the repository's documents say and the code does not do.           *)
(***************************************************************************)
\* An incomplete record is removed before anything is appended behind it (refuted
\* with the fault "append_error").
TornTailRemovedFirst == ~TornInside(wal) /\ ~TornInside(sparse_wal)

\* At every point of a recovery the files hold what it has accepted: should the
\* process stop there, the next recovery restores the same map (refuted with the
\* faults "crash" and "repair_crash").
RepairKeepsAccepted ==
  pc \in {"repair", "repair_sparse", "rewrite_sparse"} => View(restored) = View(mem)
=============================================================================
