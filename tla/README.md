# A TLA+ verification of Akasha

Akasha is an embedded vector database written in Mojo with a small C worker, a
Python client, an HTTP server, and a Python reference cluster that replicates
shards over local processes. This directory holds TLA+ models of the parts of it
that are hard to test, the TLC runs that check them on small instances, and
proofs, checked by TLAPS, that hold for instances of every size.

Every module is translated from the source. File names below are relative to the
repository root; `PROJECT.json` maps each definition to the lines it stands for.

## 1. Inventory

### 1.1 Reference cluster: coordinator and replicated shards
`python/akashadb/distributed/{cluster,replica,protocol}.py`

*State.* The coordinator owns one lock and one durable metadata file: per shard a
placement (term, placement epoch, leader, replica list), the last allocated log
index, the committed index, and the table of request IDs with their status. Every
replica process owns a directory per shard: a state file (term, epoch,
`applied_index`), a journal of prepared entries, commit markers and snapshot markers,
and a local collection; beside it, during a snapshot install, a staging, a backup and a
failed workspace.

*Operations.* `_write` (upsert, delete): look the request ID up, make sure of a
leader, allocate and publish an index, prepare on every replica, record the request
as prepared once a quorum has it, commit on every replica, acknowledge at a quorum;
up to two elections are tried on the way. `_ensure_leader`/`_elect_leader`,
`_configure`, `catch_up`, `_query_replica`, `stop_node`, `restart_node`,
`partition_node`, `rebalance_add_replica`, `close`, and reopening. On the replica:
`configure`, `prepare`, `commit`, `fetch_committed`, `export`/`install_snapshot`,
and `_replay_committed` when the shard is opened, after
`_recover_snapshot_workspaces`. Searches fan out to one replica per shard, and the
coordinator merges and, for hybrid searches, fuses the lists. The metadata is published
by write, fsync, rename and directory sync, in two file versions.

*Interaction.* Blocking RPCs over sockets, one at a time, under the coordinator's
lock. An RPC may not arrive, or be executed and its answer lost.

*Hard.* A process dying between two fsyncs of one handler; power lost between two
RPCs; a retry that finds its request prepared at an old index; an election in the
middle of a write; a replica that comes back with a hole in its log; a rebalance that
stops half-way; an install interrupted between its renames, or raising and rolled back;
a torn line at the end of a journal; a mutation that Python's validators take and the
kernel refuses; a query that one replica executes and another answers.

*Correct when* an index has one entry everywhere, a request commits once, an
acknowledgement stands on a majority, no replica goes back in time, a restart finds
what a handler answered for, and a search over the shards answers as one collection
would.

### 1.2 Background maintenance
`native/maintenance_worker.c`, `src/akasha/storage/maintenance.mojo`,
`storage/native_worker.mojo`, and their callers in `src/akasha/api/collection.mojo`

*State.* The native worker's `pending`, `running`, `closing` and `failed` under one
mutex and ONE condition variable shared by the worker and every drainer; the
controller's `compaction_requested`, `cancelled` and error; the writer spin lock and
the compaction spin lock; the manifest's segment list and the sealed runs.

*Operations.* `schedule_maintenance`, `wait_for_maintenance`, `maintenance`,
`flush`, a write that is held at the sealed-run limit, `close`; on the worker the
merge of sealed runs and a compaction (capture, build, publish).

*Hard.* A signal spent on the wrong waiter, a request arriving during a job, a
compaction built from inputs captured under a lock that was let go, `close` joining a
worker that needs the locks.

*Correct when* no request is lost, a wait covers what was asked for before it, jobs
publish against the manifest they were built from, and every call returns.

### 1.3 Collection storage
`src/akasha/api/collection.mojo`, `storage/{wal,sparse_store,manifest,compaction,
committed_compaction,legacy_recovery,memtable,filesystem}.mojo`

*State.* In memory the MemTable, the sparse index, the sparse changes waiting for the
next delta, the last sequence number, `_batch_failed`. On disk `wal.bin`, `sparse.wal`
and the manifest with its base and delta segments. The two logs share one sequence.

*Operations.* Single dense writes, batches, sparse upserts, deletes (which drop the
sparse field and are logged in the dense log only), checkpoint (segment, manifest
rename, two log rotations, memory), compaction, open with tail repair, close.

*Hard.* A stop between any two of those steps; a torn record; two logs that must be
replayed as one history; a call that raises and leaves part of its bytes.

*Correct when* a collection is a durable map: a call commits as a whole before it is
visible, and nothing but calls changes what a recovery restores.

### 1.4 Logical records: mutations, snapshot rows, exports
`python/akashadb/distributed/protocol.py` (validation), `python/akashadb/{operations,
database,models}.py`, `src/bindings/python_module.mojo`, `src/akasha/index/sparse.mojo`

*State.* A collection's points: dense vector, typed payload, sparse vector. A replica
adds its journal of mutations; an import adds the rows still to be written.

*Operations.* `_apply` of a replicated mutation (dense half, then sparse half), replay,
`export_records` and `install_snapshot` between replicas, `export_ndjson` and
`import_ndjson` between collections.

*Hard.* The same number meets four validators: Python's `float` and `int`, the JSON
parser, the binding's conversions to Float32 and Int64, the kernel's checks on sparse
terms. What one takes the next may refuse, after part of the point is durable.

*Correct when* a collection holds what its journal says at the kernel's widths, and
whatever a collection came to hold can be exported and taken back.

### 1.5 Read generations
`src/akasha/storage/read_generation.mojo`, its callers in `src/akasha/api/collection.mojo` and
`storage/maintenance.mojo`

*State.* The publisher's chain of immutable runs, oldest first, each with the slots that newer
runs hide; the mutable head, its frozen copy, the sequence recorded last, the cached root; a
merge in progress; the roots that readers hold.

*Operations.* `record` (into the head, which is sealed into a run when it is full), the merge of
the runs into a new base (by the worker in three steps, or inside the write that made it due),
`acquire`, `publish`, `reset`, and the end of a root.

*Hard.* A merge publishes against a chain that grew, was reset or was rebuilt since its capture;
a record, a merge or a pin raises after the write is committed; a frozen head goes stale; what
a newer run hides is kept per run and must be right after every replacement.

*Correct when* a snapshot goes on giving the state it was taken at, and a new one covers every
call that returned.

### 1.6 The other parts
| part | state and operations | why it is not modelled (yet) |
|---|---|---|
| Point store (`storage/point_*.mojo`, `field_catalog.mojo`) | one log of multi-field point envelopes, its table, segments and migration | planned after the two-log storage, which it succeeds |
| Snapshots, scanner | what a reader computes from a root: searches, filters, pages, derived artifacts | sequential; the root is in `ReadGenerations` |
| Generation pins, file leases, retired files, process lock | which replaced files are still in use | planned on top of `ReadGenerations`, whose roots are what pins |
| Backup and restore | copies of a pinned generation | planned after the pins |
| HNSW, its rebuild and sidecars | search graph, derived from the points | numeric; the rebuild's catch-up beside writes is planned |
| Metadata, sparse, keyword indexes | derived, sequential | kept only as the map they represent |
| Compute kernels, quantization | none | floating point |
| Planner, executor, fusion | none | the order of results and the bounded top-k are in `QueryMerge`; filters, plans, approximate search and the kernel's rank fusion, which is floating point, are left out |
| Codecs, checksums, schema | none | byte level, sequential |
| Bindings, Python client, HTTP server, CLI | none of their own | marshalling; the conversions that replicated mutations, snapshots and exports go through are in `LogicalRecords` |
| Field-aware exports (with a header), `max_batch_rows`, `quarantine_orphans` | none | format variants of the same export and import |
| Benchmarks, tools | none | not part of the program |

## 2. Plan

Order of work, most important behaviour first.

1. `ReplicaShard`, `DistributedCluster`: the write protocol under faults. **Done.**
   Its safety theorems. **Done:** types, index agreement, single commit, single answer,
   the quorum properties, recovery, nothing goes back.
2. `MaintenanceWorker`. **Done**, and its safety proved.
3. `DurableMap` (abstract) and `CollectionStore` implementing it. **Done**, and the
   refinement proved.
4. `ShardStorage`: the files of a shard, the renames of `install_snapshot` and the torn
   tail of the journal, which `ReplicaShard` takes as one step. **Done**, and its safety
   proved.
5. `ClusterMetadata`, `LogicalRecords` and `QueryMerge`: the metadata file, the contents
   of mutations and exports, the scatter-gather of searches against a reference
   definition. **Done**, and the theorem that sharding does not show.
6. `ReadGenerations`: layered runs resolve as the MemTable they were taken from. **Done**,
   and proved. Then pins, leases and retired files on top of it; backup composes with them.
7. `PointStore`, refining the same `DurableMap` idea for several fields.
8. Proofs. **Done:** every safety property of the cluster, the maintenance worker, the
   metadata file, the files of a shard, the records and their copies, the read generations, the
   merge of searches and the collection's storage, with the refinement of `DurableMap`.

Composition: `DistributedCluster` extends `ReplicaShard` (one durable state per node);
`ShardStorage` extends it too, and shows its steps to be steps of that durable state;
`CollectionStore` instantiates `DurableMap`; `*Proofs` extend the module they are
about; `MC*` give small instances to TLC.

## 3. The modules

### ReplicaShard
The durable state of a shard on one node as a record, and each handler as an operator
on it. A handler that writes several files is the sequence of durable states after each
fsync (`PrepareSteps`, `CommitSteps`, `RecoverySteps`); a process that dies inside
leaves one of them. `commit` writes its marker, applies the mutation if the index is
above `applied_index`, and publishes the new applied index, in this order, as
replica.py 287-296 does. `Rejected` mutations pass the cluster's validation and are
refused by the collection, so `commit` raises after the marker. Those that are also `Halved`
(upserts with a sparse vector) are refused in the second of the two calls of `_apply`, and
leave the vector and the payload of the first: `dense` says which upsert these are from, per
point, and `content` which mutation was applied whole. A replay leaves the same half where it
raises (`Refused`). Journalled terms and epochs are left out: nothing reads them. `done` is
a history variable.

### DistributedCluster
One shard. `pc` and `op` are the program counter and the locals of the operation that
holds the coordinator's lock; between operations `pc` is `idle`. One RPC is one step.
Actions follow the loops of cluster.py: `Write`, `BeginConflict`, `BeginReturn`,
`BeginRetry`, `BeginNew`, `Elect`, `ElectFails`, `Configure`, `ConfigureFails`,
`AllocateIndex`, `Prepare`, `PrepareFails`, `PrepareRetry`, `PrepareAborts`,
`PrepareDone`, `Commit`, `CommitLost`, `CommitFails`, `CommitAborts`, `CommitDone`,
`CatchUpNode`, `Fetch`, `Replay`, `RebalanceStart`, `RebalanceConfigure`, `Install`,
`RebalancePublish`, and their failures. Faults, each out of a budget: `crash` (also
inside a handler or inside recovery), `partition`, `drop` (a commit is executed and its
answer lost), `power` (everything stops; the metadata file survives).

Loops visit `placement.replicas` in list order. The metadata file is published by the
code before every next RPC, so memory and file are one set of variables.

Not there: several shards (they share no state but the metadata file). Two things are
taken as one step here and justified elsewhere: the publication of the metadata
(`ClusterMetadata`) and the files behind a replica's durable state (`ShardStorage`; in
particular a power loss does not take `replica-state.json` back here, and does there).

### ShardStorage
One shard on one node, as files. `fs` maps the four directory names (the shard's root and
the staging, backup and failed workspaces) to what each holds: the state file's numbers,
the lines of the journal, the collection's content. `mem` is what the process read and
keeps, `open` whether its collection is open, `pc` the step inside a handler. Every
append, rename, removal and sync of `configure`, `prepare`, `commit`, `install_snapshot`
with its rollback, `_recover_snapshot_workspaces`, `ReplicaJournal._load` and
`_replay_committed` is a step of its own. `unsynced` is the set of file systems that a
power loss may leave: an operation without a sync adds to it, a sync empties it. Faults:
the process dies between any two steps or inside an append (a torn line), power fails, a
call raises and the process goes on; the two budgets are `MaxFaults` and `MaxErrors`.

*Assumed of the file system:* renames are atomic, operations reach the disk in order, a
sync of anything takes everything before it along, and the collection's own upsert is one
synced step (that is `CollectionStore`'s promise). `accidents` is a history variable: what
the properties exclude, because the code does not survive it (section 7), is recorded
there and nothing else is: an append that raised in the middle of its line, and a shard that
went on with the files or the fields that a rollback that raised left it, be it by serving
a request or by reopening its collection when a later install is rolled back (`Reopens`).

### ClusterMetadata
The coordinator's metadata of one shard in memory, in the file, and in every file a power
loss may leave; publication is three steps (write and sync the temporary, rename, sync the
directory), each of which may raise. Contents: file version, term, epoch, leader,
replicas, members with their ports, log indexes and the last request. Elections, writes, a
rebalance, an upgrade and the restart of a node on a new port (`RestartNode`) publish. `Validates` is
`validate`, which loading and publishing both end in. It shows that taking a publication
as one step, as `DistributedCluster` does, hides nothing: what the coordinator relied on
survives, and whatever file is found loads.

### LogicalRecords
A number is its size on a scale of the bounds that tell validators apart (negative, zero, not
zero but zero as a Float32, one, two, beyond Int64, beyond Float32, beyond Float64) with its
Python type. Two halves of a point, dense and sparse, are applied as the replica does.
`CommitAgain` is the retry of a request whose entry is journalled already: a serving replica
applies the entry again if it lies above the applied index, which is so where its first
application raised, perhaps behind its dense half, and no later entry was applied whole. A
second collection receives snapshots and imports. JSON shapes are left out, as are exports with
a header; payload values in a hand-written export are assumed to have their declared type.

### QueryMerge
One search, dense, sparse or hybrid, over shards with replicas. The replicas of a shard are
asked in order: `PassOver` is one that is away, behind, or whose answer is lost after it was
executed, `Answer` the one that is taken, `NoReplica` the end of the list. `Merge` ranks by
score and signed ID and keeps k; a hybrid search fans out twice, and `Fused` orders the points
by `FusedScore` of their ranks in the two global lists. `FusedScore` is a constant, any function
of two ranks: it stands for the coordinator's own sum of Python floats, with its roundings. The
kernel fuses within one collection with others (Float32, section 7), so a hybrid answer is
compared with the coordinator's fusion of the two rankings of one collection and not with the
answer of its kernel. `stats` is the list of the counters that the answers brought. A ranked
list is the set of its pairs, the rank is counted. A replica that lags lacks one point,
`missing`; a replica with the committed applied index is complete. That last assumption is the
one `stale_read` refutes: the theorem below is about the merge, not about lagging replicas that
look complete. The coordinator's lock keeps writes out while a search runs.

### MaintenanceWorker
A critical section of the native mutex is one step; a spin-locked section is one step
unless it lets the worker act in its middle. Threads: clients, each with a number of
calls, and the worker. `asleep` is the set of threads in `pthread_cond_wait`; a signal
wakes any one of them, a broadcast all, and any may wake spuriously. Segments are a
level and an identity; runs are counted. Jobs may raise at each of their stages. With
`CloseMeetsWait` false no client starts a `close` beside a `wait_for_maintenance` or the other
way round: the drain goes on after the writer lock was let go, and a close may free the worker
it sleeps in (section 7), after which nothing can be said.

### ReadGenerations
A run maps each ID to the state it has of it: live or dead, and the number of the call that
gave it; a slot is its ID. `Says` is the lookup of `find`, newest run first; `Met` is where a
scan meets an ID, by the hidden slots and not by the order of the runs. A call holds the writer
lock from its change of the MemTable to the end of its record (`writing`), one recorded point a
step; `Seal` may come at any point, because the sizes in bytes that trigger it are left out. The
worker's merge is captured, built and published in two steps with any calls between them. Runs
carry the identity that `publish_merge` compares by pointer. A root has, as history, the
MemTable it was made from. Everything that may raise does: the batch before its record, the
record, the build of a merge, the pin of a new root.

Not there: the catalog and the configuration that a cached root is compared by too, the indexes
of a run, the counts of rows a root carries, and HNSW rebuilds, which acquire a root as readers
do.

### DurableMap, CollectionStore
`DurableMap` says what docs/consistency-model.md promises: calls commit as a whole, before they
are visible, and recovery restores exactly what committed. `CollectionStore` is the code: two
logs, manifest, memory, one call at a time (the writer lock) and one compaction job beside it. A
log is a sequence of envelopes, each the sequence of the records of one call; the empty envelope
`Torn` stands for one that was cut off. What recovery makes of the files is a set of operators
on the records of the accepted prefixes (`Recovery`), where the code replays them one after the
other: sequence numbers rise along a log that opens, so the last record of a point is the one
with the greatest number. `restored` is a history variable, what a recovery from the present
files restores; it is recomputed by every step that changes a file, and is the `durable` map of
the refinement. Faults: `crash` between any two steps, torn appends included; `repair_crash` (a
crash while recovery rewrites a torn sparse log); `batch_error` (a batch append raises: the code
blocks the collection); `append_error` (a single write's append raises: the code goes on);
`flush_error` (a checkpoint raises at any step). The proof asked for one change of the model:
the two guards of a `CASE` in the definition of a grown log could both be true (their results
were equal); they exclude each other now (`Grown`).

Not there: HNSW sidecars a checkpoint may attach, legacy manifest versions, file names,
bytes and checksums, the directory entry of a log created by its first append.

## 4. The runs

| run | result | what it shows |
|---|---|---|
| `cluster_faults` | pass | three replicas, two requests on one point, a reused request ID, any two faults: index agreement, one commit and one answer per request, acknowledgements on a majority, no older content comes back, recovery replays everything, nothing moves backwards; also the inductive invariant of the proofs |
| `cluster_rebalance` | pass | two replicas and a node that is brought in, any two faults, a mutation the collection refuses behind its dense half: the metadata stays ahead of every replica, epochs included, no older content comes back, and what a refused upsert leaves never lies over a later entry that was applied whole |
| `cluster_retries` | pass | a client that keeps retrying is acknowledged after any single fault, nobody repairing anything |
| `maintenance` | pass | two clients beside the worker, any calls, jobs that raise: no lost wake-up, waits cover earlier requests, captured inputs lead the manifest, no request to a freed worker, every call returns, a requested compaction is taken |
| `store_crash` | pass | two points, singles and batches, checkpoints, compaction, any two crashes or failed batches: implements `DurableMap`, a reopen keeps the pending deltas and the sequence, checkpoints can run, logs can be read |
| `store_errors` | pass | failed appends and failed checkpoints: a completed checkpoint reconciles files and memory in the dense field |
| `shard_storage` | pass | two points, two entries, a snapshot, two faults and a raising call: what was answered for survives every death and power loss, an open shard is whole, the journal reopens, content is journalled, a step of the files is a step of `ReplicaShard` |
| `query_merge` | pass | three points (one ID negative), ties included, two shards with two replicas, lost answers and lagging replicas: the answer is that of one collection (of a hybrid search, the coordinator's fusion of that collection's two rankings), and the counters of every shard are added once |
| `logical_records` | pass | mutations at every boundary of the number scale, two of them, with retries of the entries that raised (two half-refused upserts of one point among them), deaths between the halves, and two snapshots or imports of exported or hand-written rows: the collection is what its journal says, an export can be imported, into what an import that died half-way left too, and a snapshot moves everything |
| `cluster_metadata` | pass | both file versions, elections, writes, rebalances and node restarts, publications that die, raise or lose power: every file loads, every publication validates, what was relied on survives |
| `read_generations` | pass | two points, calls on one or both, merges by the worker or by the writer, every failure: held snapshots resolve to their MemTable, new ones cover every call that returned |
| `stale_read` | violation | section 7 |

*Bounds.* Cluster: two requests on one point are the least with which order and overwriting
matter; three replicas are the least with a minority that lags; two faults let a failure hit the
recovery from another. `MaxIndex` 3 leaves an index for a retry of one request after another has
passed, `MaxTerm` 3 two elections, which is what one `_write` may start. In `cluster_retries`
both are 4 and one fault cannot spend them, so the bounds never stop a retry. Maintenance: two
clients with two calls each are the least with a drainer, a requester and the worker on one
condition; limits of one or two segments and runs make every call meet its hold. Store:
`MaxSequence` 4 is a write, a checkpoint, a delete, a re-insert and one more write or a second
checkpoint; two faults let a crash hit the recovery from another; two points let a batch be
split between points. The points are interchangeable, so `store_crash` uses them as a symmetry
set (safety and refinement by steps only). Shard storage: entries at indexes 1 and 2 on two
points and a snapshot at index 1, so that an install can find the journal empty, at its index
and ahead of it; two faults, so that a recovery can be interrupted and its successor too; one
raising call, since its own rollback raises out of no budget. Query: with three points, k of 1
and 2 and two scores, a shard can hold more and fewer than k points and ties cross the cut; the
ID -1 is the largest when routed and the smallest when ranked. Records: dimension 1 (the
components are checked one by one); two mutations are two half-refused upserts of a point in
both orders of their retries, or one behind or before a mutation that is taken whole, and two
copies let an import follow one that died (1.3 million states). Three mutations without copies
(177,836 states) were checked as well. Metadata: `MaxEpoch` 5 leaves several elections, a
rebalance, a restart of a node and an upgrade, `MaxFaults` 3 one fault after each of two
reopenings. Read generations: a head of two points is sealed early or full; with a merge due at
one sealed run and writes held at two, two calls let a run be sealed while a merge is being
built, and a reset and a new base come in between. One held root is enough, since roots share
nothing that changes. Three calls (7.9 million states) were checked as well.

*Deadlock* is checked, except where the program really stops: in the store runs with
errors, where a log that was damaged by a failed append cannot be opened again;
in `query_merge`, where a search ends; in `cluster_metadata`, at the epoch bound and
where a file belongs to another configuration; in `read_generations`, after a close.

*Fairness.* Cluster (`LiveSpec`): the coordinator is one thread, so the running operation takes
its next step (weak); clients retry for ever, each being let in again and again (strong, on
`Write`). `RepairedSpec` adds an operator who restarts and heals every node. No RPC is assumed
to succeed. Maintenance: every thread inside a call keeps running and gets a spin lock it keeps
finding free (strong, per thread): held callers sleep and try again, and nothing in the code
orders the spinners. A client between calls need never call again; spurious wake-ups and
failures are not fair. The other specifications state no fairness: their handlers are
straight-line code and finite loops, so nothing about their ending could be wrong.

*Mutants.* Beside a definition, `Name_Change` is a version of it with a plausible
mistake. None is used by a specification; each shows that a property is able to fail.

## 5. What is proved

| module | theorem | statement |
|---|---|---|
| `DistributedClusterProofs` | `TypeCorrect` | `Spec => []TypeOK` |
| | `TablesAgree` | `Spec => []LogAndTableAgree` |
| | `OneEntryPerIndex` | `Spec => []IndexAgreement` |
| | `CommittedOnce` | `Spec => []RequestCommittedOnce` |
| | `OneAnswer` | `Spec => []OneAnswerPerRequest` |
| | `MetadataLeads` | `Spec => []MetadataAhead` |
| | `NewestWins` | `Spec => []NewestAppliedWins` |
| | `OpenShardsAreSettled` | `Spec => []NothingLeftToReplay` |
| | `CommitsWerePrepared` | `Spec => []CommittedWasPrepared` |
| | `AcknowledgedSurvives` | `Spec => []AckedOnMajority` |
| | `NothingMovesBackwards` | `Spec => NeverBackwards` |
| `MaintenanceWorkerProofs` | `MaintenanceInvariant` | `Spec => []Inv` |
| | `WakeupsAreNotLost` | `Spec => []NoLostWakeup` |
| | `DrainServes` | `Spec => []DrainServesRequests` |
| | `InputsStayInFront` | `Spec => []CapturedInputsLead` |
| | `FreedIsNotAsked` | `Spec => []NoRequestAfterFree` |
| `ClusterMetadataProofs` | `MetadataInvariant` | `Spec => []Inv` |
| | `PublicationsValidate` | `Spec => []PublicationValidates` |
| | `FilesReload` | `Spec => []FileReloads` |
| | `ReliedOnSurvives` | `Spec => []ReliedSurvives` |
| `QueryMergeProofs` | `ShardingDoesNotShow` | `Spec => []SameAsOneCollection` |
| | `EachShardCountsOnce` | `Spec => []StatsCountEachShardOnce` |
| `ShardStorageProofs` | `FilesAndFieldsAgree` | `Spec => []Inv` |
| | `AnswersSurvive` | `Spec => []AnsweredSurvives` |
| | `ServesTheWholeShard` | `Spec => []OpenShardIsWhole` |
| | `JournalLoads` | `Spec => []JournalReopens` |
| | `NothingUnjournalled` | `Spec => []ContentIsJournalled` |
| | `RestartSeesShardSteps` | `Spec => ChangesByShardSteps` |
| `ReadGenerationsProofs` | `SnapshotsResolve` | `Spec => []ViewsResolve` |
| | `SnapshotsAreCurrent` | `Spec => []SnapshotIsCurrent` |
| `CollectionStoreProofs` | `AnyFaultInvariant` | `Spec => []AnyFaultInv` |
| | `CheckpointAlwaysHeals` | `Spec => []CheckpointHeals` |
| | `LogInvariant` | `NoAppendError`: `Spec => [](AnyFaultInv /\ LogInv)` |
| | `AlwaysReopenable` | `NoAppendError`: `Spec => []Reopenable` |
| | `StoreInvariant` | `CrashesAndBatches`: `Spec => []StoreInv` |
| | `ReopenAlwaysKeepsPending` | `CrashesAndBatches`: `Spec => []ReopenKeepsPending` |
| | `CheckpointCanAlwaysRun` | `CrashesAndBatches`: `Spec => []CheckpointCanRun` |
| | `CollectionIsDurableMap` | `CrashesAndBatches`: `Spec => ImplementsDurableMap` |
| `LogicalRecordsProofs` | `ReplicaInvariant` | `Spec => [](TypeInv /\ ReplicaInv /\ HalfInv /\ Portable(collection))` |
| | `HoldsWhatIsJournalled` | `Spec => []ContentIsTheJournal` |
| | `SnapshotsMoveAll` | `Spec => SnapshotMovesAll` |
| | `ExportsImport` | `Spec => []ExportImports` |

`DistributedClusterProofs` begins with the lemmas about a replica's handlers that the rest of it
cites.

*For which instances.* The cluster: every set of nodes, requests, mutations and points, every
set of refused mutations, every fault budget and every bound. The worker: every set of clients,
every limit and budget, and both outcomes of a `close` that meets a wait. The metadata: every
set of files and faults. The files of a shard: every set of entries, configurations, snapshots
and refused mutations, any number of faults and of raising calls. Searches: every finite set of
points, all integer scores, any number of shards and replicas, k and fetch_k, and any
`FusedScore`. Read generations: every set of points, all limits and any number of calls. The
records: every dimension, every set of mutations, of export files and of contents of the
receiving collection, any number of commits and copies. The collection's storage: every set of
points, values and calls, batches of any length, any number of faults and sequence numbers.
Which kinds of fault is a hypothesis of a theorem: none for the first two; `NoAppendError`
leaves out a failed single write; `CrashesAndBatches` has deaths between any two steps, torn
appends and failed batches, the faults of `store_crash`. The other kinds are left out where the
property is false with them, and section 7 has the ways in which it is: a failed single write
lets the collection go on behind a torn tail, a failed checkpoint keeps `_sparse_pending`, a
death in the rewrite of the sparse log loses its accepted prefix.

*Assumptions.* `ReplicaAssumption` and `ClusterAssumption`: nodes are numbers, the first
placement is a non-empty list of them, calls are pairs of a request and a mutation, a mutation
writes one point. `MaintenanceAssumption`: the worker is no client, budgets are natural numbers,
limits positive ones, the runs a merge waits for not more than those that hold a write.
`StorageAssumption`: an index and a mutation each name one entry (the first is what
`OneEntryPerIndex` proves of the cluster), terms, epochs and snapshot indexes are natural
numbers. `MetadataAssumption`: finitely many nodes, named by numbers, the replication factor not
above their number, ports in range. `FilesAssumption`: a metadata file that is there at the
first start loads, and its last request is not above its last index. `MergeAssumption`: the
point IDs are a finite set of integers, scores are integers (only their order matters), k and
fetch_k are natural numbers, there is a shard, and a power of two is positive.
`StoreAssumption`: the mark of a missing value is no value, a call is a non-empty sequence of
mutations, bounds are natural numbers. `RecordsAssumption`: the dimension is positive, mutations
and rows are records of numbers on the scale, an int is never the fraction that a Float32 takes
for zero, what the receiving collection holds at first has the types of a collection.
`ReadGenerationsProofs` assumes nothing of its constants. TLC evaluates all of them on the
constants of the runs.

*Argument.* `IndexAgreement` and `RequestCommittedOnce` are not inductive. The invariant
`Inv == TypeOK /\ LogInv /\ TableInv /\ OpInv` is:

- `LogInv`: whatever is journalled or queued was issued, at an index issued once and not
  above the durable `last_log_index`. It gives `IndexAgreement`, and is kept by
  `AllocateIndex` because the metadata is published before the first prepare.
- `TableInv`: the request table has one row per request, each an issued entry; each commit
  marker, each queued entry and each answer has its row. A second index of a request that
  was given up has no row, hence no marker: `RequestCommittedOnce`, `OneAnswerPerRequest`.
- `OpInv`: what the running operation has established. In particular a write that is about
  to allocate or prepare has no row yet, and one that commits has exactly the row of the
  entry it sends, also across a nested election. Without it `PrepareDone` could add a
  second row.

The proof has a frame lemma for steps that leave the tables alone, one lemma per group of
actions, and lemmas about the handlers (what `prepare`, `commit`, replay and a snapshot
may add to a journal) that the cluster's steps cite. `cluster_faults` checks the same
invariant with TLC.

The second half of `DistributedClusterProofs` goes on to what a replica holds. Its invariant
`Safe` adds to `Inv`:

- `PlaceInv`: what the running operation visits lies in the placement.
- `ShardInv`: every replica's disk is `Sound`: for every point it holds the
  newest entry that it ever applied, what it applied and has not published is one entry at
  most, and that is the first one a recovery replays. This is what makes
  `NewestAppliedWins` inductive: a death between the collection's write and the state file's
  makes recovery apply an entry again, and it goes under newer content unless it is the newest.
  An open shard is also `Settled`: every marker is covered by the applied index or belongs to a
  mutation the collection refuses.
- `EpochInv`: no replica knows a term or an epoch that the metadata does not have, except that
  the target of a rebalance, outside the placement, may know the next epoch.
- `QuorumInv`: the nodes that answered the running prepare or commit have it on disk; while the
  first placement stands, the entry of every row of the request table is journalled, and
  that of a committed row marked, by a majority of it.

Since every action changes disks, the proof first shows (`Moves`) that a step changes each of them
in one of six ways: it rests, journals an entry, commits one, opens, is configured, or is
replaced by a snapshot; the parts of the invariant, and `NeverBackwards`, are then proved
once for each way and not once for each action.

`AckedOnMajority` and `CommittedWasPrepared` are stated until a rebalance changes the placement.
The attempt to prove them without that showed why: the quorum of an acknowledgement is counted in
the placement of its time, and after two nodes have been added three of five replicas
need not contain two of the first three. `NothingLeftToReplay` leaves out the markers of mutations the
collection refuses, which no replay can remove (section 7).

`MaintenanceWorkerProofs` needs, beside types: `WakeInv` (a worker that sleeps is at the top of
its loop with nothing pending and nobody closing, a drainer that sleeps has a job to wait for:
why ONE condition shared by both loses no wake-up), `OpenInv` (who asks the worker holds the
writer lock of a collection that is not closed), `ErrorInv` (a failed worker has recorded its
error), `OwedInv` (a request not yet taken is still to be made, is queued, or is before a callback
that will take it, or the worker failed) and `LockInv` (a thread inside a compaction owns the
compaction lock). `CapturedInputsLead` is inductive together with `LockInv`: only the owner of the
compaction lock removes segments, and checkpoints append behind.

`ClusterMetadataProofs`: `PublishInv` (what is on its way to the file, in each of the three
steps), `MemoryInv` and `FileInv` (memory and every file that a power loss may leave are valid
metadata), `ReliedInv` (what was relied on is metadata, and none of those files is behind it). A
publication that raises leaves memory ahead of the file, and nothing relies on it until the next
one succeeds.

`ShardStorageProofs`. The properties speak of the directory that recovery would choose, in every
view that a power loss may leave, and an install moves three directories about while handlers
rely on one of them. The invariant `Inv` is `Running`, unless the accident "rollback"
happened; its parts are:

- `ViewInv`: in every view, the chosen directory is `Whole`. Each promise is in its content or
  above the state file's index; a promise above that index has its prepare and its marker in the
  journal, so a replay brings it back and ends on nothing older; content is covered by the
  snapshot or a marker; the journal loads, unless an append raised. A step need only be looked
  at for the directories that recovery may choose after it, so staging, whatever it leaves
  behind, costs nothing.
- `LiveInv`: the directory that the fields in memory belong to is `Live`: its state file is
  not ahead of the fields, its content lies between the promises and the applied index, its
  journal has every record of the dictionaries. That directory is the root for a handler, and
  the backup from the first rename of an install until it is adopted or rolled back.
- `AppliedInv`: no promise is above the applied index in memory. It is why a commit that is
  skipped, and a snapshot that is not older, break no promise.
- `ReplayInv`, `CommitInv`, `InstallInv`: what the loops of opening, of a commit and of an install
  have done so far. Replay takes the least marked index above the state file's, so a death
  in it, before or after the state file is published, leaves a directory that replays to
  the same content.

That the journal is loaded as it was written is a set of lemmas about sequences of lines
(`AppendedFacts`, `TornFacts`, `CompleteFacts`: a snapshot record is first or nowhere, a torn line
is last or the journal does not load). There is one lemma per action for `Running`, and
one per group of actions for `ShardChange`, which is what makes the one-step view of a
replica in `DistributedCluster` an abstraction of its files and not an assumption.

The proof changed two statements. `AnsweredSurvives` now says "if the shard opens"; where the
collection refuses a marked entry, it does not (section 7). And an install that comes after a
rollback that raised has its own handler reopen the collection on whatever directory is the
root, with the fields of another one; this takes two raising calls, one more than `shard_storage`
has, and counts as "rollback" now. TLC agrees, with `MaxErrors = 2`.

`SameAsOneCollection` speaks of finished searches only, so it needs what holds before: the merge
must find each shard's list to be the top k of that shard's points, and the fusion both global
lists to be right. The invariant of `QueryMergeProofs` adds three parts to it in `IInv`:
`InputInv` (the types of the search and its points, and which pass it can be in), `FanoutInv`
(what was collected is the top k of the whole part of each shard visited, whichever replicas
were passed over), `RankingInv` (the dense ranking that a hybrid search keeps during its second
pass is that of one collection). The step from shards to the whole is the lemma `TopKOfParts`:
the top k of the union of the top k's of a partition is the top k of all, because the order on
(score, signed ID) is total and a point with fewer than k better ones in all has fewer than k
better ones in its part. `StatsCountEachShardOnce` rests on `ListInv` (the list of counters is,
in order, the counts of the shards asked so far, one each) and on the lemma `TotalOfShards`: the
shards share no point, so the sum over that list is the number of all points.

`ViewsResolve` is about roots made long ago, which nothing changes; the work is in what holds of
the chain when the next root is made. The invariant `IInv` of `ReadGenerationsProofs` is:

- `Chains`: in the present chain and in the captured one, a run hides exactly the slots that a
  newer run holds (`ShadowOK`), every ID has a newest state, and an identity names one run
  only, also across the two chains. The last is why `publish_merge` may replace the runs it finds
  under the captured identities; without it a stale merge could hide a newer base.
- `CallOK`: what a call has still to record is in the MemTable, and no root is cached meanwhile.
- `HeadOK`: apart from that, the head over the chain says what the MemTable says.
- `FrozenOK`, `RootOK`: a frozen head is the head, a cached root resolves.

The lemmas say what pushing a run (`PushedSays`, `PushedShadow`) and replacing a prefix by its
merge (`RebasedSays`, `RebasedShadow`) do to a chain: neither changes what it says beyond the
run that was pushed, and both keep the hidden slots right. `ShadowShows` then gives the
scans: where the hidden slots are right, a scan meets each live point once.

`CollectionStoreProofs` has three invariants, each for the faults it survives.

- `AnyFaultInv`, for all faults. `CheckpointInv`: no segment holds a point newer than the
  checkpoint, memory is not behind the checkpoint, and a point whose sequence the checkpoint covers
  has in memory the value of the segments. `JobInv`: the output of a compaction is made of the
  segments it captured. `RepairInv`: memory is what the files restore until the collection is
  open. `CheckpointHeals` follows: once both logs are empty, files and memory agree.
- `LogInv`, where no single write fails. Sequence numbers rise along both logs and never pass the
  memory's, and only the last envelope is ever torn, and none in a collection that serves.
  `Reopenable` follows.
- `StoreInv` adds `CleanInv` (in the files, after any number of first segments, a point
  that is not live has no sparse field) and `AgreeInv` (memory serves what the files would
  restore, with the pending deltas of the next checkpoint; between the append and `Apply` this
  holds of the memory after the call). `AgreeInv` is not inductive alone: a compaction
  drops tombstones, and the sparse fields of points that are not live in the segments it captured,
  and restores the same only because of `CleanInv`.

The work is in what recovery makes of changed files. `ReplayDenseCall` and `ReplaySparseCall`: after
the append, recovery restores what `Apply` will make of the memory (a batch may name a
point twice; a delete drops a sparse field, here and there). `Published` and `Rotated`: a delta
segment of what is pending restores what the logs restored, with the logs present, with one
emptied, or with both. `CompactedReplay`: so does a compacted manifest, also behind
segments that a checkpoint appended meanwhile. Each rests on closed forms of recovery
(`DenseFacts`, `SparseFacts`, `DeletesStep`).

`CollectionIsDurableMap` then goes by steps (`MapNext`): the append that completes is
`Commit`, `Apply` is `Publish`, a death, a close or a torn append is `Stop`, the last step
of a repair is `Recover`; checkpoints, compactions and the other steps of a repair stutter, which is
what `Published`, `Rotated` and `CompactedReplay` are for. `DurableMap` writes a call by
recursion over its mutations; `WrittenIs` gives the closed form (the last mutation of a
point decides), by the least prefix for which it would fail.

`LogicalRecordsProofs`. `Held(c, journal, n)` says that the collection c holds what the first n
entries describe. It does not determine c: of a point it names the sparse vector, but the vector
and the payload may be of any upsert in `Latest`, the newest one or one accepted by half behind
the last entry taken whole, because a retry lays an accepted half over a later one. The lemma
`HeldStep` says that the next entry's `Effect`, which is what applying it does, leads from what
the entries before it say to what it says too, and `HalfAgain` that a repeated half leads
nowhere else. `ReplicaInv` says what a replica holds in each phase, for some collection b that
the entries before the last one left. A commit works on the last entry (`Committing`), a retry
on one that raised (`Recommitting`). A recovery is in one of three states: it has nothing to
replay (`Recovered`); it replays one entry whose dense half, or both halves, may already be
there (`Redoing`: an upsert, a sparse write and a delete done twice are done once, and an upsert
after the sparse write keeps it); or it has met an entry the kernel refuses and never ends
(`Stuck`). `Redoing` is about one entry because whatever else lies above the applied index
raised, and would raise again first.

`Portable` is why copies work: what the kernel has stored has the dimension, is its own Float32 and
finite, has names and integers the kernel takes, has rising terms and no weight that is zero. It is
kept because the coordinator's validator and the kernel's are both passed on the way in; the
kernel's alone would let a payload float be infinite. `RowVector`,
`RowPayload` and `RowSparse` take the exported row through every validator and back.
`BatchedIs` and `SparseRowsAre` give closed forms of the loops over rows, as `WrittenIs` does, and
`StagedIs` that the loops rebuild the collection. For imports `CopyInv` follows the rows:
a row that is not in `todo` has arrived, and keeps what it has while the sparse vectors of the
others are written, because the IDs of an export are distinct.

TLC checked the invariants of `CollectionStoreProofs` on the constants of the two runs,
`AnyFaultInv` with every kind of fault, and `TypeInv` and `CopyInv` of `LogicalRecordsProofs` on
those of `logical_records` with one copy, before they were proved. `ReplicaInv` says "for some
collection", which TLC cannot enumerate: there TLC has its consequence `ContentIsTheJournal`.

## 6. What is only model-checked

Liveness (`RetriesSucceed`, `EveryCallReturns`, `RequestedIsTaken`), which TLAPS does not handle
under fairness; and `OldHalfStaysUnder`, the halves of refused upserts under other orders of commits,
rebalances and recoveries than the one order of `LogicalRecords`. Every other safety property of a
passing run is proved, `ImplementsDurableMap` and its neighbours for the faults named in section 5.

Induction over data is available for natural numbers only, through the library's well-founded
orders (a non-empty set of naturals has a least element: `LeastNatural`, `LeastNumber`); the
lemmas about replay and about sums use it. Recursion over a sequence is in reach where the
result has a closed form for every prefix (`WrittenIs`, `BatchedIs`); recursion over sets is
not, and nothing is proved that needs it.

## 7. Where the code and its documents disagree

With a run:

- `stale_read`: `_query_replica` compares `applied_index` with the committed index; a replica
  that missed an entry and applied a later one passes (cluster.py:397).

Refuted with TLC on the instance given, the formula being kept in its module; the instance
differs from a run's only in what is named:

- `AckedIsApplied` (`DistributedCluster`; `Spec`, three replicas, `Faults = {"power"}`,
  `MaxFaults = 1`, `MaxIndex = 2`, `MaxTerm = 1`): a prepared request retried after a later
  index was applied gets its marker and is acknowledged, and no replica applies it
  (replica.py:292).
- `PreparedRetrySucceeds` (`DistributedCluster`; `RepairedSpec`, `MCTwo`, `MCOneCall`,
  `{"drop", "partition"}`, `MaxFaults`, `MaxIndex` and `MaxTerm` 2): `_ensure_leader` looks at
  the leader's term and not at its epoch; after a rebalance that published its epoch and
  failed to configure, retries are refused for ever (cluster.py:320).
- `TornTailRemovedFirst` (`CollectionStore`; one point, `MCSingles`, `{"append_error"}`,
  `MaxFaults = 1`, `MaxSequence = 4`): a single write that fails half-way leaves its bytes, and
  the next record is appended behind them (filesystem.mojo:126).
- `RepairKeepsAccepted` (`CollectionStore`; `{"crash", "repair_crash"}`, `MaxFaults = 3`,
  `MaxSequence = 4`): the sparse log is emptied before its accepted prefix is written back
  (sparse_store.mojo:404).
- `ImportValidatedFirst` (`LogicalRecords`, the instance of `logical_records`):
  docs/consistency-model.md:98 has an import validated before it changes anything; a sparse
  weight that is not zero as a Python float and zero as a Float32 raises after the dense
  batch was written (operations.py:176).
- `RestartedReplicaReopens` (`LogicalRecords`, the instance of `logical_records`): a mutation
  the kernel refuses has its commit marker first, and every replay raises for it again
  (replica.py:322-326; docs/distributed.md:58-60).

Met while modelling, without a formula of their own:

- The rollback of an install may raise (replica.py:453). The process then serves on with its
  collection closed: a `configure` makes the missing directory anew (replica.py:54), and the
  next recovery takes it for the shard and deletes the backup; or the old journal object
  appends a commit to the new journal, which lacks its prepare and cannot be opened.
  A later install that fails reopens the collection on the directory it finds, beside the
  fields and the journal object of the other one (replica.py:433, 455).
  `ShardStorage` records all of this as the accident "rollback".
- An append to a replica's journal that raises in the middle of a line, in a process that goes
  on, leaves bytes the next line joins (protocol.py:655); recorded as the accident "append".
- The coordinator starts the replica processes before it loads its metadata; a file that cannot
  be loaded leaves them running (cluster.py:94).
- docs/distributed.md:33-34 has a replica apply and then write the marker; the code writes the
  marker first. `NothingLeftToReplay` shows that recovery makes up for it.
- `catch_up` asks for entries above the target's `applied_index`, so a hole below it is never
  filled, not even by reopening.
- A mutation the collection refuses, retried after a later index was applied, is acknowledged.
- `wait_for_maintenance` drains after it let the writer lock go; `close` may free the worker
  first (collection.mojo:684 beside the docstring at 645).
- A single write whose fsync raises leaves a complete record, and the next write reuses its
  sequence number; the next open raises. `apply_batch` guards against this
  (collection.mojo:1014-1016), single writes do not.
- A checkpoint that raises after the manifest rename keeps `_sparse_pending`; after the next
  write every flush raises "invalid sparse segment record sequence" until a reopen.
- After a torn append and a reopen, a lost dense upsert beside a kept sparse change can bring a
  sparse field back.
- The first append creates a log file without syncing its directory.
- docs/plans/2026-08-26-phase16-distributed-execution.md:47-50 has the coordinator fuse with the
  rank constant and the tie rule of the kernel, but not with its arithmetic. The kernel rounds each
  contribution and their sum to Float32 (fusion.mojo:51-57), the coordinator adds Python floats
  (cluster.py:512-521). With a rank constant of 60, ranks (3, 66) and (24, 24) are the same sum, and
  on each side a rounding of its own decides which comes first; the scores differ too. Line 83
  promises no more than `SameAsOneCollection` says: hybrid results match the coordinator's fusion.
- A commit delivered again is said to do nothing the second time (the same plan, line 29). The
  entry of an upsert whose sparse half was refused is above the applied index, so a retry
  applies its dense half again, over the half of a later refused upsert of that point
  (cluster.py:217-228, replica.py:287-295). `ContentIsTheJournal` and `OldHalfStaysUnder` say
  how far that goes: never over an entry that was applied whole.

Hazards that the properties cover in part only: a drain beside the `close` that frees its worker
(`CloseMeetsWait` is false in the run), a sparse delta after a checkpoint that raised
(`store_errors` has the dense field), and what a shard serves after the rollback of an install
raised.
