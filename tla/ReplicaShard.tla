---------------------------- MODULE ReplicaShard ----------------------------
(***************************************************************************)
(* The durable state of one shard on one replica process and what each     *)
(* request handler of python/akashadb/distributed/replica.py does to it,   *)
(* together with the ReplicaJournal of protocol.py.                        *)
(*                                                                         *)
(* There are no variables here.  A handler that writes several files is a  *)
(* SEQUENCE of durable states, one after every fsync: the first element is *)
(* the state the handler starts from and the last the state it leaves when *)
(* it returns.  A process that is killed inside the handler leaves one of  *)
(* them, and the caller (DistributedCluster) chooses which.                *)
(*                                                                         *)
(* Memory and disk agree whenever a handler is not running: every handler  *)
(* publishes what it assigned before it returns, so one copy is kept.      *)
(***************************************************************************)
EXTENDS Integers, Sequences, FiniteSets

CONSTANTS
  Request,    \* client request identifiers
  Mutation,   \* replicated mutations (upsert or delete of one point)
  Key,        \* point identifiers
  KeyOf,      \* the point a mutation writes
  Rejected,   \* mutations that pass validate_replicated_mutation and that the
              \* local collection refuses, such as a vector component that is
              \* finite as Float64 and infinite as Float32
  Halved,     \* upserts with a sparse vector whose vector and payload the local
              \* collection takes, in a call of their own: a rejected one of them
              \* is refused in the second call
  NoMutation  \* the content of a point that was never written

ASSUME ReplicaAssumption ==
  /\ KeyOf \in [Mutation -> Key]
  /\ Rejected \subseteq Mutation /\ Halved \subseteq Mutation
  /\ NoMutation \notin Mutation

(***************************************************************************)
(* A replicated entry.  The term and the placement epoch travel with the   *)
(* request and are checked against the replica's own, but the coordinator  *)
(* stamps an entry anew on every send and nothing reads the journalled     *)
(* ones, so a journalled entry keeps index, request and mutation.  Two     *)
(* mutation checksums are equal when the mutations are.                    *)
(***************************************************************************)
Entry == [index : Nat \ {0}, req : Request, mut : Mutation]

(***************************************************************************)
(* replica-state.json (term, placement_epoch, applied_index), the          *)
(* replicated.log (prepared, committed, snapshot_index) and the collection *)
(* (content and dense).  A point's content is the last mutation applied to *)
(* it whole, and dense the one its vector and payload are from.  `done' is *)
(* a history variable: the indexes whose mutation has been applied whole,  *)
(* directly or inside a snapshot.                                          *)
(***************************************************************************)
Disk ==
  [term : Nat, placement_epoch : Nat, applied_index : Nat,
   prepared : SUBSET Entry, committed : SUBSET Nat, snapshot_index : Nat,
   content : [Key -> Mutation \cup {NoMutation}],
   dense : [Key -> Mutation \cup {NoMutation}], done : SUBSET Nat]

\* A shard directory that does not exist yet.
EmptyDisk ==
  [term |-> 0, placement_epoch |-> 0, applied_index |-> 0,
   prepared |-> {}, committed |-> {}, snapshot_index |-> 0,
   content |-> [k \in Key |-> NoMutation], dense |-> [k \in Key |-> NoMutation],
   done |-> {}]

Last(s) == s[Len(s)]

\* ReplicaJournal.prepare: an index is journalled once; the same mutation
\* again is a no-op, another one is a conflict.
ConflictingDuplicate(d, e) ==
  \E p \in d.prepared : p.index = e.index /\ p.mut # e.mut

JournalPrepare(d, e) ==
  IF \E p \in d.prepared : p.index = e.index
  THEN d
  ELSE [d EXCEPT !.prepared = @ \cup {e}]

\* ReplicaJournal.commit, for an index that is prepared.
JournalCommit(d, i) == [d EXCEPT !.committed = @ \cup {i}]

\* ReplicaJournal.committed_after.
CommittedAfter(d, i) ==
  {p \in d.prepared : p.index \in d.committed /\ p.index > i}

\* The first of the two calls of ReplicaShard._apply, where there are two.
ApplyDense(d, e) ==
  IF e.mut \in Halved THEN [d EXCEPT !.dense[KeyOf[e.mut]] = e.mut] ELSE d

\* ReplicaShard._apply: an upsert or delete of the local collection.
Apply(d, e) ==
  [d EXCEPT !.content[KeyOf[e.mut]] = e.mut, !.dense[KeyOf[e.mut]] = e.mut,
            !.done = @ \cup {e.index}]

\* The applied index is published after the collection has the mutation.
PublishApplied(d, i) == [d EXCEPT !.applied_index = i]

\* ReplicaShard._validate_entry_epoch: both numbers must match exactly.
EpochMatches(d, term, epoch) == d.term = term /\ d.placement_epoch = epoch

PrepareAccepts(d, e, term, epoch) ==
  /\ EpochMatches(d, term, epoch)
  /\ e.index > d.snapshot_index
  /\ ~ConflictingDuplicate(d, e)

PrepareSteps(d, e) == <<d, JournalPrepare(d, e)>>

CommitAccepts(d, e, term, epoch) ==
  EpochMatches(d, term, epoch) /\ ~ConflictingDuplicate(d, e)

\* Mutant: an entry at or below the applied index is applied again.
CommitSteps_AlwaysApplies(d, e) ==
  LET prepared  == JournalPrepare(d, e)
      committed == JournalCommit(prepared, e.index)
      half      == ApplyDense(committed, e)
      applied   == Apply(half, e)
  IN  IF e.mut \in Rejected
      THEN <<d, prepared, committed, half>>
      ELSE <<d, prepared, committed, half, applied, PublishApplied(applied, e.index)>>

\* ReplicaShard.commit: prepare, commit marker, apply, applied index.  An entry
\* at or below the applied index gets its marker and is not applied; one that is
\* refused leaves what the collection took of it.
CommitSteps(d, e) ==
  LET prepared  == JournalPrepare(d, e)
      committed == JournalCommit(prepared, e.index)
      half      == ApplyDense(committed, e)
      applied   == Apply(half, e)
  IN  IF e.index <= d.applied_index
      THEN <<d, prepared, committed>>
      ELSE IF e.mut \in Rejected
      THEN <<d, prepared, committed, half>>
      ELSE <<d, prepared, committed, half, applied, PublishApplied(applied, e.index)>>

\* _apply raises after the commit marker is durable: the caller gets an error.
CommitRaises(d, e) == e.index > d.applied_index /\ e.mut \in Rejected

\* Mutant: a replica refuses the term and epoch it already has.
ConfigureAccepts_Strict(d, term, epoch) ==
  term > d.term /\ epoch > d.placement_epoch

\* ReplicaShard.configure.
ConfigureAccepts(d, term, epoch) ==
  term >= d.term /\ epoch >= d.placement_epoch

Configured(d, term, epoch) ==
  [d EXCEPT !.term = term, !.placement_epoch = epoch]

(***************************************************************************)
(* ReplicaShard.__init__: the committed entries above the applied index    *)
(* are replayed in index order.  The replay of a rejected mutation raises  *)
(* and the shard does not open; the entries before it stay applied, and    *)
(* what the collection took of it stays, too.                              *)
(***************************************************************************)
Unreplayed(d) == CommittedAfter(d, d.applied_index)

Replayable(d) ==
  {e \in Unreplayed(d) :
     \A f \in Unreplayed(d) : f.index <= e.index => f.mut \notin Rejected}

RecoveryRaises(d) == Replayable(d) # Unreplayed(d)

\* The entry at which the replay raises.
Refused(d) ==
  {e \in Unreplayed(d) : /\ e.mut \in Rejected
                         /\ \A f \in Unreplayed(d) : f.index < e.index => f.mut \notin Rejected}

\* The collection has the entries R and the published applied index stands at the
\* last of P.  For every point, the replayed mutation with the highest index wins.
Replayed(d, R, P) ==
  LET last(k) == {e \in R : /\ KeyOf[e.mut] = k
                            /\ \A f \in R : KeyOf[f.mut] = k => f.index <= e.index}
      Over(held) == [k \in Key |-> IF last(k) = {} THEN held[k]
                                   ELSE (CHOOSE e \in last(k) : TRUE).mut]
  IN  [d EXCEPT
        !.content = Over(@), !.dense = Over(@),
        !.done = @ \cup {e.index : e \in R},
        !.applied_index =
           IF P = {} THEN @
           ELSE CHOOSE i \in {e.index : e \in P} : \A e \in P : e.index <= i]

\* Mutant: the shard opens without replaying.
Recovered_NoReplay(d) == d

Recovered(d) ==
  LET r == Replayed(d, Replayable(d), Replayable(d))
  IN  IF Refused(d) = {} THEN r ELSE ApplyDense(r, CHOOSE e \in Refused(d) : TRUE)

\* What a process that dies inside _replay_committed leaves: the entries up to
\* some e are applied and the applied index of e is published or not, or e is
\* applied by half.
RecoverySteps(d) ==
  (UNION {LET upto == {f \in Replayable(d) : f.index <= e.index}
          IN  {Replayed(d, upto, upto), Replayed(d, upto, upto \ {e}),
               ApplyDense(Replayed(d, upto \ {e}, upto \ {e}), e)} : e \in Replayable(d)})
    \cup (IF RecoveryRaises(d) THEN {Recovered(d)} ELSE {})

\* ReplicaShard.install_snapshot of what `source' exports.  The journal is
\* replaced by a single snapshot record.
SnapshotAccepts(d, source, term, epoch) ==
  /\ source.applied_index >= d.applied_index
  /\ ConfigureAccepts(d, term, epoch)

\* Mutant: the installed shard starts again from index zero.
Installed_FromZero(source, term, epoch) ==
  [term |-> term, placement_epoch |-> epoch, applied_index |-> 0,
   prepared |-> {}, committed |-> {}, snapshot_index |-> source.applied_index,
   content |-> source.content, dense |-> source.dense, done |-> source.done]

Installed(source, term, epoch) ==
  [term |-> term, placement_epoch |-> epoch,
   applied_index |-> source.applied_index,
   prepared |-> {}, committed |-> {}, snapshot_index |-> source.applied_index,
   content |-> source.content, dense |-> source.dense, done |-> source.done]
=============================================================================
