----------------------- MODULE DistributedClusterProofs -----------------------
(***************************************************************************)
(* Proofs about DistributedCluster for every set of nodes, requests and    *)
(* mutations and every fault budget.                                       *)
(*                                                                         *)
(* The safety properties are consequences of one inductive invariant, Inv: *)
(* the journals hold only issued entries, no index was issued twice, the   *)
(* request table names the one index a request can be committed at, and    *)
(* the operation in progress agrees with both.  The lemmas below go action *)
(* by action; FrameDisks and its companions deal with what a step leaves   *)
(* alone.                                                                  *)
(***************************************************************************)
EXTENDS DistributedCluster, TLAPS, WellFoundedInduction, FiniteSetTheorems

-----------------------------------------------------------------------------
(***************************************************************************)
(* What every handler of a replica does to its durable state: facts about  *)
(* the operators of ReplicaShard.                                          *)
(***************************************************************************)
\* Every non-empty set of naturals has a least element.
LEMMA LeastNat ==
  ASSUME NEW S \in SUBSET Nat, S # {}
  PROVE  \E x \in S : \A y \in S : x <= y
<1> DEFINE R == OpToRel(<, Nat)
<1>1. IsWellFoundedOn(R, Nat)
  BY NatLessThanWellFounded
<1>2. PICK x \in S : \A y \in S : ~(<<y, x>> \in R)
  <2> HIDE DEF R
  <2> QED BY <1>1, WFMin
<1>3. \A y \in S : <<y, x>> \notin R => x <= y
  BY DEF OpToRel
<1> QED BY <1>2, <1>3

\* Every non-empty bounded set of naturals has a greatest element.
LEMMA GreatestNat ==
  ASSUME NEW S \in SUBSET Nat, S # {}, NEW b \in Nat, \A i \in S : i <= b
  PROVE  \E x \in S : \A y \in S : y <= x
<1> DEFINE T == {b - i : i \in S}
<1>1. \A i \in S : b - i \in Nat
  OBVIOUS
<1>2. T \in SUBSET Nat
  BY <1>1
<1>3. T # {}
  OBVIOUS
<1> HIDE DEF T
<1>4. PICK t \in T : \A u \in T : t <= u
  BY <1>2, <1>3, LeastNat
<1>5. PICK x \in S : t = b - x
  BY <1>4 DEF T
<1>6. \A y \in S : b - x <= b - y
  BY <1>4, <1>5 DEF T
<1>7. \A y \in S : y <= x
  BY <1>6
<1> QED BY <1>7

\* Journalling an entry adds at most that entry.
LEMMA JournalPrepareFacts ==
  ASSUME NEW d \in Disk, NEW e \in Entry
  PROVE  /\ JournalPrepare(d, e) \in Disk
         /\ JournalPrepare(d, e).prepared \subseteq d.prepared \cup {e}
         /\ d.prepared \subseteq JournalPrepare(d, e).prepared
         /\ JournalPrepare(d, e).committed = d.committed
         /\ JournalPrepare(d, e).applied_index = d.applied_index
BY DEF JournalPrepare, Disk

\* ReplicaJournal.commit adds one marker and touches nothing else.
LEMMA JournalCommitFacts ==
  ASSUME NEW d \in Disk, NEW i \in Nat
  PROVE  /\ JournalCommit(d, i) \in Disk
         /\ JournalCommit(d, i).prepared = d.prepared
         /\ JournalCommit(d, i).committed = d.committed \cup {i}
         /\ JournalCommit(d, i).applied_index = d.applied_index
BY DEF JournalCommit, Disk

\* The first call of ReplicaShard._apply leaves alone whatever is whole.
LEMMA ApplyDenseFacts ==
  ASSUME NEW d \in Disk, NEW e \in Entry
  PROVE  /\ ApplyDense(d, e) \in Disk
         /\ ApplyDense(d, e).prepared = d.prepared
         /\ ApplyDense(d, e).committed = d.committed
         /\ ApplyDense(d, e).applied_index = d.applied_index
         /\ ApplyDense(d, e).done = d.done /\ ApplyDense(d, e).content = d.content
         /\ ApplyDense(d, e).term = d.term
         /\ ApplyDense(d, e).placement_epoch = d.placement_epoch
<1> DEFINE dense == IF e.mut \in Halved THEN [d.dense EXCEPT ![KeyOf[e.mut]] = e.mut] ELSE d.dense
<1>1. dense \in [Key -> Mutation \cup {NoMutation}]
  BY ReplicaAssumption DEF Entry, Disk
<1>2. ApplyDense(d, e) = [d EXCEPT !.dense = dense]
  BY DEF ApplyDense, Disk
<1> HIDE DEF dense
<1> QED BY <1>1, <1>2 DEF Disk

\* ReplicaShard._apply changes the contents of one point only.
LEMMA ApplyFacts ==
  ASSUME NEW d \in Disk, NEW e \in Entry
  PROVE  /\ Apply(d, e) \in Disk
         /\ Apply(d, e).prepared = d.prepared
         /\ Apply(d, e).committed = d.committed
         /\ Apply(d, e).applied_index = d.applied_index
<1>1. e.index \in Nat /\ e.mut \in Mutation /\ KeyOf[e.mut] \in Key
  BY ReplicaAssumption DEF Entry
<1>2. /\ d.content \in [Key -> Mutation \cup {NoMutation}]
      /\ d.dense \in [Key -> Mutation \cup {NoMutation}] /\ d.done \in SUBSET Nat
  BY DEF Disk
<1> DEFINE content == [d.content EXCEPT ![KeyOf[e.mut]] = e.mut]
           dense == [d.dense EXCEPT ![KeyOf[e.mut]] = e.mut]
           done == d.done \cup {e.index}
<1>3. /\ content \in [Key -> Mutation \cup {NoMutation}]
      /\ dense \in [Key -> Mutation \cup {NoMutation}] /\ done \in SUBSET Nat
  BY <1>1, <1>2
<1>4. Apply(d, e) = [d EXCEPT !.content = content, !.dense = dense, !.done = done]
  BY DEF Apply, Disk
<1> HIDE DEF content, dense, done
<1> QED BY <1>3, <1>4 DEF Disk

\* _publish_state writes the applied index and nothing else of the log.
LEMMA PublishAppliedFacts ==
  ASSUME NEW d \in Disk, NEW i \in Nat
  PROVE  /\ PublishApplied(d, i) \in Disk
         /\ PublishApplied(d, i).prepared = d.prepared
         /\ PublishApplied(d, i).committed = d.committed
         /\ PublishApplied(d, i).applied_index = i
BY DEF PublishApplied, Disk

\* configure changes the term and the placement epoch only.
LEMMA ConfiguredFacts ==
  ASSUME NEW d \in Disk, NEW t \in Nat, NEW p \in Nat
  PROVE  /\ Configured(d, t, p) \in Disk
         /\ Configured(d, t, p).prepared = d.prepared
         /\ Configured(d, t, p).committed = d.committed
         /\ Configured(d, t, p).applied_index = d.applied_index
BY DEF Configured, Disk

\* install_snapshot starts from an empty journal at the source's applied index.
LEMMA InstalledFacts ==
  ASSUME NEW d \in Disk, NEW t \in Nat, NEW p \in Nat
  PROVE  /\ Installed(d, t, p) \in Disk
         /\ Installed(d, t, p).prepared = {}
         /\ Installed(d, t, p).committed = {}
         /\ Installed(d, t, p).applied_index = d.applied_index
BY DEF Installed, Disk

\* After any number of its fsyncs, commit has added at most the entry and its
\* marker, and the applied index is the old one or the entry's.
LEMMA CommitStepsFacts ==
  ASSUME NEW d \in Disk, NEW e \in Entry, NEW i \in 1..Len(CommitSteps(d, e))
  PROVE  /\ CommitSteps(d, e)[i] \in Disk
         /\ CommitSteps(d, e)[i].prepared \subseteq d.prepared \cup {e}
         /\ d.prepared \subseteq CommitSteps(d, e)[i].prepared
         /\ CommitSteps(d, e)[i].committed \subseteq d.committed \cup {e.index}
         /\ d.committed \subseteq CommitSteps(d, e)[i].committed
         /\ CommitSteps(d, e)[i].applied_index \in {d.applied_index, e.index}
<1>0. e.index \in Nat
  BY DEF Entry
<1> DEFINE p == JournalPrepare(d, e)
           c == JournalCommit(p, e.index)
           h == ApplyDense(c, e)
           a == Apply(h, e)
           q == PublishApplied(a, e.index)
<1>1. p \in Disk /\ p.prepared \subseteq d.prepared \cup {e}
        /\ d.prepared \subseteq p.prepared
        /\ p.committed = d.committed /\ p.applied_index = d.applied_index
  BY JournalPrepareFacts
<1> HIDE DEF p
<1>2. c \in Disk /\ c.prepared = p.prepared
        /\ c.committed = d.committed \cup {e.index} /\ c.applied_index = d.applied_index
  BY <1>0, <1>1, JournalCommitFacts
<1> HIDE DEF c
<1>h. h \in Disk /\ h.prepared = p.prepared
        /\ h.committed = c.committed /\ h.applied_index = d.applied_index
  BY <1>2, ApplyDenseFacts
<1> HIDE DEF h
<1>3. a \in Disk /\ a.prepared = p.prepared
        /\ a.committed = c.committed /\ a.applied_index = d.applied_index
  BY <1>h, ApplyFacts
<1> HIDE DEF a
<1>4. q \in Disk /\ q.prepared = p.prepared
        /\ q.committed = c.committed /\ q.applied_index = e.index
  BY <1>0, <1>3, PublishAppliedFacts
<1> HIDE DEF q
<1>5. CommitSteps(d, e) \in {<<d, p, c>>, <<d, p, c, h>>, <<d, p, c, h, a, q>>}
  BY DEF CommitSteps, p, c, h, a, q
<1>6. CommitSteps(d, e)[i] \in {d, p, c, h, a, q}
  BY <1>5
<1> QED BY <1>1, <1>2, <1>h, <1>3, <1>4, <1>6

\* The final disk of commit() is one of its steps.
LEMMA LastCommitStep ==
  ASSUME NEW d \in Disk, NEW e \in Entry
  PROVE  \E i \in 1..Len(CommitSteps(d, e)) :
           Last(CommitSteps(d, e)) = CommitSteps(d, e)[i]
<1>1. Len(CommitSteps(d, e)) \in {3, 4, 6}
  BY DEF CommitSteps
<1> QED BY <1>1 DEF Last

\* A replay of journalled entries leaves the journal as it is, and the applied
\* index where the journal reaches.
LEMMA ReplayedFacts ==
  ASSUME NEW d \in Disk, NEW b \in Nat, \A e \in d.prepared : e.index <= b,
         d.applied_index <= b,
         NEW replay \in SUBSET d.prepared, NEW P \in SUBSET d.prepared
  PROVE  /\ Replayed(d, replay, P) \in Disk
         /\ Replayed(d, replay, P).prepared = d.prepared
         /\ Replayed(d, replay, P).committed = d.committed
         /\ Replayed(d, replay, P).applied_index <= b
<1> DEFINE last(k) == {e \in replay : /\ KeyOf[e.mut] = k
                                      /\ \A f \in replay : KeyOf[f.mut] = k => f.index <= e.index}
           Over(held) == [k \in Key |-> IF last(k) = {} THEN held[k]
                                        ELSE (CHOOSE e \in last(k) : TRUE).mut]
           cont == Over(d.content)
           dense == Over(d.dense)
           done == {e.index : e \in replay}
           idx == {e.index : e \in P}
           top == IF P = {} THEN d.applied_index
                  ELSE CHOOSE i \in idx : \A e \in P : e.index <= i
<1>1. replay \subseteq Entry /\ P \subseteq Entry
  BY DEF Disk
<1>2. Replayed(d, replay, P) = [d EXCEPT !.content = cont, !.dense = dense,
                               !.done = d.done \cup done, !.applied_index = top]
  BY DEF Replayed, Disk
<1>3. ASSUME NEW held \in [Key -> Mutation \cup {NoMutation}]
      PROVE  Over(held) \in [Key -> Mutation \cup {NoMutation}]
  <2>1. ASSUME NEW k \in Key
        PROVE  (IF last(k) = {} THEN held[k] ELSE (CHOOSE e \in last(k) : TRUE).mut)
                  \in Mutation \cup {NoMutation}
    <3>1. CASE last(k) = {}
      BY <3>1
    <3>2. CASE last(k) # {}
      <4>1. (CHOOSE e \in last(k) : TRUE) \in last(k)
        BY <3>2
      <4>2. last(k) \subseteq Entry
        BY <1>1
      <4> HIDE DEF last
      <4> QED BY <3>2, <4>1, <4>2 DEF Entry
    <3> QED BY <3>1, <3>2
  <2> QED BY <2>1
<1>held. /\ cont \in [Key -> Mutation \cup {NoMutation}]
         /\ dense \in [Key -> Mutation \cup {NoMutation}]
  <2>1. /\ d.content \in [Key -> Mutation \cup {NoMutation}]
        /\ d.dense \in [Key -> Mutation \cup {NoMutation}]
    BY DEF Disk
  <2> HIDE DEF Over
  <2> QED BY <1>3, <2>1
<1>4. idx \subseteq Nat /\ done \subseteq Nat /\ \A i \in idx : i <= b
  BY <1>1 DEF Entry
<1>5. top \in Nat /\ top <= b
  <2>1. CASE P = {}
    BY <2>1 DEF Disk
  <2>2. CASE P # {}
    <3>1. idx # {}
      BY <2>2
    <3>2. \E i \in idx : \A j \in idx : j <= i
      <4> HIDE DEF idx
      <4> QED BY <1>4, <3>1, GreatestNat
    <3>3. \E i \in idx : \A e \in P : e.index <= i
      BY <3>2
    <3>4. top \in idx
      BY <2>2, <3>3
    <3> HIDE DEF top, idx
    <3> QED BY <3>4, <1>4
  <2> QED BY <2>1, <2>2
<1> HIDE DEF cont, dense, done, idx, top
<1>6. Replayed(d, replay, P).applied_index = top /\ Replayed(d, replay, P).prepared = d.prepared
        /\ Replayed(d, replay, P).committed = d.committed
  BY <1>2 DEF Disk
<1>7. Replayed(d, replay, P) \in Disk
  BY <1>2, <1>held, <1>4, <1>5 DEF Disk
<1> QED BY <1>5, <1>6, <1>7

\* Where a replay may stop: R is applied and P is published.
ReplayStops(d, R, P) ==
  \/ R = Replayable(d) /\ P = R
  \/ \E e \in Replayable(d) :
       LET upto == {f \in Replayable(d) : f.index <= e.index}
       IN  \/ R = upto /\ P = upto
           \/ R = upto /\ P = upto \ {e}
           \/ R = upto \ {e} /\ P = R

\* What opening the shard, and dying while it opens, leaves: a replay that stopped,
\* and of one more entry maybe its first half.
LEMMA RecoveryCases ==
  ASSUME NEW d \in Disk, NEW r \in {Recovered(d)} \cup RecoverySteps(d)
  PROVE  \E R, P : /\ ReplayStops(d, R, P)
                   /\ \/ r = Replayed(d, R, P)
                      \/ \E e \in Unreplayed(d) : r = ApplyDense(Replayed(d, R, P), e)
<1>1. CASE r = Recovered(d)
  <2> DEFINE q == Replayed(d, Replayable(d), Replayable(d))
             x == CHOOSE e \in Refused(d) : TRUE
  <2>1. Refused(d) # {} => x \in Unreplayed(d)
    BY DEF Refused
  <2>2. r = q \/ (Refused(d) # {} /\ r = ApplyDense(q, x))
    BY <1>1 DEF Recovered
  <2> HIDE DEF x
  <2>3. r = q \/ \E e \in Unreplayed(d) : r = ApplyDense(q, e)
    BY <2>1, <2>2
  <2>4. ReplayStops(d, Replayable(d), Replayable(d))
    BY DEF ReplayStops
  <2> QED BY <2>3, <2>4
<1>2. CASE r \in RecoverySteps(d) /\ r # Recovered(d)
  <2> DEFINE upto(e) == {f \in Replayable(d) : f.index <= e.index}
  <2>1. PICK e \in Replayable(d) :
          r \in {Replayed(d, upto(e), upto(e)), Replayed(d, upto(e), upto(e) \ {e}),
                ApplyDense(Replayed(d, upto(e) \ {e}, upto(e) \ {e}), e)}
    <3> DEFINE left(e) == {Replayed(d, upto(e), upto(e)), Replayed(d, upto(e), upto(e) \ {e}),
                           ApplyDense(Replayed(d, upto(e) \ {e}, upto(e) \ {e}), e)}
           U == UNION {left(e) : e \in Replayable(d)}
    <3>1. RecoverySteps(d) = U \cup (IF RecoveryRaises(d) THEN {Recovered(d)} ELSE {})
      BY DEF RecoverySteps
    <3>2. r \in U
      <4> HIDE DEF U
      <4>1. r \in U \/ r = Recovered(d)
        BY <1>2, <3>1
      <4> QED BY <1>2, <4>1
    <3> HIDE DEF left
    <3>3. PICK e \in Replayable(d) : r \in left(e)
      BY <3>2
    <3> QED BY <3>3 DEF left
  <2>2. e \in Unreplayed(d)
    BY DEF Replayable
  <2> DEFINE U == upto(e)
             V == upto(e) \ {e}
  <2>3. ReplayStops(d, U, U) /\ ReplayStops(d, U, V) /\ ReplayStops(d, V, V)
    BY DEF ReplayStops
  <2>4. r \in {Replayed(d, U, U), Replayed(d, U, V), ApplyDense(Replayed(d, V, V), e)}
    BY <2>1
  <2> HIDE DEF U, V
  <2>5. CASE r = Replayed(d, U, U)
    BY <2>3, <2>5
  <2>6. CASE r = Replayed(d, U, V)
    BY <2>3, <2>6
  <2>7. CASE r = ApplyDense(Replayed(d, V, V), e)
    BY <2>2, <2>3, <2>7
  <2> QED BY <2>4, <2>5, <2>6, <2>7
<1> QED BY <1>1, <1>2

\* Opening the shard, and dying while it opens.
LEMMA RecoveredFacts ==
  ASSUME NEW d \in Disk, NEW b \in Nat, \A e \in d.prepared : e.index <= b,
         d.applied_index <= b, NEW r \in {Recovered(d)} \cup RecoverySteps(d)
  PROVE  /\ r \in Disk
         /\ r.prepared = d.prepared /\ r.committed = d.committed
         /\ r.applied_index <= b
<1>1. Replayable(d) \in SUBSET d.prepared
  BY DEF Replayable, Unreplayed, CommittedAfter
<1>2. PICK R, P : /\ ReplayStops(d, R, P)
                  /\ \/ r = Replayed(d, R, P)
                     \/ \E e \in Unreplayed(d) : r = ApplyDense(Replayed(d, R, P), e)
  BY RecoveryCases
<1>3. R \in SUBSET d.prepared /\ P \in SUBSET d.prepared
  BY <1>1, <1>2 DEF ReplayStops
<1>4. /\ Replayed(d, R, P) \in Disk
      /\ Replayed(d, R, P).prepared = d.prepared /\ Replayed(d, R, P).committed = d.committed
      /\ Replayed(d, R, P).applied_index <= b
  BY <1>3, ReplayedFacts
<1>5. \A e \in Unreplayed(d) : e \in Entry
  BY DEF Unreplayed, CommittedAfter, Disk
<1> QED BY <1>2, <1>4, <1>5, ApplyDenseFacts

-----------------------------------------------------------------------------
(***************************************************************************)
(* What a replica's journal says of its collection, whatever happened to   *)
(* its process.  `log' stands for the entries the coordinator issued.      *)
(***************************************************************************)
\* A commit marker is written after its entry is journalled.
Marked(d) == \A i \in d.committed : \E e \in d.prepared : e.index = i

\* At most one entry is in the collection and not in the applied index: the one
\* whose application a crash cut off, which is the first that recovery replays.
Ahead(d) ==
  \A i \in d.done : i > d.applied_index =>
    /\ \E e \in Unreplayed(d) : e.index = i
    /\ \A f \in Replayable(d) : i <= f.index

\* The collection holds, for every point, the newest mutation it has applied.
Newest(d, log) ==
  \A k \in Key :
    LET applied == {e \in log : e.index \in d.done /\ KeyOf[e.mut] = k}
    IN  IF applied = {}
        THEN d.content[k] = NoMutation
        ELSE \E e \in applied : /\ \A f \in applied : f.index <= e.index
                                /\ d.content[k] = e.mut

\* An open shard has nothing to replay but what its collection refuses.
Settled(d) ==
  /\ \A e \in Unreplayed(d) : e.mut \in Rejected
  /\ \A i \in d.done : i <= d.applied_index

Sound(d, log) == Marked(d) /\ Ahead(d) /\ Newest(d, log)

\* The entries of a log: one per index.
Log(log) == log \subseteq Entry /\ \A e, f \in log : e.index = f.index => e = f

\* What a shard that is being opened has yet to replay, spelled out.
LEMMA UnreplayedFacts ==
  ASSUME NEW d \in Disk
  PROVE  /\ Unreplayed(d) = {e \in d.prepared : e.index \in d.committed
                                                /\ e.index > d.applied_index}
         /\ Replayable(d) \subseteq Unreplayed(d)
         /\ \A e \in d.prepared : e.index \in Nat /\ e.mut \in Mutation
         /\ d.applied_index \in Nat /\ d.done \subseteq Nat
BY DEF Unreplayed, CommittedAfter, Replayable, Disk, Entry

\* The soundness of a disk depends on a few of its fields.
LEMMA SoundFields ==
  ASSUME NEW d \in Disk, NEW D \in Disk, NEW log, D.prepared = d.prepared,
         D.committed = d.committed, D.applied_index = d.applied_index,
         D.done = d.done, D.content = d.content
  PROVE  /\ Sound(d, log) => Sound(D, log)
         /\ Settled(d) => Settled(D)
         /\ Unreplayed(D) = Unreplayed(d)
<1>1. Unreplayed(D) = Unreplayed(d)
  BY DEF Unreplayed, CommittedAfter
<1>2. Replayable(D) = Replayable(d)
  BY <1>1 DEF Replayable
<1>3. Newest(d, log) => Newest(D, log)
  BY DEF Newest
<1> QED BY <1>1, <1>2, <1>3 DEF Sound, Marked, Ahead, Settled

\* Journalling an entry of the log: nothing that is committed changes.
LEMMA PrepareSound ==
  ASSUME NEW d \in Disk, NEW log, Log(log), d.prepared \subseteq log, NEW e \in log,
         Sound(d, log)
  PROVE  /\ Sound(JournalPrepare(d, e), log)
         /\ Unreplayed(JournalPrepare(d, e)) = Unreplayed(d)
         /\ Settled(d) => Settled(JournalPrepare(d, e))
         /\ e \in JournalPrepare(d, e).prepared
<1> DEFINE D == JournalPrepare(d, e)
<1>0. e \in Entry
  BY DEF Log
<1>1. D \in Disk /\ d.prepared \subseteq D.prepared /\ D.committed = d.committed
        /\ D.applied_index = d.applied_index
  BY <1>0, JournalPrepareFacts
<1>2. D.done = d.done /\ D.content = d.content
  BY DEF JournalPrepare, Disk
<1>3. e \in D.prepared
  BY DEF JournalPrepare, Disk, Log
<1>4. \A p \in D.prepared : p.index \in d.committed => p \in d.prepared
  BY DEF JournalPrepare, Disk, Sound, Marked
<1> HIDE DEF D
<1>5. Unreplayed(D) = Unreplayed(d)
  BY <1>1, <1>4 DEF Unreplayed, CommittedAfter
<1>6. Replayable(D) = Replayable(d)
  BY <1>5 DEF Replayable
<1>7. Sound(D, log) /\ (Settled(d) => Settled(D))
  BY <1>1, <1>2, <1>5, <1>6 DEF Sound, Marked, Ahead, Newest, Settled
<1> QED BY <1>3, <1>5, <1>7 DEF D

\* One application of an entry above everything that is applied so far.
LEMMA ApplyNewest ==
  ASSUME NEW d \in Disk, NEW log, Log(log), NEW e \in log, Newest(d, log),
         \A i \in d.done : i < e.index
  PROVE  Newest(Apply(d, e), log)
<1> DEFINE D == Apply(d, e)
           A(k) == {f \in log : f.index \in d.done /\ KeyOf[f.mut] = k}
           B(k) == {f \in log : f.index \in D.done /\ KeyOf[f.mut] = k}
<1>0. e.index \in Nat /\ KeyOf[e.mut] \in Key /\ d.done \subseteq Nat
  BY ReplicaAssumption DEF Log, Entry, Disk
<1>1. D.done = d.done \cup {e.index}
        /\ D.content = [d.content EXCEPT ![KeyOf[e.mut]] = e.mut]
  BY DEF Apply, Disk
<1>2. d.content \in [Key -> Mutation \cup {NoMutation}]
  BY DEF Disk
<1>3. SUFFICES ASSUME NEW k \in Key
               PROVE  IF B(k) = {} THEN D.content[k] = NoMutation
                      ELSE \E f \in B(k) : /\ \A g \in B(k) : g.index <= f.index
                                           /\ D.content[k] = f.mut
  BY DEF Newest
<1>4. IF A(k) = {} THEN d.content[k] = NoMutation
      ELSE \E f \in A(k) : /\ \A g \in A(k) : g.index <= f.index
                           /\ d.content[k] = f.mut
  BY DEF Newest
<1>5. \A f \in log : f.index \in Nat /\ (f.index = e.index => f = e)
  BY DEF Log, Entry
<1> HIDE DEF D
<1>6. CASE k = KeyOf[e.mut]
  <2>1. e \in B(k) /\ \A g \in B(k) : g.index <= e.index
    BY <1>0, <1>1, <1>5, <1>6
  <2>2. D.content[k] = e.mut
    BY <1>1, <1>2, <1>6
  <2> QED BY <2>1, <2>2
<1>7. CASE k # KeyOf[e.mut]
  <2>1. B(k) = A(k)
    BY <1>1, <1>5, <1>7
  <2>2. D.content[k] = d.content[k]
    BY <1>1, <1>2, <1>7
  <2> HIDE DEF A, B
  <2> QED BY <1>4, <2>1, <2>2
<1> QED BY <1>6, <1>7

\* A commit marker of a journalled entry.
LEMMA MarkSound ==
  ASSUME NEW d \in Disk, NEW log, Log(log), d.prepared \subseteq log,
         NEW e \in d.prepared, Sound(d, log), Settled(d)
  PROVE  LET c == JournalCommit(d, e.index)
         IN  /\ Sound(c, log)
             /\ Unreplayed(c) = Unreplayed(d) \cup
                  (IF e.index > d.applied_index THEN {e} ELSE {})
             /\ \A i \in c.done : i <= c.applied_index
             /\ e \in c.prepared /\ e.index \in c.committed
<1> DEFINE c == JournalCommit(d, e.index)
<1>0. e \in Entry /\ e.index \in Nat
  BY DEF Disk, Entry
<1>1. c \in Disk /\ c.prepared = d.prepared /\ c.committed = d.committed \cup {e.index}
        /\ c.applied_index = d.applied_index
  BY <1>0, JournalCommitFacts
<1>2. c.done = d.done /\ c.content = d.content
  BY DEF JournalCommit, Disk
<1> HIDE DEF c
<1>3. \A i \in c.done : i <= c.applied_index
  BY <1>1, <1>2 DEF Settled
<1>4. Unreplayed(c) = Unreplayed(d) \cup (IF e.index > d.applied_index THEN {e} ELSE {})
  <2>1. \A p \in d.prepared : p.index = e.index => p = e
    BY DEF Log
  <2> QED BY <1>1, <2>1, UnreplayedFacts
<1>5. Ahead(c)
  <2>1. \A i \in c.done : i \in Nat /\ c.applied_index \in Nat
    BY <1>1 DEF Disk
  <2> QED BY <1>3, <2>1 DEF Ahead
<1>6. Marked(c) /\ Newest(c, log)
  BY <1>1, <1>2 DEF Sound, Marked, Newest
<1> QED BY <1>1, <1>3, <1>4, <1>5, <1>6 DEF Sound, c

\* commit() of an entry of the log on an open shard: whichever of its fsyncs was
\* the last, the disk is sound; when the handler ends the shard is settled.
LEMMA CommitSound ==
  ASSUME NEW d \in Disk, NEW log, Log(log), d.prepared \subseteq log, NEW e \in log,
         Sound(d, log), Settled(d), NEW i \in 1..Len(CommitSteps(d, e))
  PROVE  /\ Sound(CommitSteps(d, e)[i], log)
         /\ i = Len(CommitSteps(d, e)) =>
              /\ Settled(CommitSteps(d, e)[i])
              /\ e \in CommitSteps(d, e)[i].prepared
              /\ e.index \in CommitSteps(d, e)[i].committed
         /\ CommitSteps(d, e)[i].applied_index >= d.applied_index
<1>0. e \in Entry /\ e.index \in Nat /\ d.applied_index \in Nat
  BY DEF Log, Entry, Disk
<1> DEFINE p == JournalPrepare(d, e)
           c == JournalCommit(p, e.index)
           h == ApplyDense(c, e)
           a == Apply(h, e)
           q == PublishApplied(a, e.index)
<1>1. p \in Disk /\ p.prepared \subseteq log /\ p.applied_index = d.applied_index
        /\ e \in p.prepared /\ Sound(p, log) /\ Settled(p)
        /\ Unreplayed(p) = Unreplayed(d)
  BY <1>0, JournalPrepareFacts, PrepareSound
<1> HIDE DEF p
<1>2. /\ c \in Disk /\ c.applied_index = d.applied_index /\ Sound(c, log)
      /\ Unreplayed(c) = Unreplayed(d) \cup (IF e.index > d.applied_index THEN {e} ELSE {})
      /\ \A j \in c.done : j <= c.applied_index
      /\ e \in c.prepared /\ e.index \in c.committed
  BY <1>0, <1>1, MarkSound, JournalCommitFacts
<1>3. \A f \in Unreplayed(d) : f.mut \in Rejected
  BY DEF Settled
<1> HIDE DEF c
<1>h. /\ h \in Disk /\ h.prepared = c.prepared /\ h.committed = c.committed
      /\ h.applied_index = c.applied_index /\ h.done = c.done /\ h.content = c.content
  BY <1>0, <1>2, ApplyDenseFacts
<1>u. Sound(h, log) /\ Unreplayed(h) = Unreplayed(c)
  BY <1>2, <1>h, SoundFields
<1> HIDE DEF h
<1>4. CASE e.index <= d.applied_index \/ e.mut \in Rejected
  <2>1. CommitSteps(d, e) \in {<<d, p, c>>, <<d, p, c, h>>}
    BY <1>4 DEF CommitSteps, p, c, h
  <2>2. Settled(c)
    BY <1>0, <1>2, <1>3, <1>4 DEF Settled
  <2>3. Settled(h)
    BY <1>2, <1>h, <2>2, SoundFields
  <2>4. CommitSteps(d, e)[i] \in {d, p, c, h}
          /\ (i = Len(CommitSteps(d, e)) => CommitSteps(d, e)[i] \in {c, h})
    BY <2>1
  <2> QED BY <1>0, <1>1, <1>2, <1>h, <1>u, <2>2, <2>3, <2>4
<1>5. CASE e.index > d.applied_index /\ e.mut \notin Rejected
  <2>1. CommitSteps(d, e) = <<d, p, c, h, a, q>>
    BY <1>0, <1>5 DEF CommitSteps, p, c, h, a, q
  <2>2. /\ a \in Disk /\ a.prepared = c.prepared /\ a.committed = c.committed
        /\ a.applied_index = d.applied_index
    BY <1>0, <1>2, <1>h, ApplyFacts
  <2>3. a.done = c.done \cup {e.index}
    BY <1>h DEF Apply, Disk
  <2>4. Newest(a, log)
    <3>1. \A j \in h.done : j < e.index
      BY <1>0, <1>2, <1>5, <1>h, UnreplayedFacts
    <3> QED BY <1>h, <1>u, <3>1, ApplyNewest DEF Sound
  <2> HIDE DEF a
  <2>5. /\ q \in Disk /\ q.prepared = c.prepared /\ q.committed = c.committed
        /\ q.applied_index = e.index /\ q.done = a.done /\ q.content = a.content
    BY <1>0, <2>2, PublishAppliedFacts DEF PublishApplied, Disk
  <2> HIDE DEF q
  <2>6. Unreplayed(a) = Unreplayed(d) \cup {e}
    BY <1>2, <1>5, <2>2 DEF Unreplayed, CommittedAfter
  <2>7. Sound(a, log)
    <3>1. \A f \in Replayable(a) : f = e
      BY <1>3, <2>2, <2>6, UnreplayedFacts DEF Replayable
    <3>2. \A j \in a.done : j > a.applied_index => j = e.index
      BY <1>2, <2>2, <2>3, UnreplayedFacts
    <3>3. Ahead(a)
      BY <1>0, <2>6, <3>1, <3>2 DEF Ahead
    <3>4. Marked(a)
      BY <1>2, <2>2 DEF Sound, Marked
    <3> QED BY <2>4, <3>3, <3>4 DEF Sound
  <2>8. Settled(q)
    <3>1. \A f \in Unreplayed(q) : f \in Unreplayed(d)
      BY <1>0, <1>2, <1>5, <2>5, <2>6, <2>2, UnreplayedFacts
    <3>2. \A j \in q.done : j <= q.applied_index
      BY <1>0, <1>2, <1>5, <2>3, <2>5, UnreplayedFacts
    <3> QED BY <1>3, <3>1, <3>2 DEF Settled
  <2>9. Sound(q, log)
    <3>1. Ahead(q)
      BY <2>5, <2>8, UnreplayedFacts DEF Ahead, Settled
    <3>2. Marked(q)
      BY <1>2, <2>5 DEF Sound, Marked
    <3>3. Newest(q, log)
      BY <2>4, <2>5 DEF Newest
    <3> QED BY <3>1, <3>2, <3>3 DEF Sound
  <2>10. CommitSteps(d, e)[i] \in {d, p, c, h, a, q}
           /\ (i = Len(CommitSteps(d, e)) => CommitSteps(d, e)[i] = q)
    BY <2>1
  <2> QED BY <1>0, <1>1, <1>2, <1>5, <1>h, <1>u, <2>2, <2>5, <2>7, <2>8, <2>9, <2>10
<1> QED BY <1>0, <1>4, <1>5

\* A replay of R publishes the index of the last entry of P, or the old one.
ReplayEnds(d, R, P, r) ==
  /\ P = {} => r.applied_index = d.applied_index
  /\ P # {} => /\ \E p \in P : r.applied_index = p.index
               /\ \A p \in P : p.index <= r.applied_index
  /\ r.applied_index \in Nat /\ r.applied_index >= d.applied_index
  /\ \A i \in r.done : i \in d.done \/ \E e \in R : i = e.index

\* Every replay of the first entries ends like that.
LEMMA ReplayedIndex ==
  ASSUME NEW d \in Disk, NEW b \in Nat, NEW R \in SUBSET Replayable(d),
         NEW P \in SUBSET R, \A e \in d.prepared : e.index <= b
  PROVE  ReplayEnds(d, R, P, Replayed(d, R, P))
<1> DEFINE r == Replayed(d, R, P)
           idx == {e.index : e \in P}
           top == CHOOSE i \in idx : \A e \in P : e.index <= i
<1>1. \A e \in R : e \in Unreplayed(d) /\ e \in d.prepared /\ e.index \in Nat
                    /\ e.index <= b /\ e.index > d.applied_index
  BY UnreplayedFacts
<1>2. r.applied_index = (IF P = {} THEN d.applied_index ELSE top)
        /\ \A i \in r.done : i \in d.done \/ \E e \in R : i = e.index
  BY DEF Replayed, Disk
<1>3. P # {} => (\E p \in P : top = p.index) /\ \A p \in P : p.index <= top
  <2> SUFFICES ASSUME P # {}
               PROVE  (\E p \in P : top = p.index) /\ \A p \in P : p.index <= top
    OBVIOUS
  <2>1. idx \in SUBSET Nat /\ idx # {} /\ \A i \in idx : i <= b
    BY <1>1
  <2>2. \E i \in idx : \A j \in idx : j <= i
    <3> HIDE DEF idx
    <3> QED BY <2>1, GreatestNat
  <2>3. \E i \in idx : \A e \in P : e.index <= i
    BY <2>2
  <2>4. top \in idx /\ \A e \in P : e.index <= top
    BY <2>3
  <2> QED BY <2>4
<1> HIDE DEF top
<1>4. d.applied_index \in Nat
  BY UnreplayedFacts
<1> HIDE DEF r
<1>5. r.applied_index \in Nat /\ r.applied_index >= d.applied_index
  BY <1>1, <1>2, <1>3, <1>4
<1>6. ReplayEnds(d, R, P, r)
  BY <1>2, <1>3, <1>5 DEF ReplayEnds
<1> QED BY <1>6 DEF r

\* A replay of the first entries of the log keeps the newest mutation of a point.
LEMMA ReplayNewest ==
  ASSUME NEW d \in Disk, NEW b \in Nat, NEW log, Log(log), d.prepared \subseteq log,
         \A e \in d.prepared : e.index <= b,
         NEW R \in SUBSET Replayable(d), NEW P \in SUBSET R, Ahead(d), Newest(d, log)
  PROVE  Newest(Replayed(d, R, P), log)
<1> DEFINE r == Replayed(d, R, P)
           last(k) == {e \in R : /\ KeyOf[e.mut] = k
                                 /\ \A f \in R : KeyOf[f.mut] = k => f.index <= e.index}
           A(k) == {f \in log : f.index \in d.done /\ KeyOf[f.mut] = k}
           B(k) == {f \in log : f.index \in r.done /\ KeyOf[f.mut] = k}
<1>1. \A e \in R : e \in Replayable(d) /\ e \in log /\ e.index \in Nat
                    /\ e.index <= b /\ e.index > d.applied_index
  BY UnreplayedFacts
<1>2. r.done = d.done \cup {e.index : e \in R}
  BY DEF Replayed, Disk
<1>3. r.content = [k \in Key |-> IF last(k) = {} THEN d.content[k]
                                 ELSE (CHOOSE e \in last(k) : TRUE).mut]
  BY DEF Replayed, Disk
<1>4. d.applied_index \in Nat /\ d.done \subseteq Nat
  BY UnreplayedFacts
<1>5. \A e, f \in log : e.index = f.index => e = f
  BY DEF Log
<1>6. SUFFICES ASSUME NEW k \in Key
               PROVE  IF B(k) = {} THEN r.content[k] = NoMutation
                      ELSE \E f \in B(k) : /\ \A g \in B(k) : g.index <= f.index
                                           /\ r.content[k] = f.mut
  BY DEF Newest, r
<1>7. IF A(k) = {} THEN d.content[k] = NoMutation
      ELSE \E f \in A(k) : /\ \A g \in A(k) : g.index <= f.index
                           /\ d.content[k] = f.mut
  BY DEF Newest
<1> HIDE DEF r
<1>8. CASE \A e \in R : KeyOf[e.mut] # k
  <2>1. last(k) = {}
    BY <1>8
  <2>2. r.content[k] = d.content[k]
    <3> HIDE DEF last
    <3> QED BY <1>3, <2>1
  <2>3. B(k) = A(k)
    BY <1>1, <1>2, <1>5, <1>8
  <2> HIDE DEF A, B
  <2> QED BY <1>7, <2>2, <2>3
<1>9. CASE \E e \in R : KeyOf[e.mut] = k
  <2> DEFINE I == {e.index : e \in {f \in R : KeyOf[f.mut] = k}}
  <2>1. I \in SUBSET Nat /\ I # {} /\ \A i \in I : i <= b
    BY <1>1, <1>9
  <2>2. PICK i \in I : \A j \in I : j <= i
    <3> HIDE DEF I
    <3> QED BY <2>1, GreatestNat
  <2>3. last(k) # {}
    BY <2>2
  <2> DEFINE w == CHOOSE e \in last(k) : TRUE
  <2>4. w \in last(k)
    BY <2>3
  <2>5. r.content[k] = w.mut
    <3> HIDE DEF last
    <3> QED BY <1>3, <2>3
  <2>6. w \in R /\ KeyOf[w.mut] = k /\ \A f \in R : KeyOf[f.mut] = k => f.index <= w.index
    BY <2>4
  <2> HIDE DEF w, last
  <2>7. w \in B(k)
    BY <1>1, <1>2, <2>6
  <2>8. ASSUME NEW g \in B(k)
        PROVE  g.index <= w.index
    <3>0. g \in log /\ g.index \in Nat /\ w.index \in Nat /\ KeyOf[g.mut] = k
      BY <1>1, <2>6 DEF Log, Entry
    <3>1. CASE g.index \in d.done
      <4>1. CASE g.index <= d.applied_index
        BY <1>1, <1>4, <2>6, <3>0, <4>1
      <4>2. CASE g.index > d.applied_index
        BY <1>1, <2>6, <3>1, <4>2 DEF Ahead
      <4> QED BY <1>4, <3>0, <4>1, <4>2
    <3>2. CASE \E e \in R : g.index = e.index
      BY <1>1, <1>5, <2>6, <3>0, <3>2
    <3> QED BY <1>2, <3>1, <3>2
  <2> HIDE DEF B
  <2> QED BY <2>5, <2>7, <2>8
<1> QED BY <1>8, <1>9

\* A replay that stops inside the log: R is applied, P is published, and only the
\* last entry of R may be missing from P.
LEMMA ReplaySound ==
  ASSUME NEW d \in Disk, NEW b \in Nat, NEW log, Log(log), d.prepared \subseteq log,
         \A e \in d.prepared : e.index <= b, d.applied_index <= b,
         NEW R \in SUBSET Replayable(d), NEW P \in SUBSET R, Sound(d, log),
         \A f \in R : \A g \in Replayable(d) : g.index <= f.index => g \in R,
         \A f \in R \ P : \A g \in R : g.index <= f.index
  PROVE  Sound(Replayed(d, R, P), log)
<1> DEFINE r == Replayed(d, R, P)
<1>0. R \subseteq d.prepared /\ P \subseteq d.prepared
  BY UnreplayedFacts
<1>1. r \in Disk /\ r.prepared = d.prepared /\ r.committed = d.committed
  BY <1>0, ReplayedFacts
<1>2. /\ P = {} => r.applied_index = d.applied_index
      /\ P # {} => /\ \E p \in P : r.applied_index = p.index
                   /\ \A p \in P : p.index <= r.applied_index
      /\ r.applied_index \in Nat /\ r.applied_index >= d.applied_index
      /\ \A i \in r.done : i \in d.done \/ \E e \in R : i = e.index
  <2>1. ReplayEnds(d, R, P, r)
    BY ReplayedIndex
  <2> HIDE DEF r
  <2> QED BY <2>1 DEF ReplayEnds
<1>3. Newest(r, log)
  BY ReplayNewest DEF Sound
<1> HIDE DEF r
<1>4. Marked(r)
  BY <1>1 DEF Sound, Marked
<1>5. d.applied_index \in Nat /\ (\A e \in d.prepared : e.index \in Nat)
        /\ Replayable(d) \subseteq Unreplayed(d) /\ Unreplayed(d) \subseteq d.prepared
  BY UnreplayedFacts
<1>6. Unreplayed(r) = {e \in Unreplayed(d) : e.index > r.applied_index}
  BY <1>1, <1>2, <1>5 DEF Unreplayed, CommittedAfter
<1>7. Replayable(r) \subseteq Replayable(d)
  <2> SUFFICES ASSUME NEW e \in Replayable(r), NEW f \in Unreplayed(d), f.index <= e.index
               PROVE  f.mut \notin Rejected
    BY <1>6 DEF Replayable
  <2>1. CASE f.index > r.applied_index
    BY <1>6, <2>1 DEF Replayable
  <2>2. CASE f.index <= r.applied_index
    <3>1. P # {}
      BY <1>2, <1>5, <2>2 DEF Unreplayed, CommittedAfter
    <3>2. PICK p \in P : r.applied_index = p.index
      BY <1>2, <3>1
    <3>3. p \in Replayable(d) /\ f.index <= p.index
      BY <2>2, <3>2
    <3> QED BY <3>3 DEF Replayable
  <2> QED BY <1>2, <1>5, <2>1, <2>2
<1>8. ASSUME NEW i \in r.done, i > r.applied_index
      PROVE  /\ \E e \in Unreplayed(r) : e.index = i
             /\ \A f \in Replayable(r) : i <= f.index
  <2>1. CASE i \in d.done
    <3>1. i > d.applied_index
      BY <1>2, <1>5, <1>8, <2>1, UnreplayedFacts
    <3>2. PICK e \in Unreplayed(d) : e.index = i
      BY <2>1, <3>1 DEF Sound, Ahead
    <3>3. \A f \in Replayable(d) : i <= f.index
      BY <2>1, <3>1 DEF Sound, Ahead
    <3> QED BY <1>6, <1>7, <1>8, <3>2, <3>3
  <2>2. CASE \E f \in R : i = f.index
    <3>1. PICK f \in R : i = f.index
      BY <2>2
    <3>2. f \notin P /\ f \in Replayable(d)
      BY <1>2, <1>5, <1>8, <3>1
    <3>3. f \in Unreplayed(r)
      BY <1>5, <1>6, <1>8, <3>1, <3>2
    <3>4. ASSUME NEW g \in Replayable(r)
          PROVE  i <= g.index
      <4>1. g \in Replayable(d) /\ g.index > r.applied_index /\ g.index \in Nat
              /\ f.index \in Nat
        BY <1>5, <1>6, <1>7, <3>2 DEF Replayable
      <4>2. CASE g \in R
        <5>1. g \notin P
          BY <1>2, <4>1
        <5> QED BY <3>1, <4>2, <5>1
      <4>3. CASE g \notin R
        BY <3>1, <4>1, <4>3
      <4> QED BY <4>2, <4>3
    <3> QED BY <3>1, <3>3, <3>4
  <2> QED BY <1>2, <2>1, <2>2
<1>9. Ahead(r)
  BY <1>8 DEF Ahead
<1> QED BY <1>3, <1>4, <1>9 DEF Sound, r

\* Opening a shard, completely or until the process dies: the disk stays sound and
\* its applied index never falls; a shard that opens is settled.
LEMMA RecoverySound ==
  ASSUME NEW d \in Disk, NEW b \in Nat, NEW log, Log(log), d.prepared \subseteq log,
         \A e \in d.prepared : e.index <= b, d.applied_index <= b, Sound(d, log),
         NEW r \in {Recovered(d)} \cup RecoverySteps(d)
  PROVE  /\ Sound(r, log) /\ r.applied_index >= d.applied_index
         /\ r = Recovered(d) /\ ~RecoveryRaises(d) => Settled(r)
<1>0. /\ \A e \in Replayable(d) : e.index \in Nat
      /\ \A e, f \in Replayable(d) : e.index = f.index => e = f
  BY UnreplayedFacts DEF Log
<1>1. Sound(r, log) /\ r.applied_index >= d.applied_index
  <2>1. PICK R, P : /\ ReplayStops(d, R, P)
                    /\ \/ r = Replayed(d, R, P)
                       \/ \E e \in Unreplayed(d) : r = ApplyDense(Replayed(d, R, P), e)
    BY RecoveryCases
  <2> DEFINE q == Replayed(d, R, P)
  <2>2. /\ R \in SUBSET Replayable(d) /\ P \in SUBSET R
        /\ \A f \in R : \A g \in Replayable(d) : g.index <= f.index => g \in R
        /\ \A f \in R \ P : \A g \in R : g.index <= f.index
    <3>1. CASE R = Replayable(d) /\ P = R
      BY <3>1
    <3>2. CASE ~(R = Replayable(d) /\ P = R)
      <4>1. PICK e \in Replayable(d) :
              LET upto == {f \in Replayable(d) : f.index <= e.index}
              IN  \/ R = upto /\ P = upto
                  \/ R = upto /\ P = upto \ {e}
                  \/ R = upto \ {e} /\ P = R
        BY <2>1, <3>2 DEF ReplayStops
      <4> QED BY <1>0, <4>1
    <3> QED BY <3>1, <3>2
  <2>3. Sound(q, log) /\ q.applied_index >= d.applied_index
    BY <2>2, ReplaySound, ReplayedIndex DEF ReplayEnds
  <2>4. R \subseteq d.prepared /\ P \subseteq d.prepared /\ Unreplayed(d) \subseteq Entry
    BY <2>2, UnreplayedFacts DEF Disk
  <2>5. q \in Disk
    BY <2>4, ReplayedFacts
  <2> HIDE DEF q
  <2>6. CASE r = q
    BY <2>3, <2>6
  <2>7. CASE \E e \in Unreplayed(d) : r = ApplyDense(q, e)
    <3>1. PICK e \in Unreplayed(d) : r = ApplyDense(q, e)
      BY <2>7
    <3>2. /\ r \in Disk /\ r.prepared = q.prepared /\ r.committed = q.committed
          /\ r.applied_index = q.applied_index /\ r.done = q.done /\ r.content = q.content
      BY <2>4, <2>5, <3>1, ApplyDenseFacts
    <3> QED BY <2>3, <2>5, <3>2, SoundFields
  <2> QED BY <2>1, <2>6, <2>7 DEF q
<1>2. ASSUME r = Recovered(d), ~RecoveryRaises(d) PROVE Settled(r)
  <2>1. Replayable(d) = Unreplayed(d) /\ r = Replayed(d, Unreplayed(d), Unreplayed(d))
    <3>1. Replayable(d) = Unreplayed(d)
      BY <1>2 DEF RecoveryRaises
    <3>2. Refused(d) = {}
      BY <3>1, UnreplayedFacts DEF Refused, Replayable
    <3> QED BY <1>2, <3>1, <3>2 DEF Recovered
  <2>2. ReplayEnds(d, Unreplayed(d), Unreplayed(d), r)
    BY <2>1, ReplayedIndex
  <2>3. r \in Disk /\ r.prepared = d.prepared /\ r.committed = d.committed
    BY RecoveredFacts
  <2>4. \A e \in Unreplayed(r) : FALSE
    <3>1. \A e \in Unreplayed(r) : e \in Unreplayed(d) /\ e.index > r.applied_index
                                     /\ e.index \in Nat
      BY <2>2, <2>3, UnreplayedFacts DEF ReplayEnds
    <3> QED BY <2>2, <3>1 DEF ReplayEnds
  <2>5. ASSUME NEW i \in r.done PROVE i <= r.applied_index
    <3>1. CASE i \in d.done /\ i > d.applied_index
      BY <2>2, <3>1 DEF Sound, Ahead, ReplayEnds
    <3>2. CASE i \in d.done /\ ~(i > d.applied_index)
      BY <2>2, <3>2, UnreplayedFacts DEF ReplayEnds
    <3> QED BY <2>2, <3>1, <3>2 DEF ReplayEnds
  <2> QED BY <2>4, <2>5 DEF Settled
<1> QED BY <1>1, <1>2

-----------------------------------------------------------------------------
(***************************************************************************)
(* The journals and the request table.                                     *)
(***************************************************************************)

\* The inductive invariant.
Inv == TypeOK /\ LogAndTableAgree

\* The members of a placement are nodes.
LEMMA MembersType ==
  ASSUME NEW list \in Seq(Node)
  PROVE  Members(list) \in SUBSET Node
BY DEF Members

\* The coordinator between operations is well typed.
LEMMA NoOpType ==
  /\ NoOp \in OpType
  /\ NoOp.queue = {} /\ NoOp.then = "idle" /\ NoOp.node = 0 /\ NoOp.init = FALSE
BY DEF NoOp, OpType, PCs

\* Changing one field of an operation record.
LEMMA OpExcept ==
  ASSUME NEW o \in OpType
  PROVE  /\ \A v \in Calls : [o EXCEPT !.call = v] \in OpType
         /\ \A v \in Nat : [o EXCEPT !.index = v] \in OpType
         /\ \A v \in SUBSET Node : [o EXCEPT !.todo = v] \in OpType
         /\ \A v \in SUBSET Node : [o EXCEPT !.got = v] \in OpType
         /\ \A v \in 0..2 : [o EXCEPT !.retry = v] \in OpType
         /\ \A v \in PCs : [o EXCEPT !.then = v] \in OpType
         /\ \A v \in SUBSET Node : [o EXCEPT !.pending = v] \in OpType
         /\ \A v \in Node : [o EXCEPT !.node = v] \in OpType
         /\ \A v \in Node : [o EXCEPT !.source = v] \in OpType
         /\ \A v \in SUBSET Entry : [o EXCEPT !.queue = v] \in OpType
         /\ \A v \in BOOLEAN : [o EXCEPT !.init = v] \in OpType
BY DEF OpType

\* Starting a loop over the replicas, and a step of it.
LEMMA LoopOp ==
  ASSUME NEW o \in OpType, NEW i \in Nat, NEW T \in SUBSET Node, NEW G \in SUBSET Node
  PROVE  /\ [o EXCEPT !.todo = T] \in OpType
         /\ [o EXCEPT !.todo = T, !.got = G] \in OpType
         /\ [o EXCEPT !.todo = T, !.got = {}] \in OpType
         /\ [o EXCEPT !.index = i, !.todo = T, !.got = {}] \in OpType
BY DEF OpType

\* A cluster that was never opened satisfies the invariant.
LEMMA InitInv == Init => Inv
<1> SUFFICES ASSUME Init PROVE Inv
  OBVIOUS
<1> USE DEF Init
<1>1. Members(InitReplicas) \in SUBSET Node /\ InitReplicas[1] \in Members(InitReplicas)
  BY ClusterAssumption DEF Members
<1>2. EmptyDisk \in Disk
  BY DEF EmptyDisk, Disk
<1>3. EmptyDisk.prepared = {} /\ EmptyDisk.committed = {} /\ EmptyDisk.applied_index = 0
  BY DEF EmptyDisk
<1>4. op \in OpType
  BY <1>1, NoOpType, OpExcept DEF OpeningOp, PCs
<1>5. TypeOK
  BY <1>1, <1>2, <1>4, ClusterAssumption DEF TypeOK, NonePartitioned, PCs
<1>6. op.queue = {} /\ op.then = "catch_up"
  BY DEF OpeningOp, NoOp
<1>7. LogInv
  BY <1>3, <1>6 DEF LogInv
<1>8. TableInv
  BY <1>3, <1>6 DEF TableInv
<1>9. OpInv
  BY <1>6 DEF OpInv, Nested
<1> QED BY <1>5, <1>7, <1>8, <1>9 DEF Inv, LogAndTableAgree

-----------------------------------------------------------------------------
(***************************************************************************)
(* What the invariant says of one replica and of one queue of entries.     *)
(***************************************************************************)
Recorded(i) == \E d \in request_table : d.index = i

DiskOK(D) ==
  /\ D \in Disk
  /\ D.prepared \subseteq issued
  /\ D.applied_index <= last_log_index
  /\ \A i \in D.committed : Recorded(i)

QueueOK(q) == q \subseteq issued /\ \A e \in q : Recorded(e.index)

\* What the invariant says of each disk and of the catch-up queue.
LEMMA InvDisks ==
  ASSUME Inv
  PROVE  (\A n \in Node : DiskOK(disk[n])) /\ QueueOK(op.queue)
BY DEF Inv, LogAndTableAgree, TypeOK, LogInv, TableInv, DiskOK, QueueOK, Recorded

\* A step that leaves the metadata and the history alone keeps the invariant when
\* every disk and the queue are still good.
LEMMA Frame ==
  ASSUME Inv, UNCHANGED <<metadata, history>>,
         DOMAIN disk' = Node, disk' = [n \in Node |-> disk'[n]],
         \A n \in Node : DiskOK(disk'[n]),
         op' \in OpType, QueueOK(op'.queue), pc' \in PCs,
         proc' \in [Node -> {"down", "up", "serving"}],
         partitioned' \in [Node -> BOOLEAN], faults' \in Nat,
         OpInv'
  PROVE  Inv'
<1> USE DEF metadata, history
<1>1. disk' \in [Node -> Disk]
  BY DEF DiskOK
<1>2. TypeOK'
  BY <1>1 DEF Inv, TypeOK
<1>3. LogInv'
  BY DEF Inv, LogAndTableAgree, LogInv, DiskOK, QueueOK
<1>4. TableInv'
  BY DEF Inv, LogAndTableAgree, TableInv, DiskOK, QueueOK, Recorded
<1> QED BY <1>2, <1>3, <1>4 DEF Inv, LogAndTableAgree

\* The same when no replica's disk changes.
LEMMA FrameDisks ==
  ASSUME Inv, UNCHANGED <<metadata, history, disk>>,
         op' \in OpType, op'.queue \subseteq op.queue, pc' \in PCs,
         proc' \in [Node -> {"down", "up", "serving"}],
         partitioned' \in [Node -> BOOLEAN], faults' \in Nat,
         OpInv'
  PROVE  Inv'
<1>1. DOMAIN disk' = Node /\ disk' = [n \in Node |-> disk'[n]]
  BY DEF Inv, TypeOK
<1>2. \A n \in Node : DiskOK(disk'[n])
  BY InvDisks
<1>3. QueueOK(op'.queue)
  BY InvDisks DEF QueueOK
<1> QED BY <1>1, <1>2, <1>3, Frame

\* The same when one replica's disk changes.
LEMMA FrameOneDisk ==
  ASSUME Inv, UNCHANGED <<metadata, history>>,
         NEW n \in Node, NEW D, disk' = [disk EXCEPT ![n] = D], DiskOK(D),
         op' \in OpType, op'.queue \subseteq op.queue, pc' \in PCs,
         proc' \in [Node -> {"down", "up", "serving"}],
         partitioned' \in [Node -> BOOLEAN], faults' \in Nat,
         OpInv'
  PROVE  Inv'
<1>1. DOMAIN disk' = Node /\ disk' = [m \in Node |-> disk'[m]]
  BY DEF Inv, TypeOK
<1>2. \A m \in Node : DiskOK(disk'[m])
  BY InvDisks DEF Inv, TypeOK
<1>3. QueueOK(op'.queue)
  BY InvDisks DEF QueueOK
<1> QED BY <1>1, <1>2, <1>3, Frame

\* The handlers keep a good disk good.
LEMMA PrepareOK ==
  ASSUME NEW d, DiskOK(d), NEW e \in issued, e \in Entry
  PROVE  DiskOK(JournalPrepare(d, e))
BY JournalPrepareFacts DEF DiskOK

\* Every step inside commit() leaves a disk that agrees with the table.
LEMMA CommitOK ==
  ASSUME NEW d, DiskOK(d), NEW e \in issued, e \in Entry, Recorded(e.index),
         e.index <= last_log_index,
         NEW i \in 1..Len(CommitSteps(d, e))
  PROVE  DiskOK(CommitSteps(d, e)[i])
<1>1. d \in Disk
  BY DEF DiskOK
<1> DEFINE c == CommitSteps(d, e)[i]
<1>2. /\ c \in Disk
      /\ c.prepared \subseteq d.prepared \cup {e}
      /\ c.committed \subseteq d.committed \cup {e.index}
      /\ c.applied_index \in {d.applied_index, e.index}
  BY <1>1, CommitStepsFacts
<1> HIDE DEF c
<1>3. DiskOK(c)
  BY <1>2 DEF DiskOK
<1> QED BY <1>3 DEF c

\* ... and so does the completed handler.
LEMMA LastCommitOK ==
  ASSUME NEW d, DiskOK(d), NEW e \in issued, e \in Entry, Recorded(e.index),
         e.index <= last_log_index
  PROVE  DiskOK(Last(CommitSteps(d, e)))
<1>1. d \in Disk
  BY DEF DiskOK
<1>2. PICK i \in 1..Len(CommitSteps(d, e)) :
        Last(CommitSteps(d, e)) = CommitSteps(d, e)[i]
  BY <1>1, LastCommitStep
<1> QED BY <1>2, CommitOK

\* configure leaves a disk that agrees with the table.
LEMMA ConfiguredOK ==
  ASSUME NEW d, DiskOK(d), NEW t \in Nat, NEW p \in Nat
  PROVE  DiskOK(Configured(d, t, p))
BY ConfiguredFacts DEF DiskOK

\* install_snapshot leaves a disk that agrees with the table.
LEMMA InstalledOK ==
  ASSUME NEW d, DiskOK(d), NEW t \in Nat, NEW p \in Nat
  PROVE  DiskOK(Installed(d, t, p))
BY InstalledFacts DEF DiskOK

\* A replay, complete or interrupted, leaves a disk that agrees with the table.
LEMMA RecoveredOK ==
  ASSUME NEW d, DiskOK(d), \A e \in issued : e.index <= last_log_index,
         last_log_index \in Nat, NEW r \in {Recovered(d)} \cup RecoverySteps(d)
  PROVE  DiskOK(r)
<1>1. d \in Disk /\ (\A e \in d.prepared : e.index <= last_log_index)
        /\ d.applied_index <= last_log_index
  BY DEF DiskOK
<1>2. r \in Disk /\ r.prepared = d.prepared /\ r.committed = d.committed
        /\ r.applied_index <= last_log_index
  BY <1>1, RecoveredFacts
<1> QED BY <1>2 DEF DiskOK

\* Opening a shard process, replay included, leaves its disk in agreement.
LEMMA OpenedOK ==
  ASSUME Inv, NEW n \in Node
  PROVE  DiskOK(Opened(n))
<1>1. DiskOK(disk[n]) /\ (\A e \in issued : e.index <= last_log_index)
        /\ last_log_index \in Nat
  BY InvDisks DEF Inv, LogAndTableAgree, LogInv, TypeOK
<1>2. DiskOK(Recovered(disk[n]))
  BY <1>1, RecoveredOK
<1> QED BY <1>1, <1>2 DEF Opened

\* An operation that is over.
LEMMA IdleOp ==
  ASSUME op' = NoOp, pc' \in {"idle", "closed"}
  PROVE  op' \in OpType /\ op'.queue = {} /\ pc' \in PCs /\ OpInv'
BY NoOpType DEF OpInv, Nested, PCs

\* An operation that raises leaves no operation behind.
LEMMA RaiseFacts ==
  ASSUME Inv, Raise
  PROVE  /\ op' \in OpType /\ op'.queue = {} /\ pc' \in PCs /\ OpInv'
         /\ proc' \in [Node -> {"down", "up", "serving"}]
         /\ partitioned' \in [Node -> BOOLEAN]
<1>1. op' = NoOp /\ pc' \in {"idle", "closed"}
  BY DEF Raise
<1>2. proc' \in [Node -> {"down", "up", "serving"}]
  BY DEF Raise, AllDown, Inv, TypeOK
<1>3. partitioned' \in [Node -> BOOLEAN]
  BY DEF Raise, NonePartitioned, Inv, TypeOK
<1> QED BY <1>1, <1>2, <1>3, IdleOp

-----------------------------------------------------------------------------
(***************************************************************************)
(* The choices the coordinator makes are defined.                          *)
(***************************************************************************)
LEMMA FirstListedFacts ==
  ASSUME replicas \in Seq(Node), NEW S, S \cap Members(replicas) # {}
  PROVE  FirstListed(S) \in S /\ FirstListed(S) \in Node
<1> DEFINE I == {i \in 1..Len(replicas) : replicas[i] \in S}
<1>1. I \in SUBSET Nat /\ I # {}
  BY DEF Members
<1>2. PICK i \in I : \A j \in I : i <= j
  BY <1>1, LeastNat
<1>3. i \in 1..Len(replicas) /\ replicas[i] \in S
        /\ \A j \in 1..(i - 1) : replicas[j] \notin S
  BY <1>2
<1> DEFINE P(k) == replicas[k] \in S /\ \A j \in 1..(k - 1) : replicas[j] \notin S
           f == CHOOSE k \in 1..Len(replicas) : P(k)
<1>4. f \in 1..Len(replicas) /\ P(f)
  BY <1>3
<1>5. FirstListed(S) = replicas[f]
  BY DEF FirstListed
<1> QED BY <1>4, <1>5

\* The replica that catch-up reads from is a node.
LEMMA QueryReplicaFacts ==
  ASSUME Inv, CaughtUp # {}
  PROVE  QueryReplica \in Node
<1>1. replicas \in Seq(Node) /\ Members(replicas) \in SUBSET Node
  BY MembersType DEF Inv, TypeOK
<1>2. CaughtUp \subseteq Members(replicas)
  BY DEF CaughtUp
<1>3. CASE leader \in CaughtUp
  BY <1>1, <1>2, <1>3 DEF QueryReplica
<1>4. CASE leader \notin CaughtUp
  BY <1>1, <1>2, <1>4, FirstListedFacts DEF QueryReplica
<1> QED BY <1>3, <1>4

\* The next entry to replay was issued and is recorded in the table.
LEMMA NextEntryFacts ==
  ASSUME Inv, op.queue # {}
  PROVE  /\ NextEntry \in op.queue /\ NextEntry \in issued /\ NextEntry \in Entry
         /\ Recorded(NextEntry.index) /\ NextEntry.index <= last_log_index
<1>1. op.queue \subseteq Entry /\ QueueOK(op.queue)
  BY InvDisks DEF Inv, TypeOK, OpType
<1> DEFINE I == {e.index : e \in op.queue}
<1>2. I \in SUBSET Nat /\ I # {}
  BY <1>1 DEF Entry
<1>3. \E i \in I : \A j \in I : i <= j
  <2> HIDE DEF I
  <2> QED BY <1>2, LeastNat
<1>4. \E e \in op.queue : \A f \in op.queue : e.index <= f.index
  BY <1>3
<1>5. NextEntry \in op.queue
  BY <1>4 DEF NextEntry
<1>6. \A e \in issued : e.index <= last_log_index
  BY DEF Inv, LogAndTableAgree, LogInv
<1> QED BY <1>1, <1>5, <1>6 DEF QueueOK

\* The election picks one of its candidates.
LEMMA BestFacts ==
  ASSUME Inv, NEW S \in SUBSET Node, S # {}
  PROVE  Best(S) \in S
<1> DEFINE a(n) == disk[n].applied_index
           A == {a(n) : n \in S}
<1>1. \A n \in S : a(n) \in Nat /\ a(n) <= last_log_index
  BY InvDisks DEF DiskOK, Disk
<1>2. A \in SUBSET Nat /\ A # {} /\ \A x \in A : x <= last_log_index
  BY <1>1
<1>3. \E x \in A : \A y \in A : y <= x
  <2> HIDE DEF A
  <2> QED BY <1>2, GreatestNat DEF Inv, TypeOK
<1>4. PICK m \in S : \A n \in S : a(n) <= a(m)
  BY <1>3
<1> DEFINE T == {n \in S : a(n) = a(m)}
<1>5. T \in SUBSET Nat /\ T # {}
  BY <1>4, ClusterAssumption
<1>6. \E x \in T : \A y \in T : x <= y
  <2> HIDE DEF T
  <2> QED BY <1>5, LeastNat
<1>7. PICK n \in T : \A k \in T : n <= k
  BY <1>6
<1>8. n \in S /\ a(n) = a(m) /\ n \in Nat
  BY <1>7, ClusterAssumption
<1> HIDE DEF a
<1>9. \A k \in S \ {n} : a(n) > a(k) \/ (a(n) = a(k) /\ n < k)
  <2> TAKE k \in S \ {n}
  <2>1. a(k) <= a(m) /\ a(k) \in Nat /\ a(m) \in Nat /\ k \in Nat
    BY <1>1, <1>4, ClusterAssumption
  <2>2. CASE a(k) = a(m)
    BY <1>7, <1>8, <2>1, <2>2
  <2>3. CASE a(k) # a(m)
    BY <1>8, <2>1, <2>3
  <2> QED BY <2>2, <2>3
<1> QED BY <1>8, <1>9 DEF Best, a

\* A quorum of answers is not empty.
LEMMA QuorumNonEmpty ==
  ASSUME Inv, NEW S, Cardinality(S) >= Quorum
  PROVE  S # {}
<1>1. Len(replicas) \in Nat
  BY DEF Inv, TypeOK
<1>2. Quorum > 0
  BY <1>1 DEF Quorum
<1>3. Cardinality({}) = 0
  BY FS_EmptySet
<1>4. Quorum \in Nat
  BY <1>1 DEF Quorum
<1> QED BY <1>2, <1>3, <1>4

-----------------------------------------------------------------------------
(***************************************************************************)
(* Steps that change only the operation: one lemma per group of actions.   *)
(***************************************************************************)
LEMMA OpenCloseInv ==
  ASSUME Inv, Open \/ Close \/ PowerLoss
  PROVE  Inv'
<1> USE DEF metadata, processes, history
<1>1. replicas \in Seq(Node) /\ Members(replicas) \in SUBSET Node
  BY MembersType DEF Inv, TypeOK
<1>2. CASE Open
  <2>1. op' \in OpType
    BY <1>1, <1>2, NoOpType, OpExcept DEF Open, OpeningOp, PCs
  <2>2. op'.queue = {} /\ op'.then = "catch_up"
    BY <1>2 DEF Open, OpeningOp, NoOp
  <2>3. pc' = "configure" /\ pc' \in PCs
    BY <1>2 DEF Open, PCs
  <2>4. OpInv'
    BY <2>2, <2>3 DEF OpInv, Nested
  <2>5. proc' \in [Node -> {"down", "up", "serving"}]
    BY <1>2 DEF Open
  <2> QED BY <1>2, <2>1, <2>2, <2>3, <2>4, <2>5, FrameDisks DEF Open, Inv, TypeOK
<1>3. CASE Close
  <2>1. pc' = "closed" /\ pc' \in PCs /\ op' = op /\ OpInv'
    BY <1>3 DEF Close, OpInv, Nested, PCs
  <2>2. proc' \in [Node -> {"down", "up", "serving"}] /\ partitioned' \in [Node -> BOOLEAN]
    BY <1>3 DEF Close, AllDown, NonePartitioned
  <2> QED BY <1>3, <2>1, <2>2, FrameDisks DEF Close, Inv, TypeOK
<1>4. CASE PowerLoss
  <2>1. op' \in OpType /\ op'.queue = {} /\ pc' \in PCs /\ OpInv'
    BY <1>4, IdleOp DEF PowerLoss
  <2>2. proc' \in [Node -> {"down", "up", "serving"}] /\ partitioned' \in [Node -> BOOLEAN]
    BY <1>4 DEF PowerLoss, AllDown, NonePartitioned
  <2>3. faults' \in Nat
    BY <1>4 DEF PowerLoss, Fault, Inv, TypeOK
  <2> QED BY <1>4, <2>1, <2>2, <2>3, FrameDisks DEF PowerLoss
<1> QED BY <1>2, <1>3, <1>4

\* The lookup at the start of _write preserves the invariant.
LEMMA BeginInv ==
  ASSUME Inv, (\E c \in Calls : Write(c)) \/ BeginConflict \/ BeginRetry \/ BeginNew
  PROVE  Inv'
<1> USE DEF metadata, processes, history
<1>1. Members(replicas) \in SUBSET Node
  BY MembersType DEF Inv, TypeOK
<1>2. CASE \E c \in Calls : Write(c)
  <2>1. PICK c \in Calls : Write(c)
    BY <1>2
  <2>2. /\ op' \in OpType
        /\ op'.queue = {} /\ op'.call \in Calls
    <3>1. op' \in OpType
      BY <2>1, NoOpType, OpExcept DEF Write
    <3>2. op'.queue = {} /\ op'.call = c
      BY <2>1 DEF Write, NoOp
    <3> QED BY <3>1, <3>2
  <2>3. pc' = "begin" /\ pc' \in PCs
    BY <2>1 DEF Write, PCs
  <2>4. OpInv'
    BY <2>2, <2>3 DEF OpInv, Nested
  <2> QED BY <2>1, <2>2, <2>3, <2>4, FrameDisks DEF Write, Inv, TypeOK
<1>3. CASE BeginConflict
  <2>1. op' \in OpType /\ op'.queue = {} /\ pc' \in PCs /\ OpInv'
    BY <1>3, IdleOp DEF BeginConflict
  <2> QED BY <1>3, <2>1, FrameDisks DEF BeginConflict, Inv, TypeOK
<1>4. CASE BeginRetry
  <2>1. PICK d \in Lookup(op.call[1]) :
          /\ d.mut = op.call[2] /\ d.status = "prepared"
          /\ IF LeaderReady
             THEN /\ pc' = "commit"
                  /\ op' = [op EXCEPT !.index = d.index, !.todo = Members(replicas),
                                      !.got = {}]
             ELSE /\ pc' = "elect"
                  /\ op' = [op EXCEPT !.index = d.index, !.then = "commit"]
    BY <1>4 DEF BeginRetry
  <2>2. d \in request_table /\ d.index \in Nat /\ d.req = op.call[1] /\ op \in OpType
    BY <2>1 DEF Lookup, Inv, TypeOK
  <2>3. pc = "begin" /\ op.call \in Calls
    BY <1>4 DEF BeginRetry, Inv, LogAndTableAgree, OpInv
  <2>4. CASE LeaderReady
    <3>1. op' \in OpType
      <4> DEFINE i == d.index
                 T == Members(replicas)
      <4>1. op' = [op EXCEPT !.index = i, !.todo = T, !.got = {}]
        BY <2>1, <2>4
      <4>2. i \in Nat /\ T \in SUBSET Node
        BY <1>1, <2>2
      <4> HIDE DEF i, T
      <4> QED BY <2>2, <4>1, <4>2, LoopOp
    <3>2. op'.queue = op.queue /\ op'.call = op.call /\ op'.index = d.index
      BY <2>1, <2>2, <2>4 DEF OpType
    <3>3. pc' = "commit" /\ pc' \in PCs
      BY <2>1, <2>4 DEF PCs
    <3>4. OpInv'
      BY <1>4, <2>1, <2>2, <2>3, <3>2, <3>3
      DEF OpInv, Nested, CallEntry, EntryOf, BeginRetry
    <3> QED BY <1>4, <3>1, <3>2, <3>3, <3>4, FrameDisks DEF BeginRetry, Inv, TypeOK
  <2>5. CASE ~LeaderReady
    <3>1. op' \in OpType
      <4> DEFINE indexed == [op EXCEPT !.index = d.index]
      <4>1. indexed \in OpType
        BY <2>2, OpExcept
      <4>2. "commit" \in PCs
        BY DEF PCs
      <4>3. op' = [indexed EXCEPT !.then = "commit"]
        BY <2>1, <2>5
      <4> HIDE DEF indexed
      <4> QED BY <4>1, <4>2, <4>3, OpExcept
    <3>2. op'.queue = op.queue /\ op'.call = op.call /\ op'.index = d.index
            /\ op'.then = "commit"
      BY <2>1, <2>2, <2>5 DEF OpType
    <3>3. pc' = "elect" /\ pc' \in PCs
      BY <2>1, <2>5 DEF PCs
    <3>4. OpInv'
      BY <1>4, <2>1, <2>2, <2>3, <3>2, <3>3
      DEF OpInv, Nested, CallEntry, EntryOf, BeginRetry
    <3> QED BY <1>4, <3>1, <3>2, <3>3, <3>4, FrameDisks DEF BeginRetry, Inv, TypeOK
  <2> QED BY <2>4, <2>5
<1>5. CASE BeginNew
  <2>1. pc = "begin" /\ op.call \in Calls /\ op \in OpType
    BY <1>5 DEF BeginNew, Inv, LogAndTableAgree, OpInv, TypeOK
  <2>2. /\ op' \in OpType
        /\ op'.queue = op.queue /\ op'.call = op.call
    <3>1. "append" \in PCs
      BY DEF PCs
    <3>2. op' \in OpType
      BY <1>5, <2>1, <3>1, OpExcept DEF BeginNew
    <3>3. op'.queue = op.queue /\ op'.call = op.call
      BY <1>5, <2>1 DEF BeginNew, OpType
    <3> QED BY <3>2, <3>3
  <2>3. pc' = "append" \/ (pc' = "elect" /\ op'.then = "append")
    BY <1>5, <2>1 DEF BeginNew, OpType
  <2>4. OpInv'
    BY <1>5, <2>1, <2>2, <2>3 DEF OpInv, Nested, Lookup, BeginNew
  <2>5. pc' \in PCs
    BY <2>3 DEF PCs
  <2> QED BY <1>5, <2>2, <2>4, <2>5, FrameDisks DEF BeginNew, Inv, TypeOK
<1> QED BY <1>2, <1>3, <1>4, <1>5

\* Operations that fail without touching a disk.
LEMMA RaiseInv ==
  ASSUME Inv, ElectFails \/ PrepareAborts \/ CommitAborts \/ FetchFails
  PROVE  Inv'
<1> USE DEF metadata, processes, history
<1>1. Raise /\ UNCHANGED <<metadata, disk, history, faults>>
  BY DEF ElectFails, PrepareAborts, CommitAborts, FetchFails
<1> QED BY <1>1, RaiseFacts, FrameDisks DEF Inv, TypeOK

\* The ends of the configure and prepare loops preserve the invariant.
LEMMA LoopEndInv ==
  ASSUME Inv, ConfigureDone \/ PrepareRetry
  PROVE  Inv'
<1> USE DEF metadata, processes, history
<1>1. Members(replicas) \in SUBSET Node /\ op \in OpType
  BY MembersType DEF Inv, TypeOK
<1>2. CASE ConfigureDone
  <2>1. pc = "configure" /\ pc' = op.then
          /\ op.then \in {"begin", "append", "commit", "idle", "catch_up", "fetch"}
    BY <1>2 DEF ConfigureDone, Inv, LogAndTableAgree, OpInv
  <2>2. CASE op.then = "commit"
    <3>1. op' = [op EXCEPT !.todo = Members(replicas), !.got = {}]
      BY <1>2, <2>2 DEF ConfigureDone
    <3>2. op' \in OpType /\ op'.queue = op.queue /\ op'.call = op.call /\ op'.index = op.index
      <4> DEFINE T == Members(replicas)
      <4>1. T \in SUBSET Node /\ op' = [op EXCEPT !.todo = T, !.got = {}]
        BY <1>1, <3>1
      <4> HIDE DEF T
      <4>2. op' \in OpType
        BY <1>1, <4>1, LoopOp DEF OpType
      <4> QED BY <1>1, <4>1, <4>2 DEF OpType
    <3>3. OpInv'
      BY <1>2, <2>1, <2>2, <3>2
      DEF OpInv, Nested, CallEntry, ConfigureDone, Inv, LogAndTableAgree
    <3> QED BY <1>2, <2>1, <2>2, <3>2, <3>3, FrameDisks
            DEF ConfigureDone, Inv, TypeOK, PCs
  <2>3. CASE op.then = "idle"
    <3>1. op' \in OpType /\ op'.queue = {} /\ pc' \in PCs /\ OpInv'
      BY <1>2, <2>1, <2>3, IdleOp DEF ConfigureDone
    <3> QED BY <1>2, <3>1, FrameDisks DEF ConfigureDone, Inv, TypeOK
  <2>4. CASE op.then \in {"begin", "append", "catch_up", "fetch"}
    <3>1. op' = op
      BY <1>2, <2>4 DEF ConfigureDone
    <3>2. OpInv'
      BY <1>2, <2>1, <2>4, <3>1
      DEF OpInv, Nested, CallEntry, Lookup, ConfigureDone, Inv, LogAndTableAgree
    <3>3. pc' \in PCs
      BY <2>1, <2>4 DEF PCs
    <3> QED BY <1>1, <1>2, <3>1, <3>2, <3>3, FrameDisks DEF ConfigureDone, Inv, TypeOK
  <2> QED BY <2>1, <2>2, <2>3, <2>4
<1>3. CASE PrepareRetry
  <2>1. pc = "prepare" /\ op.call \in Calls /\ op.retry + 1 \in 0..2
    BY <1>1, <1>3 DEF PrepareRetry, Inv, LogAndTableAgree, OpInv, OpType
  <2>2. op' \in OpType
    BY <1>3, <2>1, NoOpType, OpExcept DEF PrepareRetry, PCs
  <2>3. op'.queue = {} /\ op'.call = op.call /\ op'.then = "begin" /\ pc' = "elect"
    BY <1>3 DEF PrepareRetry, NoOp
  <2>4. OpInv'
    BY <2>1, <2>3 DEF OpInv, Nested
  <2> QED BY <1>3, <2>2, <2>3, <2>4, FrameDisks DEF PrepareRetry, Inv, TypeOK, PCs
<1> QED BY <1>2, <1>3

-----------------------------------------------------------------------------
(***************************************************************************)
(* Steps that change a replica's disk.                                     *)
(***************************************************************************)
LEMMA CallEntryFacts ==
  ASSUME Inv
  PROVE  /\ pc \in {"prepare", "commit"} =>
              CallEntry \in issued /\ CallEntry \in Entry /\ CallEntry.index <= last_log_index
         /\ pc = "commit" => Recorded(CallEntry.index)
<1>1. /\ issued \subseteq Entry
      /\ \A e \in issued : e.index <= last_log_index
      /\ \A d \in request_table : EntryOf(d) \in issued
  BY DEF Inv, TypeOK, LogAndTableAgree, LogInv, TableInv
<1>2. pc = "prepare" => CallEntry \in issued
  BY DEF Inv, LogAndTableAgree, OpInv
<1>3. pc = "commit" => \E d \in request_table : EntryOf(d) = CallEntry
  BY DEF Inv, LogAndTableAgree, OpInv
<1>4. \A d \in request_table : EntryOf(d).index = d.index
  BY DEF EntryOf
<1> QED BY <1>1, <1>2, <1>3, <1>4 DEF Recorded

\* The todo and got sets of a loop shrink and grow; nothing else of it changes.
LEMMA LoopStep ==
  ASSUME Inv, NEW n \in Node, pc' = pc, UNCHANGED <<metadata, history>>,
         \/ op' = [op EXCEPT !.todo = @ \ {n}]
         \/ op' = [op EXCEPT !.todo = @ \ {n}, !.got = @ \cup {n}]
  PROVE  op' \in OpType /\ op'.queue \subseteq op.queue /\ pc' \in PCs /\ OpInv'
<1>1. op \in OpType
  BY DEF Inv, TypeOK
<1>2. op' \in OpType
  <2> DEFINE T == op.todo \ {n}
             G == op.got \cup {n}
  <2>1. T \in SUBSET Node /\ G \in SUBSET Node
    BY <1>1 DEF OpType
  <2>2. op' = [op EXCEPT !.todo = T] \/ op' = [op EXCEPT !.todo = T, !.got = G]
    OBVIOUS
  <2> HIDE DEF T, G
  <2>3. [op EXCEPT !.todo = T] \in OpType /\ [op EXCEPT !.todo = T, !.got = G] \in OpType
    BY <1>1, <2>1, LoopOp
  <2> QED BY <2>2, <2>3
<1>3. op'.queue = op.queue /\ op'.call = op.call /\ op'.index = op.index
        /\ op'.then = op.then /\ op'.node = op.node /\ op'.source = op.source
  BY <1>1 DEF OpType
<1>4. OpInv'
  BY <1>3 DEF Inv, LogAndTableAgree, OpInv, Nested, CallEntry, Lookup, metadata, history
<1> QED BY <1>2, <1>3, <1>4 DEF Inv, TypeOK

\* A prepared replica preserves the invariant.
LEMMA PrepareInv ==
  ASSUME Inv, NEW n \in Node, Prepare(n)
  PROVE  Inv'
<1>1. DiskOK(disk[n]) /\ CallEntry \in issued /\ CallEntry \in Entry
  BY InvDisks, CallEntryFacts DEF Prepare
<1>2. DiskOK(JournalPrepare(disk[n], CallEntry))
  BY <1>1, PrepareOK
<1>3. op' \in OpType /\ op'.queue \subseteq op.queue /\ pc' \in PCs /\ OpInv'
  BY LoopStep DEF Prepare
<1>4. disk' = [disk EXCEPT ![n] = JournalPrepare(disk[n], CallEntry)]
  BY DEF Prepare
<1> QED BY <1>2, <1>3, <1>4, FrameOneDisk DEF Prepare, Inv, TypeOK

\* A prepare that fails preserves the invariant.
LEMMA PrepareFailsInv ==
  ASSUME Inv, NEW n \in Node, PrepareFails(n)
  PROVE  Inv'
<1>1. op' \in OpType /\ op'.queue \subseteq op.queue /\ pc' \in PCs /\ OpInv'
  BY LoopStep DEF PrepareFails
<1> QED BY <1>1, FrameDisks DEF PrepareFails, processes, Inv, TypeOK

\* A commit, its lost answer and its failure preserve the invariant.
LEMMA CommitInv ==
  ASSUME Inv, NEW n \in Node, Commit(n) \/ CommitLost(n) \/ CommitFails(n)
  PROVE  Inv'
<1> DEFINE D == Last(CommitSteps(disk[n], CallEntry))
<1>1. pc = "commit"
  BY DEF Commit, CommitLost, CommitFails
<1>2. DiskOK(disk[n]) /\ CallEntry \in issued /\ CallEntry \in Entry
        /\ Recorded(CallEntry.index) /\ CallEntry.index <= last_log_index
  BY <1>1, InvDisks, CallEntryFacts
<1>3. DiskOK(D)
  BY <1>2, LastCommitOK
<1>4. op' \in OpType /\ op'.queue \subseteq op.queue /\ pc' \in PCs /\ OpInv'
  BY LoopStep DEF Commit, CommitLost, CommitFails
<1>5. faults' \in Nat /\ proc' = proc /\ partitioned' = partitioned
  BY DEF Commit, CommitLost, CommitFails, Fault, Inv, TypeOK
<1>6. disk' = [disk EXCEPT ![n] = D] \/ disk' = disk
  BY DEF Commit, CommitLost, CommitFails
<1>7. UNCHANGED <<metadata, history>>
  BY DEF Commit, CommitLost, CommitFails
<1> HIDE DEF D
<1>8. CASE disk' = disk
  BY <1>4, <1>5, <1>7, <1>8, FrameDisks DEF Inv, TypeOK
<1>9. CASE disk' = [disk EXCEPT ![n] = D]
  BY <1>3, <1>4, <1>5, <1>7, <1>9, FrameOneDisk DEF Inv, TypeOK
<1> QED BY <1>6, <1>8, <1>9

\* Configuring a replica, or failing to, preserves the invariant.
LEMMA ConfigureInv ==
  ASSUME Inv, NEW n \in Node, Configure(n) \/ ConfigureFails(n)
  PROVE  Inv'
<1>1. DiskOK(Opened(n)) /\ DiskOK(disk[n])
  BY OpenedOK, InvDisks
<1>2. term \in Nat /\ placement_epoch \in Nat
  BY DEF Inv, TypeOK
<1>3. DiskOK(Configured(Opened(n), term, placement_epoch))
  BY <1>1, <1>2, ConfiguredOK
<1>4. CASE Configure(n)
  <2>1. op' \in OpType /\ op'.queue \subseteq op.queue /\ pc' \in PCs /\ OpInv'
    BY <1>4, LoopStep DEF Configure
  <2>2. proc' \in [Node -> {"down", "up", "serving"}]
    BY <1>4 DEF Configure, Inv, TypeOK
  <2> QED BY <1>3, <1>4, <2>1, <2>2, FrameOneDisk DEF Configure, Inv, TypeOK
<1>5. CASE ConfigureFails(n)
  <2>1. Raise /\ UNCHANGED <<metadata, history, faults>>
    BY <1>5 DEF ConfigureFails
  <2>2. disk' = disk \/ disk' = [disk EXCEPT ![n] = Opened(n)]
    BY <1>5 DEF ConfigureFails
  <2>3. CASE disk' = disk
    BY <2>1, <2>3, RaiseFacts, FrameDisks DEF Inv, TypeOK
  <2>4. CASE disk' = [disk EXCEPT ![n] = Opened(n)]
    BY <1>1, <2>1, <2>4, RaiseFacts, FrameOneDisk DEF Inv, TypeOK
  <2> QED BY <2>2, <2>3, <2>4
<1> QED BY <1>4, <1>5

\* Catch-up's prepare and commit of one entry preserve the invariant.
LEMMA ReplayInv ==
  ASSUME Inv, Replay \/ ReplayFails \/ ReplayLost \/ ReplayDone
  PROVE  Inv'
<1> DEFINE n == op.node
           D == Last(CommitSteps(disk[n], NextEntry))
<1>1. pc = "replay" /\ op.node \in Node /\ op \in OpType
  BY DEF Replay, ReplayFails, ReplayLost, ReplayDone, Inv, LogAndTableAgree, OpInv, TypeOK
<1>2. CASE ReplayDone
  <2>1. pc' \in {"publish", "catch_up"} /\ pc' \in PCs /\ op' = op
    BY <1>2 DEF ReplayDone, PCs
  <2>2. OpInv'
    BY <1>1, <2>1 DEF OpInv, Nested
  <2> QED BY <1>1, <1>2, <2>1, <2>2, FrameDisks DEF ReplayDone, processes, Inv, TypeOK
<1>3. CASE op.queue # {} /\ ~ReplayDone
  <2>1. /\ NextEntry \in op.queue /\ NextEntry \in issued /\ NextEntry \in Entry
        /\ Recorded(NextEntry.index) /\ NextEntry.index <= last_log_index
    BY <1>3, NextEntryFacts
  <2>2. DiskOK(D)
    BY <1>1, <2>1, InvDisks, LastCommitOK
  <2>3. disk' = [disk EXCEPT ![n] = D] \/ disk' = disk
    BY <1>3 DEF Replay, ReplayFails, ReplayLost
  <2>4. UNCHANGED <<metadata, history>> /\ faults' \in Nat
    BY <1>3 DEF Replay, ReplayFails, ReplayLost, Fault, Inv, TypeOK
  <2>5. /\ op' \in OpType /\ op'.queue \subseteq op.queue /\ pc' \in PCs /\ OpInv'
        /\ proc' \in [Node -> {"down", "up", "serving"}]
        /\ partitioned' \in [Node -> BOOLEAN]
    <3>1. CASE Replay
      <4>1. op' \in OpType /\ op'.queue \subseteq op.queue /\ op'.node = op.node
        BY <1>1, <3>1 DEF Replay, OpType
      <4>2. pc' = "replay" /\ pc' \in PCs
        BY <1>1, <3>1 DEF Replay, PCs
      <4>3. OpInv'
        BY <1>1, <4>1, <4>2 DEF OpInv, Nested
      <4> QED BY <3>1, <4>1, <4>2, <4>3 DEF Replay, Inv, TypeOK
    <3>2. CASE Raise
      BY <3>2, RaiseFacts
    <3> QED BY <1>3, <3>1, <3>2 DEF ReplayFails, ReplayLost
  <2> HIDE DEF D
  <2>6. CASE disk' = disk
    BY <2>4, <2>5, <2>6, FrameDisks
  <2>7. CASE disk' = [disk EXCEPT ![n] = D]
    BY <1>1, <2>2, <2>4, <2>5, <2>7, FrameOneDisk
  <2> QED BY <2>3, <2>6, <2>7
<1> QED BY <1>2, <1>3 DEF Replay, ReplayFails, ReplayLost

\* The operation record of catch_up and restart_node.
LEMMA PendingOp ==
  ASSUME NEW n \in Node
  PROVE  LET o == [NoOp EXCEPT !.pending = {n}]
         IN  o \in OpType /\ o.queue = {} /\ o.then = "idle"
<1>1. {n} \in SUBSET Node
  OBVIOUS
<1>2. [NoOp EXCEPT !.pending = {n}] \in OpType
  BY <1>1, NoOpType, OpExcept
<1>3. [NoOp EXCEPT !.pending = {n}].queue = {} /\ [NoOp EXCEPT !.pending = {n}].then = "idle"
  BY DEF NoOp
<1> QED BY <1>2, <1>3

\* The calls that start a catch-up preserve the invariant.
LEMMA CatchUpInv ==
  ASSUME Inv, NEW n \in Node,
         CatchUpCall(n) \/ RestartNode(n) \/ CatchUpNode(n)
  PROVE  Inv'
<1> USE DEF processes
<1>1. op \in OpType /\ "fetch" \in PCs
  BY DEF Inv, TypeOK, PCs
<1>2. CASE CatchUpCall(n)
  <2>1. op' \in OpType /\ op'.queue = {} /\ op'.then = "idle"
    BY <1>2, PendingOp DEF CatchUpCall
  <2>2. pc' = "catch_up" /\ pc' \in PCs /\ OpInv'
    BY <1>2 DEF CatchUpCall, PCs, OpInv, Nested
  <2> QED BY <1>2, <2>1, <2>2, FrameDisks DEF CatchUpCall, Inv, TypeOK
<1>3. CASE RestartNode(n)
  <2>1. proc' \in [Node -> {"down", "up", "serving"}]
    BY <1>3 DEF RestartNode, Inv, TypeOK
  <2>2. CASE n \in Members(replicas)
    <3>1. op' \in OpType /\ op'.queue = {}
      BY <1>3, <2>2, PendingOp DEF RestartNode
    <3>2. pc' = "catch_up" /\ pc' \in PCs /\ OpInv'
      BY <1>3, <2>2 DEF RestartNode, PCs, OpInv, Nested
    <3> QED BY <1>3, <2>1, <3>1, <3>2, FrameDisks DEF RestartNode, Inv, TypeOK
  <2>3. CASE n \notin Members(replicas)
    <3>1. op' = op /\ pc' = "idle" /\ pc' \in PCs /\ OpInv'
      BY <1>3, <2>3 DEF RestartNode, PCs, OpInv, Nested
    <3> QED BY <1>1, <1>3, <2>1, <3>1, FrameDisks DEF RestartNode, Inv, TypeOK
  <2> QED BY <2>2, <2>3
<1>4. CASE CatchUpNode(n)
  <2>1. op' \in OpType
    BY <1>1, <1>4 DEF CatchUpNode, OpType
  <2>2. op'.queue = op.queue /\ op'.node = n /\ op'.then = "fetch"
    BY <1>1, <1>4 DEF CatchUpNode, OpType
  <2>3. pc' = "configure" /\ pc' \in PCs
    BY <1>4 DEF CatchUpNode, PCs
  <2>4. OpInv'
    BY <2>2, <2>3 DEF OpInv, Nested
  <2> QED BY <1>4, <2>1, <2>2, <2>3, <2>4, FrameDisks DEF CatchUpNode, Inv, TypeOK
<1> QED BY <1>2, <1>3, <1>4

\* The end of the opening catch-ups preserves the invariant.
LEMMA CatchUpDoneInv ==
  ASSUME Inv, CatchUpDone
  PROVE  Inv'
<1>1. op' \in OpType /\ op'.queue = {} /\ pc' \in PCs /\ OpInv'
  BY IdleOp DEF CatchUpDone
<1> QED BY <1>1, FrameDisks DEF CatchUpDone, processes, Inv, TypeOK

\* The queue a replica is sent holds entries its source committed.
LEMMA CommittedQueue ==
  ASSUME Inv, NEW n \in Node, NEW i
  PROVE  CommittedAfter(disk[n], i) \in SUBSET Entry /\ QueueOK(CommittedAfter(disk[n], i))
BY InvDisks DEF CommittedAfter, DiskOK, QueueOK, Disk

\* Fetching the entries above the applied index preserves the invariant.
LEMMA FetchInv ==
  ASSUME Inv, Fetch
  PROVE  Inv'
<1> DEFINE Q == CommittedAfter(disk[QueryReplica], disk[op.node].applied_index)
<1>1. pc = "fetch" /\ op.node \in Node /\ op \in OpType
  BY DEF Fetch, Inv, LogAndTableAgree, OpInv, TypeOK
<1>2. Q \in SUBSET Entry /\ QueueOK(Q)
  BY QueryReplicaFacts, CommittedQueue DEF Fetch
<1>3. op' = [op EXCEPT !.queue = Q]
  BY DEF Fetch
<1> HIDE DEF Q
<1>4. op' \in OpType
  BY <1>1, <1>2, <1>3, OpExcept
<1>5. op'.queue = Q /\ op'.node = op.node
  BY <1>1, <1>3 DEF OpType
<1>6. pc' = "replay" /\ pc' \in PCs
  BY DEF Fetch, PCs
<1>7. OpInv'
  BY <1>1, <1>5, <1>6 DEF OpInv, Nested
<1>8. UNCHANGED <<metadata, history>> /\ UNCHANGED <<disk, proc, partitioned, faults>>
  BY DEF Fetch, processes
<1>9. DOMAIN disk' = Node /\ disk' = [n \in Node |-> disk'[n]]
  BY <1>8 DEF Inv, TypeOK
<1>10. \A n \in Node : DiskOK(disk'[n])
  BY <1>8, InvDisks
<1> QED BY <1>2, <1>4, <1>5, <1>6, <1>7, <1>8, <1>9, <1>10, Frame DEF Inv, TypeOK

\* Configuring the target of a rebalance preserves the invariant.
LEMMA RebalanceInv ==
  ASSUME Inv, NEW n \in Node, RebalanceConfigure(n) \/ RebalanceRefused(n)
  PROVE  Inv'
<1>1. DiskOK(Opened(n))
  BY OpenedOK
<1>2. term \in Nat /\ placement_epoch + 1 \in Nat
  BY DEF Inv, TypeOK
<1>3. DiskOK(Configured(Opened(n), term, placement_epoch + 1))
  BY <1>1, <1>2, ConfiguredOK
<1>4. proc' \in [Node -> {"down", "up", "serving"}]
  BY DEF RebalanceConfigure, RebalanceRefused, Inv, TypeOK
<1>5. CASE RebalanceConfigure(n)
  <2> DEFINE q == QueryReplica
  <2>1. q \in Node
    BY <1>5, QueryReplicaFacts DEF RebalanceConfigure, RebalanceStart
  <2>2. op' = [NoOp EXCEPT !.node = n, !.source = q, !.then = "publish"]
    BY <1>5 DEF RebalanceConfigure
  <2> HIDE DEF q
  <2>3. op' \in OpType
    <3>1. "publish" \in PCs
      BY DEF PCs
    <3>2. [NoOp EXCEPT !.node = n] \in OpType
      BY NoOpType, OpExcept
    <3>3. [NoOp EXCEPT !.node = n, !.source = q] \in OpType
      BY <2>1, <3>2, OpExcept
    <3> QED BY <2>2, <3>1, <3>3, OpExcept
  <2>4. op'.queue = {} /\ op'.node = n /\ op'.source = q /\ op'.then = "publish"
    BY <2>2 DEF NoOp
  <2>5. pc' = "install" /\ pc' \in PCs
    BY <1>5 DEF RebalanceConfigure, PCs
  <2>6. OpInv'
    BY <2>1, <2>4, <2>5 DEF OpInv, Nested
  <2> QED BY <1>3, <1>4, <1>5, <2>3, <2>4, <2>5, <2>6, FrameOneDisk
          DEF RebalanceConfigure, Inv, TypeOK
<1>6. CASE RebalanceRefused(n)
  <2>1. OpInv'
    BY <1>6 DEF RebalanceRefused, RebalanceStart, OpInv, Nested
  <2> QED BY <1>1, <1>4, <1>6, <2>1, FrameOneDisk DEF RebalanceRefused, Inv, TypeOK
<1> QED BY <1>5, <1>6

\* Installing the snapshot on the target preserves the invariant.
LEMMA InstallInv ==
  ASSUME Inv, Install \/ InstallFails
  PROVE  Inv'
<1> DEFINE D == Installed(disk[op.source], term, placement_epoch + 1)
           Q == CommittedAfter(disk[op.source], disk[op.source].applied_index)
<1>1. pc = "install" /\ op.node \in Node /\ op.source \in Node /\ op \in OpType
  BY DEF Install, InstallFails, Inv, LogAndTableAgree, OpInv, TypeOK
<1>2. term \in Nat /\ placement_epoch + 1 \in Nat
  BY DEF Inv, TypeOK
<1>3. DiskOK(D)
  BY <1>1, <1>2, InvDisks, InstalledOK
<1>4. Q \in SUBSET Entry /\ QueueOK(Q)
  BY <1>1, CommittedQueue
<1>5. Install => op' = [op EXCEPT !.queue = Q] /\ disk' = [disk EXCEPT ![op.node] = D]
  BY DEF Install
<1>6. InstallFails => disk' = disk \/ disk' = [disk EXCEPT ![op.node] = D]
  BY DEF InstallFails
<1> HIDE DEF D, Q
<1>7. CASE Install
  <2>1. op' \in OpType
    BY <1>1, <1>4, <1>5, <1>7, OpExcept
  <2>2. op'.queue = Q /\ op'.node = op.node
    BY <1>1, <1>5, <1>7 DEF OpType
  <2>3. pc' = "replay" /\ pc' \in PCs
    BY <1>7 DEF Install, PCs
  <2>4. OpInv'
    BY <1>1, <2>2, <2>3 DEF OpInv, Nested
  <2>5. UNCHANGED <<metadata, history>> /\ UNCHANGED <<proc, partitioned, faults>>
    BY <1>7 DEF Install
  <2>6. DOMAIN disk' = Node /\ disk' = [n \in Node |-> disk'[n]]
    BY <1>5, <1>7 DEF Inv, TypeOK
  <2>7. \A n \in Node : DiskOK(disk'[n])
    BY <1>3, <1>5, <1>7, InvDisks DEF Inv, TypeOK
  <2> QED BY <1>4, <2>1, <2>2, <2>3, <2>4, <2>5, <2>6, <2>7, Frame DEF Inv, TypeOK
<1>8. CASE InstallFails
  <2>1. Raise /\ UNCHANGED <<metadata, history, faults>>
    BY <1>8 DEF InstallFails
  <2>2. CASE disk' = disk
    BY <2>1, <2>2, RaiseFacts, FrameDisks DEF Inv, TypeOK
  <2>3. CASE disk' = [disk EXCEPT ![op.node] = D]
    BY <1>1, <1>3, <2>1, <2>3, RaiseFacts, FrameOneDisk DEF Inv, TypeOK
  <2> QED BY <1>6, <1>8, <2>2, <2>3
<1> QED BY <1>7, <1>8

\* The operation record is untouched and the operation is where it was.
LEMMA SameOp ==
  ASSUME Inv, UNCHANGED <<metadata, history>>, pc' = pc, op' = op
  PROVE  op' \in OpType /\ op'.queue \subseteq op.queue /\ pc' \in PCs /\ OpInv'
BY DEF Inv, TypeOK, LogAndTableAgree, OpInv, Nested, CallEntry, Lookup, metadata, history

\* Partitions, heals and crashes between calls preserve the invariant.
LEMMA FaultInv ==
  ASSUME Inv, NEW n \in Node, PartitionNode(n) \/ HealNode(n) \/ Crash(n)
  PROVE  Inv'
<1>1. UNCHANGED <<metadata, history>> /\ UNCHANGED <<disk, pc, op>>
  BY DEF PartitionNode, HealNode, Crash
<1>2. faults' \in Nat
  BY DEF PartitionNode, HealNode, Crash, Fault, Inv, TypeOK
<1>3. proc' \in [Node -> {"down", "up", "serving"}]
  BY DEF PartitionNode, HealNode, Crash, Inv, TypeOK
<1>4. partitioned' \in [Node -> BOOLEAN]
  BY DEF PartitionNode, HealNode, Crash, Inv, TypeOK
<1> QED BY <1>1, <1>2, <1>3, <1>4, SameOp, FrameDisks

\* A process that dies inside a handler leaves a good disk, whichever of the
\* handler's writes was the last.
LEMMA CrashInHandlerInv ==
  ASSUME Inv, NEW n \in Node, CrashInHandler(n)
  PROVE  Inv'
<1>1. UNCHANGED <<metadata, history>> /\ UNCHANGED <<partitioned, pc, op>>
  BY DEF CrashInHandler
<1>2. faults' \in Nat /\ proc' \in [Node -> {"down", "up", "serving"}]
  BY DEF CrashInHandler, Fault, Inv, TypeOK
<1>3. PICK i \in 2..Len(HandlerSteps(n)) :
        disk' = [disk EXCEPT ![n] = HandlerSteps(n)[i]]
  BY DEF CrashInHandler
<1>4. DiskOK(disk[n])
  BY InvDisks
<1>5. DiskOK(HandlerSteps(n)[i])
  <2>1. CASE HandlerSteps(n) = PrepareSteps(disk[n], CallEntry) /\ pc = "prepare"
    <3>1. i = 2
      BY <1>3, <2>1 DEF PrepareSteps
    <3>2. CallEntry \in issued /\ CallEntry \in Entry
      BY <2>1, CallEntryFacts
    <3>3. DiskOK(JournalPrepare(disk[n], CallEntry))
      BY <1>4, <3>2, PrepareOK
    <3> QED BY <2>1, <3>1, <3>3 DEF PrepareSteps
  <2>2. CASE HandlerSteps(n) = CommitSteps(disk[n], CallEntry) /\ pc = "commit"
    <3>1. CallEntry \in issued /\ CallEntry \in Entry /\ Recorded(CallEntry.index)
            /\ CallEntry.index <= last_log_index
      BY <2>2, CallEntryFacts
    <3>2. i \in 1..Len(CommitSteps(disk[n], CallEntry))
      BY <1>3, <2>2
    <3> QED BY <1>4, <2>2, <3>1, <3>2, CommitOK
  <2>3. CASE HandlerSteps(n) = CommitSteps(disk[n], NextEntry) /\ op.queue # {}
    <3>1. NextEntry \in issued /\ NextEntry \in Entry /\ Recorded(NextEntry.index)
            /\ NextEntry.index <= last_log_index
      BY <2>3, NextEntryFacts
    <3>2. i \in 1..Len(CommitSteps(disk[n], NextEntry))
      BY <1>3, <2>3
    <3> QED BY <1>4, <2>3, <3>1, <3>2, CommitOK
  <2>4. CASE HandlerSteps(n) = <<disk[n]>>
    BY <1>3, <2>4
  <2> QED BY <2>1, <2>2, <2>3, <2>4 DEF HandlerSteps
<1> QED BY <1>1, <1>2, <1>3, <1>5, SameOp, FrameOneDisk DEF Inv, TypeOK

\* The same for a process that dies while it opens its shard.
LEMMA CrashInRecoveryInv ==
  ASSUME Inv, NEW n \in Node, CrashInRecovery(n)
  PROVE  Inv'
<1>1. UNCHANGED <<metadata, history>> /\ UNCHANGED <<partitioned, pc, op>>
  BY DEF CrashInRecovery
<1>2. faults' \in Nat /\ proc' \in [Node -> {"down", "up", "serving"}]
  BY DEF CrashInRecovery, Fault, Inv, TypeOK
<1>3. PICK d \in RecoverySteps(disk[n]) : disk' = [disk EXCEPT ![n] = d]
  BY DEF CrashInRecovery
<1>4. DiskOK(disk[n]) /\ (\A e \in issued : e.index <= last_log_index)
        /\ last_log_index \in Nat
  BY InvDisks DEF Inv, LogAndTableAgree, LogInv, TypeOK
<1>5. DiskOK(d)
  BY <1>3, <1>4, RecoveredOK
<1> QED BY <1>1, <1>2, <1>3, <1>5, SameOp, FrameOneDisk DEF Inv, TypeOK

\* A fetch cut off by a fault preserves the invariant.
LEMMA FetchInterruptedInv ==
  ASSUME Inv, FetchInterrupted
  PROVE  Inv'
<1>1. op' \in OpType /\ op'.queue = {} /\ pc' \in PCs /\ OpInv'
  BY IdleOp DEF FetchInterrupted
<1>2. faults' \in Nat
  BY DEF FetchInterrupted, Fault, Inv, TypeOK
<1>3. proc' \in [Node -> {"down", "up", "serving"}]
  BY DEF FetchInterrupted, AllDown, Inv, TypeOK
<1>4. partitioned' \in [Node -> BOOLEAN]
  BY DEF FetchInterrupted, NonePartitioned, Inv, TypeOK
<1> QED BY <1>1, <1>2, <1>3, <1>4, FrameDisks DEF FetchInterrupted

-----------------------------------------------------------------------------
(***************************************************************************)
(* Steps that change the coordinator's metadata or the history.            *)
(***************************************************************************)
\* A new term, epoch or placement keeps the invariant: it does not mention them.
LEMMA FramePlacement ==
  ASSUME Inv,
         UNCHANGED <<last_log_index, committed_index, request_table, history>>,
         UNCHANGED <<processes, faults>>,
         term' \in Nat \ {0}, placement_epoch' \in Nat \ {0},
         replicas' \in Seq(Node), leader' \in Members(replicas'),
         op' \in OpType, op'.queue \subseteq op.queue, pc' \in PCs, OpInv'
  PROVE  Inv'
<1> USE DEF history, processes
<1>1. TypeOK'
  BY DEF Inv, TypeOK
<1>2. LogInv'
  BY DEF Inv, LogAndTableAgree, LogInv
<1>3. TableInv'
  BY DEF Inv, LogAndTableAgree, TableInv
<1> QED BY <1>1, <1>2, <1>3 DEF Inv, LogAndTableAgree

\* An election, with its published term, preserves the invariant.
LEMMA ElectInv ==
  ASSUME Inv, Elect
  PROVE  Inv'
<1> DEFINE C == Candidates
<1>1. replicas \in Seq(Node) /\ Members(replicas) \in SUBSET Node /\ op \in OpType
  BY MembersType DEF Inv, TypeOK
<1>2. C \in SUBSET Members(replicas) /\ C \in SUBSET Node
  BY <1>1 DEF Candidates
<1>3. C # {}
  BY QuorumNonEmpty DEF Elect
<1>4. leader' \in Members(replicas)
  BY <1>2, <1>3, BestFacts DEF Elect
<1>5. op' = [op EXCEPT !.todo = C]
  BY DEF Elect
<1>6. pc = "elect" /\ pc' = "configure" /\ pc' \in PCs
  BY DEF Elect, PCs
<1> HIDE DEF C
<1>7. op' \in OpType
  BY <1>1, <1>2, <1>5, OpExcept
<1>8. op'.queue = op.queue /\ op'.call = op.call /\ op'.index = op.index
        /\ op'.then = op.then
  BY <1>1, <1>5 DEF OpType
<1>9. OpInv'
  BY <1>6, <1>8 DEF Elect, history, Inv, LogAndTableAgree, OpInv, Nested, CallEntry, Lookup
<1>10. term' \in Nat \ {0} /\ placement_epoch' \in Nat \ {0} /\ replicas' = replicas
  BY DEF Elect, Inv, TypeOK
<1> QED BY <1>1, <1>4, <1>6, <1>7, <1>8, <1>9, <1>10, FramePlacement DEF Elect

\* Publishing the placement of a rebalance preserves the invariant.
LEMMA PublishInv ==
  ASSUME Inv, RebalancePublish
  PROVE  Inv'
<1>1. replicas \in Seq(Node) /\ Members(replicas) \in SUBSET Node /\ op.node \in Node
  BY MembersType DEF RebalancePublish, Inv, LogAndTableAgree, TypeOK, OpInv
<1>2. replicas' \in Seq(Node)
  BY <1>1 DEF RebalancePublish
<1>3. leader' \in Members(replicas')
  BY <1>1 DEF RebalancePublish, Members, Inv, TypeOK
<1> DEFINE T == Members(replicas) \cup {op.node}
<1>4. T \in SUBSET Node
  BY <1>1
<1>5. op' = [NoOp EXCEPT !.todo = T]
  BY DEF RebalancePublish
<1> HIDE DEF T
<1>6. op' \in OpType
  BY <1>4, <1>5, NoOpType, OpExcept
<1>7. op'.queue = {} /\ op'.then = "idle"
  BY <1>5 DEF NoOp
<1>8. pc' = "configure" /\ pc' \in PCs
  BY DEF RebalancePublish, PCs
<1>9. OpInv'
  BY <1>7, <1>8 DEF OpInv, Nested
<1>10. term' \in Nat \ {0} /\ placement_epoch' \in Nat \ {0}
  BY DEF RebalancePublish, Inv, TypeOK
<1> QED BY <1>2, <1>3, <1>6, <1>7, <1>8, <1>9, <1>10, FramePlacement DEF RebalancePublish

\* The index is new, so the entry issued at it is the only one there.
LEMMA AllocateInv ==
  ASSUME Inv, AllocateIndex
  PROVE  Inv'
<1> DEFINE i == last_log_index + 1
           e == [index |-> i, req |-> op.call[1], mut |-> op.call[2]]
           T == Members(replicas)
<1> USE DEF processes
<1>1. /\ op \in OpType /\ T \in SUBSET Node /\ last_log_index \in Nat /\ issued \subseteq Entry
      /\ pc = "append" /\ op.call \in Calls /\ Lookup(op.call[1]) = {}
  BY MembersType DEF AllocateIndex, Inv, TypeOK, LogAndTableAgree, OpInv
<1>2. i \in Nat \ {0} /\ i > last_log_index
  BY <1>1
<1>3. op.call[1] \in Request /\ op.call[2] \in Mutation
  BY <1>1, ClusterAssumption
<1>4. e \in Entry /\ e.index = i
  BY <1>2, <1>3 DEF Entry
<1>5. /\ op' = [op EXCEPT !.index = i, !.todo = T, !.got = {}]
      /\ issued' = issued \cup {e} /\ last_log_index' = i
      /\ pc' = "prepare" /\ pc' \in PCs
  BY DEF AllocateIndex, PCs
<1>6. op' \in OpType
  <2> HIDE DEF i, T
  <2> QED BY <1>1, <1>2, <1>5, LoopOp
<1>7. op'.queue = op.queue /\ op'.call = op.call /\ op'.index = i
  BY <1>1, <1>5 DEF OpType
<1>8. CallEntry' = e
  BY <1>7 DEF CallEntry
<1> HIDE DEF i, e, T
<1>9. TypeOK'
  BY <1>2, <1>4, <1>5, <1>6 DEF AllocateIndex, Inv, TypeOK
<1>10. LogInv'
  <2>1. \A f \in issued : f.index <= last_log_index /\ f.index \in Nat
    BY <1>1 DEF Inv, LogAndTableAgree, LogInv, Entry
  <2>2. \A f \in issued' : f.index <= last_log_index'
    BY <1>1, <1>2, <1>4, <1>5, <2>1
  <2>3. \A f, g \in issued' : f.index = g.index => f = g
    <3>1. \A f \in issued : f.index # i
      BY <1>1, <1>2, <2>1
    <3>2. \A f, g \in issued : f.index = g.index => f = g
      BY DEF Inv, LogAndTableAgree, LogInv
    <3> QED BY <1>4, <1>5, <3>1, <3>2
  <2>4. \A n \in Node : disk'[n].prepared \subseteq issued'
                          /\ disk'[n].applied_index <= last_log_index'
    <3>1. disk' = disk
      BY DEF AllocateIndex
    <3>2. \A n \in Node : disk[n].prepared \subseteq issued /\ disk[n].applied_index \in Nat
                            /\ disk[n].applied_index <= last_log_index
      BY InvDisks DEF DiskOK, Disk
    <3> QED BY <1>1, <1>2, <1>5, <3>1, <3>2
  <2>5. op'.queue \subseteq issued'
    BY <1>5, <1>7 DEF Inv, LogAndTableAgree, LogInv
  <2> QED BY <2>2, <2>3, <2>4, <2>5 DEF LogInv
<1>11. TableInv'
  BY <1>5, <1>7 DEF AllocateIndex, Inv, LogAndTableAgree, TableInv
<1>12. OpInv'
  BY <1>1, <1>5, <1>7, <1>8 DEF AllocateIndex, OpInv, Nested, Lookup
<1> QED BY <1>9, <1>10, <1>11, <1>12 DEF Inv, LogAndTableAgree

\* Recording a request that has no record, or this very entry.
LEMMA RecordFacts ==
  ASSUME Inv, op.call \in Calls, CallEntry \in issued,
         \/ Lookup(op.call[1]) = {}
         \/ \E d \in request_table : EntryOf(d) = CallEntry,
         NEW s \in {"prepared", "committed"}
  PROVE  /\ Record(s) \subseteq [req : Request, mut : Mutation, index : Nat \ {0},
                                 status : {"prepared", "committed"}]
         /\ \A d \in Record(s) : EntryOf(d) \in issued
         /\ \A d, e \in Record(s) : d.req = e.req => d = e
         /\ \A d \in request_table : \E e \in Record(s) : e.index = d.index
         /\ \A d \in request_table : d.req # op.call[1] => d \in Record(s)
         /\ \A d \in request_table : d.req = op.call[1] => EntryOf(d) = CallEntry
         /\ \E d \in Record(s) : EntryOf(d) = CallEntry /\ d.status = s
<1> DEFINE r == [req |-> op.call[1], mut |-> op.call[2], index |-> op.index, status |-> s]
<1>1. issued \subseteq Entry
  BY DEF Inv, TypeOK
<1>2. CallEntry \in Entry
  BY <1>1
<1>3. op.call[1] \in Request /\ op.call[2] \in Mutation /\ op.index \in Nat \ {0}
  BY <1>2 DEF CallEntry, Entry
<1>4. r \in [req : Request, mut : Mutation, index : Nat \ {0},
             status : {"prepared", "committed"}]
  BY <1>3
<1>5. EntryOf(r) = CallEntry /\ r.req = op.call[1] /\ r.status = s /\ r.index = op.index
  BY DEF EntryOf, CallEntry
<1>6. Record(s) = (request_table \ Lookup(op.call[1])) \cup {r}
  BY DEF Record
<1> HIDE DEF r
<1>7. /\ request_table \subseteq [req : Request, mut : Mutation, index : Nat \ {0},
                                 status : {"prepared", "committed"}]
      /\ \A d \in request_table : EntryOf(d) \in issued
      /\ \A d, e \in request_table : d.req = e.req => d = e
  BY DEF Inv, TypeOK, LogAndTableAgree, TableInv
<1>8. \A d \in request_table : d.req = op.call[1] => EntryOf(d) = CallEntry
  <2>1. CASE Lookup(op.call[1]) = {}
    BY <2>1 DEF Lookup
  <2>2. CASE \E d \in request_table : EntryOf(d) = CallEntry
    <3>1. PICK d \in request_table : EntryOf(d) = CallEntry
      BY <2>2
    <3>2. d.req = op.call[1]
      BY <3>1 DEF EntryOf, CallEntry
    <3> QED BY <1>7, <3>1, <3>2
  <2> QED BY <2>1, <2>2
<1>9. \A d \in request_table : EntryOf(d) = CallEntry => d.index = op.index
  BY DEF EntryOf, CallEntry
<1>10. \A d \in request_table : d.req # op.call[1] => d \in Record(s)
  BY <1>6 DEF Lookup
<1>11. \A d \in Record(s) : d = r \/ (d \in request_table /\ d.req # op.call[1])
  BY <1>6 DEF Lookup
<1>12. r \in Record(s)
  BY <1>6
<1>13. \A d \in request_table : \E e \in Record(s) : e.index = d.index
  BY <1>5, <1>8, <1>9, <1>10, <1>12
<1> QED BY <1>4, <1>5, <1>7, <1>8, <1>10, <1>11, <1>12, <1>13

\* Recording the prepared request in the table preserves the invariant.
LEMMA PrepareDoneInv ==
  ASSUME Inv, PrepareDone
  PROVE  Inv'
<1> DEFINE T == Members(replicas)
<1> USE DEF processes, history
<1>1. /\ op \in OpType /\ T \in SUBSET Node /\ pc = "prepare" /\ op.call \in Calls
      /\ Lookup(op.call[1]) = {} /\ CallEntry \in issued
  BY MembersType DEF PrepareDone, Inv, TypeOK, LogAndTableAgree, OpInv
<1>2. op' = [op EXCEPT !.todo = T, !.got = {}] /\ pc' = "commit" /\ pc' \in PCs
        /\ request_table' = Record("prepared")
  BY DEF PrepareDone, PCs
<1> HIDE DEF T
<1>3. op' \in OpType /\ op'.queue = op.queue /\ op'.call = op.call /\ op'.index = op.index
  <2>1. op' \in OpType
    BY <1>1, <1>2, LoopOp DEF OpType
  <2> QED BY <1>1, <1>2, <2>1 DEF OpType
<1>4. /\ request_table' \subseteq [req : Request, mut : Mutation, index : Nat \ {0},
                                   status : {"prepared", "committed"}]
      /\ \A d \in request_table' : EntryOf(d) \in issued
      /\ \A d, e \in request_table' : d.req = e.req => d = e
      /\ \A d \in request_table : \E e \in request_table' : e.index = d.index
      /\ \A d \in request_table : d \in request_table'
      /\ \E d \in request_table' : EntryOf(d) = CallEntry
  BY <1>1, <1>2, RecordFacts DEF Lookup
<1>5. CallEntry' = CallEntry
  BY <1>3 DEF CallEntry
<1>6. TypeOK'
  BY <1>2, <1>3, <1>4 DEF PrepareDone, Inv, TypeOK
<1>7. LogInv'
  BY <1>3 DEF PrepareDone, Inv, LogAndTableAgree, LogInv
<1>8. TableInv'
  BY <1>3, <1>4 DEF PrepareDone, Inv, LogAndTableAgree, TableInv
<1>9. OpInv'
  BY <1>1, <1>2, <1>3, <1>4, <1>5 DEF OpInv, Nested
<1> QED BY <1>6, <1>7, <1>8, <1>9 DEF Inv, LogAndTableAgree

\* Recording the commit and acknowledging it preserves the invariant.
LEMMA CommitDoneInv ==
  ASSUME Inv, CommitDone
  PROVE  Inv'
<1> DEFINE a == [req |-> op.call[1], mut |-> op.call[2], index |-> op.index]
<1> USE DEF processes
<1>1. /\ op \in OpType /\ pc = "commit" /\ op.call \in Calls
      /\ \E d \in request_table : EntryOf(d) = CallEntry
  BY DEF CommitDone, Inv, TypeOK, LogAndTableAgree, OpInv
<1>2. CallEntry \in issued /\ CallEntry \in Entry
  BY <1>1, CallEntryFacts
<1>3. a = CallEntry
  BY DEF CallEntry
<1>4. /\ request_table' = Record("committed") /\ acked' = acked \cup {a}
      /\ op' = NoOp /\ pc' = "idle"
  BY DEF CommitDone
<1> HIDE DEF a
<1>5. op' \in OpType /\ op'.queue = {} /\ pc' \in PCs /\ OpInv'
  BY <1>4, IdleOp
<1>6. /\ request_table' \subseteq [req : Request, mut : Mutation, index : Nat \ {0},
                                   status : {"prepared", "committed"}]
      /\ \A d \in request_table' : EntryOf(d) \in issued
      /\ \A d, e \in request_table' : d.req = e.req => d = e
      /\ \A d \in request_table : \E e \in request_table' : e.index = d.index
      /\ \A d \in request_table : d.req # op.call[1] => d \in request_table'
      /\ \A d \in request_table : d.req = op.call[1] => EntryOf(d) = CallEntry
      /\ \E d \in request_table' : EntryOf(d) = CallEntry /\ d.status = "committed"
  BY <1>1, <1>2, <1>4, RecordFacts
<1>7. TypeOK'
  <2>1. acked' \subseteq [req : Request, mut : Mutation, index : Nat \ {0}]
    BY <1>2, <1>3, <1>4 DEF Inv, TypeOK, Entry
  <2>2. committed_index' \in Nat
    BY <1>1 DEF CommitDone, Inv, TypeOK, OpType
  <2> QED BY <1>5, <1>6, <2>1, <2>2 DEF CommitDone, Inv, TypeOK
<1>8. LogInv'
  BY <1>5 DEF CommitDone, Inv, LogAndTableAgree, LogInv
<1>9. TableInv'
  <2>1. \A b \in acked' : \E d \in request_table' : d.status = "committed" /\ EntryOf(d) = b
    <3> SUFFICES ASSUME NEW b \in acked
                 PROVE  \E d \in request_table' : d.status = "committed" /\ EntryOf(d) = b
      BY <1>3, <1>4, <1>6
    <3>1. PICK d \in request_table : d.status = "committed" /\ EntryOf(d) = b
      BY DEF Inv, LogAndTableAgree, TableInv
    <3> QED BY <1>6, <3>1
  <2>2. \A n \in Node : \A i \in disk'[n].committed : \E d \in request_table' : d.index = i
    <3>1. disk' = disk
      BY DEF CommitDone
    <3>2. \A n \in Node : \A i \in disk[n].committed : \E d \in request_table : d.index = i
      BY DEF Inv, LogAndTableAgree, TableInv
    <3> QED BY <1>6, <3>1, <3>2
  <2>3. issued' = issued
    BY DEF CommitDone
  <2> QED BY <1>5, <1>6, <2>1, <2>2, <2>3 DEF TableInv
<1> QED BY <1>5, <1>7, <1>8, <1>9 DEF Inv, LogAndTableAgree

\* Answering a retry of a committed request preserves the invariant.
LEMMA ReturnInv ==
  ASSUME Inv, BeginReturn
  PROVE  Inv'
<1> USE DEF processes, metadata
<1>1. PICK d \in Lookup(op.call[1]) :
        /\ d.status = "committed"
        /\ acked' = acked \cup {[req |-> d.req, mut |-> d.mut, index |-> d.index]}
  BY DEF BeginReturn
<1>2. d \in request_table
  BY DEF Lookup
<1>3. [req |-> d.req, mut |-> d.mut, index |-> d.index] = EntryOf(d)
  BY DEF EntryOf
<1>4. op' \in OpType /\ op'.queue = {} /\ pc' \in PCs /\ OpInv'
  BY IdleOp DEF BeginReturn
<1>5. TypeOK'
  <2>1. acked' \subseteq [req : Request, mut : Mutation, index : Nat \ {0}]
    BY <1>1, <1>2 DEF Inv, TypeOK
  <2> QED BY <1>4, <2>1 DEF BeginReturn, Inv, TypeOK
<1>6. LogInv'
  BY <1>4 DEF BeginReturn, Inv, LogAndTableAgree, LogInv
<1>7. TableInv'
  BY <1>1, <1>2, <1>3, <1>4 DEF BeginReturn, Inv, LogAndTableAgree, TableInv
<1> QED BY <1>4, <1>5, <1>6, <1>7 DEF Inv, LogAndTableAgree

-----------------------------------------------------------------------------
\* Every step of the cluster keeps the invariant.
LEMMA NextInv == Inv /\ [Next]_vars => Inv'
<1> SUFFICES ASSUME Inv, [Next]_vars PROVE Inv'
  OBVIOUS
<1>1. CASE UNCHANGED vars
  <2> USE <1>1 DEF vars, metadata, processes, history
  <2>1. UNCHANGED <<metadata, history, disk, proc, partitioned, faults, pc, op>>
    OBVIOUS
  <2> QED BY <2>1, SameOp, FrameDisks DEF Inv, TypeOK
<1>2. CASE CoordinatorStep
  BY <1>2, OpenCloseInv, BeginInv, ReturnInv, ElectInv, RaiseInv, LoopEndInv, AllocateInv,
     PrepareDoneInv, CommitDoneInv, CatchUpDoneInv, FetchInv, FetchInterruptedInv,
     ReplayInv, InstallInv, PublishInv
  DEF CoordinatorStep
<1>3. ASSUME NEW n \in Node, NodeStep(n) PROVE Inv'
  BY <1>3, ConfigureInv, PrepareInv, PrepareFailsInv, CommitInv, CatchUpInv, RebalanceInv,
     FaultInv, CrashInHandlerInv, CrashInRecoveryInv
  DEF NodeStep
<1> QED BY <1>1, <1>2, <1>3 DEF Next

\* Every reachable state satisfies the inductive invariant.
LEMMA Invariance == Spec => []Inv
BY InitInv, NextInv, PTL DEF Spec

\* Type correctness: every variable of the coordinator and of the replicas keeps
\* its type through every operation, fault and recovery.
THEOREM TypeCorrect == Spec => []TypeOK
<1>1. Inv => TypeOK
  BY DEF Inv
<1> QED BY <1>1, Invariance, PTL

\* The invariant itself: request table, journals and running operation agree.
THEOREM TablesAgree == Spec => []LogAndTableAgree
<1>1. Inv => LogAndTableAgree
  BY DEF Inv
<1> QED BY <1>1, Invariance, PTL

\* No two replicas ever journal different entries at one index, for any number of
\* replicas, requests and faults.
THEOREM OneEntryPerIndex == Spec => []IndexAgreement
<1>1. Inv => IndexAgreement
  BY DEF Inv, LogAndTableAgree, LogInv, IndexAgreement
<1> QED BY <1>1, Invariance, PTL

\* A request is committed at one index on all replicas together: exactly-once
\* commit of retried requests.
THEOREM CommittedOnce == Spec => []RequestCommittedOnce
<1>1. Inv => RequestCommittedOnce
  <2> SUFFICES ASSUME Inv, NEW n \in Node, NEW m \in Node,
                      NEW e \in CommittedOn(n), NEW f \in CommittedOn(m), e.req = f.req
               PROVE  e = f
    BY DEF RequestCommittedOnce
  <2>1. e \in issued /\ f \in issued
    BY DEF CommittedOn, Inv, LogAndTableAgree, LogInv
  <2>2. PICK d \in request_table : d.index = e.index
    BY DEF CommittedOn, Inv, LogAndTableAgree, TableInv
  <2>3. PICK c \in request_table : c.index = f.index
    BY DEF CommittedOn, Inv, LogAndTableAgree, TableInv
  <2>4. EntryOf(d) = e /\ EntryOf(c) = f
    <3>1. EntryOf(d) \in issued /\ EntryOf(c) \in issued
      BY DEF Inv, LogAndTableAgree, TableInv
    <3>2. EntryOf(d).index = e.index /\ EntryOf(c).index = f.index
      BY <2>2, <2>3 DEF EntryOf
    <3> QED BY <2>1, <3>1, <3>2 DEF Inv, LogAndTableAgree, LogInv
  <2>5. d.req = c.req
    BY <2>4 DEF EntryOf
  <2>6. d = c
    BY <2>5 DEF Inv, LogAndTableAgree, TableInv
  <2> QED BY <2>4, <2>6
<1> QED BY <1>1, Invariance, PTL

\* Identical retries get one CommitResult and a request ID is never acknowledged
\* for two mutations.
THEOREM OneAnswer == Spec => []OneAnswerPerRequest
<1>1. Inv => OneAnswerPerRequest
  <2> SUFFICES ASSUME Inv, NEW a \in acked, NEW b \in acked, a.req = b.req
               PROVE  a = b
    BY DEF OneAnswerPerRequest
  <2>1. PICK d \in request_table : EntryOf(d) = a
    BY DEF Inv, LogAndTableAgree, TableInv
  <2>2. PICK c \in request_table : EntryOf(c) = b
    BY DEF Inv, LogAndTableAgree, TableInv
  <2>3. d.req = c.req
    BY <2>1, <2>2 DEF EntryOf
  <2>4. d = c
    BY <2>3 DEF Inv, LogAndTableAgree, TableInv
  <2> QED BY <2>1, <2>2, <2>4
<1> QED BY <1>1, Invariance, PTL

-----------------------------------------------------------------------------
(***************************************************************************)
(* What a replica's collection holds, who has journalled what, and what    *)
(* never moves backwards: the invariant Safe, on top of Inv.               *)
(*                                                                         *)
(* A step changes the disk of a node in one of six ways (Moves).  Each     *)
(* property of single disks is proved once per way, from the facts about   *)
(* the handlers above.                                                     *)
(***************************************************************************)
-----------------------------------------------------------------------------
(***************************************************************************)
(* The operation and the placement.                                        *)
(***************************************************************************)
\* The loops visit replicas of the placement, catch_up serves one of them, and the
\* target of a rebalance is none of them until it is published.
PlaceInv ==
  /\ op.todo \cup op.got \cup op.pending \subseteq Members(replicas)
  /\ op.then = "publish" => pc \in {"install", "replay", "publish"}
  /\ pc \in {"install", "publish"} => op.then = "publish"
  /\ op.then = "publish" => op.node \notin Members(replicas)
  /\ pc \in {"fetch", "replay"} \/ Nested("fetch") =>
       op.then = "publish" \/ op.node \in Members(replicas)
  /\ Len(replicas) >= Len(InitReplicas)

\* An operation that is over visits nobody.
LEMMA OverPlace ==
  ASSUME PlaceInv, UNCHANGED replicas, op' = NoOp, pc' \in {"idle", "closed"}
  PROVE  PlaceInv'
BY DEF PlaceInv, NoOp, Nested

\* The placement a cluster opens with.
LEMMA PlaceInit == Init => PlaceInv
BY ClusterAssumption DEF Init, PlaceInv, OpeningOp, NoOp, Nested

\* Operations that start or end.
LEMMA PlaceEnds ==
  ASSUME Inv, PlaceInv,
         \/ Open \/ Close \/ (\E c \in Calls : Write(c)) \/ BeginConflict \/ BeginReturn
         \/ ElectFails \/ PrepareAborts \/ CommitAborts \/ CommitDone \/ CatchUpDone
         \/ FetchFails \/ FetchInterrupted \/ ReplayFails \/ ReplayLost \/ InstallFails
         \/ PowerLoss
  PROVE  PlaceInv'
<1>1. CASE Open
  BY <1>1 DEF Open, PlaceInv, OpeningOp, NoOp, Nested, metadata
<1>2. CASE \E c \in Calls : Write(c)
  BY <1>2 DEF Write, PlaceInv, NoOp, Nested, metadata
<1>3. CASE Close
  BY <1>3 DEF Close, PlaceInv, Nested, metadata
<1>4. CASE BeginConflict \/ BeginReturn \/ CommitDone \/ CatchUpDone \/ FetchInterrupted
             \/ PowerLoss
  <2>1. op' = NoOp /\ pc' \in {"idle", "closed"} /\ UNCHANGED replicas
    BY <1>4 DEF BeginConflict, BeginReturn, CommitDone, CatchUpDone, FetchInterrupted,
                PowerLoss, metadata
  <2> QED BY <2>1, OverPlace
<1>5. CASE ElectFails \/ PrepareAborts \/ CommitAborts \/ FetchFails \/ ReplayFails
             \/ ReplayLost \/ InstallFails
  <2>1. op' = NoOp /\ pc' \in {"idle", "closed"} /\ UNCHANGED replicas
    BY <1>5 DEF ElectFails, PrepareAborts, CommitAborts, FetchFails, ReplayFails,
                ReplayLost, InstallFails, Raise, metadata
  <2> QED BY <2>1, OverPlace
<1> QED BY <1>1, <1>2, <1>3, <1>4, <1>5

\* Steps of the coordinator inside an operation.
LEMMA PlaceInside ==
  ASSUME Inv, PlaceInv,
         \/ BeginRetry \/ BeginNew \/ Elect \/ ConfigureDone \/ AllocateIndex
         \/ PrepareRetry \/ PrepareDone \/ Fetch \/ Replay \/ ReplayDone \/ Install
         \/ RebalancePublish
  PROVE  PlaceInv'
<1>0. op \in OpType
  BY DEF Inv, TypeOK
<1>1. CASE BeginRetry \/ BeginNew
  <2>1. pc = "begin" /\ UNCHANGED replicas /\ pc' \in {"commit", "append", "elect"}
    BY <1>1 DEF BeginRetry, BeginNew, metadata
  <2>2. /\ op'.todo \in {op.todo, Members(replicas)} /\ op'.got \in {op.got, {}}
        /\ op'.pending = op.pending /\ op'.then \in {op.then, "commit", "append"}
        /\ pc' = "elect" => op'.then \in {"commit", "append"}
    BY <1>0, <1>1 DEF BeginRetry, BeginNew, OpType
  <2> QED BY <2>1, <2>2 DEF PlaceInv, Nested
<1>2. CASE Elect
  <2>1. op.then \in {"begin", "append", "commit"}
    BY <1>2 DEF Elect, Inv, LogAndTableAgree, OpInv
  <2> QED BY <1>0, <1>2, <2>1 DEF Elect, PlaceInv, Nested, OpType, Candidates
<1>3. CASE ConfigureDone
  <2>1. /\ pc' = op.then /\ pc = "configure" /\ UNCHANGED replicas
        /\ op' \in {op, NoOp, [op EXCEPT !.todo = Members(replicas), !.got = {}]}
        /\ op.then \in {"begin", "append", "commit", "idle", "catch_up", "fetch"}
        /\ op.then = "fetch" => op' = op
    BY <1>3 DEF ConfigureDone, Inv, LogAndTableAgree, OpInv, metadata
  <2>2. \/ op' = op
        \/ /\ op'.todo \subseteq Members(replicas) /\ op'.got = {}
           /\ op'.pending \in {op.pending, {}} /\ op'.then \in {op.then, "idle"}
    <3>1. CASE op' = NoOp
      BY <3>1 DEF NoOp
    <3>2. CASE op' = [op EXCEPT !.todo = Members(replicas), !.got = {}]
      BY <1>0, <3>2 DEF OpType
    <3> QED BY <2>1, <3>1, <3>2
  <2>3. CASE op' = op
    <3>1. /\ op'.todo = op.todo /\ op'.got = op.got /\ op'.pending = op.pending
          /\ op'.then = op.then /\ op'.node = op.node
      BY <2>3
    <3>2. pc' \in {"fetch", "replay"} \/ Nested("fetch")' => op.node \in Members(replicas)
      BY <2>1, <3>1 DEF PlaceInv, Nested
    <3> QED BY <2>1, <3>1, <3>2 DEF PlaceInv
  <2>4. CASE op' # op
    BY <2>1, <2>2, <2>4 DEF PlaceInv, Nested
  <2> QED BY <2>3, <2>4
<1>4. CASE AllocateIndex
  BY <1>0, <1>4 DEF AllocateIndex, PlaceInv, Nested, OpType
<1>5. CASE PrepareRetry
  BY <1>5 DEF PrepareRetry, PlaceInv, Nested, NoOp, metadata
<1>6. CASE PrepareDone
  BY <1>0, <1>6 DEF PrepareDone, PlaceInv, Nested, OpType
<1>7. CASE Fetch
  BY <1>0, <1>7 DEF Fetch, PlaceInv, Nested, OpType, metadata
<1>8. CASE Replay
  BY <1>0, <1>8 DEF Replay, PlaceInv, Nested, OpType, metadata
<1>9. CASE ReplayDone
  BY <1>0, <1>9 DEF ReplayDone, PlaceInv, Nested, OpType, metadata
<1>10. CASE Install
  BY <1>0, <1>10 DEF Install, PlaceInv, Nested, OpType, metadata
<1>11. CASE RebalancePublish
  <2>1. op.node \in Node /\ replicas \in Seq(Node)
    BY <1>11 DEF RebalancePublish, Inv, LogAndTableAgree, OpInv, TypeOK
  <2>2. Members(replicas') = Members(replicas) \cup {op.node}
          /\ Len(replicas') = Len(replicas) + 1
    BY <1>11, <2>1 DEF RebalancePublish, Members
  <2>3. /\ pc' = "configure" /\ op'.todo = Members(replicas) \cup {op.node}
        /\ op'.got = {} /\ op'.pending = {} /\ op'.then = "idle"
    BY <1>11 DEF RebalancePublish, NoOp
  <2> QED BY <2>1, <2>2, <2>3, ClusterAssumption DEF PlaceInv, Nested
<1> QED BY <1>1, <1>2, <1>3, <1>4, <1>5, <1>6, <1>7, <1>8, <1>9, <1>10, <1>11

\* Steps that concern one node.
LEMMA PlaceNode ==
  ASSUME Inv, PlaceInv, NEW n \in Node, NodeStep(n)
  PROVE  PlaceInv'
<1>0. op \in OpType /\ replicas \in Seq(Node)
  BY DEF Inv, TypeOK
<1>1. CASE \/ PartitionNode(n) \/ HealNode(n) \/ Crash(n) \/ CrashInHandler(n)
           \/ CrashInRecovery(n) \/ RebalanceRefused(n)
  BY <1>1 DEF PartitionNode, HealNode, Crash, CrashInHandler, CrashInRecovery,
              RebalanceRefused, PlaceInv, Nested, metadata
<1>2. CASE Configure(n) \/ Prepare(n) \/ PrepareFails(n) \/ Commit(n) \/ CommitLost(n)
             \/ CommitFails(n)
  <2>1. /\ pc' = pc /\ UNCHANGED replicas /\ n \in op.todo
        /\ \/ op' = [op EXCEPT !.todo = op.todo \ {n}]
           \/ op' = [op EXCEPT !.todo = op.todo \ {n}, !.got = op.got \cup {n}]
    BY <1>2 DEF Configure, Prepare, PrepareFails, Commit, CommitLost, CommitFails, metadata
  <2>2. /\ op'.todo \subseteq op.todo /\ op'.got \subseteq op.got \cup {n}
        /\ op'.pending = op.pending /\ op'.then = op.then /\ op'.node = op.node
    BY <1>0, <2>1 DEF OpType
  <2> QED BY <2>1, <2>2 DEF PlaceInv, Nested
<1>3. CASE ConfigureFails(n)
  BY <1>3, OverPlace DEF ConfigureFails, Raise, metadata
<1>4. CASE CatchUpCall(n) \/ RestartNode(n)
  BY <1>4 DEF CatchUpCall, RestartNode, PlaceInv, Nested, NoOp, metadata
<1>5. CASE CatchUpNode(n)
  BY <1>0, <1>5 DEF CatchUpNode, PlaceInv, Nested, OpType, metadata
<1>6. CASE RebalanceConfigure(n)
  BY <1>6 DEF RebalanceConfigure, RebalanceStart, PlaceInv, Nested, NoOp, metadata
<1> QED BY <1>1, <1>2, <1>3, <1>4, <1>5, <1>6 DEF NodeStep

\* Every step keeps the operation within the placement.
LEMMA PlaceNext ==
  ASSUME Inv, PlaceInv, [Next]_vars
  PROVE  PlaceInv'
<1>1. CASE UNCHANGED vars
  BY <1>1 DEF vars, metadata, PlaceInv, Nested
<1>2. CASE CoordinatorStep
  BY <1>2, PlaceEnds, PlaceInside DEF CoordinatorStep
<1> QED BY <1>1, <1>2, PlaceNode DEF Next

-----------------------------------------------------------------------------
(***************************************************************************)
(* What a step does to one replica.                                        *)
(***************************************************************************)
\* A shard stays as it is; journals an issued entry; runs some of the writes of
\* commit, and all of them if its process survives; is opened; is configured; or,
\* outside the placement, receives a snapshot.
Rests(n) == disk'[n] = disk[n] /\ (proc'[n] = "serving" => proc[n] = "serving")

Journals(n) ==
  /\ proc[n] = "serving"
  /\ \E e \in issued : disk'[n] = JournalPrepare(disk[n], e)

Commits(n) ==
  /\ proc[n] = "serving"
  /\ \E e \in issued : \E i \in 1..Len(CommitSteps(disk[n], e)) :
       /\ disk'[n] = CommitSteps(disk[n], e)[i]
       /\ proc'[n] = "serving" => i = Len(CommitSteps(disk[n], e))

Opens(n) ==
  /\ disk'[n] \in {Recovered(disk[n])} \cup RecoverySteps(disk[n])
  /\ proc'[n] = "serving" => disk'[n] = Recovered(disk[n]) /\ ~RecoveryRaises(disk[n])

Configures(n) ==
  \E p \in {placement_epoch, placement_epoch + 1} :
    /\ p # placement_epoch => n \notin Members(replicas)
    /\ proc[n] # "down" /\ ~OpenRaises(n) /\ ConfigureAccepts(Opened(n), term, p)
    /\ disk'[n] = Configured(Opened(n), term, p)

Installs(n) ==
  /\ n \notin Members(replicas) /\ pc = "install"
  /\ disk'[n] = Installed(disk[op.source], term, placement_epoch + 1)

Moves(n) ==
  Rests(n) \/ Journals(n) \/ Commits(n) \/ Opens(n) \/ Configures(n) \/ Installs(n)

\* Only the disk of n changes, and no other process opens its shard.
LEMMA OneMoves ==
  ASSUME Inv, NEW n \in Node, NEW D, disk' = [disk EXCEPT ![n] = D],
         \A m \in Node \ {n} : proc'[m] = "serving" => proc[m] = "serving",
         Moves(n)
  PROVE  \A m \in Node : Moves(m)
<1>1. \A m \in Node \ {n} : disk'[m] = disk[m]
  BY DEF Inv, TypeOK
<1>2. \A m \in Node \ {n} : Rests(m)
  BY <1>1 DEF Rests
<1> QED BY <1>2 DEF Moves

\* No disk changes and no process opens its shard.
LEMMA NoneMoves ==
  ASSUME disk' = disk, \A n \in Node : proc'[n] = "serving" => proc[n] = "serving"
  PROVE  \A n \in Node : Moves(n)
BY DEF Moves, Rests

\* An operation that raises starts no process.
LEMMA RaiseProc ==
  ASSUME Inv, Raise
  PROVE  \A n \in Node : proc'[n] \in {proc[n], "down"}
BY DEF Raise, AllDown, Inv, TypeOK

\* Coordinator steps that touch no disk.
LEMMA StillMoves ==
  ASSUME Inv, disk' = disk,
         \/ proc' = proc \/ Raise \/ proc' = AllDown \/ proc' = [n \in Node |-> "up"]
         \/ \E m \in Node : proc' \in {[proc EXCEPT ![m] = "down"], [proc EXCEPT ![m] = "up"]}
  PROVE  \A n \in Node : Moves(n)
<1>1. \A n \in Node : proc'[n] = "serving" => proc[n] = "serving"
  <2>1. CASE Raise
    BY <2>1, RaiseProc
  <2>2. CASE proc' = proc \/ proc' = AllDown \/ proc' = [n \in Node |-> "up"]
    BY <2>2 DEF AllDown
  <2>3. CASE \E m \in Node : proc' \in {[proc EXCEPT ![m] = "down"], [proc EXCEPT ![m] = "up"]}
    BY <2>3 DEF Inv, TypeOK
  <2> QED BY <2>1, <2>2, <2>3
<1> QED BY <1>1, NoneMoves

\* The handlers of prepare and commit, called in a loop or by catch_up.
LEMMA HandlerMoves ==
  ASSUME Inv, NEW n \in Node, NEW e \in issued, e \in Entry, proc[n] = "serving",
         \/ disk' = [disk EXCEPT ![n] = JournalPrepare(disk[n], e)]
         \/ disk' = [disk EXCEPT ![n] = Last(CommitSteps(disk[n], e))]
         \/ disk' = disk,
         proc' = proc \/ Raise
  PROVE  \A m \in Node : Moves(m)
<1>1. \A m \in Node : proc'[m] = "serving" => proc[m] = "serving"
  BY RaiseProc
<1>2. disk \in [Node -> Disk]
  BY DEF Inv, TypeOK
<1>3. CASE disk' = [disk EXCEPT ![n] = JournalPrepare(disk[n], e)]
  <2>1. Journals(n)
    BY <1>2, <1>3 DEF Journals
  <2> QED BY <1>1, <1>3, <2>1, OneMoves DEF Moves
<1>4. CASE disk' = [disk EXCEPT ![n] = Last(CommitSteps(disk[n], e))]
  <2>1. Len(CommitSteps(disk[n], e)) \in {3, 4, 6}
    BY DEF CommitSteps
  <2> DEFINE k == Len(CommitSteps(disk[n], e))
  <2>d. k \in {3, 4, 6} /\ disk'[n] = CommitSteps(disk[n], e)[k]
    BY <1>2, <1>4, <2>1 DEF Last
  <2> HIDE DEF k
  <2>k. k \in 1..k
    BY <2>d
  <2>2. Commits(n)
    <3>1. /\ disk'[n] = CommitSteps(disk[n], e)[k]
          /\ proc'[n] = "serving" => k = Len(CommitSteps(disk[n], e))
          /\ k \in 1..Len(CommitSteps(disk[n], e))
      BY <2>k, <2>d DEF k
    <3>2. \E i \in 1..Len(CommitSteps(disk[n], e)) :
             /\ disk'[n] = CommitSteps(disk[n], e)[i]
             /\ proc'[n] = "serving" => i = Len(CommitSteps(disk[n], e))
      BY ONLY <3>1
    <3> QED BY <3>2 DEF Commits
  <2> QED BY <1>1, <1>4, <2>2, OneMoves DEF Moves
<1>5. CASE disk' = disk
  BY <1>1, <1>5, NoneMoves
<1> QED BY <1>3, <1>4, <1>5

\* Every step of the coordinator alone.
LEMMA CoordinatorMoves ==
  ASSUME Inv, PlaceInv, CoordinatorStep
  PROVE  \A n \in Node : Moves(n)
<1>1. CASE \/ Open \/ Close \/ (\E c \in Calls : Write(c))
           \/ BeginConflict \/ BeginReturn \/ BeginRetry \/ BeginNew
           \/ Elect \/ ElectFails \/ ConfigureDone
           \/ AllocateIndex \/ PrepareRetry \/ PrepareAborts \/ PrepareDone
           \/ CommitAborts \/ CommitDone
           \/ CatchUpDone \/ Fetch \/ FetchFails \/ ReplayDone \/ RebalancePublish
           \/ PowerLoss
  <2>1. disk' = disk
    BY <1>1 DEF Open, Close, Write, BeginConflict, BeginReturn, BeginRetry, BeginNew,
                Elect, ElectFails, ConfigureDone, AllocateIndex, PrepareRetry,
                PrepareAborts, PrepareDone, CommitAborts, CommitDone, CatchUpDone, Fetch,
                FetchFails, ReplayDone, RebalancePublish, PowerLoss, processes
  <2>2. proc' = proc \/ Raise \/ proc' = AllDown \/ proc' = [n \in Node |-> "up"]
    BY <1>1 DEF Open, Close, Write, BeginConflict, BeginReturn, BeginRetry, BeginNew,
                Elect, ElectFails, ConfigureDone, AllocateIndex, PrepareRetry,
                PrepareAborts, PrepareDone, CommitAborts, CommitDone, CatchUpDone, Fetch,
                FetchFails, ReplayDone, RebalancePublish, PowerLoss, processes
  <2> QED BY <2>1, <2>2, StillMoves
<1>2. CASE FetchInterrupted
  <2>1. QueryReplica \in Node /\ disk' = disk
    BY <1>2, QueryReplicaFacts DEF FetchInterrupted
  <2>2. proc' = AllDown \/ proc' = [proc EXCEPT ![QueryReplica] = "down"]
    BY <1>2 DEF FetchInterrupted
  <2> QED BY <2>1, <2>2, StillMoves
<1>3. CASE Replay \/ ReplayFails \/ ReplayLost
  <2>1. op.node \in Node /\ op.queue # {}
    BY <1>3 DEF Replay, ReplayFails, ReplayLost, Inv, LogAndTableAgree, OpInv
  <2>2. NextEntry \in issued /\ NextEntry \in Entry
    BY <2>1, NextEntryFacts
  <2>3. /\ proc' = proc \/ Raise
        /\ disk' = [disk EXCEPT ![op.node] = Last(CommitSteps(disk[op.node], NextEntry))]
             \/ disk' = disk
        /\ SendAccepted \/ disk' = disk
    BY <1>3 DEF Replay, ReplayFails, ReplayLost
  <2>4. CASE SendAccepted
    BY <2>1, <2>2, <2>3, <2>4, HandlerMoves DEF SendAccepted, Serving
  <2>5. CASE disk' = disk
    BY <2>3, <2>5, StillMoves
  <2> QED BY <2>3, <2>4, <2>5
<1>4. CASE Install \/ InstallFails
  <2>1. /\ proc' = proc \/ Raise
        /\ pc = "install"
        /\ disk' = disk \/ disk' = [disk EXCEPT ![op.node] =
                            Installed(disk[op.source], term, placement_epoch + 1)]
    BY <1>4 DEF Install, InstallFails
  <2>2. op.node \in Node \ Members(replicas)
    BY <2>1 DEF Inv, LogAndTableAgree, OpInv, PlaceInv
  <2>3. CASE disk' = disk
    BY <2>1, <2>3, StillMoves
  <2>4. CASE disk' # disk
    <3>1. Installs(op.node)
      BY <2>1, <2>2, <2>4 DEF Installs, Inv, TypeOK
    <3> QED BY <2>1, <2>2, <2>4, <3>1, OneMoves, RaiseProc DEF Moves
  <2> QED BY <2>3, <2>4
<1> QED BY <1>1, <1>2, <1>3, <1>4 DEF CoordinatorStep

\* A process that dies inside a handler.
LEMMA CrashMoves ==
  ASSUME Inv, NEW n \in Node, CrashInHandler(n) \/ CrashInRecovery(n)
  PROVE  \A m \in Node : Moves(m)
<1>0. disk \in [Node -> Disk] /\ proc \in [Node -> {"down", "up", "serving"}]
  BY DEF Inv, TypeOK
<1>1. proc' = [proc EXCEPT ![n] = "down"]
  BY DEF CrashInHandler, CrashInRecovery
<1>2. proc'[n] = "down" /\ \A m \in Node \ {n} : proc'[m] = proc[m]
  BY <1>0, <1>1
<1>3. CASE CrashInHandler(n)
  <2>1. PICK i \in 2..Len(HandlerSteps(n)) :
          disk' = [disk EXCEPT ![n] = HandlerSteps(n)[i]]
    BY <1>3 DEF CrashInHandler
  <2>2. proc[n] = "serving" /\ disk'[n] = HandlerSteps(n)[i]
    BY <1>0, <1>3, <2>1 DEF CrashInHandler, Serving
  <2>3. CASE HandlerSteps(n) = PrepareSteps(disk[n], CallEntry) /\ pc = "prepare"
    <3>1. i = 2
      BY <2>1, <2>3 DEF PrepareSteps
    <3>2. Journals(n)
      BY <2>2, <2>3, <3>1, CallEntryFacts DEF PrepareSteps, Journals
    <3> QED BY <1>2, <2>1, <3>2, OneMoves DEF Moves
  <2>4. CASE HandlerSteps(n) = CommitSteps(disk[n], CallEntry) /\ pc = "commit"
    <3>1. CallEntry \in issued /\ i \in 1..Len(CommitSteps(disk[n], CallEntry))
      BY <2>1, <2>4, CallEntryFacts
    <3>2. Commits(n)
      BY <1>2, <2>2, <2>4, <3>1 DEF Commits
    <3> QED BY <1>2, <2>1, <3>2, OneMoves DEF Moves
  <2>5. CASE HandlerSteps(n) = CommitSteps(disk[n], NextEntry) /\ op.queue # {}
    <3>1. NextEntry \in issued /\ i \in 1..Len(CommitSteps(disk[n], NextEntry))
      BY <2>1, <2>5, NextEntryFacts
    <3>2. Commits(n)
      BY <1>2, <2>2, <2>5, <3>1 DEF Commits
    <3> QED BY <1>2, <2>1, <3>2, OneMoves DEF Moves
  <2>6. CASE HandlerSteps(n) = <<disk[n]>>
    BY <2>1, <2>6
  <2> QED BY <2>3, <2>4, <2>5, <2>6 DEF HandlerSteps
<1>4. CASE CrashInRecovery(n)
  <2>1. PICK d \in RecoverySteps(disk[n]) : disk' = [disk EXCEPT ![n] = d]
    BY <1>4 DEF CrashInRecovery
  <2>2. Opens(n)
    BY <1>0, <1>2, <2>1 DEF Opens
  <2> QED BY <1>2, <2>1, <2>2, OneMoves DEF Moves
<1> QED BY <1>3, <1>4

\* configure, of a replica or of the target of a rebalance.
LEMMA ConfigureMoves ==
  ASSUME Inv, PlaceInv, NEW n \in Node,
         Configure(n) \/ ConfigureFails(n) \/ RebalanceConfigure(n) \/ RebalanceRefused(n)
  PROVE  \A m \in Node : Moves(m)
<1>0. disk \in [Node -> Disk] /\ proc \in [Node -> {"down", "up", "serving"}]
        /\ placement_epoch \in Nat
  BY DEF Inv, TypeOK
<1>1. CASE Configure(n) \/ RebalanceConfigure(n)
  <2>1. Configures(n)
    BY <1>0, <1>1 DEF Configure, RebalanceConfigure, RebalanceStart, Reachable, Configures
  <2>2. \A m \in Node \ {n} : proc'[m] = proc[m]
    BY <1>0, <1>1 DEF Configure, RebalanceConfigure
  <2>3. \E D : disk' = [disk EXCEPT ![n] = D]
    BY <1>1 DEF Configure, RebalanceConfigure
  <2> QED BY <2>1, <2>2, <2>3, OneMoves DEF Moves
<1>2. CASE ConfigureFails(n) \/ RebalanceRefused(n)
  <2>1. /\ \A m \in Node \ {n} : proc'[m] = "serving" => proc[m] = "serving"
        /\ proc'[n] = "serving" => proc[n] = "serving" \/ ~OpenRaises(n)
    BY <1>0, <1>2, RaiseProc DEF ConfigureFails, RebalanceRefused
  <2>2. disk' = disk \/ disk' = [disk EXCEPT ![n] = Opened(n)]
    BY <1>2 DEF ConfigureFails, RebalanceRefused
  <2>3. proc[n] # "down" \/ (disk' = disk /\ proc'[n] \in {proc[n], "down"})
    BY <1>0, <1>2, RaiseProc DEF ConfigureFails, RebalanceRefused, RebalanceStart, Reachable
  <2>4. Moves(n)
    <3>1. CASE proc[n] = "up"
      <4>1. ConfigureFails(n) => proc'[n] # "serving"
        BY <3>1, RaiseProc DEF ConfigureFails
      <4>2. CASE disk' = disk /\ proc'[n] # "serving"
        BY <4>2 DEF Moves, Rests
      <4>3. CASE disk' = [disk EXCEPT ![n] = Opened(n)]
        <5>1. disk'[n] = Recovered(disk[n])
          BY <1>0, <3>1, <4>3 DEF Opened
        <5>2. Opens(n)
          BY <2>1, <3>1, <5>1 DEF Opens, OpenRaises
        <5> QED BY <5>2 DEF Moves
      <4> QED BY <1>2, <2>2, <4>1, <4>2, <4>3 DEF RebalanceRefused
    <3>2. CASE proc[n] = "serving"
      BY <1>0, <2>2, <3>2 DEF Moves, Rests, Opened
    <3>3. CASE proc[n] = "down"
      BY <2>3, <3>3 DEF Moves, Rests
    <3> QED BY <1>0, <3>1, <3>2, <3>3
  <2>5. CASE disk' = disk
    BY <2>1, <2>4, <2>5 DEF Moves, Rests
  <2>6. CASE disk' = [disk EXCEPT ![n] = Opened(n)]
    BY <2>1, <2>4, <2>6, OneMoves
  <2> QED BY <2>2, <2>5, <2>6
<1> QED BY <1>1, <1>2

\* Every step of one replica.
LEMMA NodeMoves ==
  ASSUME Inv, PlaceInv, NEW n \in Node, NodeStep(n)
  PROVE  \A m \in Node : Moves(m)
<1>0. disk \in [Node -> Disk] /\ proc \in [Node -> {"down", "up", "serving"}]
  BY DEF Inv, TypeOK
<1>1. CASE Prepare(n)
  <2>1. /\ CallEntry \in issued /\ CallEntry \in Entry /\ proc[n] = "serving" /\ proc' = proc
        /\ disk' = [disk EXCEPT ![n] = JournalPrepare(disk[n], CallEntry)]
    BY <1>1, CallEntryFacts DEF Prepare, Serving
  <2> QED BY <2>1, HandlerMoves
<1>2. CASE Commit(n) \/ CommitLost(n) \/ CommitFails(n)
  <2>1. /\ CallEntry \in issued /\ CallEntry \in Entry /\ proc' = proc
        /\ disk' = disk \/ (proc[n] = "serving" /\
             disk' = [disk EXCEPT ![n] = Last(CommitSteps(disk[n], CallEntry))])
    BY <1>2, CallEntryFacts DEF Commit, CommitLost, CommitFails, Serving
  <2> QED BY <2>1, HandlerMoves, StillMoves
<1>3. CASE PrepareFails(n) \/ CatchUpCall(n) \/ CatchUpNode(n) \/ PartitionNode(n)
             \/ HealNode(n)
  BY <1>3, StillMoves DEF PrepareFails, CatchUpCall, CatchUpNode, PartitionNode, HealNode,
                          processes
<1>4. CASE RestartNode(n) \/ Crash(n)
  BY <1>4, StillMoves DEF RestartNode, Crash
<1> QED BY <1>1, <1>2, <1>3, <1>4, ConfigureMoves, CrashMoves DEF NodeStep

\* Every step of the cluster changes every replica in one of the six ways.
LEMMA NextMoves ==
  ASSUME Inv, PlaceInv, [Next]_vars
  PROVE  \A n \in Node : Moves(n)
<1>1. CASE UNCHANGED vars
  BY <1>1, NoneMoves DEF vars, processes
<1>2. CASE CoordinatorStep
  BY <1>2, CoordinatorMoves
<1> QED BY <1>1, <1>2, NodeMoves DEF Next

-----------------------------------------------------------------------------
(***************************************************************************)
(* The collections.                                                        *)
(***************************************************************************)
\* Every disk is sound, an open shard is settled, and so is the source of a
\* rebalance between its export and the installation.
ShardInv ==
  /\ \A n \in Node : Sound(disk[n], issued)
  /\ \A n \in Node : proc[n] = "serving" => Settled(disk[n])
  /\ pc = "install" => Settled(disk[op.source])

\* What Inv says of a disk, in the form the handlers' lemmas use.
LEMMA DiskContext ==
  ASSUME Inv
  PROVE  /\ Log(issued) /\ last_log_index \in Nat
         /\ \A e \in issued : e.index <= last_log_index
         /\ \A n \in Node : /\ disk[n] \in Disk /\ disk[n].prepared \subseteq issued
                            /\ \A e \in disk[n].prepared : e.index <= last_log_index
                            /\ disk[n].applied_index <= last_log_index
BY DEF Inv, TypeOK, LogAndTableAgree, LogInv, Log

\* What configure finds on a process that runs is sound, settled and no older.
LEMMA OpenedSound ==
  ASSUME Inv, ShardInv, NEW n \in Node, proc[n] # "down", ~OpenRaises(n)
  PROVE  /\ Opened(n) \in Disk /\ Sound(Opened(n), issued) /\ Settled(Opened(n))
         /\ Opened(n).applied_index >= disk[n].applied_index
         /\ Opened(n).prepared = disk[n].prepared
         /\ Opened(n).committed = disk[n].committed
<1>0. /\ proc[n] \in {"up", "serving"} /\ disk[n] \in Disk /\ disk[n].applied_index \in Nat
      /\ Sound(disk[n], issued)
  BY DEF Inv, TypeOK, Disk, ShardInv
<1>1. CASE proc[n] = "serving"
  BY <1>0, <1>1 DEF Opened, ShardInv
<1>2. CASE proc[n] = "up"
  <2>1. Opened(n) = Recovered(disk[n]) /\ ~RecoveryRaises(disk[n])
    BY <1>2 DEF Opened, OpenRaises
  <2>2. Sound(Recovered(disk[n]), issued) /\ Settled(Recovered(disk[n]))
          /\ Recovered(disk[n]).applied_index >= disk[n].applied_index
    BY <1>0, <2>1, DiskContext, RecoverySound
  <2>3. Recovered(disk[n]) \in Disk /\ Recovered(disk[n]).prepared = disk[n].prepared
          /\ Recovered(disk[n]).committed = disk[n].committed
    BY <1>0, <2>1, DiskContext, RecoveredFacts
  <2> QED BY <2>1, <2>2, <2>3
<1> QED BY <1>0, <1>1, <1>2

\* Configuring leaves the collection and the journal alone.
LEMMA ConfiguredSound ==
  ASSUME NEW d \in Disk, NEW log, NEW t \in Nat, NEW p \in Nat
  PROVE  /\ Sound(d, log) => Sound(Configured(d, t, p), log)
         /\ Settled(d) => Settled(Configured(d, t, p))
<1> DEFINE D == Configured(d, t, p)
<1>1. /\ D \in Disk /\ D.prepared = d.prepared /\ D.committed = d.committed
      /\ D.applied_index = d.applied_index /\ D.done = d.done /\ D.content = d.content
  BY DEF Configured, Disk
<1> HIDE DEF D
<1>2. (Sound(d, log) => Sound(D, log)) /\ (Settled(d) => Settled(D))
  BY <1>1, SoundFields
<1> QED BY <1>2 DEF D

\* A snapshot of a settled shard is a settled shard with an empty journal.
LEMMA InstalledSound ==
  ASSUME NEW d \in Disk, NEW log, NEW t \in Nat, NEW p \in Nat,
         Sound(d, log), Settled(d)
  PROVE  Sound(Installed(d, t, p), log) /\ Settled(Installed(d, t, p))
<1> DEFINE D == Installed(d, t, p)
<1>1. /\ D \in Disk /\ D.prepared = {} /\ D.committed = {}
      /\ D.applied_index = d.applied_index /\ D.done = d.done /\ D.content = d.content
  BY DEF Installed, Disk
<1> HIDE DEF D
<1>2. Unreplayed(D) = {}
  BY <1>1 DEF Unreplayed, CommittedAfter
<1>3. Settled(D) /\ Marked(D)
  BY <1>1, <1>2 DEF Settled, Marked
<1>4. Ahead(D)
  BY <1>1, <1>3, UnreplayedFacts DEF Ahead, Settled
<1>5. Newest(D, log)
  BY <1>1 DEF Sound, Newest
<1> QED BY <1>3, <1>4, <1>5 DEF Sound, D

\* However a step changes a disk, the disk stays sound, and settled while it serves.
LEMMA MovesSound ==
  ASSUME Inv, PlaceInv, ShardInv, NEW n \in Node, Moves(n)
  PROVE  Sound(disk'[n], issued) /\ (proc'[n] = "serving" => Settled(disk'[n]))
<1>0. /\ disk[n] \in Disk /\ disk[n].prepared \subseteq issued /\ Log(issued)
      /\ last_log_index \in Nat /\ (\A e \in disk[n].prepared : e.index <= last_log_index)
      /\ disk[n].applied_index <= last_log_index
  BY DiskContext
<1>1. Sound(disk[n], issued) /\ (proc[n] = "serving" => Settled(disk[n]))
  BY DEF ShardInv
<1>2. CASE Rests(n)
  BY <1>1, <1>2 DEF Rests
<1>3. CASE Journals(n)
  BY <1>0, <1>1, <1>3, PrepareSound DEF Journals
<1>4. CASE Commits(n)
  <2>1. PICK e \in issued : \E i \in 1..Len(CommitSteps(disk[n], e)) :
          /\ disk'[n] = CommitSteps(disk[n], e)[i]
          /\ proc'[n] = "serving" => i = Len(CommitSteps(disk[n], e))
    BY <1>4 DEF Commits
  <2>2. PICK i \in 1..Len(CommitSteps(disk[n], e)) :
          /\ disk'[n] = CommitSteps(disk[n], e)[i]
          /\ proc'[n] = "serving" => i = Len(CommitSteps(disk[n], e))
    BY <2>1
  <2>3. proc[n] = "serving"
    BY <1>4 DEF Commits
  <2> QED BY <1>0, <1>1, <2>1, <2>2, <2>3, CommitSound
<1>5. CASE Opens(n)
  BY <1>0, <1>1, <1>5, RecoverySound DEF Opens
<1>6. CASE Configures(n)
  <2>1. term \in Nat /\ placement_epoch \in Nat /\ placement_epoch + 1 \in Nat
    BY DEF Inv, TypeOK
  <2>2. PICK p \in Nat : /\ proc[n] # "down" /\ ~OpenRaises(n)
                         /\ disk'[n] = Configured(Opened(n), term, p)
    BY <1>6, <2>1 DEF Configures
  <2>3. Opened(n) \in Disk /\ Sound(Opened(n), issued) /\ Settled(Opened(n))
    BY <2>2, OpenedSound
  <2> QED BY <2>1, <2>2, <2>3, ConfiguredSound
<1>7. CASE Installs(n)
  <2>1. term \in Nat /\ placement_epoch + 1 \in Nat
    BY DEF Inv, TypeOK
  <2>2. /\ pc = "install"
        /\ disk'[n] = Installed(disk[op.source], term, placement_epoch + 1)
    BY <1>7 DEF Installs
  <2>3. op.source \in Node /\ Settled(disk[op.source])
    BY <2>2 DEF Inv, LogAndTableAgree, OpInv, ShardInv
  <2>4. disk[op.source] \in Disk /\ Sound(disk[op.source], issued)
    BY <2>3, DiskContext DEF ShardInv
  <2> QED BY <2>1, <2>2, <2>3, <2>4, InstalledSound
<1> QED BY <1>2, <1>3, <1>4, <1>5, <1>6, <1>7 DEF Moves

\* A newly issued entry is in no collection yet.
LEMMA IssuedGrows ==
  ASSUME Inv, ShardInv, AllocateIndex, NEW n \in Node
  PROVE  Sound(disk[n], issued')
<1>1. /\ disk[n] \in Disk /\ Sound(disk[n], issued) /\ disk[n].prepared \subseteq issued
      /\ disk[n].applied_index <= last_log_index /\ last_log_index \in Nat
      /\ \A e \in issued : e.index <= last_log_index
  BY DiskContext DEF ShardInv
<1>2. \A i \in disk[n].done : i <= last_log_index
  <2> SUFFICES ASSUME NEW i \in disk[n].done PROVE i <= last_log_index
    OBVIOUS
  <2>1. CASE i > disk[n].applied_index
    <3>1. PICK e \in Unreplayed(disk[n]) : e.index = i
      BY <1>1, <2>1 DEF Sound, Ahead
    <3>2. e \in issued
      BY <1>1, <3>1, UnreplayedFacts
    <3> QED BY <1>1, <3>1, <3>2
  <2> QED BY <1>1, <2>1, UnreplayedFacts
<1> DEFINE e == [index |-> last_log_index + 1, req |-> op.call[1], mut |-> op.call[2]]
<1>3. issued' = issued \cup {e} /\ e.index = last_log_index + 1
  BY DEF AllocateIndex
<1> HIDE DEF e
<1>4. e.index \notin disk[n].done
  BY <1>1, <1>2, <1>3
<1>5. \A k \in Key : {f \in issued' : f.index \in disk[n].done /\ KeyOf[f.mut] = k}
                       = {f \in issued : f.index \in disk[n].done /\ KeyOf[f.mut] = k}
  BY <1>3, <1>4
<1>6. Newest(disk[n], issued')
  BY <1>1, <1>5 DEF Sound, Newest
<1> QED BY <1>1, <1>6 DEF Sound

\* Entries are issued by AllocateIndex only, which touches no disk.
LEMMA IssuedStep ==
  ASSUME [Next]_vars
  PROVE  issued' = issued \/ (AllocateIndex /\ disk' = disk)
<1>1. CASE UNCHANGED vars
  BY <1>1 DEF vars, history
<1>2. CASE CoordinatorStep
  BY <1>2 DEF CoordinatorStep, Open, Close, Write, BeginConflict, BeginReturn, BeginRetry,
     BeginNew, Elect, ElectFails, ConfigureDone, AllocateIndex, PrepareRetry,
     PrepareAborts, PrepareDone, CommitAborts, CommitDone, CatchUpDone, Fetch, FetchFails,
     FetchInterrupted, Replay, ReplayFails, ReplayLost, ReplayDone, Install, InstallFails,
     RebalancePublish, PowerLoss, history, processes
<1>3. ASSUME NEW n \in Node, NodeStep(n) PROVE issued' = issued
  BY <1>3 DEF NodeStep, Configure, ConfigureFails, Prepare, PrepareFails, Commit,
     CommitLost, CommitFails, CatchUpCall, RestartNode, CatchUpNode, RebalanceConfigure,
     RebalanceRefused, PartitionNode, HealNode, Crash, CrashInHandler, CrashInRecovery,
     history
<1> QED BY <1>1, <1>2, <1>3 DEF Next

\* The source of a rebalance does not change before the snapshot is installed.
LEMMA SourceStep ==
  ASSUME Inv, PlaceInv, ShardInv, [Next]_vars, pc' = "install"
  PROVE  Settled(disk'[op'.source])
<1>0. disk \in [Node -> Disk]
  BY DEF Inv, TypeOK
<1>1. CASE UNCHANGED vars
  BY <1>1 DEF vars, processes, ShardInv
<1>2. CASE CoordinatorStep
  <2>1. pc' # "install"
    <3>1. CASE ConfigureDone
      BY <3>1 DEF ConfigureDone, Inv, LogAndTableAgree, OpInv
    <3>2. CASE ~ConfigureDone
      BY <1>2, <3>2 DEF CoordinatorStep, Open, Close, Write, BeginConflict, BeginReturn,
         BeginRetry, BeginNew, Elect, ElectFails, AllocateIndex, PrepareRetry,
         PrepareAborts, PrepareDone, CommitAborts, CommitDone, CatchUpDone, Fetch,
         FetchFails, FetchInterrupted, Replay, ReplayFails, ReplayLost, ReplayDone,
         Install, InstallFails, RebalancePublish, PowerLoss, Raise
    <3> QED BY <3>1, <3>2
  <2> QED BY <2>1
<1>3. ASSUME NEW n \in Node, NodeStep(n) PROVE Settled(disk'[op'.source])
  <2>1. CASE RebalanceConfigure(n)
    <3>1. /\ CaughtUp # {} /\ n \notin Members(replicas)
          /\ op'.source = QueryReplica
      BY <2>1 DEF RebalanceConfigure, RebalanceStart, NoOp
    <3>2. QueryReplica \in CaughtUp
      <4>1. CaughtUp \cap Members(replicas) # {} /\ replicas \in Seq(Node)
        BY <3>1 DEF CaughtUp, Inv, TypeOK
      <4>2. FirstListed(CaughtUp) \in CaughtUp
        BY <4>1, FirstListedFacts
      <4> QED BY <4>2 DEF QueryReplica
    <3>3. QueryReplica \in Node /\ QueryReplica # n /\ proc[QueryReplica] = "serving"
      BY <3>1, <3>2, QueryReplicaFacts DEF CaughtUp, Serving
    <3>4. disk'[QueryReplica] = disk[QueryReplica]
      BY <1>0, <2>1, <3>3 DEF RebalanceConfigure
    <3> QED BY <3>1, <3>3, <3>4 DEF ShardInv
  <2>2. CASE ~RebalanceConfigure(n)
    <3>1. pc = "install" /\ op' = op
      BY <1>3, <2>2 DEF NodeStep, Configure, ConfigureFails, Prepare, PrepareFails, Commit,
         CommitLost, CommitFails, CatchUpCall, RestartNode, CatchUpNode, RebalanceRefused,
         RebalanceStart, PartitionNode, HealNode, Crash, CrashInHandler, CrashInRecovery,
         Raise
    <3>2. disk' = disk
      <4>1. CASE CrashInHandler(n)
        <5>1. HandlerSteps(n) = <<disk[n]>>
          BY <3>1 DEF HandlerSteps
        <5> QED BY <4>1, <5>1 DEF CrashInHandler
      <4>2. CASE ~CrashInHandler(n)
        BY <1>3, <2>2, <3>1, <4>2 DEF NodeStep, Configure, ConfigureFails, Prepare,
           PrepareFails, Commit, CommitLost, CommitFails, CatchUpCall, RestartNode,
           CatchUpNode, RebalanceRefused, RebalanceStart, PartitionNode, HealNode, Crash,
           CrashInRecovery, processes
      <4> QED BY <4>1, <4>2
    <3> QED BY <3>1, <3>2 DEF ShardInv
  <2> QED BY <2>1, <2>2
<1> QED BY <1>1, <1>2, <1>3 DEF Next

\* The first disks are empty.
LEMMA ShardInit == Init => ShardInv
<1> SUFFICES ASSUME Init PROVE ShardInv
  OBVIOUS
<1>1. /\ EmptyDisk.prepared = {} /\ EmptyDisk.committed = {} /\ EmptyDisk.done = {}
      /\ \A k \in Key : EmptyDisk.content[k] = NoMutation
  BY DEF EmptyDisk
<1>2. Sound(EmptyDisk, {})
  BY <1>1 DEF Sound, Marked, Ahead, Newest
<1> QED BY <1>2 DEF Init, ShardInv

\* Every step keeps the collections as their journals say.
LEMMA ShardNext ==
  ASSUME Inv, PlaceInv, ShardInv, [Next]_vars
  PROVE  ShardInv'
<1>1. \A n \in Node : Sound(disk'[n], issued) /\ (proc'[n] = "serving" => Settled(disk'[n]))
  BY NextMoves, MovesSound
<1>2. \A n \in Node : Sound(disk'[n], issued')
  BY <1>1, IssuedStep, IssuedGrows
<1>3. pc' = "install" => Settled(disk'[op'.source])
  BY SourceStep
<1> QED BY <1>1, <1>2, <1>3 DEF ShardInv

-----------------------------------------------------------------------------
(***************************************************************************)
(* What never moves backwards, and what the metadata is ahead of.          *)
(***************************************************************************)
\* Only configure and install_snapshot write the term and the placement epoch.
LEMMA EpochKept ==
  ASSUME NEW d \in Disk, NEW D
  PROVE  /\ \A e \in Entry : D = JournalPrepare(d, e) =>
              D.term = d.term /\ D.placement_epoch = d.placement_epoch
         /\ \A e \in Entry : \A i \in 1..Len(CommitSteps(d, e)) :
              D = CommitSteps(d, e)[i] =>
                D.term = d.term /\ D.placement_epoch = d.placement_epoch
         /\ D \in {Recovered(d)} \cup RecoverySteps(d) =>
              D.term = d.term /\ D.placement_epoch = d.placement_epoch
<1> DEFINE Kept(x) == x.term = d.term /\ x.placement_epoch = d.placement_epoch
<1>1. \A e \in Entry : Kept(JournalPrepare(d, e))
  BY DEF JournalPrepare, Disk
<1>2. ASSUME NEW e \in Entry, NEW i \in 1..Len(CommitSteps(d, e))
      PROVE  Kept(CommitSteps(d, e)[i])
  <2> DEFINE p == JournalPrepare(d, e)
             c == JournalCommit(p, e.index)
             h == ApplyDense(c, e)
             a == Apply(h, e)
             q == PublishApplied(a, e.index)
  <2>0. e.index \in Nat
    BY DEF Entry
  <2>1. p \in Disk /\ Kept(p)
    BY <1>1, JournalPrepareFacts
  <2> HIDE DEF p
  <2>2. c \in Disk /\ Kept(c)
    BY <2>0, <2>1, JournalCommitFacts DEF JournalCommit, Disk
  <2> HIDE DEF c
  <2>h. h \in Disk /\ Kept(h)
    BY <2>2, ApplyDenseFacts
  <2> HIDE DEF h
  <2>3. a \in Disk /\ Kept(a)
    BY <2>h, ApplyFacts DEF Apply, Disk
  <2> HIDE DEF a
  <2>4. Kept(q)
    BY <2>3 DEF PublishApplied, Disk
  <2> HIDE DEF q
  <2>5. CommitSteps(d, e) \in {<<d, p, c>>, <<d, p, c, h>>, <<d, p, c, h, a, q>>}
    BY DEF CommitSteps, p, c, h, a, q
  <2>6. CommitSteps(d, e)[i] \in {d, p, c, h, a, q}
    BY <2>5
  <2> QED BY <2>1, <2>2, <2>h, <2>3, <2>4, <2>6
<1>3. \A R, P : Kept(Replayed(d, R, P))
  BY DEF Replayed, Disk
<1>4. ASSUME D \in {Recovered(d)} \cup RecoverySteps(d)
      PROVE  Kept(D)
  <2>1. PICK R, P : \/ D = Replayed(d, R, P)
                    \/ \E e \in Unreplayed(d) : D = ApplyDense(Replayed(d, R, P), e)
    BY <1>4, RecoveryCases
  <2> DEFINE q == Replayed(d, R, P)
  <2>2. Kept(q)
    BY <1>3
  <2>3. \A e : Kept(ApplyDense(q, e))
    BY <2>2 DEF ApplyDense, Replayed, Disk
  <2> HIDE DEF q
  <2> QED BY <2>1, <2>2, <2>3 DEF q
<1> QED BY <1>1, <1>2, <1>4

\* What configure finds on a node has the node's own term and epoch.
LEMMA OpenedEpoch ==
  ASSUME Inv, NEW n \in Node
  PROVE  /\ Opened(n) \in Disk /\ Opened(n).term = disk[n].term
         /\ Opened(n).placement_epoch = disk[n].placement_epoch
<1>1. disk[n] \in Disk /\ Opened(n) \in Disk
  BY DiskContext, OpenedOK DEF DiskOK
<1> QED BY <1>1, EpochKept DEF Opened

\* A replica of the placement never goes back.
LEMMA MovesForward ==
  ASSUME Inv, PlaceInv, ShardInv, NEW n \in Members(replicas), n \in Node, Moves(n)
  PROVE  /\ disk'[n].applied_index >= disk[n].applied_index
         /\ disk'[n].term >= disk[n].term
         /\ disk[n].prepared \subseteq disk'[n].prepared
         /\ disk[n].committed \subseteq disk'[n].committed
<1>0. /\ disk[n] \in Disk /\ disk[n].prepared \subseteq issued /\ Log(issued)
      /\ last_log_index \in Nat /\ (\A e \in disk[n].prepared : e.index <= last_log_index)
      /\ disk[n].applied_index <= last_log_index
      /\ disk[n].term \in Nat /\ disk[n].applied_index \in Nat /\ issued \subseteq Entry
  BY DiskContext DEF Disk, Log
<1>1. Sound(disk[n], issued) /\ (proc[n] = "serving" => Settled(disk[n]))
  BY DEF ShardInv
<1>2. CASE Rests(n)
  BY <1>0, <1>2 DEF Rests
<1>3. CASE Journals(n)
  BY <1>0, <1>3, JournalPrepareFacts, EpochKept DEF Journals
<1>4. CASE Commits(n)
  <2>1. PICK e \in issued : \E i \in 1..Len(CommitSteps(disk[n], e)) :
          disk'[n] = CommitSteps(disk[n], e)[i]
    BY <1>4 DEF Commits
  <2>2. PICK i \in 1..Len(CommitSteps(disk[n], e)) : disk'[n] = CommitSteps(disk[n], e)[i]
    BY <2>1
  <2>3. proc[n] = "serving" /\ e \in Entry
    BY <1>0, <1>4 DEF Commits
  <2>4. disk'[n].applied_index >= disk[n].applied_index
    BY <1>0, <1>1, <2>1, <2>2, <2>3, CommitSound
  <2>5. disk'[n].term = disk[n].term
    BY <1>0, <2>2, <2>3, EpochKept
  <2>6. disk[n].prepared \subseteq disk'[n].prepared
          /\ disk[n].committed \subseteq disk'[n].committed
    BY <1>0, <2>2, <2>3, CommitStepsFacts
  <2> QED BY <1>0, <2>4, <2>5, <2>6
<1>5. CASE Opens(n)
  <2>1. disk'[n].applied_index >= disk[n].applied_index
    BY <1>0, <1>1, <1>5, RecoverySound DEF Opens
  <2>2. disk'[n].prepared = disk[n].prepared /\ disk'[n].committed = disk[n].committed
    BY <1>0, <1>5, RecoveredFacts DEF Opens
  <2>3. disk'[n].term = disk[n].term
    BY <1>0, <1>5, EpochKept DEF Opens
  <2> QED BY <1>0, <2>1, <2>2, <2>3
<1>6. CASE Configures(n)
  <2>1. term \in Nat /\ placement_epoch \in Nat
    BY DEF Inv, TypeOK
  <2>2. /\ proc[n] # "down" /\ ~OpenRaises(n)
        /\ ConfigureAccepts(Opened(n), term, placement_epoch)
        /\ disk'[n] = Configured(Opened(n), term, placement_epoch)
    BY <1>6 DEF Configures
  <2>3. /\ Opened(n) \in Disk /\ Opened(n).applied_index >= disk[n].applied_index
        /\ Opened(n).prepared = disk[n].prepared /\ Opened(n).committed = disk[n].committed
    BY <2>2, OpenedSound
  <2>4. /\ disk'[n].prepared = Opened(n).prepared /\ disk'[n].committed = Opened(n).committed
        /\ disk'[n].applied_index = Opened(n).applied_index /\ disk'[n].term = term
    BY <2>2, <2>3 DEF Configured, Disk
  <2>5. disk[n].term <= term
    BY <2>2, OpenedEpoch DEF ConfigureAccepts
  <2> QED BY <1>0, <2>1, <2>3, <2>4, <2>5
<1>7. CASE Installs(n)
  BY <1>7 DEF Installs
<1> QED BY <1>2, <1>3, <1>4, <1>5, <1>6, <1>7 DEF Moves

\* How a step changes the numbers in the metadata.
MetaMoves ==
  /\ term' >= term /\ placement_epoch' >= placement_epoch
  /\ last_log_index' >= last_log_index /\ committed_index' >= committed_index
  /\ leader' # leader => term' > term
  /\ Members(replicas) \subseteq Members(replicas')
  /\ Members(replicas') # Members(replicas) => placement_epoch' = placement_epoch + 1
  /\ committed_index' \in {committed_index} \cup {i \in Nat : i <= last_log_index}

\* Every step moves them forwards.
LEMMA MetaNext ==
  ASSUME Inv, PlaceInv, [Next]_vars
  PROVE  MetaMoves
<1>0. /\ term \in Nat /\ placement_epoch \in Nat /\ last_log_index \in Nat
      /\ committed_index \in Nat /\ replicas \in Seq(Node) /\ op \in OpType
  BY DEF Inv, TypeOK
<1>1. CASE UNCHANGED metadata
  BY <1>0, <1>1 DEF metadata, MetaMoves
<1>2. CASE Elect
  BY <1>0, <1>2 DEF Elect, MetaMoves
<1>3. CASE AllocateIndex
  BY <1>0, <1>3 DEF AllocateIndex, MetaMoves
<1>4. CASE PrepareDone
  BY <1>0, <1>4 DEF PrepareDone, MetaMoves
<1>5. CASE CommitDone
  <2>1. op.index \in Nat /\ op.index <= last_log_index
    BY <1>0, <1>5, CallEntryFacts DEF CommitDone, CallEntry, OpType
  <2> QED BY <1>0, <1>5, <2>1 DEF CommitDone, MetaMoves
<1>6. CASE RebalancePublish
  <2>1. op.node \in Node
    BY <1>6 DEF RebalancePublish, Inv, LogAndTableAgree, OpInv
  <2>2. Members(replicas') = Members(replicas) \cup {op.node}
    BY <1>0, <1>6, <2>1 DEF RebalancePublish, Members
  <2> QED BY <1>0, <1>6, <2>2 DEF RebalancePublish, MetaMoves
<1>7. \/ UNCHANGED metadata \/ Elect \/ AllocateIndex \/ PrepareDone \/ CommitDone
      \/ RebalancePublish
  <2>1. CASE UNCHANGED vars
    BY <2>1 DEF vars
  <2>2. CASE CoordinatorStep
    BY <2>2 DEF CoordinatorStep, Open, Close, Write, BeginConflict, BeginReturn,
       BeginRetry, BeginNew, ElectFails, ConfigureDone, PrepareRetry, PrepareAborts,
       CommitAborts, CatchUpDone, Fetch, FetchFails, FetchInterrupted, Replay,
       ReplayFails, ReplayLost, ReplayDone, Install, InstallFails, PowerLoss
  <2>3. ASSUME NEW n \in Node, NodeStep(n) PROVE UNCHANGED metadata
    BY <2>3 DEF NodeStep, Configure, ConfigureFails, Prepare, PrepareFails, Commit,
       CommitLost, CommitFails, CatchUpCall, RestartNode, CatchUpNode, RebalanceConfigure,
       RebalanceRefused, PartitionNode, HealNode, Crash, CrashInHandler, CrashInRecovery
  <2> QED BY <2>1, <2>2, <2>3 DEF Next
<1> QED BY <1>1, <1>2, <1>3, <1>4, <1>5, <1>6, <1>7

\* The terms and epochs that replicas know, and the committed index, are no newer
\* than the metadata; only outside the placement may the next epoch be known.
EpochInv ==
  /\ committed_index <= last_log_index
  /\ \A n \in Node :
       /\ disk[n].term <= term
       /\ disk[n].placement_epoch <= placement_epoch + 1
       /\ n \in Members(replicas) => disk[n].placement_epoch <= placement_epoch

\* The first disks know no term.
LEMMA EpochInit == Init => EpochInv
BY DEF Init, EpochInv, EmptyDisk

\* Whatever a step does to a disk, the disk learns no term and no epoch that the
\* metadata does not have.
LEMMA MovesEpoch ==
  ASSUME Inv, PlaceInv, EpochInv, NEW n \in Node, Moves(n)
  PROVE  /\ disk'[n].term <= term
         /\ disk'[n].placement_epoch \in Nat
         /\ disk'[n].placement_epoch <= placement_epoch + 1
         /\ n \in Members(replicas) => disk'[n].placement_epoch <= placement_epoch
<1>0. /\ disk[n] \in Disk /\ disk[n].term \in Nat /\ disk[n].placement_epoch \in Nat
      /\ term \in Nat /\ placement_epoch \in Nat /\ issued \subseteq Entry
  BY DEF Inv, TypeOK, Disk
<1>1. CASE Rests(n) \/ Journals(n) \/ Commits(n) \/ Opens(n)
  <2>1. disk'[n].term = disk[n].term /\ disk'[n].placement_epoch = disk[n].placement_epoch
    <3>1. CASE Rests(n)
      BY <3>1 DEF Rests
    <3>2. CASE Journals(n)
      BY <1>0, <3>2, EpochKept DEF Journals
    <3>3. CASE Commits(n)
      BY <1>0, <3>3, EpochKept DEF Commits
    <3>4. CASE Opens(n)
      BY <1>0, <3>4, EpochKept DEF Opens
    <3> QED BY <1>1, <3>1, <3>2, <3>3, <3>4
  <2> QED BY <1>0, <2>1 DEF EpochInv
<1>2. CASE Configures(n)
  <2>1. PICK p \in {placement_epoch, placement_epoch + 1} :
          /\ p # placement_epoch => n \notin Members(replicas)
          /\ disk'[n] = Configured(Opened(n), term, p)
    BY <1>2 DEF Configures
  <2>2. disk'[n].term = term /\ disk'[n].placement_epoch = p
    BY <2>1, OpenedEpoch DEF Configured, Disk
  <2> QED BY <1>0, <2>1, <2>2
<1>3. CASE Installs(n)
  BY <1>0, <1>3 DEF Installs, Installed
<1> QED BY <1>1, <1>2, <1>3 DEF Moves

\* Every step keeps the metadata ahead.
LEMMA EpochNext ==
  ASSUME Inv, Inv', PlaceInv, EpochInv, [Next]_vars
  PROVE  EpochInv'
<1>0. /\ term \in Nat /\ placement_epoch \in Nat /\ last_log_index \in Nat
      /\ committed_index \in Nat /\ term' \in Nat /\ placement_epoch' \in Nat
      /\ last_log_index' \in Nat /\ committed_index' \in Nat
      /\ \A n \in Node : disk'[n].term \in Nat /\ disk'[n].placement_epoch \in Nat
  BY DEF Inv, TypeOK, Disk
<1>1. MetaMoves
  BY MetaNext
<1>2. committed_index' <= last_log_index'
  BY <1>0, <1>1 DEF MetaMoves, EpochInv
<1>3. ASSUME NEW n \in Node
      PROVE  /\ disk'[n].term <= term'
             /\ disk'[n].placement_epoch <= placement_epoch' + 1
             /\ n \in Members(replicas') => disk'[n].placement_epoch <= placement_epoch'
  <2>1. Moves(n)
    BY NextMoves
  <2>2. /\ disk'[n].term <= term
        /\ disk'[n].placement_epoch <= placement_epoch + 1
        /\ n \in Members(replicas) => disk'[n].placement_epoch <= placement_epoch
    BY <2>1, MovesEpoch
  <2>3. disk'[n].term <= term' /\ disk'[n].placement_epoch <= placement_epoch' + 1
    BY <1>0, <1>1, <2>2 DEF MetaMoves
  <2>4. CASE n \in Members(replicas)
    BY <1>0, <1>1, <2>2, <2>3, <2>4 DEF MetaMoves
  <2>5. CASE n \notin Members(replicas)
    BY <1>0, <1>1, <2>2, <2>3, <2>5 DEF MetaMoves
  <2> QED BY <2>3, <2>4, <2>5
<1> QED BY <1>2, <1>3 DEF EpochInv

-----------------------------------------------------------------------------
(***************************************************************************)
(* The quorums.                                                            *)
(***************************************************************************)
HeldBy(e) == {n \in Members(InitReplicas) : e \in disk[n].prepared}
CommittedBy(e) == {n \in Members(InitReplicas) : e \in CommittedOn(n)}
Majority(S) == 2 * Cardinality(S) > Len(InitReplicas)

\* The nodes that answered prepare have journalled the entry, the ones that answered
\* commit have it marked; until the placement changes, a request is in the table
\* after a majority journalled its entry, and is committed there after a majority
\* marked it.
QuorumInv ==
  /\ pc = "prepare" => \A n \in op.got : CallEntry \in disk[n].prepared
  /\ pc = "commit" => \A n \in op.got : CallEntry \in CommittedOn(n)
  /\ replicas = InitReplicas => \A d \in request_table :
       /\ Majority(HeldBy(EntryOf(d)))
       /\ d.status = "committed" => Majority(CommittedBy(EntryOf(d)))

\* A placement has finitely many members.
LEMMA PlacementFinite == IsFiniteSet(Members(InitReplicas))
<1>1. IsFiniteSet(1..Len(InitReplicas))
  BY ClusterAssumption, FS_Interval
<1> DEFINE f == [i \in 1..Len(InitReplicas) |-> InitReplicas[i]]
<1>2. f \in Surjection(1..Len(InitReplicas), Members(InitReplicas))
  BY DEF Members, Surjection
<1> HIDE DEF f
<1> QED BY <1>1, <1>2, FS_Surjection

\* A superset of a majority is a majority.
LEMMA MajorityGrows ==
  ASSUME NEW S, NEW T, S \subseteq T, T \subseteq Members(InitReplicas)
  PROVE  /\ Cardinality(S) \in Nat /\ Cardinality(T) \in Nat
         /\ Cardinality(S) <= Cardinality(T)
         /\ Majority(S) => Majority(T)
<1>1. IsFiniteSet(T) /\ IsFiniteSet(S)
  BY PlacementFinite, FS_Subset
<1>2. Cardinality(S) \in Nat /\ Cardinality(T) \in Nat /\ Cardinality(S) <= Cardinality(T)
  BY <1>1, FS_Subset, FS_CardinalityType
<1>3. Len(InitReplicas) \in Nat
  BY ClusterAssumption
<1> QED BY <1>2, <1>3 DEF Majority

\* A quorum of the first placement is a majority of it.
LEMMA QuorumIsMajority ==
  ASSUME replicas = InitReplicas, NEW S, NEW T, S \subseteq T,
         T \subseteq Members(InitReplicas), Cardinality(S) >= Quorum
  PROVE  Majority(T)
<1>1. Cardinality(S) \in Nat /\ (Majority(S) => Majority(T))
  BY MajorityGrows
<1>2. Len(InitReplicas) \in Nat
  BY ClusterAssumption
<1>3. Majority(S)
  BY <1>1, <1>2 DEF Quorum, Majority
<1> QED BY <1>1, <1>3

\* A member's journal grows, so what it holds and what it committed stays.
LEMMA JournalsGrow ==
  ASSUME Inv, PlaceInv, ShardInv, [Next]_vars, NEW n \in Members(replicas)
  PROVE  /\ n \in Node /\ disk[n].prepared \subseteq disk'[n].prepared
         /\ CommittedOn(n) \subseteq CommittedOn(n)'
<1>1. n \in Node
  BY MembersType DEF Inv, TypeOK
<1>2. disk[n].prepared \subseteq disk'[n].prepared /\ disk[n].committed \subseteq disk'[n].committed
  BY <1>1, NextMoves, MovesForward
<1> QED BY <1>1, <1>2 DEF CommittedOn

\* What a step of the prepare or of the commit loop adds to the answers.
LEMMA AnswersStep ==
  ASSUME Inv, [Next]_vars
  PROVE  /\ pc' = "prepare" =>
              \/ op'.got = {}
              \/ pc = "prepare" /\ CallEntry' = CallEntry /\ op'.got = op.got
              \/ \E n \in Node : /\ Prepare(n) /\ CallEntry' = CallEntry
                                 /\ op'.got = op.got \cup {n}
         /\ pc' = "commit" =>
              \/ op'.got = {}
              \/ pc = "commit" /\ CallEntry' = CallEntry /\ op'.got = op.got
              \/ \E n \in Node : /\ Commit(n) /\ CallEntry' = CallEntry
                                 /\ op'.got = op.got \cup {n}
<1>0. op \in OpType
  BY DEF Inv, TypeOK
<1>1. CASE UNCHANGED vars
  BY <1>1 DEF vars, CallEntry
<1>2. CASE CoordinatorStep
  <2>1. CASE \/ BeginRetry \/ ConfigureDone \/ AllocateIndex \/ PrepareDone
    BY <1>0, <2>1 DEF BeginRetry, ConfigureDone, AllocateIndex, PrepareDone, OpType, Inv,
                      LogAndTableAgree, OpInv
  <2>2. CASE ~(BeginRetry \/ ConfigureDone \/ AllocateIndex \/ PrepareDone)
    <3>1. pc' \notin {"prepare", "commit"}
      BY <1>2, <2>2 DEF CoordinatorStep, Open, Close, Write, BeginConflict, BeginReturn,
         BeginNew, Elect, ElectFails, PrepareRetry, PrepareAborts, CommitAborts, CommitDone,
         CatchUpDone, Fetch, FetchFails, FetchInterrupted, Replay, ReplayFails, ReplayLost,
         ReplayDone, Install, InstallFails, RebalancePublish, PowerLoss, Raise
    <3> QED BY <3>1
  <2> QED BY <2>1, <2>2
<1>3. ASSUME NEW n \in Node, NodeStep(n), pc' \in {"prepare", "commit"}
      PROVE  /\ pc' = pc /\ CallEntry' = CallEntry
             /\ \/ op'.got = op.got
                \/ (Prepare(n) \/ Commit(n)) /\ op'.got = op.got \cup {n}
  <2>1. CASE Prepare(n) \/ Commit(n)
    BY <1>0, <2>1 DEF Prepare, Commit, OpType, CallEntry
  <2>2. CASE PrepareFails(n) \/ CommitLost(n) \/ CommitFails(n) \/ Configure(n)
    BY <1>0, <2>2 DEF PrepareFails, CommitLost, CommitFails, Configure, OpType, CallEntry
  <2>3. CASE \/ PartitionNode(n) \/ HealNode(n) \/ Crash(n) \/ CrashInHandler(n)
             \/ CrashInRecovery(n) \/ RebalanceRefused(n)
    BY <2>3 DEF PartitionNode, HealNode, Crash, CrashInHandler, CrashInRecovery,
                RebalanceRefused, CallEntry
  <2>4. CASE ConfigureFails(n) \/ CatchUpCall(n) \/ RestartNode(n) \/ CatchUpNode(n)
               \/ RebalanceConfigure(n)
    BY <1>3, <2>4 DEF ConfigureFails, CatchUpCall, RestartNode, CatchUpNode,
                      RebalanceConfigure, Raise, CallEntry
  <2> QED BY <1>3, <2>1, <2>2, <2>3, <2>4 DEF NodeStep
<1>4. ASSUME NEW n \in Node
      PROVE  (Prepare(n) => pc = "prepare") /\ (Commit(n) => pc = "commit")
  BY DEF Prepare, Commit
<1> QED BY <1>1, <1>2, <1>3, <1>4 DEF Next

\* The answers to prepare.
LEMMA PreparedStep ==
  ASSUME Inv, PlaceInv, ShardInv, QuorumInv, [Next]_vars, pc' = "prepare"
  PROVE  \A n \in op'.got : CallEntry' \in disk'[n].prepared
<1>1. \A n \in op.got : n \in Members(replicas) /\ disk[n].prepared \subseteq disk'[n].prepared
  BY JournalsGrow DEF PlaceInv
<1>2. CASE op'.got = {}
  BY <1>2
<1>3. CASE pc = "prepare" /\ CallEntry' = CallEntry /\ op'.got = op.got
  BY <1>1, <1>3 DEF QuorumInv
<1>4. ASSUME NEW n \in Node, Prepare(n), CallEntry' = CallEntry, op'.got = op.got \cup {n}
      PROVE  \A m \in op'.got : CallEntry' \in disk'[m].prepared
  <2>1. pc = "prepare" /\ disk'[n] = JournalPrepare(disk[n], CallEntry)
    BY <1>4 DEF Prepare, Inv, TypeOK
  <2>2. CallEntry \in JournalPrepare(disk[n], CallEntry).prepared
    BY <2>1, CallEntryFacts, DiskContext, PrepareSound DEF ShardInv
  <2> QED BY <1>1, <1>4, <2>1, <2>2 DEF QuorumInv
<1> QED BY <1>2, <1>3, <1>4, AnswersStep

\* The answers to commit.
LEMMA CommittedStep ==
  ASSUME Inv, PlaceInv, ShardInv, QuorumInv, [Next]_vars, pc' = "commit"
  PROVE  \A n \in op'.got : CallEntry' \in CommittedOn(n)'
<1>1. \A n \in op.got : n \in Members(replicas) /\ CommittedOn(n) \subseteq CommittedOn(n)'
  BY JournalsGrow DEF PlaceInv
<1>2. CASE op'.got = {}
  BY <1>2
<1>3. CASE pc = "commit" /\ CallEntry' = CallEntry /\ op'.got = op.got
  BY <1>1, <1>3 DEF QuorumInv
<1>4. ASSUME NEW n \in Node, Commit(n), CallEntry' = CallEntry, op'.got = op.got \cup {n}
      PROVE  \A m \in op'.got : CallEntry' \in CommittedOn(m)'
  <2>1. /\ pc = "commit" /\ proc[n] = "serving"
        /\ disk'[n] = Last(CommitSteps(disk[n], CallEntry))
    BY <1>4 DEF Commit, Serving, Inv, TypeOK
  <2> DEFINE k == Len(CommitSteps(disk[n], CallEntry))
  <2>2. k \in {3, 4, 6}
    BY DEF CommitSteps
  <2>3. k \in 1..k /\ disk'[n] = CommitSteps(disk[n], CallEntry)[k]
    <3>1. disk'[n] = CommitSteps(disk[n], CallEntry)[k]
      BY <2>1 DEF Last
    <3> HIDE DEF k
    <3> QED BY <2>2, <3>1
  <2>4. CallEntry \in issued /\ Log(issued) /\ disk[n] \in Disk
          /\ disk[n].prepared \subseteq issued /\ Sound(disk[n], issued) /\ Settled(disk[n])
    BY <2>1, CallEntryFacts, DiskContext DEF ShardInv
  <2>5. CallEntry \in CommitSteps(disk[n], CallEntry)[k].prepared
          /\ CallEntry.index \in CommitSteps(disk[n], CallEntry)[k].committed
    BY <2>3, <2>4, CommitSound
  <2>6. CallEntry' \in CommittedOn(n)'
    BY <1>4, <2>3, <2>5 DEF CommittedOn
  <2> QED BY <1>1, <1>4, <2>1, <2>6 DEF QuorumInv
<1> QED BY <1>2, <1>3, <1>4, AnswersStep

\* The request table changes when a quorum has answered.
LEMMA TableStep ==
  ASSUME [Next]_vars
  PROVE  \/ request_table' = request_table
         \/ PrepareDone /\ disk' = disk
         \/ CommitDone /\ disk' = disk
<1>1. CASE UNCHANGED vars
  BY <1>1 DEF vars, metadata
<1>2. CASE CoordinatorStep
  BY <1>2 DEF CoordinatorStep, Open, Close, Write, BeginConflict, BeginReturn, BeginRetry,
     BeginNew, Elect, ElectFails, ConfigureDone, AllocateIndex, PrepareRetry,
     PrepareAborts, PrepareDone, CommitAborts, CommitDone, CatchUpDone, Fetch, FetchFails,
     FetchInterrupted, Replay, ReplayFails, ReplayLost, ReplayDone, Install, InstallFails,
     RebalancePublish, PowerLoss, metadata, processes
<1>3. ASSUME NEW n \in Node, NodeStep(n) PROVE request_table' = request_table
  BY <1>3 DEF NodeStep, Configure, ConfigureFails, Prepare, PrepareFails, Commit,
     CommitLost, CommitFails, CatchUpCall, RestartNode, CatchUpNode, RebalanceConfigure,
     RebalanceRefused, PartitionNode, HealNode, Crash, CrashInHandler, CrashInRecovery,
     metadata
<1> QED BY <1>1, <1>2, <1>3 DEF Next

\* The placement only grows, so a placement that is the first one was it before.
LEMMA FirstPlacement ==
  ASSUME Inv, PlaceInv, [Next]_vars, replicas' = InitReplicas
  PROVE  replicas = InitReplicas
<1>1. CASE UNCHANGED vars
  BY <1>1 DEF vars, metadata
<1>2. CASE RebalancePublish
  BY <1>2, ClusterAssumption DEF RebalancePublish, PlaceInv, Inv, TypeOK
<1>3. CASE CoordinatorStep /\ ~RebalancePublish
  BY <1>3 DEF CoordinatorStep, Open, Close, Write, BeginConflict, BeginReturn, BeginRetry,
     BeginNew, Elect, ElectFails, ConfigureDone, AllocateIndex, PrepareRetry,
     PrepareAborts, PrepareDone, CommitAborts, CommitDone, CatchUpDone, Fetch, FetchFails,
     FetchInterrupted, Replay, ReplayFails, ReplayLost, ReplayDone, Install, InstallFails,
     PowerLoss, metadata
<1>4. ASSUME NEW n \in Node, NodeStep(n) PROVE replicas' = replicas
  BY <1>4 DEF NodeStep, Configure, ConfigureFails, Prepare, PrepareFails, Commit,
     CommitLost, CommitFails, CatchUpCall, RestartNode, CatchUpNode, RebalanceConfigure,
     RebalanceRefused, PartitionNode, HealNode, Crash, CrashInHandler, CrashInRecovery,
     metadata
<1> QED BY <1>1, <1>2, <1>3, <1>4 DEF Next

\* A recorded request keeps its majorities.
LEMMA MajoritiesKept ==
  ASSUME Inv, PlaceInv, ShardInv, [Next]_vars, replicas = InitReplicas, NEW e
  PROVE  /\ Majority(HeldBy(e)) => Majority(HeldBy(e))'
         /\ Majority(CommittedBy(e)) => Majority(CommittedBy(e))'
<1>1. HeldBy(e) \subseteq HeldBy(e)' /\ HeldBy(e)' \subseteq Members(InitReplicas)
  BY JournalsGrow DEF HeldBy
<1>2. CommittedBy(e) \subseteq CommittedBy(e)' /\ CommittedBy(e)' \subseteq Members(InitReplicas)
  BY JournalsGrow DEF CommittedBy
<1>3. Majority(HeldBy(e)) => Majority(HeldBy(e)')
  BY <1>1, MajorityGrows
<1>4. Majority(CommittedBy(e)) => Majority(CommittedBy(e)')
  BY <1>2, MajorityGrows
<1> QED BY <1>3, <1>4 DEF Majority

\* What a majority marked, a majority journalled.
LEMMA MarkedIsHeld ==
  ASSUME NEW e
  PROVE  Majority(CommittedBy(e)) => Majority(HeldBy(e))
<1>1. CommittedBy(e) \subseteq HeldBy(e) /\ HeldBy(e) \subseteq Members(InitReplicas)
  BY DEF CommittedBy, HeldBy, CommittedOn
<1> QED BY <1>1, MajorityGrows

\* The table is empty at first.
LEMMA QuorumInit == Init => QuorumInv
BY DEF Init, QuorumInv

\* Every step keeps the quorums behind the table.
LEMMA QuorumNext ==
  ASSUME Inv, PlaceInv, ShardInv, QuorumInv, [Next]_vars
  PROVE  QuorumInv'
<1>1. pc' = "prepare" => \A n \in op'.got : CallEntry' \in disk'[n].prepared
  BY PreparedStep
<1>2. pc' = "commit" => \A n \in op'.got : CallEntry' \in CommittedOn(n)'
  BY CommittedStep
<1>3. ASSUME replicas' = InitReplicas, NEW d \in request_table'
      PROVE  /\ Majority(HeldBy(EntryOf(d)))'
             /\ d.status = "committed" => Majority(CommittedBy(EntryOf(d)))'
  <2>1. replicas = InitReplicas
    BY <1>3, FirstPlacement
  <2>2. op.got \subseteq Members(InitReplicas)
    BY <2>1 DEF PlaceInv
  <2>3. CASE d \in request_table
    BY <2>1, <2>3, MajoritiesKept DEF QuorumInv
  <2>4. CASE PrepareDone /\ d \notin request_table
    <3>1. EntryOf(d) = CallEntry /\ d.status = "prepared" /\ pc = "prepare"
            /\ Cardinality(op.got) >= Quorum
      BY <1>3, <2>4 DEF PrepareDone, Record, EntryOf, CallEntry
    <3>2. op.got \subseteq HeldBy(EntryOf(d)) /\ HeldBy(EntryOf(d)) \subseteq Members(InitReplicas)
      BY <2>2, <3>1 DEF QuorumInv, HeldBy
    <3>3. Majority(HeldBy(EntryOf(d)))
      BY <2>1, <3>1, <3>2, QuorumIsMajority
    <3> QED BY <2>1, <3>1, <3>3, MajoritiesKept
  <2>5. CASE CommitDone /\ d \notin request_table
    <3>1. EntryOf(d) = CallEntry /\ pc = "commit" /\ Cardinality(op.got) >= Quorum
      BY <1>3, <2>5 DEF CommitDone, Record, EntryOf, CallEntry
    <3>2. op.got \subseteq CommittedBy(EntryOf(d))
            /\ CommittedBy(EntryOf(d)) \subseteq Members(InitReplicas)
      BY <2>2, <3>1 DEF QuorumInv, CommittedBy
    <3>3. Majority(CommittedBy(EntryOf(d)))
      BY <2>1, <3>1, <3>2, QuorumIsMajority
    <3>4. Majority(HeldBy(EntryOf(d)))
      BY <3>3, MarkedIsHeld
    <3> QED BY <2>1, <3>3, <3>4, MajoritiesKept
  <2> QED BY <1>3, <2>3, <2>4, <2>5, TableStep
<1> QED BY <1>1, <1>2, <1>3 DEF QuorumInv

-----------------------------------------------------------------------------
(***************************************************************************)
(* The theorems.                                                           *)
(***************************************************************************)
Safe == Inv /\ PlaceInv /\ ShardInv /\ EpochInv /\ QuorumInv

\* The whole invariant holds at first and every step keeps it.
LEMMA SafeInvariance == Spec => []Safe
<1>1. Init => Safe
  BY InitInv, PlaceInit, ShardInit, EpochInit, QuorumInit DEF Safe
<1>2. Safe /\ [Next]_vars => Safe'
  <2> SUFFICES ASSUME Safe, [Next]_vars PROVE Safe'
    OBVIOUS
  <2>1. Inv /\ PlaceInv /\ ShardInv /\ EpochInv /\ QuorumInv
    BY DEF Safe
  <2>2. Inv'
    BY <2>1, NextInv
  <2>3. PlaceInv'
    BY <2>1, PlaceNext
  <2>4. ShardInv'
    BY <2>1, ShardNext
  <2>5. EpochInv'
    BY <2>1, <2>2, EpochNext
  <2>6. QuorumInv'
    BY <2>1, QuorumNext
  <2> QED BY <2>2, <2>3, <2>4, <2>5, <2>6 DEF Safe
<1> QED BY <1>1, <1>2, PTL DEF Spec

\* The durable metadata is ahead of every replica after any election, rebalance,
\* crash and recovery: no index is allocated twice, no term elected twice, and only
\* a node outside the placement knows the next epoch.
THEOREM MetadataLeads == Spec => []MetadataAhead
<1>1. Safe => MetadataAhead
  <2> SUFFICES ASSUME Safe PROVE MetadataAhead
    OBVIOUS
  <2>1. Inv /\ EpochInv
    BY DEF Safe
  <2>2. \A n \in Node : /\ \A e \in disk[n].prepared : e.index <= last_log_index
                        /\ disk[n].applied_index <= last_log_index
    BY <2>1, DiskContext
  <2>3. placement_epoch \in Nat
    BY <2>1 DEF Inv, TypeOK
  <2> QED BY <2>1, <2>2, <2>3 DEF EpochInv, MetadataAhead
<1> QED BY <1>1, SafeInvariance, PTL

\* The collection of every replica holds the newest mutation it has applied to a
\* point, whatever crashes cut off its commits and its recoveries.
THEOREM NewestWins == Spec => []NewestAppliedWins
<1>1. Safe => NewestAppliedWins
  BY DEF Safe, ShardInv, Sound, Newest, NewestAppliedWins
<1> QED BY <1>1, SafeInvariance, PTL

\* A shard that is open has applied every entry it has marked committed, but for
\* those its collection refuses.
THEOREM OpenShardsAreSettled == Spec => []NothingLeftToReplay
<1>1. Safe => NothingLeftToReplay
  <2> SUFFICES ASSUME Safe, NEW n \in Node, proc[n] = "serving",
                      NEW i \in disk[n].committed, ~(i <= disk[n].applied_index)
               PROVE  \E e \in disk[n].prepared : e.index = i /\ e.mut \in Rejected
    BY DEF NothingLeftToReplay
  <2>1. disk[n] \in Disk /\ Sound(disk[n], issued) /\ Settled(disk[n])
    BY DiskContext DEF Safe, ShardInv
  <2>2. PICK e \in disk[n].prepared : e.index = i
    BY <2>1 DEF Sound, Marked
  <2>3. e \in Unreplayed(disk[n])
    BY <2>1, <2>2, UnreplayedFacts
  <2> QED BY <2>1, <2>2, <2>3 DEF Settled
<1> QED BY <1>1, SafeInvariance, PTL

\* Until the placement changes, an entry that any node has committed is in the
\* journals of a majority of it.
THEOREM CommitsWerePrepared == Spec => []CommittedWasPrepared
<1>1. Safe => CommittedWasPrepared
  <2> SUFFICES ASSUME Safe, replicas = InitReplicas, NEW n \in Node, NEW e \in CommittedOn(n)
               PROVE  2 * Cardinality({m \in Members(InitReplicas) : e \in disk[m].prepared})
                        > Len(InitReplicas)
    BY DEF CommittedWasPrepared
  <2>1. e \in issued
    BY DEF CommittedOn, Safe, Inv, LogAndTableAgree, LogInv
  <2>2. PICK d \in request_table : d.index = e.index
    BY DEF CommittedOn, Safe, Inv, LogAndTableAgree, TableInv
  <2>3. EntryOf(d) = e
    <3>1. EntryOf(d) \in issued /\ EntryOf(d).index = e.index
      BY <2>2 DEF EntryOf, Safe, Inv, LogAndTableAgree, TableInv
    <3> QED BY <2>1, <3>1 DEF Safe, Inv, LogAndTableAgree, LogInv
  <2>4. Majority(HeldBy(e))
    BY <2>2, <2>3 DEF Safe, QuorumInv
  <2> QED BY <2>4 DEF Majority, HeldBy
<1> QED BY <1>1, SafeInvariance, PTL

\* Until the placement changes, an acknowledged mutation is journalled and marked
\* committed on a majority of it, after any crash, retry, election or catch-up.
THEOREM AcknowledgedSurvives == Spec => []AckedOnMajority
<1>1. Safe => AckedOnMajority
  <2> SUFFICES ASSUME Safe, replicas = InitReplicas, NEW a \in acked
               PROVE  2 * Cardinality({n \in Members(InitReplicas) :
                              \E e \in CommittedOn(n) : e.index = a.index /\ e.mut = a.mut})
                        > Len(InitReplicas)
    BY DEF AckedOnMajority
  <2> DEFINE T == {n \in Members(InitReplicas) :
                     \E e \in CommittedOn(n) : e.index = a.index /\ e.mut = a.mut}
  <2>1. PICK d \in request_table : d.status = "committed" /\ EntryOf(d) = a
    BY DEF Safe, Inv, LogAndTableAgree, TableInv
  <2>2. Majority(CommittedBy(a))
    BY <2>1 DEF Safe, QuorumInv
  <2>3. CommittedBy(a) \subseteq T /\ T \subseteq Members(InitReplicas)
    BY DEF CommittedBy
  <2>4. Majority(T)
    BY <2>2, <2>3, MajorityGrows
  <2> QED BY <2>4 DEF Majority
<1> QED BY <1>1, SafeInvariance, PTL

\* Terms, epochs, indexes and the journals of the placement's replicas never move
\* backwards, and a new leader has a new term.
THEOREM NothingMovesBackwards == Spec => NeverBackwards
<1> DEFINE Forwards ==
      /\ term' >= term /\ placement_epoch' >= placement_epoch
      /\ last_log_index' >= last_log_index /\ committed_index' >= committed_index
      /\ leader' # leader => term' > term
      /\ \A n \in Members(replicas) :
           /\ disk'[n].applied_index >= disk[n].applied_index
           /\ disk'[n].term >= disk[n].term
           /\ disk[n].prepared \subseteq disk'[n].prepared
           /\ disk[n].committed \subseteq disk'[n].committed
<1>1. Safe /\ [Next]_vars => [Forwards]_vars
  <2> SUFFICES ASSUME Safe, [Next]_vars PROVE Forwards
    OBVIOUS
  <2>1. Inv /\ PlaceInv /\ ShardInv
    BY DEF Safe
  <2>2. MetaMoves
    BY <2>1, MetaNext
  <2>3. ASSUME NEW n \in Members(replicas)
        PROVE  /\ disk'[n].applied_index >= disk[n].applied_index
               /\ disk'[n].term >= disk[n].term
               /\ disk[n].prepared \subseteq disk'[n].prepared
               /\ disk[n].committed \subseteq disk'[n].committed
    <3>1. n \in Node
      BY <2>1, <2>3, MembersType DEF Inv, TypeOK
    <3>2. Moves(n)
      BY <2>1, <3>1, NextMoves
    <3> QED BY <2>1, <2>3, <3>1, <3>2, MovesForward
  <2> QED BY <2>2, <2>3 DEF MetaMoves
<1>2. NeverBackwards <=> [][Forwards]_vars
  BY DEF NeverBackwards
<1> HIDE DEF Forwards
<1> QED BY <1>1, <1>2, SafeInvariance, PTL DEF Spec
=============================================================================
