----------------------- MODULE ClusterMetadataProofs -----------------------
(***************************************************************************)
(* Proofs about the publications of cluster-metadata.json: what is         *)
(* published validates, what is found loads, and what a coordinator was    *)
(* told to rely on is never lost.                                          *)
(***************************************************************************)
EXTENDS ClusterMetadata, FiniteSetTheorems, TLAPS

IsEnvelope(e) == DOMAIN e = {"version", "payload", "whole"}

\* What a coordinator may have in memory.
Sound(m) ==
  /\ IsMetadata(m) /\ Validates(m)
  /\ DOMAIN m.members = Node
  /\ m.index <= m.last_log_index

\* What it may find.
SoundFile(e) ==
  \/ e = Absent
  \/ /\ IsEnvelope(e) /\ IsMetadata(e.payload) /\ Loads(e)
     /\ e.payload.index <= e.payload.last_log_index

MemoryInv == pc # "closed" => Sound(metadata)

\* The name refers to one of the files a power loss may show, and every one of
\* them can be loaded.
FileInv == file \in durable /\ \A e \in durable : SoundFile(e)

\* What the steps of a publication have written.
PublishInv ==
  /\ pc \in {"closed", "publish", "rename", "sync", "open"}
  /\ pc = "rename" => temporary = Envelope(metadata)
  /\ pc = "sync" => file = Envelope(metadata)

ReliedInv == (relied = None \/ IsMetadata(relied)) /\ ReliedSurvives

Inv == PublishInv /\ MemoryInv /\ FileInv /\ ReliedInv

-----------------------------------------------------------------------------
(***************************************************************************)
(* The order of the nodes.                                                 *)
(***************************************************************************)
\* How many nodes are before a node tells the nodes apart and takes every value, so
\* that there is an n-th node, and one only.
LEMMA NodeAtType ==
  ASSUME NEW n \in 1..Cardinality(Node)
  PROVE  NodeAt(n) \in Node /\ Cardinality({y \in Node : y < NodeAt(n)}) = n - 1
<1> DEFINE N == Cardinality(Node)
<1> DEFINE B(x) == {y \in Node : y < x}
<1> DEFINE rank == [x \in Node |-> Cardinality(B(x))]
<1>1. IsFiniteSet(Node) /\ Node \subseteq Nat /\ N \in Nat
  BY MetadataAssumption, FS_CardinalityType
<1>2. ASSUME NEW x \in Node
      PROVE  IsFiniteSet(B(x)) /\ Cardinality(B(x)) \in 0..(N - 1)
  <2>1. B(x) \in SUBSET Node /\ x \notin B(x)
    BY <1>1
  <2>2. IsFiniteSet(B(x)) /\ Cardinality(B(x)) <= N /\ (N = Cardinality(B(x)) => Node = B(x))
    BY <1>1, <2>1, FS_Subset
  <2>3. Cardinality(B(x)) \in Nat
    BY <2>2, FS_CardinalityType
  <2>4. Cardinality(B(x)) # N
    BY <2>1, <2>2
  <2> HIDE DEF B
  <2> QED BY <1>1, <2>2, <2>3, <2>4
<1>3. ASSUME NEW x \in Node, NEW z \in Node, x < z
      PROVE  Cardinality(B(x)) # Cardinality(B(z))
  <2>1. B(x) \in SUBSET B(z) /\ x \in B(z) /\ x \notin B(x)
    <3>1. \A y \in Node : y < x => y < z
      BY <1>1, <1>3
    <3>2. ~(x < x)
      BY <1>1
    <3> QED BY <1>3, <3>1, <3>2
  <2>2. IsFiniteSet(B(z))
    BY <1>2
  <2>3. Cardinality(B(z)) = Cardinality(B(x)) => B(z) = B(x)
    BY <2>1, <2>2, FS_Subset
  <2> QED BY <2>1, <2>3
<1>4. rank \in Injection(Node, 0..(N - 1))
  <2>1. rank \in [Node -> 0..(N - 1)]
    BY <1>2
  <2>2. ASSUME NEW x \in Node, NEW z \in Node, rank[x] = rank[z]
        PROVE  x = z
    <3>1. ~(x < z) /\ ~(z < x)
      BY <1>3, <2>2
    <3> QED BY <1>1, <3>1
  <2> QED BY <2>1, <2>2 DEF Injection, IsInjective
<1>5. IsFiniteSet(0..(N - 1)) /\ Cardinality(0..(N - 1)) = N
  <2>1. 0 \in Int /\ N - 1 \in Int
    BY <1>1
  <2>2. /\ IsFiniteSet(0..(N - 1))
        /\ Cardinality(0..(N - 1)) = IF 0 > N - 1 THEN 0 ELSE N - 1 - 0 + 1
    BY <2>1, FS_Interval
  <2> QED BY <1>1, <2>2
<1>6. rank \in Surjection(Node, 0..(N - 1))
  BY <1>4, <1>5, FS_Injection
<1>7. n - 1 \in 0..(N - 1)
  BY <1>1
<1>8. \E x \in Node : Cardinality(B(x)) = n - 1
  BY <1>6, <1>7 DEF Surjection
<1> QED BY <1>8 DEF NodeAt

\* The metadata of a new cluster validates.
LEMMA NewMetadataSound ==
  ASSUME NEW identity \in Identity, NEW ports \in Ports
  PROVE  Sound(NewMetadata(identity, ports))
<1> DEFINE list == [i \in 1..replication_factor |-> NodeAt(i)]
<1> DEFINE m == NewMetadata(identity, ports)
<1>0. Cardinality(Node) \in Nat
  BY MetadataAssumption, FS_CardinalityType
<1>1. replication_factor \in Nat /\ replication_factor \in 1..Cardinality(Node)
  BY <1>0, MetadataAssumption
<1>2. ASSUME NEW i \in 1..replication_factor
      PROVE  NodeAt(i) \in Node /\ Cardinality({y \in Node : y < NodeAt(i)}) = i - 1
  <2>1. i \in 1..Cardinality(Node)
    BY <1>0, <1>1
  <2> QED BY <2>1, NodeAtType
<1>3. list \in Seq(Node) /\ DOMAIN list = 1..replication_factor
  <2>1. list \in [1..replication_factor -> Node]
    BY <1>2
  <2> HIDE DEF list
  <2> QED BY <1>1, <2>1
<1>4. IsInjective(list)
  <2>1. ASSUME NEW i \in 1..replication_factor, NEW j \in 1..replication_factor,
               NodeAt(i) = NodeAt(j)
        PROVE  i = j
    <3>1. i - 1 = j - 1
      BY <1>2, <2>1
    <3> QED BY <3>1
  <2> QED BY <1>3, <2>1 DEF IsInjective
<1>5. list[1] \in Range(list) /\ Range(list) \subseteq Node
  <2>1. 1 \in DOMAIN list
    BY <1>1, <1>3
  <2>2. \A i \in DOMAIN list : list[i] \in Node
    BY <1>2, <1>3
  <2> HIDE DEF list
  <2> QED BY <2>1, <2>2 DEF Range
<1>6. ports \in [Node -> 1..MaxPort]
  BY MetadataAssumption
<1>7. /\ m.identity = identity /\ m.routing_version = ROUTING_VERSION /\ m.epoch = 1
      /\ m.replication_factor = replication_factor /\ m.members = ports /\ m.term = 1
      /\ m.placement_epoch = 1 /\ m.leader = list[1] /\ m.replicas = list
      /\ m.last_log_index = 0 /\ m.committed_index = 0 /\ m.index = 0 /\ m.status = "none"
  BY DEF NewMetadata
<1>8. IsMetadata(m)
  <2>1. DOMAIN m = {"identity", "routing_version", "epoch", "replication_factor", "members",
                    "term", "placement_epoch", "leader", "replicas", "last_log_index",
                    "committed_index", "index", "status"}
    BY DEF NewMetadata
  <2> HIDE DEF m, list
  <2> QED BY <1>3, <1>6, <1>7, <2>1 DEF IsMetadata
<1> HIDE DEF m, list
<1>9. Validates(m)
  BY <1>1, <1>4, <1>5, <1>6, <1>7 DEF Validates, Range
<1>10. DOMAIN m.members = Node /\ m.index <= m.last_log_index
  BY <1>6, <1>7
<1>11. Sound(m)
  BY <1>8, <1>9, <1>10 DEF Sound
<1> QED BY <1>11 DEF m

-----------------------------------------------------------------------------
(***************************************************************************)
(* Changes of the metadata.                                                *)
(***************************************************************************)
\* What every operation leaves alone, and which way the rest may go.
Succeeds(n, m) ==
  /\ DOMAIN n = DOMAIN m
  /\ n.identity = m.identity /\ n.routing_version = m.routing_version
  /\ n.replication_factor = m.replication_factor
  /\ DOMAIN n.members = DOMAIN m.members /\ Range(n.members) \subseteq 1..MaxPort
  /\ n.epoch = m.epoch + 1
  /\ n.term \in {m.term, m.term + 1}
  /\ n.placement_epoch \in {m.placement_epoch, m.placement_epoch + 1}
  /\ n.replicas \in Seq(DOMAIN m.members) /\ IsInjective(n.replicas)
  /\ n.leader \in Range(n.replicas)
  /\ n.last_log_index \in {m.last_log_index, m.last_log_index + 1}
  /\ n.committed_index \in {m.committed_index, m.index}
  /\ n.committed_index >= m.committed_index
  /\ n.index \in {m.index, m.last_log_index}
  /\ n.status \in {"none", "prepared", "committed"}

LEMMA SuccessorSound ==
  ASSUME NEW m, NEW n, Sound(m), Succeeds(n, m)
  PROVE  /\ Sound(n)
         /\ IsMetadata(relied) /\ Covers(m) => Covers(n)
<1>1. /\ m.epoch \in Nat /\ m.term \in Nat /\ m.placement_epoch \in Nat
      /\ m.last_log_index \in Nat /\ m.committed_index \in Nat /\ m.index \in Nat
      /\ m.index <= m.last_log_index /\ m.committed_index <= m.last_log_index
      /\ m.epoch > 0 /\ m.term > 0 /\ m.placement_epoch > 0
  BY DEF Sound, IsMetadata, Validates
<1>2. /\ n.epoch \in Nat /\ n.epoch > 0 /\ n.epoch >= m.epoch
      /\ n.term \in Nat /\ n.term > 0 /\ n.term >= m.term
      /\ n.placement_epoch \in Nat /\ n.placement_epoch > 0
      /\ n.placement_epoch >= m.placement_epoch
  BY <1>1 DEF Succeeds
<1>3. /\ n.last_log_index \in Nat /\ n.committed_index \in Nat /\ n.index \in Nat
      /\ n.index <= n.last_log_index /\ n.committed_index <= n.last_log_index
      /\ n.last_log_index >= m.last_log_index /\ n.committed_index >= m.committed_index
  BY <1>1 DEF Succeeds
<1>4. DOMAIN n.members = DOMAIN m.members /\ n.replicas \in Seq(DOMAIN n.members)
      /\ DOMAIN n = DOMAIN m
  BY DEF Succeeds
<1>5. IsMetadata(n)
  <2>1. DOMAIN m = {"identity", "routing_version", "epoch", "replication_factor", "members",
                    "term", "placement_epoch", "leader", "replicas", "last_log_index",
                    "committed_index", "index", "status"}
    BY DEF Sound, IsMetadata
  <2> QED BY <1>2, <1>3, <1>4, <2>1 DEF IsMetadata
<1>6. Range(n.replicas) \subseteq DOMAIN n.members
  BY <1>4 DEF Range
<1>7. Validates(n)
  <2>1. /\ m.identity \in Identity /\ m.routing_version = ROUTING_VERSION
        /\ m.replication_factor \in 1..Cardinality(DOMAIN m.members)
    BY DEF Sound, Validates
  <2>2. /\ n.identity = m.identity /\ n.routing_version = m.routing_version
        /\ n.replication_factor = m.replication_factor
        /\ Range(n.members) \subseteq 1..MaxPort /\ IsInjective(n.replicas)
        /\ n.leader \in Range(n.replicas) /\ n.status \in {"none", "prepared", "committed"}
    BY DEF Succeeds
  <2> QED BY <1>2, <1>3, <1>4, <1>6, <2>1, <2>2 DEF Validates
<1>8. ASSUME IsMetadata(relied), Covers(m)
      PROVE  Covers(n)
  <2>1. /\ relied.epoch \in Nat /\ relied.term \in Nat /\ relied.placement_epoch \in Nat
        /\ relied.last_log_index \in Nat /\ relied.committed_index \in Nat
    BY <1>8 DEF IsMetadata
  <2> QED BY <1>1, <1>2, <1>3, <1>8, <2>1 DEF Covers
<1>9. DOMAIN n.members = Node
  BY <1>4 DEF Sound
<1> QED BY <1>3, <1>5, <1>7, <1>8, <1>9 DEF Sound

\* A loaded file, with the ports of this start and the next epoch.
LEMMA OpenedSound ==
  ASSUME NEW e, SoundFile(e), e # Absent, NEW ports \in Ports, NEW n,
         DOMAIN Decoded(e).members = Node,
         n = [Decoded(e) EXCEPT !.members = ports, !.epoch = @ + 1]
  PROVE  /\ Sound(n)
         /\ IsMetadata(relied) /\ Covers(e.payload) => Covers(n)
<1> DEFINE d == Decoded(e)
<1>1. IsMetadata(e.payload) /\ Loads(e) /\ e.payload.index <= e.payload.last_log_index
  BY DEF SoundFile
<1>2. /\ DOMAIN d = DOMAIN e.payload
      /\ d.epoch = e.payload.epoch /\ d.term = e.payload.term
      /\ d.placement_epoch = e.payload.placement_epoch /\ d.members = e.payload.members
      /\ d.replicas = e.payload.replicas /\ d.last_log_index = e.payload.last_log_index
      /\ d.committed_index = e.payload.committed_index /\ d.index = e.payload.index
  BY <1>1 DEF Decoded, IsMetadata
<1> HIDE DEF d
<1>3. IsMetadata(d) /\ d.index <= d.last_log_index
  BY <1>1, <1>2 DEF IsMetadata
<1>4. Validates(d) /\ DOMAIN d.members = Node
  BY <1>1 DEF Loads, d
<1>5. Sound(d)
  BY <1>3, <1>4 DEF Sound
<1>6. /\ DOMAIN n = DOMAIN d /\ n.members = ports /\ n.epoch = d.epoch + 1
      /\ n.identity = d.identity /\ n.routing_version = d.routing_version
      /\ n.replication_factor = d.replication_factor /\ n.term = d.term
      /\ n.placement_epoch = d.placement_epoch /\ n.leader = d.leader
      /\ n.replicas = d.replicas /\ n.last_log_index = d.last_log_index
      /\ n.committed_index = d.committed_index /\ n.index = d.index /\ n.status = d.status
  BY <1>3 DEF IsMetadata, d
<1>7. ports \in [Node -> 1..MaxPort]
  BY MetadataAssumption
<1>8. DOMAIN ports = Node /\ Range(ports) \subseteq 1..MaxPort
  BY <1>7 DEF Range
<1>9. /\ d.committed_index \in Nat /\ d.replicas \in Seq(DOMAIN d.members)
      /\ IsInjective(d.replicas) /\ d.leader \in Range(d.replicas)
      /\ d.status \in {"none", "prepared", "committed"}
  BY <1>3, <1>4 DEF IsMetadata, Validates
<1>10. Succeeds(n, d)
  BY <1>4, <1>6, <1>8, <1>9 DEF Succeeds
<1>11. Covers(e.payload) <=> Covers(d)
  BY <1>2 DEF Covers
<1> QED BY <1>5, <1>10, <1>11, SuccessorSound

-----------------------------------------------------------------------------
(***************************************************************************)
(* Every step keeps the invariant.                                         *)
(***************************************************************************)
\* New or loaded metadata.
LEMMA OpenStep ==
  ASSUME Inv, NEW identity \in Identity, NEW ports \in Ports, Open(identity, ports)
  PROVE  Inv'
<1>0. /\ pc' = "publish" /\ UNCHANGED <<file, durable, temporary, relied>>
      /\ pc = "closed"
  BY DEF Open, files
<1>1. SoundFile(file) /\ file \in durable
  BY DEF Inv, FileInv
<1>2. Sound(metadata') /\ (relied # None => Covers(metadata'))
  <2>1. CASE file = Absent
    <3>1. metadata' = NewMetadata(identity, ports)
      BY <2>1 DEF Open
    <3>2. relied = None
      BY <2>1 DEF Inv, ReliedInv, ReliedSurvives
    <3> QED BY <3>1, <3>2, NewMetadataSound
  <2>2. CASE file # Absent
    <3>1. /\ metadata' = [Decoded(file) EXCEPT !.members = ports, !.epoch = @ + 1]
          /\ DOMAIN Decoded(file).members = Node
      BY <2>2 DEF Open
    <3>2. relied # None => IsMetadata(relied) /\ Covers(file.payload)
      BY DEF Inv, ReliedInv, ReliedSurvives
    <3> QED BY <1>1, <2>2, <3>1, <3>2, OpenedSound
  <2> QED BY <2>1, <2>2
<1>3. relied' # None => Covers(metadata)'
  BY <1>0, <1>2 DEF Covers
<1>4. ReliedInv'
  BY <1>0, <1>3 DEF Inv, ReliedInv, ReliedSurvives, Covers
<1>5. PublishInv' /\ FileInv'
  BY <1>0 DEF Inv, PublishInv, FileInv
<1>6. MemoryInv'
  BY <1>2 DEF MemoryInv
<1> QED BY <1>4, <1>5, <1>6 DEF Inv

\* The change of an operation, which it publishes next.
LEMMA ChangeStep ==
  ASSUME Inv, pc = "open", pc' = "publish", Succeeds(metadata', metadata),
         UNCHANGED <<file, durable, temporary, relied>>
  PROVE  Inv'
<1>1. Sound(metadata)
  BY DEF Inv, MemoryInv
<1>2. relied # None => IsMetadata(relied) /\ Covers(metadata)
  BY DEF Inv, ReliedInv, ReliedSurvives
<1>3. Sound(metadata') /\ (relied # None => Covers(metadata'))
  BY <1>1, <1>2, SuccessorSound
<1>4. relied' # None => Covers(metadata)'
  BY <1>3 DEF Covers
<1>5. ReliedInv'
  BY <1>4 DEF Inv, ReliedInv, ReliedSurvives, Covers
<1>6. PublishInv' /\ FileInv'
  BY DEF Inv, PublishInv, FileInv
<1>7. MemoryInv'
  BY <1>3 DEF MemoryInv
<1> QED BY <1>5, <1>6, <1>7 DEF Inv

\* What the operations start from.
LEMMA SoundFacts ==
  ASSUME NEW m, Sound(m)
  PROVE  /\ DOMAIN m = {"identity", "routing_version", "epoch", "replication_factor",
                        "members", "term", "placement_epoch", "leader", "replicas",
                        "last_log_index", "committed_index", "index", "status"}
         /\ m.epoch \in Nat /\ m.term \in Nat /\ m.placement_epoch \in Nat
         /\ m.last_log_index \in Nat /\ m.committed_index \in Nat /\ m.index \in Nat
         /\ m.replicas \in Seq(DOMAIN m.members) /\ IsInjective(m.replicas)
         /\ m.leader \in Range(m.replicas) /\ Range(m.members) \subseteq 1..MaxPort
         /\ m.status \in {"none", "prepared", "committed"}
         /\ DOMAIN m.members = Node
BY DEF Sound, IsMetadata, Validates

LEMMA AllocateIndexStep ==
  ASSUME Inv, AllocateIndex
  PROVE  Inv'
<1>1. Sound(metadata)
  BY DEF Inv, MemoryInv, AllocateIndex, Change
<1>2. Succeeds(metadata', metadata)
  BY <1>1, SoundFacts DEF AllocateIndex, Change, Succeeds
<1> QED BY <1>2, ChangeStep DEF AllocateIndex, Change, files

LEMMA RecordPreparedStep ==
  ASSUME Inv, RecordPrepared
  PROVE  Inv'
<1>1. Sound(metadata)
  BY DEF Inv, MemoryInv, RecordPrepared
<1>2. Succeeds(metadata', metadata)
  BY <1>1, SoundFacts DEF RecordPrepared, Change, Succeeds
<1> QED BY <1>2, ChangeStep DEF RecordPrepared, Change, files

LEMMA RecordCommittedStep ==
  ASSUME Inv, RecordCommitted
  PROVE  Inv'
<1>1. Sound(metadata)
  BY DEF Inv, MemoryInv, RecordCommitted
<1>2. Succeeds(metadata', metadata)
  BY <1>1, SoundFacts DEF RecordCommitted, Change, Succeeds
<1> QED BY <1>2, ChangeStep DEF RecordCommitted, Change, files

LEMMA ElectLeaderStep ==
  ASSUME Inv, NEW n \in Node, ElectLeader(n)
  PROVE  Inv'
<1>1. Sound(metadata)
  BY DEF Inv, MemoryInv, ElectLeader
<1>2. Succeeds(metadata', metadata)
  BY <1>1, SoundFacts DEF ElectLeader, Change, Succeeds
<1> QED BY <1>2, ChangeStep DEF ElectLeader, Change, files

LEMMA AddReplicaStep ==
  ASSUME Inv, NEW n \in Node, AddReplica(n)
  PROVE  Inv'
<1>1. Sound(metadata)
  BY DEF Inv, MemoryInv, AddReplica
<1> DEFINE old == metadata.replicas
<1> DEFINE new == Append(old, n)
<1>2. old \in Seq(Node) /\ IsInjective(old) /\ n \notin Range(old) /\ metadata.leader \in Range(old)
  BY <1>1, SoundFacts DEF AddReplica
<1> HIDE DEF old
<1>3. /\ new \in Seq(Node) /\ DOMAIN new = 1..(Len(old) + 1) /\ DOMAIN old = 1..Len(old)
      /\ Len(old) \in Nat /\ new[Len(old) + 1] = n
      /\ \A i \in 1..Len(old) : new[i] = old[i]
  BY <1>2
<1> HIDE DEF new
<1>4. IsInjective(new)
  <2>1. ASSUME NEW i \in DOMAIN new, NEW j \in DOMAIN new, new[i] = new[j]
        PROVE  i = j
    <3>1. \A k \in 1..Len(old) : new[k] # n
      BY <1>2, <1>3 DEF Range
    <3>2. CASE i \in 1..Len(old) /\ j \in 1..Len(old)
      BY <1>2, <1>3, <2>1, <3>2 DEF IsInjective
    <3>3. CASE i = Len(old) + 1 \/ j = Len(old) + 1
      <4>1. (i = Len(old) + 1 \/ i \in 1..Len(old)) /\ (j = Len(old) + 1 \/ j \in 1..Len(old))
        BY <1>3
      <4> QED BY <1>3, <2>1, <3>1, <3>3, <4>1
    <3> QED BY <1>3, <3>2, <3>3
  <2> QED BY <2>1 DEF IsInjective
<1>5. metadata.leader \in Range(new)
  <2>1. PICK i \in 1..Len(old) : old[i] = metadata.leader
    BY <1>2, <1>3 DEF Range
  <2>2. i \in DOMAIN new
    BY <1>3
  <2> QED BY <1>3, <2>1, <2>2 DEF Range
<1>6. metadata' = [[metadata EXCEPT !.replicas = new, !.placement_epoch = @ + 1]
                     EXCEPT !.epoch = @ + 1]
  BY DEF AddReplica, Change, new, old
<1>7. Succeeds(metadata', metadata)
  BY <1>1, <1>3, <1>4, <1>5, <1>6, SoundFacts DEF Succeeds
<1> QED BY <1>7, ChangeStep DEF AddReplica, Change, files

LEMMA RestartNodeStep ==
  ASSUME Inv, NEW n \in Node, NEW ports \in Ports, RestartNode(n, ports)
  PROVE  Inv'
<1>1. Sound(metadata)
  BY DEF Inv, MemoryInv, RestartNode, Change
<1> DEFINE old == metadata.members
           new == [old EXCEPT ![n] = ports[n]]
<1>2. DOMAIN old = Node /\ Range(old) \subseteq 1..MaxPort /\ ports[n] \in 1..MaxPort
  BY <1>1, SoundFacts, MetadataAssumption
<1>3. DOMAIN new = DOMAIN old /\ Range(new) \subseteq 1..MaxPort
  BY <1>2 DEF Range
<1>4. metadata' = [[metadata EXCEPT !.members = new] EXCEPT !.epoch = @ + 1]
  BY DEF RestartNode, Change
<1> HIDE DEF new
<1>5. Succeeds(metadata', metadata)
  BY <1>1, <1>3, <1>4, SoundFacts DEF Succeeds
<1> QED BY <1>5, ChangeStep DEF RestartNode, Change, files

\* The file that is written is the metadata, which can be loaded again.
LEMMA EnvelopeSound ==
  ASSUME NEW m, Sound(m)
  PROVE  /\ SoundFile(Envelope(m)) /\ Envelope(m) # Absent /\ Envelope(m).payload = m
<1> DEFINE e == Envelope(m)
<1>1. /\ DOMAIN e = {"version", "payload", "whole"}
      /\ e.version = 2 /\ e.payload = m /\ e.whole = TRUE
  BY DEF Envelope, PROTOCOL_VERSION
<1>2. Absent.version = 0
  BY DEF Absent
<1> HIDE DEF e
<1>3. e # Absent
  BY <1>1, <1>2
<1>4. Loads(e)
  BY <1>1 DEF Loads, Decodes, Decoded, Sound, LEGACY_PROTOCOL_VERSION, PROTOCOL_VERSION
<1>5. SoundFile(e)
  BY <1>1, <1>4 DEF SoundFile, IsEnvelope, Sound
<1> QED BY <1>1, <1>3, <1>5 DEF e

LEMMA WriteTemporaryStep ==
  ASSUME Inv, WriteTemporary
  PROVE  Inv'
BY DEF Inv, WriteTemporary, PublishInv, MemoryInv, FileInv, ReliedInv, ReliedSurvives, Covers

LEMMA RenameStep ==
  ASSUME Inv, Rename
  PROVE  Inv'
<1>1. /\ pc = "rename" /\ pc' = "sync" /\ UNCHANGED <<metadata, relied>>
      /\ file' = temporary /\ durable' = durable \cup {temporary}
  BY DEF Rename
<1>2. temporary = Envelope(metadata) /\ Sound(metadata)
  BY <1>1 DEF Inv, PublishInv, MemoryInv
<1>3. SoundFile(temporary) /\ temporary # Absent /\ temporary.payload = metadata
  BY <1>2, EnvelopeSound
<1>4. PublishInv' /\ MemoryInv'
  BY <1>1, <1>2 DEF PublishInv, MemoryInv
<1>5. FileInv'
  BY <1>1, <1>3 DEF Inv, FileInv
<1>6. relied # None =>
        Covers(metadata) /\ \A e \in durable \cup {file} : e # Absent /\ Covers(e.payload)
  BY <1>1 DEF Inv, ReliedInv, ReliedSurvives
<1>7. ReliedInv'
  BY <1>1, <1>3, <1>6 DEF Inv, ReliedInv, ReliedSurvives, Covers
<1> QED BY <1>4, <1>5, <1>7 DEF Inv

LEMMA SyncDirectoryStep ==
  ASSUME Inv, SyncDirectory
  PROVE  Inv'
<1>1. /\ pc = "sync" /\ pc' = "open" /\ UNCHANGED <<metadata, file>>
      /\ relied' = metadata /\ durable' = {file}
  BY DEF SyncDirectory
<1>2. file = Envelope(metadata) /\ Sound(metadata)
  BY <1>1 DEF Inv, PublishInv, MemoryInv
<1>3. SoundFile(file) /\ file # Absent /\ file.payload = metadata
  BY <1>2, EnvelopeSound
<1>4. PublishInv' /\ MemoryInv' /\ FileInv'
  BY <1>1, <1>2, <1>3 DEF PublishInv, MemoryInv, FileInv
<1>5. IsMetadata(relied)'
  BY <1>1, <1>2 DEF Sound
<1>6. /\ metadata.epoch >= metadata.epoch /\ metadata.term >= metadata.term
      /\ metadata.placement_epoch >= metadata.placement_epoch
      /\ metadata.last_log_index >= metadata.last_log_index
      /\ metadata.committed_index >= metadata.committed_index
  BY <1>2, SoundFacts
<1>7. ReliedInv'
  BY <1>1, <1>3, <1>5, <1>6 DEF ReliedInv, ReliedSurvives, Covers
<1> QED BY <1>4, <1>7 DEF Inv

LEMMA PublishRaisesStep ==
  ASSUME Inv, PublishRaises
  PROVE  Inv'
<1>1. /\ pc \in {"publish", "rename", "sync"} /\ UNCHANGED <<file, durable, relied>>
      /\ \/ pc' = "closed"
         \/ pc' = "open" /\ metadata' = metadata
  BY DEF PublishRaises
<1>2. PublishInv' /\ MemoryInv' /\ FileInv'
  BY <1>1 DEF Inv, PublishInv, MemoryInv, FileInv
<1>3. ReliedInv'
  BY <1>1 DEF Inv, ReliedInv, ReliedSurvives, Covers
<1> QED BY <1>2, <1>3 DEF Inv

LEMMA CrashStep ==
  ASSUME Inv, Crash
  PROVE  Inv'
<1>1. /\ pc' = "closed" /\ UNCHANGED relied
      /\ file' \in durable /\ durable' \subseteq durable /\ file' \in durable'
  BY DEF Crash, files, Inv, FileInv
<1>2. PublishInv' /\ MemoryInv' /\ FileInv'
  BY <1>1 DEF Inv, PublishInv, MemoryInv, FileInv
<1>3. ReliedInv'
  BY <1>1 DEF Inv, ReliedInv, ReliedSurvives, Covers
<1> QED BY <1>2, <1>3 DEF Inv

LEMMA CloseStep ==
  ASSUME Inv, Close
  PROVE  Inv'
<1>1. pc' = "closed" /\ UNCHANGED <<file, durable, relied>>
  BY DEF Close, files
<1>2. PublishInv' /\ MemoryInv' /\ FileInv'
  BY <1>1 DEF Inv, PublishInv, MemoryInv, FileInv
<1>3. ReliedInv'
  BY <1>1 DEF Inv, ReliedInv, ReliedSurvives, Covers
<1> QED BY <1>2, <1>3 DEF Inv

-----------------------------------------------------------------------------
(***************************************************************************)
(* The theorems.                                                           *)
(***************************************************************************)
LEMMA InitInv == Init => Inv
<1> SUFFICES ASSUME Init PROVE Inv
  OBVIOUS
<1>1. /\ file \in InitFiles /\ durable = {file} /\ pc = "closed"
      /\ relied = IF file = Absent THEN None ELSE file.payload
  BY DEF Init
<1>2. SoundFile(file)
  BY <1>1, FilesAssumption DEF SoundFile, IsEnvelope
<1>3. PublishInv /\ MemoryInv /\ FileInv
  BY <1>1, <1>2 DEF PublishInv, MemoryInv, FileInv
<1>4. CASE file = Absent
  <2>1. relied = None
    BY <1>1, <1>4
  <2> QED BY <1>3, <2>1 DEF Inv, ReliedInv, ReliedSurvives
<1>5. CASE file # Absent
  <2>1. relied = file.payload /\ IsMetadata(relied)
    BY <1>1, <1>2, <1>5 DEF SoundFile
  <2>2. Covers(relied)
    BY <2>1 DEF Covers, IsMetadata
  <2> QED BY <1>1, <1>3, <1>5, <2>1, <2>2 DEF Inv, ReliedInv, ReliedSurvives
<1> QED BY <1>4, <1>5

LEMMA NextInv == Inv /\ [Next]_vars => Inv'
<1> SUFFICES ASSUME Inv, [Next]_vars PROVE Inv'
  OBVIOUS
<1>1. CASE UNCHANGED vars
  BY <1>1 DEF vars, files, Inv, PublishInv, MemoryInv, FileInv, ReliedInv, ReliedSurvives,
     Covers
<1>2. CASE Next
  BY <1>2, OpenStep, AllocateIndexStep, RecordPreparedStep, RecordCommittedStep,
     ElectLeaderStep, AddReplicaStep, RestartNodeStep, CloseStep, WriteTemporaryStep, RenameStep,
     SyncDirectoryStep, PublishRaisesStep, CrashStep DEF Next
<1> QED BY <1>1, <1>2

\* The invariant holds of every behaviour of a coordinator and its file.
THEOREM MetadataInvariant == Spec => []Inv
<1> QED BY InitInv, NextInv, PTL DEF Spec

\* No operation, in any order with errors, crashes and restarts, leaves metadata that
\* ClusterMetadata.publish refuses.
THEOREM PublicationsValidate == Spec => []PublicationValidates
<1>1. Inv => PublicationValidates
  BY DEF Inv, MemoryInv, Sound, PublicationValidates
<1> QED BY <1>1, MetadataInvariant, PTL

\* Whatever file a power loss in the middle of a publication leaves, ClusterMetadata.load
\* accepts it.
THEOREM FilesReload == Spec => []FileReloads
<1>1. Inv => FileReloads
  BY DEF Inv, FileInv, SoundFile, FileReloads
<1> QED BY <1>1, MetadataInvariant, PTL

\* What a publication that returned told the coordinator to rely on is in every file that
\* can be found later and in the memory of the coordinator that goes on.
THEOREM ReliedOnSurvives == Spec => []ReliedSurvives
<1>1. Inv => ReliedSurvives
  BY DEF Inv, ReliedInv
<1> QED BY <1>1, MetadataInvariant, PTL
=============================================================================
