-------------------------- MODULE ClusterMetadata --------------------------
(***************************************************************************)
(* cluster-metadata.json (distributed/protocol.py) and the coordinator     *)
(* that keeps it (distributed/cluster.py): created or loaded when a        *)
(* cluster opens, changed in memory by the operations, published as a      *)
(* whole before they go on.  DistributedCluster takes a publication for    *)
(* one step that always succeeds; here it is a file written, renamed and   *)
(* made durable in its directory, and each of the three may raise.         *)
(*                                                                         *)
(* JSON is left out but for what a decoder can tell: an envelope is whole  *)
(* (its checksum is right) or not, and has the fields of its version.      *)
(* One shard stands for all; the request table holds the last request.     *)
(***************************************************************************)
EXTENDS Integers, Sequences, FiniteSets, Functions

CONSTANTS
  Node,             \* node names
  Identity,         \* a dimension and the canonical configuration for it
  LegacyIdentity,   \* what version 1 files, which have no configuration, mean
  Ports,            \* the ports the processes may be given
  InitFiles,        \* the files a coordinator may find
  replication_factor,
  MaxEpoch,         \* how far the epoch counts (bound)
  MaxFaults         \* how many crashes, power losses and errors there are (bound)

PROTOCOL_VERSION == 2
ROUTING_VERSION == 2
LEGACY_PROTOCOL_VERSION == 1
LEGACY_ROUTING_VERSION == 1
MaxPort == 65535
NoConfig == <<>>

ASSUME MetadataAssumption ==
  /\ IsFiniteSet(Node) /\ Node \subseteq Nat
  /\ LegacyIdentity \in Identity /\ NoConfig \notin Identity
  /\ Ports \subseteq [Node -> 1..MaxPort]
  /\ replication_factor \in 1..Cardinality(Node)
  /\ MaxEpoch \in Nat /\ MaxFaults \in Nat

VARIABLES
  file,      \* what the name cluster-metadata.json refers to, and
  durable,   \* what it may refer to after a power loss
  temporary, \* the file next to it that is being written
  metadata,  \* the coordinator's copy
  pc,
  opening,   \* the running publication is that of __init__
  relied,    \* history: the metadata of the last publication that returned
  faults

files == <<file, durable, temporary>>
vars == <<files, metadata, pc, opening, relied, faults>>

Absent == [version |-> 0]
None == [epoch |-> 0]

\* checked_envelope
Envelope(m) == [version |-> PROTOCOL_VERSION, payload |-> m, whole |-> TRUE]
Torn(m) == [version |-> PROTOCOL_VERSION, payload |-> m, whole |-> FALSE]

-----------------------------------------------------------------------------
\* ClusterMetadata.validate
Validates(m) ==
  /\ m.identity \in Identity
  /\ m.replication_factor \in 1..Cardinality(DOMAIN m.members)
  /\ m.routing_version = ROUTING_VERSION /\ m.epoch > 0
  /\ Range(m.members) \subseteq 1..MaxPort
  /\ m.term > 0 /\ m.placement_epoch > 0
  /\ IsInjective(m.replicas)
  /\ m.leader \in Range(m.replicas)
  /\ m.committed_index <= m.last_log_index
  /\ Range(m.replicas) \subseteq DOMAIN m.members
  /\ m.status \in {"none", "prepared", "committed"}

\* from_payload: a version 1 payload gets the default configuration and the
\* present routing version.
Decoded(e) ==
  IF e.version = LEGACY_PROTOCOL_VERSION
  THEN [e.payload EXCEPT !.identity = LegacyIdentity, !.routing_version = ROUTING_VERSION]
  ELSE e.payload

\* _decode_envelope_versioned
Decodes(e) == e.whole /\ e.version \in {LEGACY_PROTOCOL_VERSION, PROTOCOL_VERSION}

\* load: the checks of from_payload and its final validate
Loads(e) ==
  /\ Decodes(e)
  /\ e.version = LEGACY_PROTOCOL_VERSION =>
       /\ e.payload.identity = NoConfig
       /\ e.payload.routing_version = LEGACY_ROUTING_VERSION
  /\ Validates(Decoded(e))

\* The fields of ClusterMetadata and of its ShardPlacement.
IsMetadata(m) ==
  /\ DOMAIN m = {"identity", "routing_version", "epoch", "replication_factor", "members",
                 "term", "placement_epoch", "leader", "replicas", "last_log_index",
                 "committed_index", "index", "status"}
  /\ {m.epoch, m.term, m.placement_epoch, m.last_log_index, m.committed_index,
      m.index} \subseteq Nat
  /\ m.replicas \in Seq(DOMAIN m.members)

\* A coordinator finds nothing, or what a coordinator of this version or of version 1
\* has left; the index of a request is one that was allocated.
ASSUME FilesAssumption ==
  \A e \in InitFiles \ {Absent} :
    /\ DOMAIN e = {"version", "payload", "whole"}
    /\ IsMetadata(e.payload) /\ Loads(e)
    /\ e.payload.index <= e.payload.last_log_index

-----------------------------------------------------------------------------
\* The n-th node in the order of their names.
NodeAt(n) == CHOOSE x \in Node : Cardinality({y \in Node : y < x}) = n - 1

NewMetadata(identity, ports) ==
  LET list == [i \in 1..replication_factor |-> NodeAt(i)]
  IN  [identity |-> identity, routing_version |-> ROUTING_VERSION, epoch |-> 1,
       replication_factor |-> replication_factor, members |-> ports,
       term |-> 1, placement_epoch |-> 1, leader |-> list[1], replicas |-> list,
       last_log_index |-> 0, committed_index |-> 0, index |-> 0, status |-> "none"]

Init ==
  /\ file \in InitFiles /\ durable = {file}
  /\ temporary = Absent
  /\ metadata = None /\ pc = "closed" /\ opening = FALSE
  /\ relied = IF file = Absent THEN None ELSE file.payload
  /\ faults = 0

Fault == faults < MaxFaults /\ faults' = faults + 1

\* __init__ up to the publication: the processes are started, on new ports, and the
\* metadata is created or loaded.  A file that cannot be loaded, or is of another
\* configuration or another set of members, ends it with nothing changed.
Open(identity, ports) ==
  /\ pc = "closed"
  /\ IF file = Absent THEN metadata' = NewMetadata(identity, ports)
     ELSE /\ Loads(file)
          /\ Decoded(file).identity = identity /\ DOMAIN Decoded(file).members = Node
          /\ Decoded(file).epoch < MaxEpoch
          /\ metadata' = [Decoded(file) EXCEPT !.members = ports, !.epoch = @ + 1]
  /\ pc' = "publish" /\ opening' = TRUE
  /\ UNCHANGED <<files, relied, faults>>

\* An operation changes the metadata in memory and publishes it.
Change(m) ==
  /\ pc = "open" /\ metadata.epoch < MaxEpoch
  /\ metadata' = [m EXCEPT !.epoch = @ + 1]
  /\ pc' = "publish" /\ opening' = FALSE
  /\ UNCHANGED <<files, relied, faults>>

AllocateIndex == Change([metadata EXCEPT !.last_log_index = @ + 1])

RecordPrepared ==
  /\ pc = "open" /\ metadata.last_log_index > metadata.index
  /\ Change([metadata EXCEPT !.index = metadata.last_log_index, !.status = "prepared"])

RecordCommitted ==
  /\ pc = "open" /\ metadata.status = "prepared"
  /\ Change([metadata EXCEPT
       !.committed_index = IF @ > metadata.index THEN @ ELSE metadata.index,
       !.status = "committed"])

ElectLeader(n) ==
  /\ pc = "open" /\ n \in Range(metadata.replicas)
  /\ Change([metadata EXCEPT !.term = @ + 1, !.placement_epoch = @ + 1, !.leader = n])

\* Mutant: a node that has the shard is added again.
AddReplica_Again(n) ==
  Change([metadata EXCEPT !.replicas = Append(@, n), !.placement_epoch = @ + 1])

AddReplica(n) ==
  /\ pc = "open" /\ n \notin Range(metadata.replicas)
  /\ Change([metadata EXCEPT !.replicas = Append(@, n), !.placement_epoch = @ + 1])

\* restart_node: the process of n is started again, on a new port.
RestartNode(n, ports) == Change([metadata EXCEPT !.members[n] = ports[n]])

Close ==
  /\ pc = "open" /\ pc' = "closed" /\ metadata' = None
  /\ UNCHANGED <<files, opening, relied, faults>>

-----------------------------------------------------------------------------
(***************************************************************************)
(* ClusterMetadata.publish                                                 *)
(***************************************************************************)
\* The payload is validated, written next to the file and synced.
WriteTemporary ==
  /\ pc = "publish" /\ Validates(metadata)
  /\ temporary' = Envelope(metadata)
  /\ pc' = "rename"
  /\ UNCHANGED <<file, durable, metadata, opening, relied, faults>>

\* Mutant: the temporary file is not synced before it is renamed.
Rename_Unsynced ==
  /\ pc = "rename"
  /\ file' = temporary /\ temporary' = Absent
  /\ durable' = durable \cup {temporary, [temporary EXCEPT !.whole = FALSE]}
  /\ pc' = "sync"
  /\ UNCHANGED <<metadata, opening, relied, faults>>

Rename ==
  /\ pc = "rename"
  /\ file' = temporary /\ temporary' = Absent
  /\ durable' = durable \cup {temporary}
  /\ pc' = "sync"
  /\ UNCHANGED <<metadata, opening, relied, faults>>

\* Mutant: publish returns without syncing the directory.
SyncDirectory_Skipped ==
  /\ pc = "sync"
  /\ relied' = metadata
  /\ pc' = "open"
  /\ UNCHANGED <<files, metadata, opening, faults>>

SyncDirectory ==
  /\ pc = "sync"
  /\ durable' = {file} /\ relied' = metadata
  /\ pc' = "open"
  /\ UNCHANGED <<file, temporary, metadata, opening, faults>>

\* A system call raises.  The operation ends, with its change still in memory for
\* the next publication; __init__ ends without a coordinator.
PublishRaises ==
  /\ pc \in {"publish", "rename", "sync"} /\ Fault
  /\ temporary' \in {temporary} \cup IF pc = "publish" THEN {Torn(metadata)} ELSE {}
  /\ pc' = IF opening THEN "closed" ELSE "open"
  /\ metadata' = IF opening THEN None ELSE metadata
  /\ UNCHANGED <<file, durable, opening, relied>>

\* The coordinator dies, or the machine does and shows one of the durable files.
Crash ==
  /\ pc # "closed" /\ Fault
  /\ pc' = "closed" /\ metadata' = None
  /\ \/ UNCHANGED files
     \/ /\ file' \in durable /\ durable' = {file'}
        /\ temporary' = Absent
  /\ UNCHANGED <<opening, relied>>

Next ==
  \/ \E identity \in Identity, ports \in Ports : Open(identity, ports)
  \/ AllocateIndex \/ RecordPrepared \/ RecordCommitted
  \/ \E n \in Node : ElectLeader(n) \/ AddReplica(n)
  \/ \E n \in Node, ports \in Ports : RestartNode(n, ports)
  \/ Close
  \/ WriteTemporary \/ Rename \/ SyncDirectory \/ PublishRaises \/ Crash

Spec == Init /\ [][Next]_vars

-----------------------------------------------------------------------------
\* No operation leaves metadata that publish refuses, which would stop every later
\* publication too: not after an upgrade, an election or a move of the shard, nor
\* when the change of an operation that raised is published by the next one.
PublicationValidates == pc \in {"publish", "rename", "sync", "open"} => Validates(metadata)

\* Whatever happens in the middle of a publication, the next coordinator can load
\* the file it finds.
FileReloads == \A e \in durable \cup {file} : e = Absent \/ Loads(e)

\* Everything the replicas were told of: a reader of m does not fall behind it.
Covers(m) ==
  /\ m.epoch >= relied.epoch
  /\ m.term >= relied.term /\ m.placement_epoch >= relied.placement_epoch
  /\ m.last_log_index >= relied.last_log_index
  /\ m.committed_index >= relied.committed_index

\* What a publication that returned told the coordinator to rely on (an index that
\* is not used again, a term nobody else has, a request that is committed) is in
\* every file a later coordinator can find, after crashes and power losses, and in
\* the memory of the present one after publications that raised.
ReliedSurvives ==
  relied # None =>
    /\ \A e \in durable \cup {file} : e # Absent /\ Covers(e.payload)
    /\ pc # "closed" => Covers(metadata)
=============================================================================
