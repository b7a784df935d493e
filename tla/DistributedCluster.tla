------------------------- MODULE DistributedCluster -------------------------
(***************************************************************************)
(* One shard of the reference cluster: the coordinator of                  *)
(* python/akashadb/distributed/cluster.py and the replica processes that   *)
(* hold the shard.                                                         *)
(*                                                                         *)
(* Every public operation of the coordinator holds one lock, so operations *)
(* never overlap; inside an operation every RPC is a step of its own, and  *)
(* between two RPCs a replica process may die or the whole machine may     *)
(* lose power.  `pc' says which loop the running operation is in.          *)
(*                                                                         *)
(* An RPC loop visits placement.replicas in list order; the coordinator's  *)
(* progress through a loop is the set `todo' of nodes not yet visited.     *)
(***************************************************************************)
EXTENDS ReplicaShard

CONSTANTS
  Node,         \* node identifiers, ordered as the coordinator orders names
  InitReplicas, \* the replica list of the first placement, leader first
  Calls,        \* the <<request, mutation>> pairs clients call with
  Faults,       \* the kinds of fault that may happen
  MaxFaults,    \* how many of them (bound)
  MaxIndex,     \* how many log indexes may be allocated (bound)
  MaxTerm       \* how many terms there may be (bound)

FaultKinds == {"crash", "partition", "drop", "power"}

ASSUME ClusterAssumption ==
  /\ Node \subseteq Nat
  /\ InitReplicas \in Seq(Node) /\ Len(InitReplicas) > 0
  /\ Calls \subseteq Request \X Mutation
  /\ Faults \subseteq FaultKinds
  /\ MaxFaults \in Nat /\ MaxIndex \in Nat /\ MaxTerm \in Nat

VARIABLES
  \* cluster-metadata.json; published before the next RPC whenever it changes
  term, placement_epoch, leader, replicas, last_log_index, committed_index,
  request_table,
  \* replica processes
  disk,         \* durable shard state of each node
  proc,         \* "down", "up" (no shard opened yet) or "serving"
  partitioned,  \* the process refuses every shard request
  \* the operation that holds the coordinator lock
  pc, op,
  \* history and fault budget
  issued,       \* every entry the coordinator allocated an index for
  acked,        \* every CommitResult returned
  faults

metadata == <<term, placement_epoch, leader, replicas, last_log_index,
              committed_index, request_table>>
processes == <<disk, proc, partitioned>>
history == <<issued, acked>>
vars == <<metadata, processes, pc, op, history, faults>>

PCs == {"closed", "idle", "begin", "elect", "configure", "append", "prepare",
        "commit", "catch_up", "fetch", "replay", "install",
        "publish"}

(***************************************************************************)
(* The arguments and local variables of the running operation.             *)
(*   call     the request and mutation of _write                           *)
(*   index    the log index of the entry being replicated                  *)
(*   todo     the nodes a loop has yet to visit                            *)
(*   got      the nodes that answered (prepared, committed)                *)
(*   retry    the recursion depth of _write                                *)
(*   then     where the coordinator continues after a nested call          *)
(*   pending  the nodes __init__ or restart_node has yet to catch up       *)
(*   node     the target of catch_up or of rebalance_add_replica           *)
(*   source   the replica a rebalance copies                               *)
(*   queue    the entries still to be sent to `node'                       *)
(*   init     the operation is DistributedCluster.__init__                 *)
(***************************************************************************)
NoCall == <<>>
NoOp == [call |-> NoCall, index |-> 0, todo |-> {}, got |-> {}, retry |-> 0,
         then |-> "idle", pending |-> {}, node |-> 0,
         source |-> 0, queue |-> {},
         init |-> FALSE]

OpType ==
  [call : Calls \cup {NoCall}, index : Nat, todo : SUBSET Node, got : SUBSET Node,
   retry : 0..2, then : PCs, pending : SUBSET Node, node : Node \cup {0},
   source : Node \cup {0}, queue : SUBSET Entry, init : BOOLEAN]

AllDown == [n \in Node |-> "down"]
NonePartitioned == [n \in Node |-> FALSE]

Members(list) == {list[i] : i \in 1..Len(list)}

\* ShardPlacement.quorum
Quorum == Len(replicas) \div 2 + 1

\* The first of the nodes S in the placement's list.
FirstListed(S) ==
  replicas[CHOOSE i \in 1..Len(replicas) :
             /\ replicas[i] \in S
             /\ \A j \in 1..(i - 1) : replicas[j] \notin S]

\* replica_server_main answers shard requests: the process runs, is not
\* partitioned, and (all but configure) has opened the shard.
Reachable(n) == proc[n] # "down" /\ ~partitioned[n]
Serving(n) == proc[n] = "serving" /\ ~partitioned[n]

CallEntry == [index |-> op.index, req |-> op.call[1], mut |-> op.call[2]]

\* An exception leaves the operation; __init__ closes the cluster first.
Raise ==
  /\ pc' = IF op.init THEN "closed" ELSE "idle"
  /\ op' = NoOp
  /\ proc' = IF op.init THEN AllDown ELSE proc
  /\ partitioned' = IF op.init THEN NonePartitioned ELSE partitioned

Fault(kind) ==
  /\ kind \in Faults
  /\ faults < MaxFaults
  /\ faults' = faults + 1

-----------------------------------------------------------------------------
(***************************************************************************)
(* Opening: __init__ publishes the metadata, configures every replica and  *)
(* catches every replica up.                                               *)
(***************************************************************************)
OpeningOp(list) ==
  [NoOp EXCEPT !.todo = Members(list), !.pending = Members(list), !.then = "catch_up",
               !.init = TRUE]

Init ==
  /\ term = 1 /\ placement_epoch = 1
  /\ leader = InitReplicas[1]
  /\ replicas = InitReplicas
  /\ last_log_index = 0 /\ committed_index = 0
  /\ request_table = {}
  /\ disk = [n \in Node |-> EmptyDisk]
  /\ proc = [n \in Node |-> "up"]
  /\ partitioned = NonePartitioned
  /\ pc = "configure" /\ op = OpeningOp(InitReplicas)
  /\ issued = {} /\ acked = {}
  /\ faults = 0

Open ==
  /\ pc = "closed"
  /\ proc' = [n \in Node |-> "up"]
  /\ pc' = "configure" /\ op' = OpeningOp(replicas)
  /\ UNCHANGED <<metadata, disk, partitioned, history, faults>>

Close ==
  /\ pc = "idle"
  /\ pc' = "closed"
  /\ proc' = AllDown /\ partitioned' = NonePartitioned
  /\ UNCHANGED <<metadata, disk, op, history, faults>>

-----------------------------------------------------------------------------
(***************************************************************************)
(* _write: the request table, then the leader check.                       *)
(***************************************************************************)
Write(c) ==
  /\ pc = "idle"
  /\ pc' = "begin" /\ op' = [NoOp EXCEPT !.call = c]
  /\ UNCHANGED <<metadata, processes, history, faults>>

Lookup(r) == {d \in request_table : d.req = r}

\* _ensure_leader looks at the leader's term only.
LeaderReady == Serving(leader) /\ disk[leader].term = term

\* A request ID reused with another mutation fails closed.
BeginConflict ==
  /\ pc = "begin"
  /\ \E d \in Lookup(op.call[1]) : d.mut # op.call[2]
  /\ pc' = "idle" /\ op' = NoOp
  /\ UNCHANGED <<metadata, processes, history, faults>>

\* An identical retry of a committed request returns the original commit.
BeginReturn ==
  /\ pc = "begin"
  /\ \E d \in Lookup(op.call[1]) :
       /\ d.mut = op.call[2] /\ d.status = "committed"
       /\ acked' = acked \cup {[req |-> d.req, mut |-> d.mut, index |-> d.index]}
  /\ pc' = "idle" /\ op' = NoOp
  /\ UNCHANGED <<metadata, processes, issued, faults>>

\* An identical retry of a prepared request commits at the recorded index.
BeginRetry ==
  /\ pc = "begin"
  /\ \E d \in Lookup(op.call[1]) :
       /\ d.mut = op.call[2] /\ d.status = "prepared"
       /\ IF LeaderReady
          THEN /\ pc' = "commit"
               /\ op' = [op EXCEPT !.index = d.index, !.todo = Members(replicas), !.got = {}]
          ELSE /\ pc' = "elect"
               /\ op' = [op EXCEPT !.index = d.index, !.then = "commit"]
  /\ UNCHANGED <<metadata, processes, history, faults>>

\* Mutant: the request table is not consulted.
BeginNew_NoLookup ==
  /\ pc = "begin" /\ LeaderReady
  /\ pc' = "append"
  /\ UNCHANGED <<metadata, processes, op, history, faults>>

BeginNew ==
  /\ pc = "begin"
  /\ Lookup(op.call[1]) = {}
  /\ IF LeaderReady
     THEN pc' = "append" /\ UNCHANGED op
     ELSE pc' = "elect" /\ op' = [op EXCEPT !.then = "append"]
  /\ UNCHANGED <<metadata, processes, history, faults>>

-----------------------------------------------------------------------------
(***************************************************************************)
(* _elect_leader: a quorum of statuses, the highest applied index, the     *)
(* smallest node; the new term and epoch are durable before any candidate  *)
(* learns of them.                                                         *)
(***************************************************************************)
Candidates == {n \in Members(replicas) : Serving(n)}

Best(candidates) ==
  CHOOSE n \in candidates : \A m \in candidates \ {n} :
    \/ disk[n].applied_index > disk[m].applied_index
    \/ disk[n].applied_index = disk[m].applied_index /\ n < m

Elect ==
  /\ pc = "elect"
  /\ Cardinality(Candidates) >= Quorum
  /\ term < MaxTerm
  /\ leader' = Best(Candidates)
  /\ term' = term + 1 /\ placement_epoch' = placement_epoch + 1
  /\ pc' = "configure" /\ op' = [op EXCEPT !.todo = Candidates]
  /\ UNCHANGED <<replicas, last_log_index, committed_index, request_table,
                 processes, history, faults>>

ElectFails ==
  /\ pc = "elect"
  /\ Cardinality(Candidates) < Quorum
  /\ Raise
  /\ UNCHANGED <<metadata, disk, history, faults>>

\* Candidates are configured in the order they were ranked, other loops follow
\* the placement's list.
NextToConfigure ==
  IF op.then \in {"begin", "append", "commit"} THEN Best(op.todo)
  ELSE FirstListed(op.todo)

\* What `configure' finds on disk: the first one after a start opens the shard.
Opened(n) == IF proc[n] = "up" THEN Recovered(disk[n]) ELSE disk[n]
OpenRaises(n) == proc[n] = "up" /\ RecoveryRaises(disk[n])

Configure(n) ==
  /\ pc = "configure" /\ n \in op.todo /\ n = NextToConfigure
  /\ Reachable(n) /\ ~OpenRaises(n)
  /\ ConfigureAccepts(Opened(n), term, placement_epoch)
  /\ disk' = [disk EXCEPT ![n] = Configured(Opened(n), term, placement_epoch)]
  /\ proc' = [proc EXCEPT ![n] = "serving"]
  /\ op' = [op EXCEPT !.todo = @ \ {n}]
  /\ UNCHANGED <<metadata, partitioned, pc, history, faults>>

\* The first replica that cannot be configured ends the loop.
ConfigureFails(n) ==
  /\ pc = "configure" /\ n \in op.todo /\ n = NextToConfigure
  /\ \/ ~Reachable(n)
     \/ OpenRaises(n)
     \/ ~ConfigureAccepts(Opened(n), term, placement_epoch)
  /\ disk' = IF Reachable(n) THEN [disk EXCEPT ![n] = Opened(n)] ELSE disk
  /\ Raise
  /\ UNCHANGED <<metadata, history, faults>>

ConfigureDone ==
  /\ pc = "configure" /\ op.todo = {}
  /\ pc' = op.then
  /\ op' = CASE op.then = "commit" -> [op EXCEPT !.todo = Members(replicas), !.got = {}]
             [] op.then = "idle"   -> NoOp
             [] OTHER              -> op
  /\ UNCHANGED <<metadata, processes, history, faults>>

-----------------------------------------------------------------------------
(***************************************************************************)
(* _write, continued: the index is durable before it is used, every        *)
(* replica prepares, and the request is recorded before anyone commits.    *)
(***************************************************************************)
\* Mutant: the index is used before it is published.
AllocateIndex_Unpublished ==
  /\ pc = "append"
  /\ last_log_index < MaxIndex
  /\ op' = [op EXCEPT !.index = last_log_index + 1, !.todo = Members(replicas), !.got = {}]
  /\ issued' = issued \cup
       {[index |-> last_log_index + 1, req |-> op.call[1], mut |-> op.call[2]]}
  /\ pc' = "prepare"
  /\ UNCHANGED <<metadata, processes, acked, faults>>

AllocateIndex ==
  /\ pc = "append"
  /\ last_log_index < MaxIndex
  /\ last_log_index' = last_log_index + 1
  /\ op' = [op EXCEPT !.index = last_log_index + 1, !.todo = Members(replicas), !.got = {}]
  /\ issued' = issued \cup
       {[index |-> last_log_index + 1, req |-> op.call[1], mut |-> op.call[2]]}
  /\ pc' = "prepare"
  /\ UNCHANGED <<term, placement_epoch, leader, replicas, committed_index,
                 request_table, processes, acked, faults>>

Prepare(n) ==
  /\ pc = "prepare" /\ n \in op.todo /\ n = FirstListed(op.todo)
  /\ Serving(n) /\ PrepareAccepts(disk[n], CallEntry, term, placement_epoch)
  /\ disk' = [disk EXCEPT ![n] = JournalPrepare(@, CallEntry)]
  /\ op' = [op EXCEPT !.todo = @ \ {n}, !.got = @ \cup {n}]
  /\ UNCHANGED <<metadata, proc, partitioned, pc, history, faults>>

PrepareFails(n) ==
  /\ pc = "prepare" /\ n \in op.todo /\ n = FirstListed(op.todo)
  /\ ~(Serving(n) /\ PrepareAccepts(disk[n], CallEntry, term, placement_epoch))
  /\ op' = [op EXCEPT !.todo = @ \ {n}]
  /\ UNCHANGED <<metadata, processes, pc, history, faults>>

\* The leader did not prepare: elect and run _write again, at a new index.
PrepareRetry ==
  /\ pc = "prepare" /\ op.todo = {}
  /\ leader \notin op.got /\ op.retry < 2
  /\ pc' = "elect"
  /\ op' = [NoOp EXCEPT !.call = op.call, !.retry = op.retry + 1, !.then = "begin"]
  /\ UNCHANGED <<metadata, processes, history, faults>>

PrepareAborts ==
  /\ pc = "prepare" /\ op.todo = {}
  /\ IF leader \in op.got THEN Cardinality(op.got) < Quorum ELSE op.retry >= 2
  /\ Raise
  /\ UNCHANGED <<metadata, disk, history, faults>>

\* The request table maps a request ID to one record.
Record(status) ==
  (request_table \ Lookup(op.call[1])) \cup
    {[req |-> op.call[1], mut |-> op.call[2], index |-> op.index, status |-> status]}

\* Mutant: the prepared request is not recorded before the commits are sent.
PrepareDone_Unrecorded ==
  /\ pc = "prepare" /\ op.todo = {}
  /\ leader \in op.got /\ Cardinality(op.got) >= Quorum
  /\ pc' = "commit" /\ op' = [op EXCEPT !.todo = Members(replicas), !.got = {}]
  /\ UNCHANGED <<metadata, processes, history, faults>>

\* Mutant: the leader's answer alone is enough.
PrepareDone_LeaderOnly ==
  /\ pc = "prepare" /\ op.todo = {}
  /\ leader \in op.got
  /\ request_table' = Record("prepared")
  /\ pc' = "commit" /\ op' = [op EXCEPT !.todo = Members(replicas), !.got = {}]
  /\ UNCHANGED <<term, placement_epoch, leader, replicas, last_log_index,
                 committed_index, processes, history, faults>>

PrepareDone ==
  /\ pc = "prepare" /\ op.todo = {}
  /\ leader \in op.got /\ Cardinality(op.got) >= Quorum
  /\ request_table' = Record("prepared")
  /\ pc' = "commit" /\ op' = [op EXCEPT !.todo = Members(replicas), !.got = {}]
  /\ UNCHANGED <<term, placement_epoch, leader, replicas, last_log_index,
                 committed_index, processes, history, faults>>

Commit(n) ==
  /\ pc = "commit" /\ n \in op.todo /\ n = FirstListed(op.todo)
  /\ Serving(n) /\ CommitAccepts(disk[n], CallEntry, term, placement_epoch)
  /\ ~CommitRaises(disk[n], CallEntry)
  /\ disk' = [disk EXCEPT ![n] = Last(CommitSteps(@, CallEntry))]
  /\ op' = [op EXCEPT !.todo = @ \ {n}, !.got = @ \cup {n}]
  /\ UNCHANGED <<metadata, proc, partitioned, pc, history, faults>>

\* The replica commits and the answer is lost.
CommitLost(n) ==
  /\ pc = "commit" /\ n \in op.todo /\ n = FirstListed(op.todo)
  /\ Serving(n) /\ CommitAccepts(disk[n], CallEntry, term, placement_epoch)
  /\ Fault("drop")
  /\ disk' = [disk EXCEPT ![n] = Last(CommitSteps(@, CallEntry))]
  /\ op' = [op EXCEPT !.todo = @ \ {n}]
  /\ UNCHANGED <<metadata, proc, partitioned, pc, history>>

\* The replica is away or rejects the entry; a mutation the collection refuses
\* is rejected after its commit marker is durable.
CommitFails(n) ==
  /\ pc = "commit" /\ n \in op.todo /\ n = FirstListed(op.todo)
  /\ LET accepted == Serving(n) /\ CommitAccepts(disk[n], CallEntry, term, placement_epoch)
     IN  /\ accepted => CommitRaises(disk[n], CallEntry)
         /\ disk' = IF accepted
                    THEN [disk EXCEPT ![n] = Last(CommitSteps(@, CallEntry))]
                    ELSE disk
  /\ op' = [op EXCEPT !.todo = @ \ {n}]
  /\ UNCHANGED <<metadata, proc, partitioned, pc, history, faults>>

CommitAborts ==
  /\ pc = "commit" /\ op.todo = {}
  /\ Cardinality(op.got) < Quorum
  /\ Raise
  /\ UNCHANGED <<metadata, disk, history, faults>>

\* Mutant: one commit answer is enough.
CommitDone_AnyAnswer ==
  /\ pc = "commit" /\ op.todo = {}
  /\ Cardinality(op.got) >= 1
  /\ committed_index' = IF op.index > committed_index THEN op.index ELSE committed_index
  /\ request_table' = Record("committed")
  /\ acked' = acked \cup
       {[req |-> op.call[1], mut |-> op.call[2], index |-> op.index]}
  /\ pc' = "idle" /\ op' = NoOp
  /\ UNCHANGED <<term, placement_epoch, leader, replicas, last_log_index,
                 processes, issued, faults>>

\* Mutant: the committed index follows the entry, whatever was committed before.
CommitDone_NoMax ==
  /\ pc = "commit" /\ op.todo = {}
  /\ Cardinality(op.got) >= Quorum
  /\ committed_index' = op.index
  /\ request_table' = Record("committed")
  /\ acked' = acked \cup
       {[req |-> op.call[1], mut |-> op.call[2], index |-> op.index]}
  /\ pc' = "idle" /\ op' = NoOp
  /\ UNCHANGED <<term, placement_epoch, leader, replicas, last_log_index,
                 processes, issued, faults>>

CommitDone ==
  /\ pc = "commit" /\ op.todo = {}
  /\ Cardinality(op.got) >= Quorum
  /\ committed_index' = IF op.index > committed_index THEN op.index ELSE committed_index
  /\ request_table' = Record("committed")
  /\ acked' = acked \cup
       {[req |-> op.call[1], mut |-> op.call[2], index |-> op.index]}
  /\ pc' = "idle" /\ op' = NoOp
  /\ UNCHANGED <<term, placement_epoch, leader, replicas, last_log_index,
                 processes, issued, faults>>

-----------------------------------------------------------------------------
(***************************************************************************)
(* catch_up: configure the target, take a source at or beyond the          *)
(* committed index, send what the source committed above the target's      *)
(* applied index.  restart_node and __init__ end in it.                    *)
(***************************************************************************)
CatchUpCall(n) ==
  /\ pc = "idle" /\ n \in Members(replicas)
  /\ pc' = "catch_up" /\ op' = [NoOp EXCEPT !.pending = {n}]
  /\ UNCHANGED <<metadata, processes, history, faults>>

RestartNode(n) ==
  /\ pc = "idle" /\ proc[n] = "down"
  /\ proc' = [proc EXCEPT ![n] = "up"]
  /\ IF n \in Members(replicas)
     THEN pc' = "catch_up" /\ op' = [NoOp EXCEPT !.pending = {n}]
     ELSE UNCHANGED <<pc, op>>
  /\ UNCHANGED <<metadata, disk, partitioned, history, faults>>

CatchUpNode(n) ==
  /\ pc = "catch_up" /\ n \in op.pending /\ n = FirstListed(op.pending)
  /\ pc' = "configure"
  /\ op' = [op EXCEPT !.pending = @ \ {n}, !.node = n, !.todo = {n}, !.then = "fetch"]
  /\ UNCHANGED <<metadata, processes, history, faults>>

CatchUpDone ==
  /\ pc = "catch_up" /\ op.pending = {}
  /\ pc' = "idle" /\ op' = NoOp
  /\ UNCHANGED <<metadata, processes, history, faults>>

\* _query_replica and _query_shard: the leader if it is caught up, else the first
\* replica that is.
CaughtUp ==
  {n \in Members(replicas) : Serving(n) /\ disk[n].applied_index >= committed_index}
QueryReplica == IF leader \in CaughtUp THEN leader ELSE FirstListed(CaughtUp)

Fetch ==
  /\ pc = "fetch" /\ Serving(op.node) /\ CaughtUp # {}
  /\ pc' = "replay"
  /\ op' = [op EXCEPT !.queue = CommittedAfter(disk[QueryReplica], disk[op.node].applied_index)]
  /\ UNCHANGED <<metadata, processes, history, faults>>

FetchFails ==
  /\ pc = "fetch"
  /\ ~Serving(op.node) \/ CaughtUp = {}
  /\ Raise
  /\ UNCHANGED <<metadata, disk, history, faults>>

\* The source dies after it was chosen and before it answers `entries'.
FetchInterrupted ==
  /\ pc = "fetch" /\ Serving(op.node) /\ CaughtUp # {}
  /\ Fault("crash")
  /\ pc' = IF op.init THEN "closed" ELSE "idle"
  /\ op' = NoOp
  /\ proc' = IF op.init THEN AllDown ELSE [proc EXCEPT ![QueryReplica] = "down"]
  /\ partitioned' = IF op.init THEN NonePartitioned ELSE partitioned
  /\ UNCHANGED <<metadata, disk, history>>

\* The tail of a rebalance is sent under the epoch that is published next.
SendEpoch == IF op.then = "publish" THEN placement_epoch + 1 ELSE placement_epoch

NextEntry == CHOOSE e \in op.queue : \A f \in op.queue : e.index <= f.index

\* One prepare and one commit RPC.  `commit' prepares by itself, so a crash
\* between the two leaves what a crash inside the second one can leave.
SendAccepted ==
  /\ Serving(op.node)
  /\ PrepareAccepts(disk[op.node], NextEntry, term, SendEpoch)

Replay ==
  /\ pc = "replay" /\ op.queue # {}
  /\ SendAccepted /\ ~CommitRaises(disk[op.node], NextEntry)
  /\ disk' = [disk EXCEPT ![op.node] = Last(CommitSteps(@, NextEntry))]
  /\ op' = [op EXCEPT !.queue = @ \ {NextEntry}]
  /\ UNCHANGED <<metadata, proc, partitioned, pc, history, faults>>

\* The first entry that is not confirmed ends the operation.
ReplayFails ==
  /\ pc = "replay" /\ op.queue # {}
  /\ SendAccepted => CommitRaises(disk[op.node], NextEntry)
  /\ disk' = IF SendAccepted
             THEN [disk EXCEPT ![op.node] = Last(CommitSteps(@, NextEntry))]
             ELSE disk
  /\ Raise
  /\ UNCHANGED <<metadata, history, faults>>

ReplayLost ==
  /\ pc = "replay" /\ op.queue # {} /\ SendAccepted
  /\ Fault("drop")
  /\ disk' = [disk EXCEPT ![op.node] = Last(CommitSteps(@, NextEntry))]
  /\ Raise
  /\ UNCHANGED <<metadata, history>>

ReplayDone ==
  /\ pc = "replay" /\ op.queue = {}
  /\ pc' = IF op.then = "publish" THEN "publish" ELSE "catch_up"
  /\ UNCHANGED <<metadata, processes, op, history, faults>>

-----------------------------------------------------------------------------
(***************************************************************************)
(* rebalance_add_replica: the target installs a snapshot of a caught-up    *)
(* source and the tail under the next epoch, then the placement is         *)
(* published, then every replica is configured.                            *)
(***************************************************************************)
RebalanceStart(n) ==
  /\ pc = "idle" /\ n \in Node \ Members(replicas)
  /\ CaughtUp # {}
  /\ Reachable(n)

RebalanceConfigure(n) ==
  /\ RebalanceStart(n)
  /\ ~OpenRaises(n) /\ ConfigureAccepts(Opened(n), term, placement_epoch + 1)
  /\ disk' = [disk EXCEPT ![n] = Configured(Opened(n), term, placement_epoch + 1)]
  /\ proc' = [proc EXCEPT ![n] = "serving"]
  /\ pc' = "install"
  /\ op' = [NoOp EXCEPT !.node = n, !.source = QueryReplica, !.then = "publish"]
  /\ UNCHANGED <<metadata, partitioned, history, faults>>

RebalanceRefused(n) ==
  /\ RebalanceStart(n)
  /\ OpenRaises(n) \/ ~ConfigureAccepts(Opened(n), term, placement_epoch + 1)
  /\ disk' = [disk EXCEPT ![n] = Opened(n)]
  /\ proc' = IF OpenRaises(n) THEN proc ELSE [proc EXCEPT ![n] = "serving"]
  /\ UNCHANGED <<metadata, partitioned, pc, op, history, faults>>

\* The export was taken before the target was configured and nothing writes in
\* between; the tail is asked for after the snapshot is installed.
InstallAccepted ==
  /\ Serving(op.node)
  /\ SnapshotAccepts(disk[op.node], disk[op.source], term, placement_epoch + 1)

Install ==
  /\ pc = "install"
  /\ InstallAccepted /\ Serving(op.source)
  /\ disk' = [disk EXCEPT ![op.node] =
                Installed(disk[op.source], term, placement_epoch + 1)]
  /\ pc' = "replay"
  /\ op' = [op EXCEPT !.queue =
              CommittedAfter(disk[op.source], disk[op.source].applied_index)]
  /\ UNCHANGED <<metadata, proc, partitioned, history, faults>>

InstallFails ==
  /\ pc = "install"
  /\ ~(InstallAccepted /\ Serving(op.source))
  /\ disk' = IF InstallAccepted
             THEN [disk EXCEPT ![op.node] =
                     Installed(disk[op.source], term, placement_epoch + 1)]
             ELSE disk
  /\ Raise
  /\ UNCHANGED <<metadata, history, faults>>

\* Mutant: the placement is published under the old epoch.
RebalancePublish_OldEpoch ==
  /\ pc = "publish"
  /\ replicas' = Append(replicas, op.node)
  /\ pc' = "configure"
  /\ op' = [NoOp EXCEPT !.todo = Members(replicas) \cup {op.node}]
  /\ UNCHANGED <<term, placement_epoch, leader, last_log_index, committed_index,
                 request_table, processes, history, faults>>

RebalancePublish ==
  /\ pc = "publish"
  /\ replicas' = Append(replicas, op.node)
  /\ placement_epoch' = placement_epoch + 1
  /\ pc' = "configure"
  /\ op' = [NoOp EXCEPT !.todo = Members(replicas) \cup {op.node}]
  /\ UNCHANGED <<term, leader, last_log_index, committed_index, request_table,
                 processes, history, faults>>

-----------------------------------------------------------------------------
(***************************************************************************)
(* Faults.                                                                 *)
(***************************************************************************)
PartitionNode(n) ==
  /\ pc = "idle" /\ proc[n] # "down" /\ ~partitioned[n]
  /\ Fault("partition")
  /\ partitioned' = [partitioned EXCEPT ![n] = TRUE]
  /\ UNCHANGED <<metadata, disk, proc, pc, op, history>>

HealNode(n) ==
  /\ pc = "idle" /\ partitioned[n]
  /\ partitioned' = [partitioned EXCEPT ![n] = FALSE]
  /\ UNCHANGED <<metadata, disk, proc, pc, op, history, faults>>

\* stop_node, or a process that dies by itself, between two requests.
Crash(n) ==
  /\ pc # "closed" /\ proc[n] # "down"
  /\ Fault("crash")
  /\ proc' = [proc EXCEPT ![n] = "down"]
  /\ partitioned' = [partitioned EXCEPT ![n] = FALSE]
  /\ UNCHANGED <<metadata, disk, pc, op, history>>

\* The process dies inside the handler, after some of its fsyncs; the
\* coordinator finds the connection closed in its next step.
HandlerSteps(n) ==
  CASE pc = "prepare" /\ n \in op.todo /\ n = FirstListed(op.todo)
         /\ PrepareAccepts(disk[n], CallEntry, term, placement_epoch)
         -> PrepareSteps(disk[n], CallEntry)
    [] pc = "commit" /\ n \in op.todo /\ n = FirstListed(op.todo)
         /\ CommitAccepts(disk[n], CallEntry, term, placement_epoch)
         -> CommitSteps(disk[n], CallEntry)
    [] pc = "replay" /\ op.queue # {} /\ n = op.node /\ SendAccepted
         -> CommitSteps(disk[n], NextEntry)
    [] OTHER -> <<disk[n]>>

CrashInHandler(n) ==
  /\ Serving(n) /\ Fault("crash")
  /\ \E i \in 2..Len(HandlerSteps(n)) :
       disk' = [disk EXCEPT ![n] = HandlerSteps(n)[i]]
  /\ proc' = [proc EXCEPT ![n] = "down"]
  /\ UNCHANGED <<metadata, partitioned, pc, op, history>>

\* The process dies while `configure' opens the shard.
CrashInRecovery(n) ==
  /\ pc = "configure" /\ n \in op.todo /\ n = NextToConfigure
  /\ proc[n] = "up" /\ ~partitioned[n] /\ Fault("crash")
  /\ \E d \in RecoverySteps(disk[n]) : disk' = [disk EXCEPT ![n] = d]
  /\ proc' = [proc EXCEPT ![n] = "down"]
  /\ UNCHANGED <<metadata, partitioned, pc, op, history>>

\* The exploration may not leave an operation waiting at a bound.
AtBound ==
  \/ pc = "append" /\ last_log_index = MaxIndex
  \/ pc = "elect" /\ term = MaxTerm

\* Coordinator and replicas stop together; only what is on disk remains.
PowerLoss ==
  /\ pc # "closed"
  /\ IF AtBound THEN UNCHANGED faults ELSE Fault("power")
  /\ pc' = "closed" /\ op' = NoOp
  /\ proc' = AllDown /\ partitioned' = NonePartitioned
  /\ UNCHANGED <<metadata, disk, history>>

-----------------------------------------------------------------------------
NodeStep(n) ==
  \/ Configure(n) \/ ConfigureFails(n)
  \/ Prepare(n) \/ PrepareFails(n)
  \/ Commit(n) \/ CommitLost(n) \/ CommitFails(n)
  \/ CatchUpCall(n) \/ RestartNode(n) \/ CatchUpNode(n)
  \/ RebalanceConfigure(n) \/ RebalanceRefused(n)
  \/ PartitionNode(n) \/ HealNode(n) \/ Crash(n) \/ CrashInHandler(n) \/ CrashInRecovery(n)

CoordinatorStep ==
  \/ Open \/ Close \/ \E c \in Calls : Write(c)
  \/ BeginConflict \/ BeginReturn \/ BeginRetry \/ BeginNew
  \/ Elect \/ ElectFails \/ ConfigureDone
  \/ AllocateIndex \/ PrepareRetry \/ PrepareAborts \/ PrepareDone
  \/ CommitAborts \/ CommitDone
  \/ CatchUpDone \/ Fetch \/ FetchFails \/ FetchInterrupted
  \/ Replay \/ ReplayFails \/ ReplayLost \/ ReplayDone
  \/ Install \/ InstallFails \/ RebalancePublish
  \/ PowerLoss

Next == CoordinatorStep \/ \E n \in Node : NodeStep(n)

Spec == Init /\ [][Next]_vars

(***************************************************************************)
(* Fairness.  The coordinator is one thread that runs an operation to its  *)
(* end: every step it takes inside an operation is weakly fair.  A client  *)
(* retries its call for ever, so a call that is possible again and again   *)
(* is made.  Nothing obliges an operator to restart a node, to heal a      *)
(* partition, to catch a node up or to rebalance, nor a fault to happen.   *)
(***************************************************************************)
InOperation ==
  \/ Open
  \/ BeginConflict \/ BeginReturn \/ BeginRetry \/ BeginNew
  \/ Elect \/ ElectFails \/ ConfigureDone
  \/ AllocateIndex \/ PrepareRetry \/ PrepareAborts \/ PrepareDone
  \/ CommitAborts \/ CommitDone
  \/ CatchUpDone \/ Fetch \/ FetchFails
  \/ Replay \/ ReplayFails \/ ReplayDone
  \/ Install \/ InstallFails \/ RebalancePublish
  \/ \E n \in Node : \/ Configure(n) \/ ConfigureFails(n)
                     \/ Prepare(n) \/ PrepareFails(n)
                     \/ Commit(n) \/ CommitFails(n)
                     \/ CatchUpNode(n)

LiveSpec == Spec /\ WF_vars(InOperation) /\ \A c \in Calls : SF_vars(Write(c))

\* The same with an operator who restarts stopped nodes and heals partitions.
RepairedSpec ==
  /\ LiveSpec
  /\ \A n \in Node : SF_vars(RestartNode(n)) /\ SF_vars(HealNode(n))

-----------------------------------------------------------------------------
(***************************************************************************)
(* Properties.                                                             *)
(***************************************************************************)
\* Metadata, replicas and the running operation stay in their types; the leader
\* is a member of the placement whatever elections and rebalances did.
TypeOK ==
  /\ term \in Nat \ {0} /\ placement_epoch \in Nat \ {0}
  /\ replicas \in Seq(Node) /\ leader \in Members(replicas)
  /\ last_log_index \in Nat /\ committed_index \in Nat
  /\ request_table \subseteq
       [req : Request, mut : Mutation, index : Nat \ {0},
        status : {"prepared", "committed"}]
  /\ disk \in [Node -> Disk]
  /\ proc \in [Node -> {"down", "up", "serving"}]
  /\ partitioned \in [Node -> BOOLEAN]
  /\ pc \in PCs
  /\ op \in OpType
  /\ issued \subseteq Entry
  /\ acked \subseteq [req : Request, mut : Mutation, index : Nat \ {0}]
  /\ faults \in Nat

CommittedOn(n) == {e \in disk[n].prepared : e.index \in disk[n].committed}

\* No two replicas ever journal different entries at one log index, whatever
\* leaders, retries, crashes and catch-ups came in between (_write publishes the
\* allocated index before the first prepare RPC).
IndexAgreement ==
  \A n, m \in Node : \A e \in disk[n].prepared, f \in disk[m].prepared :
    e.index = f.index => e = f

\* A request is committed at one log index on all replicas together, although
\* every retry of _write after an election allocates a new index: an index given
\* up by a retry is never committed anywhere.
RequestCommittedOnce ==
  \A n, m \in Node : \A e \in CommittedOn(n), f \in CommittedOn(m) :
    e.req = f.req => e = f

\* Identical retries are answered with one CommitResult and a request ID is never
\* acknowledged for two different mutations.
OneAnswerPerRequest ==
  \A a, b \in acked : a.req = b.req => a = b

\* Until a rebalance changes the placement, what was acknowledged is in the journal
\* of a majority of it, marked committed, after any crash, retry, election or
\* catch-up.
AckedOnMajority ==
  replicas = InitReplicas => \A a \in acked :
    2 * Cardinality({n \in Members(InitReplicas) :
          \E e \in CommittedOn(n) : e.index = a.index /\ e.mut = a.mut})
      > Len(InitReplicas)

\* Until a rebalance changes the placement, no node commits an entry, on the
\* coordinator's request, by catching up or as the target of the rebalance, that a
\* majority of the placement has not journalled.
CommittedWasPrepared ==
  replicas = InitReplicas => \A n \in Node : \A e \in CommittedOn(n) :
    2 * Cardinality({m \in Members(InitReplicas) : e \in disk[m].prepared})
      > Len(InitReplicas)

\* The durable metadata is ahead of every replica: no journalled index the
\* coordinator could allocate again, no term it could elect again, and only a
\* rebalance target may know the next placement epoch.
MetadataAhead ==
  /\ committed_index <= last_log_index
  /\ \A n \in Node :
       /\ \A e \in disk[n].prepared : e.index <= last_log_index
       /\ disk[n].applied_index <= last_log_index
       /\ disk[n].term <= term
       /\ disk[n].placement_epoch <= placement_epoch + (IF n \in Members(replicas) THEN 0 ELSE 1)

\* The newest applied mutation of a point is the one the collection holds: a
\* late commit, a replay after a crash, a catch-up or a snapshot never brings an
\* older one back.
NewestAppliedWins ==
  \A n \in Node : \A k \in Key :
    LET applied == {e \in issued : e.index \in disk[n].done /\ KeyOf[e.mut] = k}
    IN  IF applied = {}
        THEN disk[n].content[k] = NoMutation
        ELSE \E e \in applied : /\ \A f \in applied : f.index <= e.index
                                /\ disk[n].content[k] = e.mut

\* Where a refused upsert has left its vector and payload on a serving replica, no
\* mutation of that point with a higher index was applied whole before it: neither
\* a retry of the refused request nor a replay or a transfer lays the half of an old
\* mutation over a newer one.
OldHalfStaysUnder ==
  \A n \in Node : \A k \in Key :
    proc[n] = "serving" /\ disk[n].dense[k] # disk[n].content[k] =>
      \E e \in issued :
        /\ e.mut = disk[n].dense[k] /\ KeyOf[e.mut] = k /\ e.mut \in Rejected
        /\ \A f \in issued : f.index \in disk[n].done /\ KeyOf[f.mut] = k => f.index < e.index

\* When no request is being handled, a replica that has its shard open has applied
\* at least as far as its last commit marker, but for mutations its collection
\* refuses: recovery lost no durable commit and the tail of a rebalance is empty.
NothingLeftToReplay ==
  pc = "idle" =>
    \A n \in Node : proc[n] = "serving" =>
      \A i \in disk[n].committed :
        \/ i <= disk[n].applied_index
        \/ \E e \in disk[n].prepared : e.index = i /\ e.mut \in Rejected

\* Terms, placement epochs, the allocated and the committed index, and on every
\* replica the applied index, the term and the journal, never move backwards.
NeverBackwards ==
  [][/\ term' >= term /\ placement_epoch' >= placement_epoch
     /\ last_log_index' >= last_log_index /\ committed_index' >= committed_index
     /\ leader' # leader => term' > term
     /\ \A n \in Members(replicas) :
          /\ disk'[n].applied_index >= disk[n].applied_index
          /\ disk'[n].term >= disk[n].term
          /\ disk[n].prepared \subseteq disk'[n].prepared
          /\ disk[n].committed \subseteq disk'[n].committed]_vars

\* A request that its client keeps retrying is acknowledged in the end.
RetriesSucceed == \A c \in Calls : <>(\E a \in acked : a.req = c[1])

-----------------------------------------------------------------------------
(***************************************************************************)
(* The inductive invariant behind IndexAgreement, RequestCommittedOnce and *)
(* OneAnswerPerRequest.                                                    *)
(***************************************************************************)
EntryOf(d) == [index |-> d.index, req |-> d.req, mut |-> d.mut]

\* Every journalled or queued entry is one the coordinator issued, at an index it
\* issued once and that is durably allocated.
LogInv ==
  /\ \A e \in issued : e.index <= last_log_index
  /\ \A e, f \in issued : e.index = f.index => e = f
  /\ \A n \in Node : /\ disk[n].prepared \subseteq issued
                     /\ disk[n].applied_index <= last_log_index
  /\ op.queue \subseteq issued

\* A commit marker, and an entry that is being sent to a lagging replica, belong
\* to the request the table records at that index.
TableInv ==
  /\ \A d \in request_table : EntryOf(d) \in issued
  /\ \A d, e \in request_table : d.req = e.req => d = e
  /\ \A n \in Node : \A i \in disk[n].committed :
       \E d \in request_table : d.index = i
  /\ \A e \in op.queue : \E d \in request_table : d.index = e.index
  /\ \A a \in acked : \E d \in request_table :
       d.status = "committed" /\ EntryOf(d) = a

\* What the operation that holds the lock has established at each of its steps.
Nested(k) == pc \in {"elect", "configure"} /\ op.then = k

OpInv ==
  /\ pc = "elect" => op.then \in {"begin", "append", "commit"}
  /\ pc = "configure" =>
       op.then \in {"begin", "append", "commit", "idle", "catch_up", "fetch"}
  /\ pc \in {"begin", "append", "prepare", "commit"}
       \/ Nested("begin") \/ Nested("append") \/ Nested("commit")
       => op.call \in Calls
  /\ pc \in {"append", "prepare"} \/ Nested("append") => Lookup(op.call[1]) = {}
  /\ pc = "prepare" => CallEntry \in issued
  /\ pc = "commit" \/ Nested("commit") =>
       \E d \in request_table : EntryOf(d) = CallEntry
  /\ pc \in {"fetch", "replay", "install", "publish"} \/ Nested("fetch")
       => op.node \in Node
  /\ pc = "install" => op.source \in Node

\* The coordinator's tables, the replicas' journals and the running operation
\* agree on which entry has which index and which request has which entry.
LogAndTableAgree == LogInv /\ TableInv /\ OpInv

-----------------------------------------------------------------------------
(***************************************************************************)
(* What the repository's documents say and the code does not do.           *)
(***************************************************************************)
\* "The coordinator selects a caught-up replica for each shard": the replica a
\* query reads has applied every acknowledged mutation.
QueriedReplicaIsComplete ==
  pc = "idle" /\ CaughtUp # {} =>
    \A a \in acked : a.index \in disk[QueryReplica].done

\* "The coordinator acknowledges only after prepare and commit quorums", and a
\* commit applies the mutation: a majority holds what was acknowledged.
AckedIsApplied ==
  \A a \in acked :
    2 * Cardinality({n \in Members(InitReplicas) : a.index \in disk[n].done})
      > Len(InitReplicas)

\* "Persistent request IDs make coordinator retry idempotent even when commit
\* responses are lost": a request recorded as prepared is acknowledged when its
\* client keeps retrying and every replica is back.
PreparedRetrySucceeds ==
  \A c \in Calls :
    (\E d \in request_table : d.req = c[1] /\ d.status = "prepared")
      ~> (\E a \in acked : a.req = c[1])
=============================================================================
