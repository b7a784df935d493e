----------------------------- MODULE MCMetadata -----------------------------
(* A small instance of ClusterMetadata for TLC. *)
EXTENDS ClusterMetadata

MCIdentity == {<<2, "default">>, <<2, "tuned">>}
MCLegacy == <<2, "default">>

\* The ports of one start and of another.
MCPorts == {[n \in Node |-> 1], [n \in Node |-> MaxPort]}

\* No file, or one of version 1 whose shard was used and moved.
MCFiles ==
  {Absent,
   [version |-> LEGACY_PROTOCOL_VERSION, whole |-> TRUE,
    payload |->
      [NewMetadata(NoConfig, [n \in Node |-> 1]) EXCEPT
         !.routing_version = LEGACY_ROUTING_VERSION, !.leader = 2, !.term = 2,
         !.placement_epoch = 2, !.last_log_index = 1, !.index = 1, !.status = "prepared"]]}
=============================================================================
