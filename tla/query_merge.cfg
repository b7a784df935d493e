SPECIFICATION Spec
CONSTANTS
  Id <- MCId
  Width = 3
  shard_count = 2
  Replica = 2
  Score = {1, 2}
  Requests <- MCRequests
  FusedScore <- MCFusedScore
INVARIANTS
  SameAsOneCollection
  StatsCountEachShardOnce
CHECK_DEADLOCK FALSE
