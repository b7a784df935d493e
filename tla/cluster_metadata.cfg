SPECIFICATION Spec
CONSTANTS
  Node = {1, 2, 3}
  Identity <- MCIdentity
  LegacyIdentity <- MCLegacy
  Ports <- MCPorts
  InitFiles <- MCFiles
  replication_factor = 2
  MaxEpoch = 5
  MaxFaults = 3
INVARIANTS
  PublicationValidates
  FileReloads
  ReliedSurvives
CHECK_DEADLOCK FALSE
