SPECIFICATION LiveSpec
CONSTANTS
  Client = {"c1", "c2"}
  CloseMeetsWait = FALSE
  MaxCalls = 2
  MaxFailures = 1
  LevelZeroLimit = 2
  LevelZeroDue = 1
  SealedRunLimit = 2
  MaxSealedRuns = 1
  CompactionAttempts = 2
INVARIANTS
  NoLostWakeup
  DrainServesRequests
  CapturedInputsLead
  NoRequestAfterFree
PROPERTIES
  EveryCallReturns
  RequestedIsTaken
