SPECIFICATION Spec
CONSTANTS
  Id = {i}
  Value = {v}
  Sparse = {s}
  None = none
  DenseCalls <- MCSingles
  Faults = {"append_error", "flush_error", "crash"}
  MaxFaults = 2
  MaxSequence = 3
CHECK_DEADLOCK FALSE
INVARIANTS
  CheckpointHeals
