SPECIFICATION Spec
CONSTANTS
  Id = {i, j}
  Value = {v}
  Sparse = {s}
  None = none
  DenseCalls <- MCCalls
  Faults = {"crash", "batch_error"}
  MaxFaults = 2
  MaxSequence = 4
SYMMETRY MCSymmetry
INVARIANTS
  ReopenKeepsPending
  CheckpointCanRun
  Reopenable
PROPERTIES
  ImplementsDurableMap
