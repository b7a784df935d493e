SPECIFICATION Spec
CONSTANTS
  Id = {i, j}
  HeadMaxPoints = 2
  MaxSealedRuns = 1
  SealedRunLimit = 2
  MaxSequence = 2
  MaxGeneration = 1
  MaxViews = 1
SYMMETRY MCSymmetry
CHECK_DEADLOCK FALSE
INVARIANTS
  ViewsResolve
  SnapshotIsCurrent
