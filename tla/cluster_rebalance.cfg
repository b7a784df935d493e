SPECIFICATION Spec
CONSTANTS
  Node = {1, 2, 3}
  InitReplicas <- MCTwo
  r1 = r1
  r2 = r2
  m1 = m1
  m2 = m2
  m3 = m3
  k1 = k1
  Request = {r1, r2}
  Mutation = {m1, m2, m3}
  Key = {k1}
  KeyOf <- MCOneKey
  Rejected = {m3}
  Halved = {m3}
  NoMutation = NoMutation
  Calls <- MCRefusedCalls
  Faults = {"crash", "partition", "drop", "power"}
  MaxFaults = 2
  MaxIndex = 2
  MaxTerm = 3
INVARIANTS
  MetadataAhead
  NewestAppliedWins
  OldHalfStaysUnder
