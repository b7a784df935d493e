SPECIFICATION Spec
CONSTANTS
  Node = {1, 2, 3}
  InitReplicas <- MCThree
  r1 = r1
  r2 = r2
  m1 = m1
  m2 = m2
  m3 = m3
  k1 = k1
  Request = {r1, r2}
  Mutation = {m1, m2}
  Key = {k1}
  KeyOf <- MCOneKey
  Rejected = {}
  Halved = {m2}
  NoMutation = NoMutation
  Calls <- MCCalls
  Faults = {"crash", "partition", "drop", "power"}
  MaxFaults = 2
  MaxIndex = 3
  MaxTerm = 3
INVARIANTS
  IndexAgreement
  RequestCommittedOnce
  OneAnswerPerRequest
  AckedOnMajority
  CommittedWasPrepared
  NewestAppliedWins
  NothingLeftToReplay
  LogAndTableAgree
PROPERTIES
  NeverBackwards
