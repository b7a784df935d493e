CONSTANTS
  q1 = q1
  m1 = m1
  m2 = m2
  k1 = k1
  k2 = k2
  Request = {q1}
  Mutation = {m1, m2}
  Key = {k1, k2}
  NoMutation = NoMutation
  Rejected = {}
  Halved = {}
  KeyOf <- MCKeyOf
  Entries <- MCEntries
  Configs <- MCConfigs
  Snapshots = {1}
  MaxFaults = 2
  MaxErrors = 1
SPECIFICATION Spec
INVARIANTS AnsweredSurvives OpenShardIsWhole JournalReopens ContentIsJournalled
PROPERTIES ChangesByShardSteps
