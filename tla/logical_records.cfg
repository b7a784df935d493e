SPECIFICATION Spec
CONSTANTS
  dimension = 1
  Mutations <- MCMutations
  Files <- MCFiles
  Contents <- MCContents
  MaxJournal = 2
  MaxCopies = 2
INVARIANTS
  ContentIsTheJournal
  ExportImports
PROPERTIES
  SnapshotMovesAll
