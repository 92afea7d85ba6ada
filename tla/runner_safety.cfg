\* Two request threads racing for a batch code, the process killed at most once.
CONSTANTS
  Batches = {b1, b2}
  Definitions = {d1}
  Sources = {s1, s2}
  Handlers = {h1, h2}
  MaxCrashes = 1
  NoBatch = NoBatch
  NoDefinition = NoDefinition
SPECIFICATION Spec
SYMMETRY Symmetry
INVARIANTS
  TypeOK
  RegisteredFilesOnDisk
  RecordsMatchFiles
  ResultsMatchStatus
  NoBatchStranded
  RawPathsExclusive
  NeverProcessedIncomplete
  ImportSuffices
  ProgressShowsOutcome
PROPERTIES
  ProgressOnlyGrows
  EveryOutcomeTerminal
  ImplementsLifecycle
