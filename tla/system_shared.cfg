\* The worker on configured runs beside one client on its own ad-hoc batches and on one run's.
CONSTANTS
  b1 = b1
  b2 = b2
  Batches = {b1, b2}
  Definitions = {d1}
  Sources = {s1}
  Handlers = {h1}
  MaxCrashes = 1
  NoBatch = NoBatch
  NoDefinition = NoDefinition
  Sessions = {a1}
  Required = {s1}
  AdHocRuns = {1, 2}
  Touched <- FilesOfSecond
SPECIFICATION SystemSpec
INVARIANTS
  SystemTypeOK
  RegisteredFilesOnDisk
  OthersMatchStatus
  OthersMatchFiles
PROPERTIES
  OthersFollowLifecycle
