\* Does every run end its batch when requests compete for the write lock?
CONSTANTS
  b1 = b1
  b2 = b2
  Batches = {b1, b2}
  Definitions = {d1}
  Sources = {s1}
  Handlers = {h1}
  MaxCrashes = 0
  NoBatch = NoBatch
  NoDefinition = NoDefinition
  Sessions = {a1}
  Required = {s1}
  AdHocRuns = {1}
  Touched = {}
SPECIFICATION SystemSpec
PROPERTIES
  EveryOutcomeTerminalUnderLoad
