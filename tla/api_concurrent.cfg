\* Two clients on the same batches: do committed rows follow the lifecycle?
CONSTANTS
  Batches = {b1, b2}
  Definitions = {d1}
  Sources = {s1, s2}
  NoBatch = NoBatch
  NoDefinition = NoDefinition
  Sessions = {a1, a2}
  Required = {s1}
  AdHocRuns = {1, 2}
  Touched = {}
SPECIFICATION ApiSpec
PROPERTIES
  ImplementsLifecycle
