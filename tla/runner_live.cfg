\* Two request threads, a fair worker, no kill: every accepted run ends.
CONSTANTS
  Batches = {b1, b2}
  Definitions = {d1}
  Sources = {s1}
  Handlers = {h1, h2}
  MaxCrashes = 0
  NoBatch = NoBatch
  NoDefinition = NoDefinition
SPECIFICATION FairSpec
PROPERTIES
  ImplementsFairLifecycle
