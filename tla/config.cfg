\* Two requests at a time that load, edit and activate versions and bind a batch.
CONSTANTS
  Sources = {s1}
  Batches = {b1}
  Requests = {r1, r2}
  MaxVersions = 3
SPECIFICATION ConfigSpec
SYMMETRY Symmetry
INVARIANTS
  ConfigTypeOK
  ActivatedSourcesKnown
  BoundOnceActivated
  OneEditPerBase
PROPERTIES
  VersionsFrozen
  EditsTakeEffect
