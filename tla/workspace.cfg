\* Two operators set up two clients, edit, poll and run beside the worker.
CONSTANTS
  c1 = c1
  c2 = c2
  a1 = a1
  i1 = i1
  i2 = i2
  d1 = d1
  d2 = d2
  s1 = s1
  Clients = {c1, c2}
  Accounts = {a1}
  ImportSources = {i1, i2}
  Definitions = {d1, d2}
  Owner <- TwoClients
  SourcesOf <- OneSourceEach
  Types = {"BANK_GL", "TAX_PAYMENT"}
  ScopedTypes = {"BANK_GL"}
  Usable <- SomeUsable
  SourceForms <- ADirectory
  DefinitionForms <- SomeForms
  Patches <- AnotherPlaceOrOff
  SeededAccounts = {}
  SeededSources <- NoImportSource
  SeededDefinitions <- NoDefinition
  Operators = {o1, o2}
  None = None
  MaxChanges = 5
  MaxBatches = 3
SPECIFICATION WorkspaceSpec
SYMMETRY Symmetry
INVARIANTS
  FreshPollResult
  BlotterTellsRuns
CHECK_DEADLOCK FALSE
