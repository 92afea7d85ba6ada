\* One conversation beside one operator and the worker: what the agent shows, starts and edits.
CONSTANTS
  c1 = c1
  c2 = c2
  a1 = a1
  i1 = i1
  i2 = i2
  d1 = d1
  d2 = d2
  s1 = s1
  Clients = {c1, c2}
  Accounts = {a1}
  ImportSources = {i1}
  Definitions = {d1, d2}
  Owner <- TwoClients
  SourcesOf <- OneSourceEach
  Types = {"BANK_GL", "TAX_PAYMENT"}
  ScopedTypes = {"BANK_GL"}
  Usable <- SomeUsable
  SourceForms <- ADirectory
  DefinitionForms <- FewForms
  Patches <- AnotherPlaceOrNothing
  SeededAccounts = {a1}
  SeededSources <- Unpolled
  SeededDefinitions <- BankOnly
  Operators = {o1}
  None = None
  MaxChanges = 1
  MaxBatches = 1
  ProviderSettings <- SomeSettings
  MaxToolIterations = 2
  MaxBlocks = 2
  Subsets = {{}}
  ModelFollowsPrompt = TRUE
SPECIFICATION AgentSpec
INVARIANTS
  AgentTypeOK
  ScopeKept
  RunsWereProposed
PROPERTIES
  EveryTurnAnswered
