\* Two batches of a client, two ledger rows and two rows of a bank statement each.
CONSTANTS
  i1 = i1
  i2 = i2
  e1 = e1
  e2 = e2
  e3 = e3
  Internal = {i1, i2}
  External = {e1, e2}
  InternalContents <- NoRows
  ExternalContents <- NoRows
  Rank <- MCRank
  Rules <- MCRules
  Linkage <- MCLinkage
  Aggregation <- MCAggregation
  Similarity <- MCSimilarity
  SuffixLen = 2
  Digits <- MCDigits
  NoDay = 0
  NoDate = 0
  FeeRules <- MCFeeRules
  RateUnit <- MCRateUnit
  DataSources <- MCDataSources
  IdentifierRules <- MCIdentifierRules
  ClassificationRules <- MCClassificationRules
  Spaces <- MCSpaces
  Alphanumeric <- MCDigits
  Recased <- MCRecased
  RowsOf <- MCRowsOf
  SourceOf <- MCSourceOf
  AccountOf <- TwoAccounts
  MaxBatches = 2
SPECIFICATION CashSpec
INVARIANTS
  StatementAccountedFor
  BandCoversOutcomes
CHECK_DEADLOCK FALSE
