\* A batch of two internal and three external rows under one rule per pass.
CONSTANTS
  i1 = i1
  i2 = i2
  e1 = e1
  e2 = e2
  e3 = e3
  Internal <- MCInternal
  External <- MCExternal
  InternalContents <- MCInternalContents
  ExternalContents <- MCExternalContents
  Rank <- MCRank
  Rules <- MCRules
  Linkage <- MCLinkage
  Aggregation <- MCAggregation
  Similarity <- MCSimilarity
  SuffixLen = 2
  Digits <- MCDigits
  NoDay = 0
  FeeRules <- MCFeeRules
  RateUnit <- MCRateUnit
SPECIFICATION ReconciliationSpec
INVARIANTS
  ReconciliationTypeOK
  EachMatchedOnce
  EachAccountedOnce
  StrongerEvidenceFirst
  SettlementsAddUp
  GapsAnswered
  RecordsInOneIssue
CHECK_DEADLOCK FALSE
