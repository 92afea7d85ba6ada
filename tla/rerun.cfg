\* Does a second run over the same files match the same rows?
CONSTANTS
  i1 = i1
  i2 = i2
  e1 = e1
  e2 = e2
  e3 = e3
  Internal <- MCInternal
  External <- MCOneExternal
  InternalContents <- MCInternalContents
  ExternalContents <- MCExternalContents
  FirstRank <- MCRank
  SecondRank <- MCReverseRank
  Rules <- MCRules
  Linkage <- MCLinkage
  Aggregation <- MCAggregation
  Similarity <- MCSimilarity
  SuffixLen = 2
  Digits <- MCDigits
  NoDay = 0
  FeeRules <- MCFeeRules
  RateUnit <- MCRateUnit
SPECIFICATION RerunSpec
INVARIANTS
  Reproducible
CHECK_DEADLOCK FALSE
