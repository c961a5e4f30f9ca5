SPECIFICATION Spec
CONSTANTS
  AbsTol = 1
  RelDen = 100000
  OrderMatters = TRUE
  SampleLimit = 2
  Boundaries <- MCBoundaries
  Contexts <- MCContexts
INVARIANT PassIsAgreement
INVARIANT FailIsReal
INVARIANT CountIsDifferences
CHECK_DEADLOCK FALSE
