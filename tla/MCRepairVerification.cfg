SPECIFICATION Spec
CONSTANTS
  Outputs <- MCOutputs
  Regions <- MCRegions
  StrictRegion <- MCStrictRegion
  ClaimSets <- MCClaimSets
  Statements <- MCStatements
  MaxOutages = 1
  Records <- MCRecords
  MaxReport = 2
INVARIANT TypeOK
INVARIANT ProposalSurvivesRecheck
INVARIANT AcknowledgedIsFound
INVARIANT ExecutedWithinScope
INVARIANT VerifiedMeansGone
INVARIANT PartialMeansFewer
PROPERTY VerificationIsOnePhase
CHECK_DEADLOCK FALSE
