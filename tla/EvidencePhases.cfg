SPECIFICATION Spec
CONSTANTS
  SourcePreflights = {TRUE, FALSE}
  Confidences = {"EXACT", "APPROXIMATION"}
  MaxDiscs = 2
INVARIANT TypeOK
INVARIANT DecisionMatchesDefinition
INVARIANT VerifiedIsEarned
INVARIANT RepairFailureBlocks
INVARIANT SchemaMismatchBlocks
INVARIANT SucceededTranslationReported
CHECK_DEADLOCK FALSE
PROPERTY FollowsStateMachine
