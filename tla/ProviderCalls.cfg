SPECIFICATION FairSpec
CONSTANTS
  Limits = {0, 1, 2, 3}
  Budget = 60
  FirstDelay = 2
  LongestAnswer = 60
  Durations = {0, 31, 60}
  RetryAfters = {0, 45}
INVARIANT TypeOK
INVARIANT OverrunBounded
INVARIANT NothingGivenUpEarly
PROPERTY DefinitiveAnswerEndsCall
PROPERTY CallIsOnePhase
PROPERTY CallEnds
CHECK_DEADLOCK FALSE
