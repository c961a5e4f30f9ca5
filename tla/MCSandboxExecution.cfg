SPECIFICATION FairSpec
CONSTANTS
  t1 = t1
  m = m
  r = r
  manifest = manifest
  Tables = {t1}
  Manifest = manifest
  Builders = {m, r}
  Main = m
  Statements <- MCStatements
  RequirePostgres = TRUE
INVARIANT TypeOK
INVARIANT SuccessIsReadable
INVARIANT SuccessHasItsResult
PROPERTY ExecutionIsOnePhase
PROPERTY ExecutionReturns
CHECK_DEADLOCK FALSE
