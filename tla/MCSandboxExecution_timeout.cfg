SPECIFICATION BoundedSpec
CONSTANTS
  t1 = t1
  m = m
  manifest = manifest
  Tables = {t1}
  Manifest = manifest
  Builders = {m}
  Main = m
  Statements <- OneStatement
  RequirePostgres = TRUE
PROPERTY ExecutionReturns
CHECK_DEADLOCK FALSE
