SPECIFICATION StoreSpec
CONSTANTS
  t1 = t1
  t2 = t2
  m = m
  r = r
  Tables = {t1, t2}
  Manifest = manifest
  Builders = {m, r}
  Main = m
INVARIANT RegisteredIsReal
CHECK_DEADLOCK FALSE
