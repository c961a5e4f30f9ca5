SPECIFICATION Spec
CONSTANTS
  s1 = s1
  s2 = s2
  s3 = s3
  s4 = s4
  t1 = t1
  t2 = t2
  None = None
  Requests = {r1, r2}
  Sources = {s1, s2}
  Targets = {t1, t2}
  Strip <- MCStrip
  Unresolvable = {}
  Rejected = {s2, t2}
  Outcomes <- TwoOutcomes
  Failures <- AllFailures
  MaxInFlight = 2
  MaxFaults = 1
SYMMETRY Sym
INVARIANT VerifiedIsEarned
INVARIANT ExecutedAsChecked
PROPERTY VersionsAreHistory
CHECK_DEADLOCK FALSE
