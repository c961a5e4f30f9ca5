SPECIFICATION Spec
CONSTANTS
  s1 = s1
  s2 = s2
  s3 = s3
  s4 = s4
  t1 = t1
  t2 = t2
  None = None
  Requests = {r1, r2, r3, r4}
  Sources = {s1, s2, s3, s4}
  Targets = {t1, t2}
  Strip <- MCStrip
  Unresolvable = {s4}
  Rejected = {s2, t2}
  Outcomes <- AllOutcomes
  Failures <- AllFailures
  MaxInFlight = 1
  MaxFaults = 0
SYMMETRY Sym
INVARIANT TypeOK
INVARIANT OneActiveVersion
INVARIANT VerifiedIsCurrent
INVARIANT RecordAgreesWithReport
PROPERTY OnlyRunsVerify
CHECK_DEADLOCK FALSE
