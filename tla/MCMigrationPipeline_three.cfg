SPECIFICATION Spec
CONSTANTS
  s1 = s1
  s2 = s2
  s3 = s3
  s4 = s4
  t1 = t1
  t2 = t2
  None = None
  Requests = {r1, r2, r3}
  Sources = {s1}
  Targets = {t1, t2}
  Strip <- MCStrip
  Unresolvable = {}
  Rejected = {t2}
  Outcomes <- CleanOutcome
  Failures <- NoFailures
  MaxInFlight = 2
  MaxFaults = 0
SYMMETRY Sym
INVARIANT CandidateBinding
INVARIANT SomeActive
CHECK_DEADLOCK FALSE
