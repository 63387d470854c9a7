\* A server drains for longer than the stale window beside a run that starts.
SPECIFICATION Spec
CONSTANTS
  s1 = s1
  s2 = s2
  s3 = s3
  Proc = {s1, s2}
  StalePolls = 2
  ClaimAttempts = 2
  Writes = 1
  Forced = {}
  Faults = {"term"}
  MaxErrors = 0
  MaxGen = 2
  MaxTime = 5
INVARIANT OnlySilentWriteLate
SYMMETRY Interchangeable
CHECK_DEADLOCK FALSE
