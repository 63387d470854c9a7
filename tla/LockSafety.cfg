\* Three starts over a directory unused or abandoned, one of them with --force-lock.
SPECIFICATION Spec
CONSTANTS
  s1 = s1
  s2 = s2
  s3 = s3
  Proc = {s1, s2, s3}
  StalePolls = 2
  ClaimAttempts = 2
  Writes = 1
  Forced = {s1}
  Faults = {"term"}
  MaxErrors = 1
  MaxGen = 2
  MaxTime = 4
INVARIANTS OneHolder RefusalHasAHolder LateWriterIsTold
PROPERTY LiveHolderIsKept
SYMMETRY Interchangeable
CHECK_DEADLOCK FALSE
