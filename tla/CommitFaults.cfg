\* A death, a failed operation, a lost pointer or block: any two, while a subscriber comes
\* and goes and entries leave the window.
SPECIFICATION Spec
CONSTANTS
  Relay = {"r"}
  Faults = {"crash", "error", "damage"}
  MaxFaults = 2
  MaxCommits = 2
  MaxSeq = 5
  MaxTime = 2
  Retention = 0
  SweepInterval = 2
  ShardCount = 1
  BlocksPerCommit = 1
INVARIANTS StreamHasNoHole AckedIsKept QuartetOnce
CHECK_DEADLOCK FALSE
