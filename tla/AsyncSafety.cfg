\* Three tasks, one descriptor, deadlines on both sides of a millisecond.
SPECIFICATION Spec
CONSTANTS
  t1 = t1
  t2 = t2
  t3 = t3
  f1 = f1
  g1 = g1
  Task = {t1, t2, t3}
  Root = t1
  Fd = {f1}
  Flag = {}
  Deadline = {1, 2}
  MaxTime = 4
  TicksPerMs = 2
  CIntMax = 100
  MaxWaits = 1
  Faults = TRUE
INVARIANTS DeadlockIsReal NoWakeupSlept WaitsForNextDeadline
PROPERTY ImplementsTaskPool
SYMMETRY Workers
