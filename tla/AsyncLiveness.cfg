\* Two tasks over one descriptor, one deadline: every task may yield, park or
\* spawn for ever.
SPECIFICATION FairSpec
CONSTANTS
  t1 = t1
  t2 = t2
  t3 = t3
  f1 = f1
  g1 = g1
  Task = {t1, t2}
  Root = t1
  Fd = {f1}
  Flag = {g1}
  Deadline = {1}
  MaxTime = 2
  TicksPerMs = 1
  CIntMax = 100
  MaxWaits = 1
  Faults = FALSE
PROPERTIES DeadlineWakes PolledDescriptorWakes
