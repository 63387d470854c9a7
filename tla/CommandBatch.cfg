\* Three rows, two at a time, over three pids: starts fail, fork refuses for a
\* while, a status is taken by somebody else; the program ignores SIGCHLD.
SPECIFICATION FairSpec
CONSTANTS
  q1 = q1
  q2 = q2
  q3 = q3
  MaxRows = 3
  Jobs = 2
  Pid = {q1, q2, q3}
  Ending <- Endings
  Inherited = "ignored"
  Faults = {"mkstemp", "fork", "stolen"}
INVARIANT ResultsAreOwn
PROPERTY CallReturns
