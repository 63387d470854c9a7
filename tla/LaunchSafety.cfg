\* Two launches share one submission; calls, the worker and the children fail.
SPECIFICATION Spec
CONSTANTS
  p1 = p1
  p2 = p2
  p3 = p3
  c1 = c1
  c2 = c2
  Ticket = {p1, p2}
  NoTicket = NoTicket
  Caller = {c1, c2}
  NumSlots = 1
  MaxGen = 2
  Piped = {"stdin"}
  Stdin = "stdin"
  Faults = TRUE
INVARIANTS PermitChecksHold ChildHasOwner UndeliveredLaunchIsClean
PROPERTY KeepsContract
CHECK_DEADLOCK FALSE
SYMMETRY Interchangeable
