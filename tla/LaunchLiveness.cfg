\* Two launches share a submission; two callers wait for them, abort and drain them.
SPECIFICATION DrainSpec
CONSTANTS
  p1 = p1
  p2 = p2
  p3 = p3
  c1 = c1
  c2 = c2
  Ticket = {p1, p2}
  NoTicket = NoTicket
  Caller = {c1, c2}
  NumSlots = 1
  MaxGen = 2
  Piped = {"stdin"}
  Stdin = "stdin"
  Faults = FALSE
PROPERTIES AbortSettles DecidedStartReturns
CHECK_DEADLOCK FALSE
