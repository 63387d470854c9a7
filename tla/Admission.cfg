\* Three connections; the ceiling holds one request with one read more, and two headers.
SPECIFICATION Spec
CONSTANTS
  Conn = {c1, c2, c3}
  Gone = Gone
  Ceiling = 14
  Chunk = 2
  MaxHeader = 1
  MaxRequest = 6
  MaxQueuedReads = 2
  MaxActive = 3
  MaxUnframed = 2
  MaxCalls = 1
  MaxQueuedCalls = 1
  Answer = 1
  EgressCeiling = 1
  MaxQueue = 3
SYMMETRY Symmetry
INVARIANTS ChargesCoverBuffers HeadroomIsOffered SaturatedIsAWait SlotsAreOwned AnswersAreCharged
