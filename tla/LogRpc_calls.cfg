SPECIFICATION FairSpec
CONSTANTS
  Clients = {c1, c2, c3}
  Conns = {k1, k2, k3}
  NAME = 2
  MSG = 2
  BACKLOG = 2
  Mortal = {c1}
  None = None
INVARIANTS IInv EndsOnlyByDeparture
PROPERTIES ImplementsLoggedCall CallsEnd
CHECK_DEADLOCK FALSE
