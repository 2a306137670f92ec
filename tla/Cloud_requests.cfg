SPECIFICATION FairSpec
CONSTANTS
  Requests = {r1, r2, r3}
  None = None
INVARIANTS IInv
PROPERTIES ImplementsFarm ScalesOut AllAnswered
CHECK_DEADLOCK FALSE
