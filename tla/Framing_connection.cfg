SPECIFICATION FairSpec
CONSTANTS
  HDR = 2
  MAXMSGLEN = 4
  Sizes = {1, 3, 9}
  MayDie = {"client", "server"}
INVARIANTS TypeOK WholeFrame CleanBetweenCalls HalfDuplex IInv
PROPERTIES ImplementsRemoteCall CallsReturn SessionEndsAfterFrame
CHECK_DEADLOCK FALSE
