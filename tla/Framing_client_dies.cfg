SPECIFICATION FairSpec
CONSTANTS
  HDR = 2
  MAXMSGLEN = 4
  Sizes = {1, 9}
  MayDie = {"client"}
PROPERTY SessionEnds
CHECK_DEADLOCK FALSE
