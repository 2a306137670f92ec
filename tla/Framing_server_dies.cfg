SPECIFICATION FairSpec
CONSTANTS
  HDR = 2
  MAXMSGLEN = 4
  Sizes = {1, 9}
  MayDie = {"server"}
PROPERTY CallEndsWithoutServer
CHECK_DEADLOCK FALSE
