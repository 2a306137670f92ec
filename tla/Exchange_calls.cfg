SPECIFICATION Spec
CONSTANTS
  BASE = 8
  BUFFERLEN = 30
  MAXMSGLEN = 30
  MAXTREESIZE = 60
  FD_OFFSET = 1000
  O_CREAT = 4
  Errnos = {2, 9}
  Fds = {3, 4}
  Calls <- MCCalls
  Positions <- MCPositions
  Contents <- MCContents
  Stat <- MCStat
  Trees <- MCTrees
INVARIANTS UnderWay ServerDecodes CallerGets WithinBuffers
CHECK_DEADLOCK FALSE
