SPECIFICATION Spec
CONSTANTS
  Clients = {c1}
  Sessions = {s1, s2}
  Paths = {p1}
  None = None
  Partial = Partial
  Fds = {3, 5}
  LocalFds = {2}
  Ops = {"open", "close", "read", "write", "lseek", "getdirentries", "stat", "unlink", "getdirtree"}
  FD_OFFSET = 10
  INT_MAX = 99
  ForkMayFail = TRUE
INVARIANTS TypeOK IInv OpenCount Routing
PROPERTIES DisconnectsIdle Transparent
