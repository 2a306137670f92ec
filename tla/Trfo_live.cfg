SPECIFICATION FairSpec
CONSTANTS
  Clients = {c1, c2}
  Sessions = {s1, s2}
  Paths = {p1}
  None = None
  Partial = Partial
  Fds = {3}
  LocalFds = {2}
  Ops = {"open", "close", "unlink"}
  FD_OFFSET = 10
  INT_MAX = 99
  ForkMayFail = FALSE
INVARIANT IInv
PROPERTIES CallsReturn Reaped Transparent
