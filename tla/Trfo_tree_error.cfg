SPECIFICATION Spec
CONSTANTS
  Clients = {c1}
  Sessions = {s1, s2}
  Paths = {p1}
  None = None
  Partial = Partial
  Fds = {3}
  LocalFds = {}
  Ops = {"unlink", "getdirtree"}
  FD_OFFSET = 10
  INT_MAX = 99
  ForkMayFail = FALSE
INVARIANT TreeErrorIsNull
