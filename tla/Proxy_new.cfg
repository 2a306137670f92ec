SPECIFICATION Spec
CONSTANTS
  Threads = {t1, t2}
  Ops = {"open"}
  IOMayFail = FALSE
  Paths = {p1}
  Inodes = {i1, i2, i3}
  Options = {"CREATE_NEW"}
  Whences = {"FROM_START", "FROM_CURRENT"}
  Sizes = {1}
  Offsets <- BackAndForth
  MaxLength = 1
  MaxFd = 1002
  None = None
  Dir = Dir
INVARIANT CreatesNew
CHECK_DEADLOCK FALSE
