SPECIFICATION Spec
CONSTANTS
  Threads = {t1, t2}
  Ops = {"open", "close", "read", "write", "lseek", "unlink"}
  IOMayFail = FALSE
  Paths = {p1}
  Inodes = {i1, i2, i3}
  Options = {"CREATE"}
  Whences = {"FROM_END"}
  Sizes = {1}
  Offsets <- BackAndForth
  MaxLength = 1
  MaxFd = 1002
  None = None
  Dir = Dir
PROPERTY SeekEndTrue
