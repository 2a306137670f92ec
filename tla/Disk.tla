-------------------------------- MODULE Disk --------------------------------
(***************************************************************************)
(* What the file proxy uses of java.io.File and java.io.RandomAccessFile:  *)
(* names that lead to files or directories, lengths of files, and a        *)
(* position for every open file.  No client of the proxy can make or       *)
(* remove a directory.  The contents of files are left out.                *)
(***************************************************************************)
EXTENDS Integers

CONSTANTS
  Paths,      \* names
  Inodes,     \* files, named or only open
  None, Dir,  \* what a name leads to when there is no file, or a directory
  Options,    \* the values of OpenOption that clients use
  Whences,    \* the values of LseekOption that they use
  Sizes,      \* lengths of the arrays passed to read and write
  Offsets,    \* positions passed to lseek
  MaxLength,  \* bound: no write or lseek takes a descriptor further
  MaxFd       \* bound: no descriptor is greater

FirstFd == 1001
Fds == FirstFd..MaxFd
NeverFd == FirstFd - 1

ASSUME DiskAssumption ==
  /\ None \notin Inodes /\ Dir \notin Inodes /\ None # Dir
  /\ Options \subseteq {"READ", "WRITE", "CREATE", "CREATE_NEW"}
  /\ Whences \subseteq {"FROM_START", "FROM_CURRENT", "FROM_END"}
  /\ Sizes \subseteq Nat \ {0} /\ Offsets \subseteq Int
  /\ MaxLength \in Nat /\ MaxFd \in Nat /\ MaxFd >= NeverFd

(* The calls of a client, and what they return.                            *)
Request(op, p, fd, how, n) == [op |-> op, path |-> p, fd |-> fd, how |-> how, n |-> n]
OpenCalls == {Request("open", p, NeverFd, o, 0) : p \in Paths \cup {None}, o \in Options}
UnlinkCalls == {Request("unlink", p, NeverFd, "none", 0) : p \in Paths \cup {None}}
CloseCalls == {Request("close", None, fd, "none", 0) : fd \in Fds \cup {NeverFd}}
BufferCalls ==
  {Request(op, None, fd, "none", n) :
     op \in {"read", "write"}, fd \in Fds \cup {NeverFd}, n \in Sizes}
SeekCalls ==
  {Request("lseek", None, fd, w, n) : fd \in Fds \cup {NeverFd}, w \in Whences, n \in Offsets}
AllCalls == OpenCalls \cup UnlinkCalls \cup CloseCalls \cup BufferCalls \cup SeekCalls

Result(v) == [value |-> v, error |-> "none"]
Error(e) == [value |-> -1, error |-> e]
Errors == {"none", "EINVAL", "ENOENT", "EEXIST", "EISDIR", "EBADF", "EBUSY", "EIO"}
Results == [value : Int, error : Errors]

(* An open file or directory.                                              *)
Statuses == [isDir : BOOLEAN, mode : {"r", "rw"}, file : Inodes \cup {None}]

ASSUME NoneAssumption ==
  None \notin AllCalls /\ None \notin Statuses /\ None \notin {"r", "rw"}

Larger(a, b) == IF a < b THEN b ELSE a
Smaller(a, b) == IF a < b THEN a ELSE b

(* The number of bytes a read of n bytes returns at a position.            *)
Readable(len, pos, n) == IF pos >= len THEN 0 ELSE Smaller(n, len - pos)

(* The position that an lseek counts from.                                 *)
Base(how, len, pos) ==
  CASE how = "FROM_START" -> 0
    [] how = "FROM_CURRENT" -> pos
    [] OTHER -> len
=============================================================================
